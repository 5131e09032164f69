------------------------------ MODULE MCUpload ------------------------------
(* Two chunks of two words.  The programs end inside a chunk, with a chunk *)
(* and with the buffer.                                                    *)
EXTENDS Upload

MCBuiltIn == << <<"s">>, <<"s", "s", "s">> >>
MCStart == <<"s", "s", "s">>
MCPrograms == {<<"a", "b">>, <<"b", "a", "b">>, <<"b", "b", "a", "a">>}
=============================================================================
