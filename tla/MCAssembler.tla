----------------------------- MODULE MCAssembler -----------------------------
(* A byte has two bits, so that five lines are enough for an address that   *)
(* does not fit.  The rarer lines come in shorter sources.                  *)
EXTENDS Assembler

MCNumeral == ("-1" :> -1) @@ ("9" :> 9)
               @@ ("0" :> 0) @@ ("1" :> 1) @@ ("2" :> 2) @@ ("3" :> 3) @@ ("4" :> 4) @@ ("5" :> 5)
MCDecimal == [n \in 0 .. 5 |-> <<"0", "1", "2", "3", "4", "5">>[n + 1]]
MCLabelName == (":x" :> "x") @@ (":n" :> "n") @@ (":2" :> "2")

Lines == {<< >>, <<"#define", "n", "x">>, <<"#define", "n", "-1">>, <<":x">>,
          <<":n">>, <<"JMP", "x">>, <<"ADD:W", "n">>, <<"RET">>}

Rare == {Blank, <<"#define", "n">>, <<"#define", "m", "n">>, <<"#if", "n">>, <<":2">>,
         <<":x", "JMP", "n">>, <<"JMP", "2">>, <<"JMP", "9">>, <<"JMP">>,
         <<"JMP", "x", "x">>, <<"n", "m">>, <<"RET", "m">>}

MCSources == BoundedSeq(Lines, 5) \cup BoundedSeq(Lines \cup Rare, 3)
=============================================================================
