--------------------------- MODULE MCKeyframeRunner ---------------------------
(* A byte has two bits and a channel is one.  The first animation fades     *)
(* with all the steps a byte can count and back with fewer than there are   *)
(* levels, the second switches, the last fades between equal frames, by one *)
(* level and over all of them; it has the most frames.                      *)
EXTENDS KeyframeRunner

F(r, b, wait) == [leds |-> [c \in {"r", "b"} |-> IF c = "r" THEN r ELSE b],
                  wait_ms |-> wait]

MCAnimations ==
    << [fades |-> TRUE,  frames |-> << F(0, 3, 4), F(3, 1, 2) >>],
       [fades |-> FALSE, frames |-> << F(3, 3, 1), F(0, 0, 2) >>],
       [fades |-> TRUE,  frames |-> << F(2, 0, 1), F(1, 0, 2), F(1, 0, 3) >>] >>
=============================================================================
