------------------------------ MODULE FifoLine ------------------------------
(***************************************************************************)
(* A bounded first-in first-out line, the promise of each transport of the *)
(* hat: of bytes in the two halves of the uart class, of packets from the  *)
(* radio to the main loop.  What was accepted is delivered once, in order, *)
(* and nothing accepted stays behind for ever.                             *)
(***************************************************************************)
EXTENDS Integers, Sequences

CONSTANTS Item,   \* what is carried
          Depth   \* how many accepted items may be on their way

VARIABLES queue,  \* accepted and not yet delivered, oldest first
          line    \* the item delivered last

vars == <<queue, line>>

Init == queue = << >> /\ line \in Item

Accept(i) ==
    /\ Len(queue) < Depth
    /\ queue' = Append(queue, i)
    /\ UNCHANGED line

Deliver ==
    /\ queue # << >>
    /\ line' = Head(queue)
    /\ queue' = Tail(queue)

Next == Deliver \/ \E i \in Item : Accept(i)

Progress == WF_vars(Deliver)

Spec == Init /\ [][Next]_vars /\ Progress
=============================================================================
