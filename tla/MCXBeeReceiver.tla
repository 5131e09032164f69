--------------------------- MODULE MCXBeeReceiver ---------------------------
(* The parser alone, under every stream of at most StreamMax bytes of a    *)
(* small alphabet: a start byte, an escape byte, and a byte that can be a  *)
(* length, and one (0x55) that makes a sum of 0xff.                        *)
EXTENDS XBeeReceiver

CONSTANT StreamMax   \* length of the stream (bound)

VARIABLE fed         \* bytes that have arrived

MCInit == Init /\ fed = 0

Parse == ReadPacket /\ UNCHANGED fed

Feed == /\ fed < StreamMax
        /\ \E b \in Alphabet : ByteArrives(b)
        /\ fed' = fed + 1

MCSpec == MCInit /\ [][Parse \/ Feed]_<<vars, fed>>
=============================================================================
