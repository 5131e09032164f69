----------------------------- MODULE MCXBeeLink -----------------------------
(* Packets whose bytes have to be escaped in each place: a start byte and  *)
(* an escape byte as data, and a packet whose checksum is a start byte.    *)
EXTENDS XBeeLink

MCPackets == {<<144, START_BYTE>>, <<144, ESCAPE, 3>>, <<144, 241>>}

(* Genuine speaks of these packets.                                        *)
ASSUME MCXBeeLinkAssumption == Unmistakable
=============================================================================
