------------------------------ MODULE MCUartTx ------------------------------
(* A ring of two bytes, counters of eight values, and strings that overrun *)
(* the ring, repeat a byte or are empty.                                   *)
EXTENDS UartTx

MCStrings == {<< >>, <<1>>, <<2, 1>>, <<1, 2, 2, 1>>}
=============================================================================
