------------------------------ MODULE MCMulDiv ------------------------------
(* Words of five bits and every argument in them.                          *)
EXTENDS MulDiv

MCWords == 0 .. 31
MCDividers == 1 .. 31
=============================================================================
