----------------------------- MODULE MCForLoop -----------------------------
(***************************************************************************)
(* A counter of four bits.                                                 *)
(***************************************************************************)
EXTENDS ForLoop

MCMax == 7
MCMin == -8
=============================================================================
