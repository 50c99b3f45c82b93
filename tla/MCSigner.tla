------------------------------- MODULE MCSigner -------------------------------
(***************************************************************************)
(* Small instances of Signer: one process with two orders, or two          *)
(* processes with one.                                                     *)
(***************************************************************************)
EXTENDS Signer, TLC

CONSTANTS p1, p2, o1, o2, n1, n2
=============================================================================
