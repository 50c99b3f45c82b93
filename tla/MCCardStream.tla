----------------------------- MODULE MCCardStream -----------------------------
(***************************************************************************)
(* A small instance of CardStream: a call that waits for an order and two  *)
(* browsers of one dashboard, which has one slot.                          *)
(***************************************************************************)
EXTENDS CardStream

CONSTANTS c1, f1, f2, k1, d1, o1

KeyOrDashboard == [s \in Streams |-> IF s \in Calls THEN k1 ELSE d1]
OneOrder == [c \in Calls |-> o1]
=============================================================================
