---------------------------- MODULE MCFulfilment -----------------------------
(***************************************************************************)
(* Small instances of Fulfilment.  The ages keep the order of the deployed *)
(* defaults: retry (2 min) < recover (10 min) < fail (30 min).             *)
(***************************************************************************)
EXTENDS Fulfilment, TLC

CONSTANTS o1, o2
=============================================================================
