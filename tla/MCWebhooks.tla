----------------------------- MODULE MCWebhooks ------------------------------
(***************************************************************************)
(* Small instances of Webhooks: two queued notifications and one direct    *)
(* call to one origin, so that their calls and failures meet.  The delays  *)
(* keep the order of the code (first delay < cooldown, last delay longest) *)
(* and the threshold lets the circuit open between two of them.            *)
(***************************************************************************)
EXTENDS Webhooks

CONSTANTS h1, h2, h3, o1

OneOrigin == [h \in Hooks |-> o1]
TwoDelays == <<1, 2>>
=============================================================================
