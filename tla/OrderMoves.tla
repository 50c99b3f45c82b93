------------------------------ MODULE OrderMoves ------------------------------
(***************************************************************************)
(* The statuses of an order and the UPDATEs between them, whichever        *)
(* handler or job of src/backend/src runs them.  Orders and Fulfilment are *)
(* proved to move orders along these; CardStream watches orders that do.   *)
(***************************************************************************)

(* An operator may still deliver what is being recovered, by hand.  An     *)
(* ambiguous payment is parked as failed whatever its order became, and a  *)
(* refund that was sent by then is recorded over that.                     *)
Moves(s) ==
    CASE s = "awaiting_approval" -> {"pending_payment", "rejected"}
      [] s = "pending_payment" -> {"delivered", "expired"}
      [] s = "ordering" -> {"delivered", "failed", "pending_manual_recovery"}
      [] s = "pending_manual_recovery" -> {"delivered"}
      [] s = "delivered" -> {"failed"}
      [] s = "failed" -> {"refund_pending", "refunded"}
      [] s = "refund_pending" -> {"failed", "refunded"}
      [] s = "refunded" -> {"failed"}
      [] OTHER -> {}

(* One handler moves an order once, or fails and refunds it at once.       *)
Follows(s, t) == s = t \/ t \in Moves(s) \/ (t = "refund_pending" /\ "failed" \in Moves(s))
=============================================================================
