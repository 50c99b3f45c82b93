--------------------------- MODULE SettlementPromise ---------------------------
(***************************************************************************)
(* What the card pipeline promises of an order that was paid for, without  *)
(* callbacks, retries, clocks or crashes: it ends with a card, with a      *)
(* refund or in an operator's hands, once and for all, and no refund is    *)
(* begun once the books show that its card was bought                      *)
(* (refundOrQuarantine in src/backend/src/fulfillment.js).                 *)
(***************************************************************************)
CONSTANT Orders

VARIABLES
    end,      \* end[o]: what became of the order
    booked    \* booked[o]: the payment for its card is on the books

vars == <<end, booked>>

Ends == {"open", "card", "refunding", "refunded", "operator"}

Init ==
    /\ end = [o \in Orders |-> "open"]
    /\ booked \in [Orders -> BOOLEAN]

Becomes(o, from, to) == end[o] = from /\ end'[o] = to
BooksStay(o) == booked'[o] = booked[o]

Issue(o) == Becomes(o, "open", "card") /\ BooksStay(o)
BeginRefund(o) == ~booked[o] /\ Becomes(o, "open", "refunding") /\ BooksStay(o)
Refund(o) == Becomes(o, "refunding", "refunded") /\ BooksStay(o)
LoseRefund(o) == Becomes(o, "refunding", "operator") /\ BooksStay(o)

(* A payment nobody is sure of is booked, and left to an operator.         *)
HandOver(o) == Becomes(o, "open", "operator") /\ (booked[o] => booked'[o])
Book(o) == Becomes(o, end[o], end[o]) /\ ~booked[o] /\ booked'[o]
Stay(o) == Becomes(o, end[o], end[o]) /\ BooksStay(o)

(* Orders do not depend on each other: a restart ends every refund that    *)
(* was under way.                                                          *)
Next ==
    /\ end' \in [Orders -> Ends] /\ booked' \in [Orders -> BOOLEAN]
    /\ \A o \in Orders :
        \/ Issue(o) \/ BeginRefund(o) \/ Refund(o) \/ LoseRefund(o)
        \/ HandOver(o) \/ Book(o) \/ Stay(o)

Spec == Init /\ [][Next]_vars
=============================================================================
