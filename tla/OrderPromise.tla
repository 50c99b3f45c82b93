----------------------------- MODULE OrderPromise -----------------------------
(***************************************************************************)
(* What POST /v1/orders promises an agent, without requests, jobs, clocks  *)
(* or crashes: the phases an order goes through (PHASE in                  *)
(* src/backend/src/api/orders.js) and the deploy that buys its card.       *)
(***************************************************************************)
CONSTANTS Orders, Coins, NoCoin

VARIABLES
    free,     \* free[o]: o belongs to a sandbox key
    phase,    \* phase[o]: what GET /v1/orders/:id shows
    coin      \* coin[o]: the deploy the card was sold for

vars == <<free, phase, coin>>

Phases == {"absent", "awaiting_approval", "awaiting_payment",
           "ready", "expired", "rejected"}

TypeOK ==
    /\ free \in [Orders -> BOOLEAN]
    /\ phase \in [Orders -> Phases]
    /\ coin \in [Orders -> Coins \union {NoCoin}]

Init ==
    /\ free \in [Orders -> BOOLEAN]
    /\ phase = [o \in Orders |-> "absent"]
    /\ coin = [o \in Orders |-> NoCoin]

Becomes(o, from, to) ==
    /\ phase[o] = from
    /\ phase' = [phase EXCEPT ![o] = to]

Ask(o) == Becomes(o, "absent", "awaiting_approval") /\ UNCHANGED <<free, coin>>
Grant(o) == Becomes(o, "awaiting_approval", "awaiting_payment") /\ UNCHANGED <<free, coin>>
Open(o) == ~free[o] /\ Becomes(o, "absent", "awaiting_payment") /\ UNCHANGED <<free, coin>>
Gift(o) == free[o] /\ Becomes(o, "absent", "ready") /\ UNCHANGED <<free, coin>>

(* A coin buys one card. *)
Deliver(o, d) ==
    /\ \A other \in Orders : coin[other] # d
    /\ Becomes(o, "awaiting_payment", "ready")
    /\ coin' = [coin EXCEPT ![o] = d]
    /\ UNCHANGED free

(* Orders that wait in one phase close together, in the phase that says    *)
(* what they were waiting for.                                             *)
CloseAll(S, from, to) ==
    /\ \A o \in S : phase[o] = from
    /\ phase' = [o \in Orders |-> IF o \in S THEN to ELSE phase[o]]
    /\ UNCHANGED <<free, coin>>

Next ==
    \/ \E o \in Orders : Ask(o) \/ Grant(o) \/ Open(o) \/ Gift(o)
    \/ \E o \in Orders, d \in Coins : Deliver(o, d)
    \/ \E S \in SUBSET Orders :
         \/ CloseAll(S, "awaiting_approval", "rejected")
         \/ CloseAll(S, "awaiting_payment", "expired")

Spec == Init /\ [][Next]_vars
=============================================================================
