------------------------------ MODULE MCOrders ------------------------------
(***************************************************************************)
(* Small instances of Orders for TLC.  Each configuration picks the bodies *)
(* and policies that bring out one concern and keeps the others at one     *)
(* value; the time bounds keep the order of the deployed defaults          *)
(* (payment 60 min < stale 2 h = approval 2 h).                            *)
(***************************************************************************)
EXTENDS Orders, TLC

CONSTANTS k1, k2, p1, p2

Symmetry == Permutations(Calls) \union Permutations(Deploys)
                \union Permutations(Verifiers) \union Permutations(Operators)

Body(k, amount, asset, payer, idemKey) ==
    [key |-> k, amount |-> amount, asset |-> asset, payer |-> payer, idem |-> idemKey]

OpenPolicy == [single |-> None, hours |-> None, days |-> None,
               daily |-> None, approve |-> None]
AskAbove(n) == [OpenPolicy EXCEPT !.approve = n]
AtMostDaily(n) == [OpenPolicy EXCEPT !.daily = n]

OneToOne == {[units |-> 1, scale |-> 1]}
NoLimit == {None}

(* Approval: amounts on both sides of the threshold. *)
ApprovalBodies == {Body(k1, 1, "cspr_casper", None, None),
                   Body(k1, 2, "cspr_casper", None, None),
                   Body(k1, 2, "mock_usdc_cep18", p1, None)}
ApprovalPolicies == {AskAbove(1), OpenPolicy}

(* Payment: two assets, a bound payer for mockUSDC, a live and a sandbox   *)
(* key, a retried request, limits that two orders reach.                   *)
PaymentBodies == {Body(k1, 1, "mock_usdc_cep18", p1, "a"),
                  Body(k1, 2, "cspr_casper", None, None),
                  Body(k2, 1, "cspr_casper", None, "a")}
LimitPolicies == {[AtMostDaily(2) EXCEPT !.approve = 1]}

(* The spend limit: two requests of one amount on a live and a sandbox key. *)
LimitBodies == {Body(k1, 1, "cspr_casper", None, "a"),
                Body(k1, 2, "cspr_casper", None, None),
                Body(k2, 1, "cspr_casper", None, "a")}
PaymentPolicies == {OpenPolicy}
TwoOrNone == {2, None}
TwoRates == OneToOne \union {[units |-> 2, scale |-> 1]}
=============================================================================
