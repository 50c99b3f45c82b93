----------------------------- MODULE OrdersProofs -----------------------------
(***************************************************************************)
(* What the order life cycle guarantees for every set of keys, requests,   *)
(* verifiers, operators and deploys, every policy and every time bound.    *)
(***************************************************************************)
EXTENDS Orders, OrderMoves, CalculationProofs

(* A request is a body: an amount, an asset, a key.                        *)
LEMMA RequestTyped ==
  ASSUME TypeOK, NEW c \in Calls
  PROVE  /\ request[c].amount \in Nat \ {0} /\ KeyOf(c) \in Keys
         /\ Amount(c) \in Nat
         /\ request[c].asset \in {"cspr_casper", "mock_usdc_cep18"}
         /\ request[c].payer \in Payers \union {None}
         /\ request[c].idem \in STRING \union {None}
<1>1. request[c] \in Bodies
  BY DEF TypeOK
<1>2. request[c] \in [key : Keys, amount : Nat \ {0},
                      asset : {"cspr_casper", "mock_usdc_cep18"},
                      payer : Payers \union {None}, idem : STRING \union {None}]
  BY <1>1, OrdersAssumption
<1> QED BY <1>2 DEF KeyOf, Amount

(* The bounds and times of an instance are natural numbers.                *)
LEMMA TimesTyped ==
  /\ PaymentTTL \in Nat /\ StaleAfter \in Nat /\ ApprovalTTL \in Nat
  /\ IdemTTL \in Nat /\ MaxTime \in Nat /\ LastCall \in Nat
  BY OrdersAssumption

(* An instruction fills an order row in, and the counter stays a counter.  *)
LEMMA InstructionTyped ==
  ASSUME TypeOK, NEW c \in Calls, NEW rate \in Rates, NEW row \in OrderRow
  PROVE  /\ Instructed(row, c, rate) \in OrderRow
         /\ TidAfter(c) \in Nat \ {0}
<1>1. rate \in Decimal
  BY OrdersAssumption
<1> DEFINE usd == [units |-> Amount(c), scale |-> 1]
<1>2. request[c].amount \in Nat \ {0}
  BY RequestTyped
<1>3. usd \in Decimal
  BY <1>2 DEF Decimal, Amount
<1>4. UsdToMotes(usd, rate) \in Nat /\ UsdToMockUsdc(usd) \in Nat
  BY <1>1, <1>3, PricesAreNatural
<1>5. Price(c, rate) \in Nat
  BY <1>4 DEF Price
<1>6. nextTid \in Nat \ {0} /\ clock \in Nat
  BY DEF TypeOK
<1>7. clock + PaymentTTL \in Nat
  BY <1>6, TimesTyped
<1> HIDE DEF usd
<1>8. Instructed(row, c, rate) \in OrderRow
  BY <1>5, <1>6, <1>7 DEF Instructed, OrderRow, Statuses
<1> QED BY <1>6, <1>8 DEF TidAfter

(* Closing rows keeps them rows.                                           *)
LEMMA DecideTyped ==
  ASSUME TypeOK, NEW approvals \in SUBSET Calls, NEW orders \in SUBSET Calls,
         NEW status \in {"rejected", "expired"}, Decide(approvals, orders, status)
  PROVE  order' \in [Calls -> OrderRow] /\ approval' \in [Calls -> ApprovalRow]
<1>1. ASSUME NEW c \in Calls
      PROVE  /\ [approval[c] EXCEPT !.status = status] \in ApprovalRow
             /\ [order[c] EXCEPT !.status = "rejected"] \in OrderRow
             /\ approval[c] \in ApprovalRow /\ order[c] \in OrderRow
  <2>1. approval[c] \in ApprovalRow /\ order[c] \in OrderRow
    BY DEF TypeOK
  <2>2. [approval[c] EXCEPT !.status = status] \in ApprovalRow
    BY <2>1 DEF ApprovalRow
  <2>3. [order[c] EXCEPT !.status = "rejected"] \in OrderRow
    BY <2>1 DEF OrderRow, Statuses
  <2> QED BY <2>1, <2>2, <2>3
<1> QED BY <1>1 DEF Decide

USE DEF tables, inflight, world, cuts, bounds

(* Initially every table is empty and every row is well formed.            *)
LEMMA TypeInit == Init => TypeOK
<1> SUFFICES ASSUME Init PROVE TypeOK
  OBVIOUS
<1>1. order \in [Calls -> OrderRow]
  BY DEF Init, OrderRow, NoOrder, Statuses
<1>2. approval \in [Calls -> ApprovalRow]
  BY DEF Init, ApprovalRow
<1>3. key \in [Keys -> KeyRow]
  BY DEF Init, KeyRow
<1>4. chain \in [Deploys -> Transfer]
  BY DEF Init, Transfer, Unseen
<1>5. call \in [Calls -> CallState]
  BY DEF Init, CallState
<1>6. verify \in [Verifiers -> VerifyJob \union {None}]
      /\ decide \in [Operators -> Calls \union {None}]
  BY DEF Init
<1>7. /\ clock \in Nat /\ request \in [Calls -> Bodies]
      /\ idem \subseteq IdemRow /\ nextTid \in Nat \ {0}
      /\ uncredited \subseteq Calls /\ undecided \subseteq Calls
      /\ crashes \in Nat /\ updates \in Nat
  BY DEF Init
<1> QED BY <1>1, <1>2, <1>3, <1>4, <1>5, <1>6, <1>7 DEF TypeOK

(* A commit of a create request writes a well-formed row, or none.         *)
LEMMA CommitTyped ==
  ASSUME TypeOK, NEW c \in Calls, CreateCommit(c)
  PROVE  TypeOK'
<1>1. call' \in [Calls -> CallState]
  BY DEF TypeOK, CreateCommit, CallState
<1>2. NoOrder \in OrderRow /\ clock \in Nat
  BY DEF TypeOK, NoOrder, OrderRow, Statuses
<1>3. Remember(c) \subseteq IdemRow
  BY RequestTyped, <1>2 DEF TypeOK, Remember, IdemRow
<1>4. /\ order' \in [Calls -> OrderRow]
      /\ approval' \in [Calls -> ApprovalRow]
      /\ idem' \subseteq IdemRow
      /\ nextTid' \in Nat \ {0}
  <2>1. CASE CreateAnswered(c)
    BY <2>1 DEF CreateAnswered, TypeOK
  <2>2. CASE CreateAwaitingApproval(c)
    <3>1. [order[c] EXCEPT !.status = "awaiting_approval", !.at = clock] \in OrderRow
      BY <1>2 DEF TypeOK, OrderRow, Statuses
    <3>2. order' \in [Calls -> OrderRow]
      BY <2>2, <1>2 DEF TypeOK, OrderRow, Statuses, CreateAwaitingApproval
    <3>3. approval' \in [Calls -> ApprovalRow]
      BY <2>2, <1>2, TimesTyped DEF TypeOK, ApprovalRow, CreateAwaitingApproval
    <3> QED BY <2>2, <3>2, <3>3, <1>3 DEF TypeOK, CreateAwaitingApproval
  <2>3. CASE CreateSandbox(c)
    <3>1. order' \in [Calls -> OrderRow]
      BY <2>3, <1>2 DEF TypeOK, OrderRow, Statuses, CreateSandbox
    <3> QED BY <2>3, <3>1, <1>3 DEF TypeOK, CreateSandbox
  <2>4. ASSUME NEW rate \in Rates, CreatePendingPayment(c, rate)
        PROVE  /\ order' \in [Calls -> OrderRow]
               /\ approval' \in [Calls -> ApprovalRow]
               /\ idem' \subseteq IdemRow
               /\ nextTid' \in Nat \ {0}
    <3>1. [NoOrder EXCEPT !.at = clock] \in OrderRow
      BY <1>2 DEF OrderRow
    <3>2. Instructed([NoOrder EXCEPT !.at = clock], c, rate) \in OrderRow
      BY <3>1, InstructionTyped
    <3>3. TidAfter(c) \in Nat \ {0}
      BY <3>1, InstructionTyped
    <3> QED BY <2>4, <3>2, <3>3, <1>3 DEF TypeOK, CreatePendingPayment
  <2> QED BY <2>1, <2>2, <2>3, <2>4 DEF CreateCommit
<1> QED BY <1>1, <1>4 DEF TypeOK, CreateCommit

(* The approve transaction writes well-formed rows.                        *)
LEMMA ApproveTyped ==
  ASSUME TypeOK, NEW c \in Calls, NEW rate \in Rates, ApproveTxn(c, rate)
  PROVE  /\ order' \in [Calls -> OrderRow]
         /\ approval' \in [Calls -> ApprovalRow]
         /\ nextTid' \in Nat \ {0}
<1>1. order[c] \in OrderRow
  BY DEF TypeOK
<1>2. Instructed(order[c], c, rate) \in OrderRow /\ TidAfter(c) \in Nat \ {0}
  BY <1>1, InstructionTyped
<1>3. order' = [order EXCEPT ![c] = Instructed(order[c], c, rate)]
  BY DEF ApproveTxn
<1>4. approval' \in [Calls -> ApprovalRow]
  BY DEF TypeOK, ApproveTxn, ApprovalRow
<1> QED BY <1>2, <1>3, <1>4 DEF TypeOK, ApproveTxn

(* A claim closes one order with the deploy it was paid by.                *)
LEMMA ClaimTyped ==
  ASSUME TypeOK, NEW job \in VerifyJob, Claim(job)
  PROVE  order' \in [Calls -> OrderRow]
<1>1. job.order \in Calls /\ job.deploy \in Deploys
  BY DEF VerifyJob
<1> QED BY <1>1 DEF TypeOK, Claim, OrderRow, Statuses

(* A crash loses what is in flight and nothing else.                       *)
LEMMA LoseRequestsTyped ==
  ASSUME TypeOK, LoseRequests
  PROVE  /\ call' \in [Calls -> CallState]
         /\ verify' \in [Verifiers -> VerifyJob \union {None}]
         /\ decide' \in [Operators -> Calls \union {None}]
         /\ crashes' \in Nat
<1>1. call' \in [Calls -> CallState]
  <2>1. ASSUME NEW c \in Calls
        PROVE  [call[c] EXCEPT !.pc = "done"] \in CallState /\ call[c] \in CallState
    BY DEF TypeOK, CallState
  <2> QED BY <2>1 DEF LoseRequests
<1> QED BY <1>1 DEF TypeOK, LoseRequests

(* An approval that may be refused is of an order.                         *)
LEMMA BatchesTyped ==
  /\ LapsedApprovals \subseteq Calls
  /\ \A k : Waiting(k) \subseteq Calls
  /\ \A S \in SUBSET Calls : Awaiting(S) \subseteq Calls
  BY DEF LapsedApprovals, Waiting, OrdersOf, Awaiting

(* Every step keeps every table well formed.                               *)
LEMMA TypeStep == TypeOK /\ [Next]_vars => TypeOK'
<1> SUFFICES ASSUME TypeOK, [Next]_vars PROVE TypeOK'
  OBVIOUS
<1>1. ASSUME NEW c \in Calls, CreateBegin(c) PROVE TypeOK'
  <2>1. KeyOf(c) \in Keys
    BY RequestTyped
  <2>2. call' \in [Calls -> CallState]
    BY <1>1, <2>1 DEF TypeOK, CreateBegin, CallState, KeyRow
  <2> QED BY <1>1, <2>2 DEF TypeOK, CreateBegin
<1>2. ASSUME NEW c \in Calls, CreateCommit(c) PROVE TypeOK'
  BY <1>2, CommitTyped
<1>3. ASSUME NEW c \in Calls, VerifyTooLate(c) PROVE TypeOK'
  <2> DEFINE row == [order[c] EXCEPT !.status = "expired"]
  <2>0. row \in OrderRow
    <3>1. order[c] \in OrderRow
      BY DEF TypeOK
    <3> QED BY <3>1 DEF OrderRow, Statuses
  <2>1. order' \in [Calls -> OrderRow]
    <3>1. order' = [order EXCEPT ![c] = row]
      BY <1>3 DEF VerifyTooLate
    <3> HIDE DEF row
    <3> QED BY <2>0, <3>1 DEF TypeOK
  <2> QED BY <1>3, <2>1 DEF TypeOK, VerifyTooLate
<1>4. ASSUME NEW v \in Verifiers, NEW c \in Calls, NEW d \in Deploys,
             NEW s \in Payers \union {None}, VerifyBegin(v, c, d, s)
      PROVE  TypeOK'
  <2>1. verify' \in [Verifiers -> VerifyJob \union {None}]
    BY <1>4, RequestTyped DEF TypeOK, VerifyBegin, VerifyJob, OrderRow
  <2> QED BY <1>4, <2>1 DEF TypeOK, VerifyBegin
<1>5. ASSUME NEW v \in Verifiers, VerifyClaim(v) PROVE TypeOK'
  <2> DEFINE job == verify[v]
  <2>1. job \in VerifyJob
    BY <1>5 DEF TypeOK, VerifyClaim
  <2>2. order' \in [Calls -> OrderRow]
    BY <1>5, <2>1, ClaimTyped DEF VerifyClaim
  <2>3. job.order \in Calls
    BY <2>1 DEF VerifyJob
  <2>4. KeyOf(job.order) \in Keys /\ Amount(job.order) \in Nat
    BY <2>3, RequestTyped
  <2>5. Credited(key[KeyOf(job.order)], job.order) \in Nat
    BY <2>4 DEF TypeOK, Credited, KeyRow
  <2>6. key' \in [Keys -> KeyRow]
    BY <1>5, <2>4, <2>5 DEF TypeOK, VerifyClaim, KeyRow
  <2>7. verify' \in [Verifiers -> VerifyJob \union {None}]
    BY <1>5 DEF TypeOK, VerifyClaim
  <2> QED BY <1>5, <2>2, <2>6, <2>7 DEF TypeOK, VerifyClaim
<1>6. ASSUME NEW v \in Verifiers, VerifyRefused(v) PROVE TypeOK'
  BY <1>6 DEF TypeOK, VerifyRefused
<1>7. ASSUME NEW d \in Deploys, NEW c \in Calls, NEW s \in Payers,
             NEW good \in BOOLEAN, NEW paid \in {order[c].due - 1, order[c].due},
             Pay(d, c, s, paid, good)
      PROVE  TypeOK'
  <2>1. order[c].due \in Nat /\ order[c].tid \in Nat
    BY DEF TypeOK, OrderRow
  <2>2. paid \in Nat
    BY <1>7, <2>1 DEF Pay
  <2>3. request[c].asset \in {"cspr_casper", "mock_usdc_cep18"}
    BY RequestTyped
  <2>4. chain' \in [Deploys -> Transfer]
    BY <1>7, <2>1, <2>2, <2>3 DEF TypeOK, Pay, Transfer
  <2> QED BY <1>7, <2>4 DEF TypeOK, Pay
<1>8. ASSUME NEW p \in Operators, NEW c \in Calls, ApproveBegin(p, c) PROVE TypeOK'
  BY <1>8 DEF TypeOK, ApproveBegin
<1>9. ASSUME NEW p \in Operators, ApproveCommit(p) PROVE TypeOK'
  <2>1. decide[p] \in Calls
    BY <1>9 DEF TypeOK, ApproveCommit
  <2>2. PICK rate \in Rates : ApproveTxn(decide[p], rate)
    BY <1>9 DEF ApproveCommit
  <2>3. /\ order' \in [Calls -> OrderRow]
        /\ approval' \in [Calls -> ApprovalRow]
        /\ nextTid' \in Nat \ {0}
    BY <2>1, <2>2, ApproveTyped
  <2>4. decide' \in [Operators -> Calls \union {None}] /\ idem' = idem
    BY <1>9, <2>2 DEF TypeOK, ApproveCommit, ApproveTxn
  <2> QED BY <1>9, <2>3, <2>4 DEF TypeOK, ApproveCommit
<1>10. ASSUME NEW p \in Operators, ApproveRolledBack(p) PROVE TypeOK'
  BY <1>10 DEF TypeOK, ApproveRolledBack
<1>11. ASSUME NEW c \in Calls, ApproveMockUsdc(c) PROVE TypeOK'
  <2>1. PICK rate \in Rates : ApproveTxn(c, rate)
    BY <1>11 DEF ApproveMockUsdc
  <2>2. /\ order' \in [Calls -> OrderRow]
        /\ approval' \in [Calls -> ApprovalRow]
        /\ nextTid' \in Nat \ {0}
    BY <2>1, ApproveTyped
  <2> QED BY <1>11, <2>1, <2>2 DEF TypeOK, ApproveMockUsdc, ApproveTxn
<1>12. ASSUME NEW c \in Calls, Reject(c) PROVE TypeOK'
  <2>1. order' \in [Calls -> OrderRow] /\ approval' \in [Calls -> ApprovalRow]
    BY <1>12, DecideTyped, BatchesTyped DEF Reject
  <2> QED BY <1>12, <2>1 DEF TypeOK, Reject
<1>13. ASSUME NEW k \in Keys, Suspend(k) PROVE TypeOK'
  <2>1. order' \in [Calls -> OrderRow] /\ approval' \in [Calls -> ApprovalRow]
    BY <1>13, DecideTyped, BatchesTyped DEF Suspend
  <2>2. key' \in [Keys -> KeyRow]
    BY <1>13 DEF TypeOK, Suspend, SuspendKey, KeyRow
  <2> QED BY <1>13, <2>1, <2>2 DEF TypeOK, Suspend, SuspendKey
<1>14. ASSUME NEW k \in Keys, Unsuspend(k) PROVE TypeOK'
  <2>1. key' \in [Keys -> KeyRow]
    BY <1>14 DEF TypeOK, Unsuspend, KeyRow
  <2> QED BY <1>14, <2>1 DEF TypeOK, Unsuspend
<1>15. ASSUME NEW k \in Keys, DeleteKey(k) PROVE TypeOK'
  <2>1. key' \in [Keys -> KeyRow]
    BY <1>15 DEF TypeOK, DeleteKey, KeyRow
  <2> QED BY <1>15, <2>1 DEF TypeOK, DeleteKey
<1>16. ASSUME NEW k \in Keys, NEW limit \in Limits, NEW policy \in Policies,
              UpdateKey(k, limit, policy)
       PROVE  TypeOK'
  <2>1. key' \in [Keys -> KeyRow]
    BY <1>16 DEF TypeOK, UpdateKey, KeyRow
  <2> QED BY <1>16, <2>1 DEF TypeOK, UpdateKey
<1>17. CASE ExpireStaleOrders
  <2>1. order' \in [Calls -> OrderRow]
    BY <1>17 DEF TypeOK, ExpireStaleOrders, OrderRow, Statuses
  <2> QED BY <1>17, <2>1 DEF TypeOK, ExpireStaleOrders
<1>18. CASE ExpireApprovalRequests
  <2>1. order' \in [Calls -> OrderRow] /\ approval' \in [Calls -> ApprovalRow]
    BY <1>18, DecideTyped, BatchesTyped DEF ExpireApprovalRequests
  <2> QED BY <1>18, <2>1 DEF TypeOK, ExpireApprovalRequests
<1>19. CASE PruneIdempotencyKeys
  BY <1>19 DEF TypeOK, PruneIdempotencyKeys
<1>20. CASE Crash
  BY <1>20, LoseRequestsTyped DEF TypeOK, Crash
<1>21. ASSUME NEW v \in Verifiers, CrashInClaim(v) PROVE TypeOK'
  <2>1. verify[v] \in VerifyJob
    BY <1>21 DEF TypeOK, CrashInClaim
  <2>2. order' \in [Calls -> OrderRow]
    BY <1>21, <2>1, ClaimTyped DEF CrashInClaim
  <2>3. uncredited' \subseteq Calls
    BY <1>21, <2>1 DEF TypeOK, CrashInClaim, VerifyJob
  <2> QED BY <1>21, <2>2, <2>3, LoseRequestsTyped DEF TypeOK, CrashInClaim
<1>22. ASSUME NEW c \in Calls, CrashInReject(c) PROVE TypeOK'
  <2>1. order' \in [Calls -> OrderRow] /\ approval' \in [Calls -> ApprovalRow]
    BY <1>22, DecideTyped DEF CrashInReject
  <2> QED BY <1>22, <2>1, LoseRequestsTyped DEF TypeOK, CrashInReject
<1>23. ASSUME NEW k \in Keys, CrashInSuspend(k) PROVE TypeOK'
  <2>1. PICK done \in SUBSET Waiting(k), half \in SUBSET Waiting(k) :
          /\ Decide(done \union half, done, "rejected")
          /\ undecided' = undecided \union (Waiting(k) \ done)
    BY <1>23 DEF CrashInSuspend
  <2>2. order' \in [Calls -> OrderRow] /\ approval' \in [Calls -> ApprovalRow]
    BY <2>1, DecideTyped, BatchesTyped
  <2>3. key' \in [Keys -> KeyRow]
    BY <1>23 DEF TypeOK, CrashInSuspend, SuspendKey, KeyRow
  <2>4. undecided' \subseteq Calls
    BY <2>1, BatchesTyped DEF TypeOK
  <2> QED BY <1>23, <2>2, <2>3, <2>4, LoseRequestsTyped
       DEF TypeOK, CrashInSuspend, SuspendKey
<1>24. CASE CrashInExpireApprovals
  <2>1. PICK half \in LapsedApprovals, done \in SUBSET LapsedApprovals :
          /\ Decide(done \union {half}, Awaiting(done), "expired")
          /\ undecided' = undecided \union {half}
    BY <1>24 DEF CrashInExpireApprovals
  <2>2. order' \in [Calls -> OrderRow] /\ approval' \in [Calls -> ApprovalRow]
    BY <2>1, DecideTyped, BatchesTyped
  <2>3. undecided' \subseteq Calls
    BY <2>1, BatchesTyped DEF TypeOK
  <2> QED BY <1>24, <2>2, <2>3, LoseRequestsTyped DEF TypeOK, CrashInExpireApprovals
<1>25. CASE Tick
  BY <1>25 DEF TypeOK, Tick
<1>26. CASE UNCHANGED vars
  BY <1>26 DEF TypeOK, vars
<1> QED
  BY <1>1, <1>2, <1>3, <1>4, <1>5, <1>6, <1>7, <1>8, <1>9, <1>10, <1>11, <1>12,
     <1>13, <1>14, <1>15, <1>16, <1>17, <1>18, <1>19, <1>20, <1>21, <1>22, <1>23,
     <1>24, <1>25, <1>26
  DEF Next, AgentStep, OwnerStep, JobStep, CrashStep

(* Every reachable state is well formed: no row is ever written with a     *)
(* status, price, transfer id, deadline or deploy of the wrong kind.       *)
THEOREM TypeCorrect == Spec => []TypeOK
<1>1. Init => TypeOK
  BY TypeInit
<1>2. TypeOK /\ [Next]_vars => TypeOK'
  BY TypeStep
<1> QED BY <1>1, <1>2, PTL DEF Spec

-----------------------------------------------------------------------------
(* The inductive invariant *)

(* A call that has not committed has inserted nothing.                     *)
CallFresh ==
    \A c \in Calls : call[c].pc # "done" =>
                         order[c] = NoOrder /\ approval[c].status = "none"

(* A request that may be decided is of an order that waits for it.         *)
PendingAwaits ==
    \A c \in Calls : approval[c].status = "pending"
                         => order[c].status = "awaiting_approval"

(* Only a delivered order holds a deploy.                                  *)
OnlyDeliveredHolds ==
    \A c \in Calls : order[c].deploy # None => order[c].status = "delivered"

(* The counter is ahead of every id it gave out.                           *)
TidsIssued == \A c \in Calls : order[c].tid < nextTid

IInv ==
    /\ TypeOK
    /\ CallFresh
    /\ PendingAwaits
    /\ OnlyDeliveredHolds
    /\ TidsIssued
    /\ DeployRedeemedOnce
    /\ TransferIdsUnique
    /\ ApprovalAgrees

-----------------------------------------------------------------------------
(* What a step may do to the orders: one of six things, whichever of the   *)
(* actions takes it.  The proofs below argue about these six.              *)

CallsFinish == \A c \in Calls : call'[c].pc # "done" => call[c].pc # "done"

QuietStep ==
    /\ CallsFinish
    /\ nextTid' >= nextTid
    /\ UNCHANGED <<order, approval, undecided>>

InsertStep(c) ==
    /\ CallsFinish
    /\ call[c].pc = "authed" /\ call'[c].pc = "done"
    /\ UNCHANGED undecided
    /\ \/ CreateAwaitingApproval(c)
       \/ CreateSandbox(c)
       \/ \E rate \in Rates : CreatePendingPayment(c, rate) /\ Payable(c, rate)

GrantStep(c, rate) ==
    /\ CallsFinish
    /\ UNCHANGED undecided
    /\ ApproveTxn(c, rate)

DeliverStep(job) ==
    /\ CallsFinish
    /\ UNCHANGED <<approval, nextTid, undecided>>
    /\ \E v \in Verifiers :
         verify[v] # None /\ job = verify[v] /\ Proves(chain[job.deploy], job)
    /\ Claimable(job)
    /\ Claim(job)

ExpireStep(S) ==
    /\ CallsFinish
    /\ UNCHANGED <<approval, nextTid, undecided>>
    /\ \A c \in S : Pending(c)
    /\ order' = [c \in Calls |-> IF c \in S
                                 THEN [order[c] EXCEPT !.status = "expired"]
                                 ELSE order[c]]

RefuseStep(approvals, orders, status) ==
    /\ CallsFinish
    /\ UNCHANGED nextTid
    /\ orders \subseteq approvals
    /\ \A c \in approvals : approval[c].status = "pending"
    /\ undecided \subseteq undecided'
    /\ approvals \ orders \subseteq undecided'
    /\ Decide(approvals, orders, status)

StepKind ==
    \/ QuietStep
    \/ \E c \in Calls : InsertStep(c)
    \/ \E c \in Calls, rate \in Rates : GrantStep(c, rate)
    \/ \E job \in VerifyJob : DeliverStep(job)
    \/ \E S \in SUBSET Calls : ExpireStep(S)
    \/ \E approvals \in SUBSET Calls, orders \in SUBSET Calls,
          status \in {"rejected", "expired"} :
         RefuseStep(approvals, orders, status)

(* A crash finishes calls and starts none.                                 *)
LEMMA CrashFinishesCalls ==
  ASSUME TypeOK, LoseRequests PROVE CallsFinish
<1>1. ASSUME NEW c \in Calls, call[c].pc = "done"
      PROVE  call'[c].pc = "done"
  BY <1>1 DEF LoseRequests
<1> QED BY <1>1 DEF CallsFinish

(* Every pending request among some is of an order that waits.             *)
LEMMA PendingAreAwaiting ==
  ASSUME PendingAwaits, NEW S \in SUBSET Calls,
         \A c \in S : approval[c].status = "pending"
  PROVE  Awaiting(S) = S
  BY DEF PendingAwaits, Awaiting

(* Each action is a step of one of the six kinds.                          *)
LEMMA StepKinds == TypeOK /\ PendingAwaits /\ [Next]_vars => StepKind
<1> SUFFICES ASSUME TypeOK, PendingAwaits, [Next]_vars PROVE StepKind
  OBVIOUS
<1> USE DEF TypeOK
<1>1. ASSUME NEW c \in Calls, CreateBegin(c) PROVE StepKind
  <2>1. CallsFinish
    BY <1>1 DEF CreateBegin, CallsFinish
  <2> QED BY <1>1, <2>1 DEF CreateBegin, StepKind, QuietStep
<1>2. ASSUME NEW c \in Calls, CreateCommit(c) PROVE StepKind
  <2>1. CallsFinish /\ call[c].pc = "authed" /\ call'[c].pc = "done"
    BY <1>2 DEF CreateCommit, CallsFinish, CallState
  <2>2. undecided' = undecided
    BY <1>2 DEF CreateCommit
  <2>3. CASE CreateAnswered(c)
    BY <2>1, <2>2, <2>3 DEF CreateAnswered, StepKind, QuietStep
  <2>4. CASE CreateAwaitingApproval(c) \/ CreateSandbox(c)
    BY <2>1, <2>2, <2>4 DEF StepKind, InsertStep
  <2>5. ASSUME NEW rate \in Rates, CreatePendingPayment(c, rate) PROVE StepKind
    <3>1. CASE Payable(c, rate)
      BY <2>1, <2>2, <2>5, <3>1 DEF StepKind, InsertStep
    <3>2. CASE ~Payable(c, rate)
      <4>1. nextTid' >= nextTid /\ UNCHANGED <<order, approval>>
        BY <2>5, <3>2 DEF CreatePendingPayment, TidAfter
      <4> QED BY <2>1, <2>2, <4>1 DEF StepKind, QuietStep
    <3> QED BY <3>1, <3>2
  <2> QED BY <1>2, <2>3, <2>4, <2>5 DEF CreateCommit
<1>3. ASSUME NEW c \in Calls, VerifyTooLate(c) PROVE StepKind
  <2>1. ExpireStep({c})
    BY <1>3 DEF VerifyTooLate, ExpireStep, CallsFinish
  <2> QED BY <2>1 DEF StepKind
<1>4. ASSUME NEW v \in Verifiers, VerifyClaim(v) PROVE StepKind
  <2>1. verify[v] \in VerifyJob
    BY <1>4 DEF VerifyClaim
  <2>2. DeliverStep(verify[v])
    BY <1>4 DEF VerifyClaim, DeliverStep, CallsFinish
  <2> QED BY <2>1, <2>2 DEF StepKind
<1>5. ASSUME NEW p \in Operators, ApproveCommit(p) PROVE StepKind
  <2>1. decide[p] \in Calls
    BY <1>5 DEF ApproveCommit
  <2>2. PICK rate \in Rates : ApproveTxn(decide[p], rate)
    BY <1>5 DEF ApproveCommit
  <2>3. GrantStep(decide[p], rate)
    BY <1>5, <2>2 DEF ApproveCommit, GrantStep, CallsFinish
  <2> QED BY <2>1, <2>3 DEF StepKind
<1>6. ASSUME NEW c \in Calls, ApproveMockUsdc(c) PROVE StepKind
  <2>1. PICK rate \in Rates : ApproveTxn(c, rate)
    BY <1>6 DEF ApproveMockUsdc
  <2>2. GrantStep(c, rate)
    BY <1>6, <2>1 DEF ApproveMockUsdc, GrantStep, CallsFinish
  <2> QED BY <2>2 DEF StepKind
<1>7. ASSUME NEW c \in Calls, Reject(c) PROVE StepKind
  <2>1. Awaiting({c}) = {c}
    BY <1>7, PendingAreAwaiting DEF Reject, MayReject
  <2>2. RefuseStep({c}, {c}, "rejected")
    BY <1>7, <2>1 DEF Reject, MayReject, RefuseStep, CallsFinish
  <2> QED BY <2>2 DEF StepKind
<1>8. ASSUME NEW k \in Keys, Suspend(k) PROVE StepKind
  <2>1. RefuseStep(Waiting(k), Waiting(k), "rejected")
    BY <1>8 DEF Suspend, Waiting, RefuseStep, CallsFinish
  <2> QED BY <2>1, BatchesTyped DEF StepKind
<1>9. CASE ExpireStaleOrders
  <2>1. StaleOrders \in SUBSET Calls /\ \A c \in StaleOrders : Pending(c)
    BY DEF StaleOrders
  <2>2. ExpireStep(StaleOrders)
    BY <1>9, <2>1 DEF ExpireStaleOrders, ExpireStep, CallsFinish
  <2> QED BY <2>1, <2>2 DEF StepKind
<1>10. CASE ExpireApprovalRequests
  <2>1. Awaiting(LapsedApprovals) = LapsedApprovals
    BY PendingAreAwaiting DEF LapsedApprovals
  <2>2. RefuseStep(LapsedApprovals, LapsedApprovals, "expired")
    BY <1>10, <2>1 DEF ExpireApprovalRequests, LapsedApprovals, RefuseStep, CallsFinish
  <2> QED BY <2>2, BatchesTyped DEF StepKind
<1>11. CASE Crash
  BY <1>11, CrashFinishesCalls DEF Crash, StepKind, QuietStep
<1>12. ASSUME NEW v \in Verifiers, CrashInClaim(v) PROVE StepKind
  <2>1. verify[v] \in VerifyJob
    BY <1>12 DEF CrashInClaim
  <2>2. DeliverStep(verify[v])
    BY <1>12, CrashFinishesCalls DEF CrashInClaim, DeliverStep
  <2> QED BY <2>1, <2>2 DEF StepKind
<1>13. ASSUME NEW c \in Calls, CrashInReject(c) PROVE StepKind
  <2>1. RefuseStep({c}, {}, "rejected")
    BY <1>13, CrashFinishesCalls DEF CrashInReject, MayReject, RefuseStep
  <2> QED BY <2>1 DEF StepKind
<1>14. ASSUME NEW k \in Keys, CrashInSuspend(k) PROVE StepKind
  <2>1. PICK done \in SUBSET Waiting(k), half \in SUBSET Waiting(k) :
          /\ half \subseteq Waiting(k) \ done
          /\ Decide(done \union half, done, "rejected")
          /\ undecided' = undecided \union (Waiting(k) \ done)
    BY <1>14 DEF CrashInSuspend
  <2>2. RefuseStep(done \union half, done, "rejected")
    BY <1>14, <2>1, CrashFinishesCalls DEF CrashInSuspend, Waiting, RefuseStep
  <2>3. done \union half \in SUBSET Calls /\ done \in SUBSET Calls
    BY <2>1, BatchesTyped
  <2> QED BY <2>2, <2>3 DEF StepKind
<1>15. CASE CrashInExpireApprovals
  <2>1. PICK half \in LapsedApprovals, done \in SUBSET LapsedApprovals :
          /\ Decide(done \union {half}, Awaiting(done), "expired")
          /\ undecided' = undecided \union {half}
    BY <1>15 DEF CrashInExpireApprovals
  <2>2. Awaiting(done) = done
    BY <2>1, PendingAreAwaiting, BatchesTyped DEF LapsedApprovals
  <2>3. RefuseStep(done \union {half}, done, "expired")
    BY <1>15, <2>1, <2>2, CrashFinishesCalls
    DEF CrashInExpireApprovals, LapsedApprovals, RefuseStep
  <2>4. done \union {half} \in SUBSET Calls /\ done \in SUBSET Calls
    BY <2>1, BatchesTyped
  <2> QED BY <2>3, <2>4 DEF StepKind
<1>16. ASSUME UNCHANGED <<order, approval, nextTid, undecided, call>> PROVE StepKind
  BY <1>16 DEF StepKind, QuietStep, CallsFinish
<1>17. ASSUME NEW v \in Verifiers, NEW c \in Calls, NEW d \in Deploys,
              NEW s \in Payers \union {None}, VerifyBegin(v, c, d, s)
       PROVE  StepKind
  BY <1>16, <1>17 DEF VerifyBegin
<1>18. ASSUME NEW v \in Verifiers, VerifyRefused(v) PROVE StepKind
  BY <1>16, <1>18 DEF VerifyRefused
<1>19. ASSUME NEW d \in Deploys, NEW c \in Calls, NEW s \in Payers,
              NEW good \in BOOLEAN, NEW paid \in {order[c].due - 1, order[c].due},
              Pay(d, c, s, paid, good)
       PROVE  StepKind
  BY <1>16, <1>19 DEF Pay
<1>20. ASSUME NEW p \in Operators, NEW c \in Calls, ApproveBegin(p, c) PROVE StepKind
  BY <1>16, <1>20 DEF ApproveBegin
<1>21. ASSUME NEW p \in Operators, ApproveRolledBack(p) PROVE StepKind
  BY <1>16, <1>21 DEF ApproveRolledBack
<1>22. ASSUME NEW k \in Keys, Unsuspend(k) \/ DeleteKey(k) PROVE StepKind
  BY <1>16, <1>22 DEF Unsuspend, DeleteKey
<1>23. ASSUME NEW k \in Keys, NEW limit \in Limits, NEW policy \in Policies,
              UpdateKey(k, limit, policy)
       PROVE  StepKind
  BY <1>16, <1>23 DEF UpdateKey
<1>24. CASE PruneIdempotencyKeys
  BY <1>16, <1>24 DEF PruneIdempotencyKeys
<1>25. CASE Tick \/ UNCHANGED vars
  BY <1>16, <1>25 DEF Tick, vars
<1> QED
  BY <1>1, <1>2, <1>3, <1>4, <1>5, <1>6, <1>7, <1>8, <1>9, <1>10, <1>11, <1>12,
     <1>13, <1>14, <1>15, <1>17, <1>18, <1>19, <1>20, <1>21, <1>22, <1>23, <1>24,
     <1>25
  DEF Next, AgentStep, OwnerStep, JobStep, CrashStep

-----------------------------------------------------------------------------
(* What each kind of step writes, order by order.                          *)

(* The row a create request inserts was not there, and the row it inserts  *)
(* holds no deploy.                                                        *)
LEMMA InsertEffect ==
  ASSUME IInv, NEW c \in Calls, InsertStep(c)
  PROVE  /\ order[c] = NoOrder /\ approval[c].status = "none" /\ undecided' = undecided
         /\ \A d \in Calls \ {c} : order'[d] = order[d] /\ approval'[d] = approval[d]
         /\ order'[c].deploy = None
         /\ nextTid' >= nextTid
         /\ \/ /\ order'[c].status = "awaiting_approval"
               /\ approval'[c].status = "pending"
               /\ order'[c].tid = 0
            \/ /\ order'[c].status = "delivered" /\ KeyOf(c) \in Sandbox
               /\ approval'[c].status = "none"
               /\ order'[c].tid = 0
            \/ /\ order'[c].status = "pending_payment" /\ KeyOf(c) \notin Sandbox
               /\ approval'[c].status = "none"
               /\ order'[c].tid = 0 \/ (order'[c].tid = nextTid /\ nextTid' = nextTid + 1)
<1> USE DEF IInv, TypeOK
<1>1. order[c] = NoOrder /\ approval[c].status = "none"
  BY DEF InsertStep, CallFresh
<1>5. undecided' = undecided
  BY DEF InsertStep
<1>2. CASE CreateAwaitingApproval(c)
  <2>1. order'[c].status = "awaiting_approval" /\ order'[c].deploy = None /\ order'[c].tid = 0
    BY <1>1, <1>2 DEF CreateAwaitingApproval, OrderRow, NoOrder
  <2>2. approval'[c].status = "pending" /\ nextTid' = nextTid
    BY <1>2 DEF CreateAwaitingApproval
  <2>3. \A d \in Calls \ {c} : order'[d] = order[d] /\ approval'[d] = approval[d]
    BY <1>2 DEF CreateAwaitingApproval
  <2> QED BY <1>1, <1>5, <2>1, <2>2, <2>3
<1>3. CASE CreateSandbox(c)
  <2>1. order'[c].status = "delivered" /\ order'[c].deploy = None /\ order'[c].tid = 0
    BY <1>1, <1>3 DEF CreateSandbox, OrderRow, NoOrder
  <2>2. approval' = approval /\ nextTid' = nextTid /\ KeyOf(c) \in Sandbox
    BY <1>3 DEF CreateSandbox
  <2>3. \A d \in Calls \ {c} : order'[d] = order[d]
    BY <1>3 DEF CreateSandbox
  <2> QED BY <1>1, <1>5, <2>1, <2>2, <2>3
<1>4. ASSUME NEW rate \in Rates, CreatePendingPayment(c, rate), Payable(c, rate)
      PROVE  /\ order'[c].status = "pending_payment" /\ order'[c].deploy = None
             /\ KeyOf(c) \notin Sandbox
             /\ order'[c].tid = 0 \/ (order'[c].tid = nextTid /\ nextTid' = nextTid + 1)
             /\ nextTid' >= nextTid
             /\ approval' = approval
             /\ \A d \in Calls \ {c} : order'[d] = order[d]
  <2> DEFINE row == [NoOrder EXCEPT !.at = clock]
  <2>1. order' = [order EXCEPT ![c] = Instructed(row, c, rate)]
    BY <1>4 DEF CreatePendingPayment
  <2>2. order'[c] = Instructed(row, c, rate)
    BY <2>1
  <2>3. Instructed(row, c, rate).status = "pending_payment"
        /\ Instructed(row, c, rate).deploy = None
    BY DEF Instructed, NoOrder
  <2>4. Instructed(row, c, rate).tid =
          IF request[c].asset = "cspr_casper" THEN nextTid ELSE 0
    BY DEF Instructed, NoOrder
  <2>5. nextTid' = TidAfter(c) /\ approval' = approval /\ KeyOf(c) \notin Sandbox
    BY <1>4 DEF CreatePendingPayment
  <2> QED BY <2>1, <2>2, <2>3, <2>4, <2>5 DEF TidAfter
<1> QED BY <1>1, <1>2, <1>3, <1>4, <1>5 DEF InsertStep

(* An approval turns a waiting order into a payable one with a new id.     *)
LEMMA GrantEffect ==
  ASSUME IInv, NEW c \in Calls, NEW rate \in Rates, GrantStep(c, rate)
  PROVE  /\ order[c].status = "awaiting_approval" /\ approval[c].status = "pending"
         /\ \A d \in Calls \ {c} : order'[d] = order[d] /\ approval'[d] = approval[d]
         /\ order'[c].status = "pending_payment" /\ order'[c].deploy = order[c].deploy
         /\ order'[c].tid = 0 \/ (order'[c].tid = nextTid /\ nextTid' = nextTid + 1)
         /\ nextTid' >= nextTid
         /\ approval'[c].status = "approved" /\ undecided' = undecided
<1> USE DEF IInv, TypeOK, GrantStep
<1>1. order'[c] = Instructed(order[c], c, rate) /\ nextTid' = TidAfter(c)
      /\ \A d \in Calls \ {c} : order'[d] = order[d] /\ approval'[d] = approval[d]
  BY DEF ApproveTxn
<1>2. Instructed(order[c], c, rate).status = "pending_payment"
      /\ Instructed(order[c], c, rate).deploy = order[c].deploy
      /\ Instructed(order[c], c, rate).tid =
           IF request[c].asset = "cspr_casper" THEN nextTid ELSE 0
  BY DEF Instructed, OrderRow
<1>3. approval'[c].status = "approved"
  BY DEF ApproveTxn, ApprovalRow
<1>4. order[c].status = "awaiting_approval" /\ approval[c].status = "pending"
  BY DEF ApproveTxn
<1> QED BY <1>1, <1>2, <1>3, <1>4 DEF TidAfter

(* A claim delivers a payable order with a deploy nobody holds.            *)
LEMMA DeliverEffect ==
  ASSUME IInv, NEW job \in VerifyJob, DeliverStep(job)
  PROVE  /\ job.order \in Calls /\ job.deploy \in Deploys
         /\ order[job.order].status = "pending_payment"
         /\ \A d \in Calls \ {job.order} : order'[d] = order[d]
         /\ order'[job.order].status = "delivered"
         /\ order'[job.order].deploy = job.deploy
         /\ order'[job.order].tid = order[job.order].tid
         /\ \A d \in Calls : order[d].deploy # job.deploy
         /\ UNCHANGED <<approval, nextTid, undecided>>
<1> USE DEF IInv, TypeOK, DeliverStep
<1>1. job.order \in Calls /\ job.deploy \in Deploys
  BY DEF VerifyJob
<1> QED BY <1>1 DEF Claim, Claimable, Pending, HoldsDeploy, OrderRow

(* Expiry changes the status of payable orders only.                       *)
LEMMA ExpireEffect ==
  ASSUME IInv, NEW S \in SUBSET Calls, ExpireStep(S), NEW c \in Calls
  PROVE  /\ order'[c].deploy = order[c].deploy /\ order'[c].tid = order[c].tid
         /\ c \in S => /\ order[c].status = "pending_payment"
                       /\ order'[c].status = "expired"
         /\ c \notin S => order'[c] = order[c]
         /\ UNCHANGED <<approval, nextTid, undecided>>
  BY DEF IInv, TypeOK, ExpireStep, Pending, OrderRow

(* What a refusal does to one order: only a waiting order is refused, and  *)
(* it is left as it was only when a crash cut the refusal short.           *)
RefusedRow(c, A, O, status) ==
    /\ order'[c].deploy = order[c].deploy /\ order'[c].tid = order[c].tid
    /\ c \in A => /\ order[c].status = "awaiting_approval"
                  /\ approval[c].status = "pending"
                  /\ approval'[c].status = status
    /\ c \notin A => approval'[c] = approval[c]
    /\ c \in O => c \in A /\ order'[c].status = "rejected"
    /\ c \notin O => order'[c] = order[c]
    /\ c \in A /\ c \notin O => c \in undecided'

(* A refusal does that to every order.                                     *)
LEMMA RefuseEffect ==
  ASSUME IInv, NEW A \in SUBSET Calls, NEW O \in SUBSET Calls,
         NEW status \in {"rejected", "expired"}, RefuseStep(A, O, status)
  PROVE  /\ \A c \in Calls : RefusedRow(c, A, O, status)
         /\ nextTid' = nextTid /\ undecided \subseteq undecided'
<1>1. ASSUME NEW c \in Calls PROVE RefusedRow(c, A, O, status)
  <2>1. order[c] \in OrderRow /\ approval[c] \in ApprovalRow
    BY DEF IInv, TypeOK
  <2>2. order'[c] = IF c \in O THEN [order[c] EXCEPT !.status = "rejected"] ELSE order[c]
    BY DEF RefuseStep, Decide
  <2>3. approval'[c] = IF c \in A THEN [approval[c] EXCEPT !.status = status]
                                  ELSE approval[c]
    BY DEF RefuseStep, Decide
  <2>4. c \in A => order[c].status = "awaiting_approval" /\ approval[c].status = "pending"
    BY DEF IInv, RefuseStep, PendingAwaits
  <2>5. c \in O => order'[c].status = "rejected" /\ order'[c].deploy = order[c].deploy
                   /\ order'[c].tid = order[c].tid
    BY <2>1, <2>2 DEF OrderRow
  <2>6. c \in A => approval'[c].status = status
    BY <2>1, <2>3 DEF ApprovalRow
  <2> QED BY <2>2, <2>3, <2>4, <2>5, <2>6 DEF RefuseStep, RefusedRow
<1> QED BY <1>1 DEF RefuseStep

-----------------------------------------------------------------------------
(* Each part of the invariant is kept by each kind of step. *)

(* A call that has not committed still has no row. *)
LEMMA FreshKept == IInv /\ TypeOK' /\ StepKind => CallFresh'
<1> SUFFICES ASSUME IInv, TypeOK', StepKind PROVE CallFresh'
  OBVIOUS
<1>1. CASE QuietStep
  BY <1>1 DEF QuietStep, CallsFinish, CallFresh, IInv
<1>2. ASSUME NEW e \in Calls, InsertStep(e) PROVE CallFresh'
  BY <1>2, InsertEffect DEF InsertStep, CallsFinish, CallFresh, IInv
<1>3. ASSUME NEW e \in Calls, NEW rate \in Rates, GrantStep(e, rate) PROVE CallFresh'
  <2>1. call[e].pc = "done"
    BY <1>3, GrantEffect DEF CallFresh, IInv, NoOrder
  <2> QED BY <1>3, <2>1, GrantEffect DEF GrantStep, CallsFinish, CallFresh, IInv
<1>4. ASSUME NEW job \in VerifyJob, DeliverStep(job) PROVE CallFresh'
  <2>1. job.order \in Calls /\ call[job.order].pc = "done"
    BY <1>4, DeliverEffect DEF CallFresh, IInv, NoOrder
  <2> QED BY <1>4, <2>1, DeliverEffect DEF DeliverStep, CallsFinish, CallFresh, IInv
<1>5. ASSUME NEW S \in SUBSET Calls, ExpireStep(S) PROVE CallFresh'
  <2>1. \A c \in S : call[c].pc = "done"
    BY <1>5, ExpireEffect DEF CallFresh, IInv, NoOrder
  <2> QED BY <1>5, <2>1, ExpireEffect DEF ExpireStep, CallsFinish, CallFresh, IInv
<1>6. ASSUME NEW A \in SUBSET Calls, NEW O \in SUBSET Calls,
             NEW status \in {"rejected", "expired"}, RefuseStep(A, O, status)
      PROVE  CallFresh'
  <2>1. \A c \in Calls : RefusedRow(c, A, O, status)
    BY <1>6, RefuseEffect
  <2>2. \A c \in A : call[c].pc = "done"
    BY <2>1 DEF RefusedRow, CallFresh, IInv, NoOrder
  <2>3. \A c \in Calls \ A : order'[c] = order[c] /\ approval'[c] = approval[c]
    BY <1>6, <2>1 DEF RefusedRow, RefuseStep
  <2> QED BY <1>6, <2>2, <2>3 DEF RefuseStep, CallsFinish, CallFresh, IInv
<1> QED BY <1>1, <1>2, <1>3, <1>4, <1>5, <1>6 DEF StepKind

(* A pending approval still belongs to a waiting order. *)
LEMMA PendingKept == IInv /\ TypeOK' /\ StepKind => PendingAwaits'
<1> SUFFICES ASSUME IInv, TypeOK', StepKind PROVE PendingAwaits'
  OBVIOUS
<1>1. CASE QuietStep
  BY <1>1 DEF QuietStep, PendingAwaits, IInv
<1>2. ASSUME NEW e \in Calls, InsertStep(e) PROVE PendingAwaits'
  BY <1>2, InsertEffect DEF PendingAwaits, IInv
<1>3. ASSUME NEW e \in Calls, NEW rate \in Rates, GrantStep(e, rate) PROVE PendingAwaits'
  BY <1>3, GrantEffect DEF PendingAwaits, IInv
<1>4. ASSUME NEW job \in VerifyJob, DeliverStep(job) PROVE PendingAwaits'
  BY <1>4, DeliverEffect DEF PendingAwaits, IInv
<1>5. ASSUME NEW S \in SUBSET Calls, ExpireStep(S) PROVE PendingAwaits'
  BY <1>5, ExpireEffect DEF PendingAwaits, IInv
<1>6. ASSUME NEW A \in SUBSET Calls, NEW O \in SUBSET Calls,
             NEW status \in {"rejected", "expired"}, RefuseStep(A, O, status)
      PROVE  PendingAwaits'
  <2>1. \A c \in Calls : RefusedRow(c, A, O, status)
    BY <1>6, RefuseEffect
  <2> QED BY <1>6, <2>1, RefuseEffect DEF RefusedRow, PendingAwaits, IInv
<1> QED BY <1>1, <1>2, <1>3, <1>4, <1>5, <1>6 DEF StepKind

(* Still only delivered orders hold a deploy. *)
LEMMA HoldsKept == IInv /\ TypeOK' /\ StepKind => OnlyDeliveredHolds'
<1> SUFFICES ASSUME IInv, TypeOK', StepKind PROVE OnlyDeliveredHolds'
  OBVIOUS
<1>1. CASE QuietStep
  BY <1>1 DEF QuietStep, OnlyDeliveredHolds, IInv
<1>2. ASSUME NEW e \in Calls, InsertStep(e) PROVE OnlyDeliveredHolds'
  BY <1>2, InsertEffect DEF OnlyDeliveredHolds, IInv
<1>3. ASSUME NEW e \in Calls, NEW rate \in Rates, GrantStep(e, rate) PROVE OnlyDeliveredHolds'
  BY <1>3, GrantEffect DEF OnlyDeliveredHolds, IInv
<1>4. ASSUME NEW job \in VerifyJob, DeliverStep(job) PROVE OnlyDeliveredHolds'
  BY <1>4, DeliverEffect DEF OnlyDeliveredHolds, IInv
<1>5. ASSUME NEW S \in SUBSET Calls, ExpireStep(S) PROVE OnlyDeliveredHolds'
  BY <1>5, ExpireEffect DEF OnlyDeliveredHolds, IInv
<1>6. ASSUME NEW A \in SUBSET Calls, NEW O \in SUBSET Calls,
             NEW status \in {"rejected", "expired"}, RefuseStep(A, O, status)
      PROVE  OnlyDeliveredHolds'
  <2>1. \A c \in Calls : RefusedRow(c, A, O, status)
    BY <1>6, RefuseEffect
  <2> QED BY <1>6, <2>1, RefuseEffect DEF RefusedRow, OnlyDeliveredHolds, IInv
<1> QED BY <1>1, <1>2, <1>3, <1>4, <1>5, <1>6 DEF StepKind

(* The counter is still ahead of every id. *)
LEMMA TidsKept == IInv /\ TypeOK' /\ StepKind => TidsIssued'
<1> SUFFICES ASSUME IInv, TypeOK', StepKind PROVE TidsIssued'
  OBVIOUS
<1>1. CASE QuietStep
  BY <1>1 DEF QuietStep, TidsIssued, IInv, TypeOK, OrderRow
<1>2. ASSUME NEW e \in Calls, InsertStep(e) PROVE TidsIssued'
  BY <1>2, InsertEffect DEF TidsIssued, IInv, TypeOK, OrderRow
<1>3. ASSUME NEW e \in Calls, NEW rate \in Rates, GrantStep(e, rate) PROVE TidsIssued'
  BY <1>3, GrantEffect DEF TidsIssued, IInv, TypeOK, OrderRow
<1>4. ASSUME NEW job \in VerifyJob, DeliverStep(job) PROVE TidsIssued'
  BY <1>4, DeliverEffect DEF TidsIssued, IInv, TypeOK, OrderRow
<1>5. ASSUME NEW S \in SUBSET Calls, ExpireStep(S) PROVE TidsIssued'
  BY <1>5, ExpireEffect DEF TidsIssued, IInv, TypeOK, OrderRow
<1>6. ASSUME NEW A \in SUBSET Calls, NEW O \in SUBSET Calls,
             NEW status \in {"rejected", "expired"}, RefuseStep(A, O, status)
      PROVE  TidsIssued'
  <2>1. \A c \in Calls : RefusedRow(c, A, O, status)
    BY <1>6, RefuseEffect
  <2>2. nextTid' = nextTid /\ \A c \in Calls : order'[c].tid = order[c].tid
    BY <1>6, <2>1 DEF RefusedRow, RefuseStep
  <2> QED BY <2>2 DEF TidsIssued, IInv
<1> QED BY <1>1, <1>2, <1>3, <1>4, <1>5, <1>6 DEF StepKind

(* A new holder of a deploy is its only holder. *)
LEMMA RedeemedKept == IInv /\ TypeOK' /\ StepKind => DeployRedeemedOnce'
<1> SUFFICES ASSUME IInv, TypeOK', StepKind PROVE DeployRedeemedOnce'
  OBVIOUS
<1>1. CASE QuietStep
  BY <1>1 DEF QuietStep, DeployRedeemedOnce, IInv
<1>2. ASSUME NEW e \in Calls, InsertStep(e) PROVE DeployRedeemedOnce'
  BY <1>2, InsertEffect DEF DeployRedeemedOnce, IInv
<1>3. ASSUME NEW e \in Calls, NEW rate \in Rates, GrantStep(e, rate) PROVE DeployRedeemedOnce'
  BY <1>3, GrantEffect DEF DeployRedeemedOnce, IInv
<1>4. ASSUME NEW job \in VerifyJob, DeliverStep(job) PROVE DeployRedeemedOnce'
  BY <1>4, DeliverEffect DEF DeployRedeemedOnce, IInv
<1>5. ASSUME NEW S \in SUBSET Calls, ExpireStep(S) PROVE DeployRedeemedOnce'
  BY <1>5, ExpireEffect DEF DeployRedeemedOnce, IInv
<1>6. ASSUME NEW A \in SUBSET Calls, NEW O \in SUBSET Calls,
             NEW status \in {"rejected", "expired"}, RefuseStep(A, O, status)
      PROVE  DeployRedeemedOnce'
  <2>1. \A c \in Calls : RefusedRow(c, A, O, status)
    BY <1>6, RefuseEffect
  <2> QED BY <1>6, <2>1, RefuseEffect DEF RefusedRow, DeployRedeemedOnce, IInv
<1> QED BY <1>1, <1>2, <1>3, <1>4, <1>5, <1>6 DEF StepKind

(* A new id is ahead of every id given out before. *)
LEMMA UniqueKept == IInv /\ TypeOK' /\ StepKind => TransferIdsUnique'
<1> SUFFICES ASSUME IInv, TypeOK', StepKind PROVE TransferIdsUnique'
  OBVIOUS
<1>1. CASE QuietStep
  BY <1>1 DEF QuietStep, TransferIdsUnique, IInv, TidsIssued, TypeOK, OrderRow
<1>2. ASSUME NEW e \in Calls, InsertStep(e) PROVE TransferIdsUnique'
  BY <1>2, InsertEffect DEF TransferIdsUnique, IInv, TidsIssued, TypeOK, OrderRow
<1>3. ASSUME NEW e \in Calls, NEW rate \in Rates, GrantStep(e, rate) PROVE TransferIdsUnique'
  BY <1>3, GrantEffect DEF TransferIdsUnique, IInv, TidsIssued, TypeOK, OrderRow
<1>4. ASSUME NEW job \in VerifyJob, DeliverStep(job) PROVE TransferIdsUnique'
  <2>1. \A c \in Calls : order'[c].tid = order[c].tid
    BY <1>4, DeliverEffect
  <2> QED BY <2>1 DEF TransferIdsUnique, IInv
<1>5. ASSUME NEW S \in SUBSET Calls, ExpireStep(S) PROVE TransferIdsUnique'
  <2>1. \A c \in Calls : order'[c].tid = order[c].tid
    BY <1>5, ExpireEffect
  <2> QED BY <2>1 DEF TransferIdsUnique, IInv
<1>6. ASSUME NEW A \in SUBSET Calls, NEW O \in SUBSET Calls,
             NEW status \in {"rejected", "expired"}, RefuseStep(A, O, status)
      PROVE  TransferIdsUnique'
  <2>1. \A c \in Calls : RefusedRow(c, A, O, status)
    BY <1>6, RefuseEffect
  <2> QED BY <1>6, <2>1, RefuseEffect DEF RefusedRow, TransferIdsUnique, IInv, TidsIssued, TypeOK, OrderRow
<1> QED BY <1>1, <1>2, <1>3, <1>4, <1>5, <1>6 DEF StepKind

(* Order and approval move together. *)
LEMMA AgreesKept == IInv /\ TypeOK' /\ StepKind => ApprovalAgrees'
<1> SUFFICES ASSUME IInv, TypeOK', StepKind PROVE ApprovalAgrees'
  OBVIOUS
<1>1. CASE QuietStep
  BY <1>1 DEF QuietStep, ApprovalAgrees, IInv, NoOrder
<1>2. ASSUME NEW e \in Calls, InsertStep(e) PROVE ApprovalAgrees'
  BY <1>2, InsertEffect DEF ApprovalAgrees, IInv, NoOrder
<1>3. ASSUME NEW e \in Calls, NEW rate \in Rates, GrantStep(e, rate) PROVE ApprovalAgrees'
  BY <1>3, GrantEffect DEF ApprovalAgrees, IInv, NoOrder
<1>4. ASSUME NEW job \in VerifyJob, DeliverStep(job) PROVE ApprovalAgrees'
  BY <1>4, DeliverEffect DEF ApprovalAgrees, IInv, NoOrder
<1>5. ASSUME NEW S \in SUBSET Calls, ExpireStep(S) PROVE ApprovalAgrees'
  BY <1>5, ExpireEffect DEF ApprovalAgrees, IInv, NoOrder
<1>6. ASSUME NEW A \in SUBSET Calls, NEW O \in SUBSET Calls,
             NEW status \in {"rejected", "expired"}, RefuseStep(A, O, status)
      PROVE  ApprovalAgrees'
  <2>1. \A c \in Calls : RefusedRow(c, A, O, status)
    BY <1>6, RefuseEffect
  <2> QED BY <1>6, <2>1, RefuseEffect DEF RefusedRow, ApprovalAgrees, IInv, NoOrder
<1> QED BY <1>1, <1>2, <1>3, <1>4, <1>5, <1>6 DEF StepKind

(* Initially there is nothing to disagree about.                           *)
LEMMA InvInit == Init => IInv
<1> SUFFICES ASSUME Init PROVE IInv
  OBVIOUS
<1>1. \A c \in Calls : order[c] = NoOrder /\ approval[c].status = "none"
  BY DEF Init
<1>2. CallFresh /\ PendingAwaits /\ OnlyDeliveredHolds /\ DeployRedeemedOnce
      /\ TransferIdsUnique /\ ApprovalAgrees
  BY <1>1 DEF CallFresh, PendingAwaits, OnlyDeliveredHolds, DeployRedeemedOnce,
              TransferIdsUnique, ApprovalAgrees, NoOrder
<1>3. TidsIssued
  BY <1>1 DEF Init, TidsIssued, NoOrder
<1> QED BY <1>2, <1>3, TypeInit DEF IInv

(* The invariant is inductive.                                             *)
LEMMA InvStep == IInv /\ [Next]_vars => IInv'
<1> SUFFICES ASSUME IInv, [Next]_vars PROVE IInv'
  OBVIOUS
<1>1. TypeOK'
  BY TypeStep DEF IInv
<1>2. StepKind
  BY StepKinds DEF IInv
<1> QED
  BY <1>1, <1>2, FreshKept, PendingKept, HoldsKept, TidsKept, RedeemedKept,
     UniqueKept, AgreesKept DEF IInv

(* Every reachable state satisfies the invariant.                          *)
THEOREM Invariant == Spec => []IInv
<1>1. Init => IInv
  BY InvInit
<1>2. IInv /\ [Next]_vars => IInv'
  BY InvStep
<1> QED BY <1>1, <1>2, PTL DEF Spec

(* One transfer never buys two cards, for any number of concurrent         *)
(* verify-payment requests, orders, deploys and crashes.                   *)
THEOREM RedeemedOnce == Spec => []DeployRedeemedOnce
<1>1. IInv => DeployRedeemedOnce
  BY DEF IInv
<1> QED BY <1>1, Invariant, PTL

(* No two orders are ever quoted with the same transfer id.                *)
THEOREM UniqueTransferIds == Spec => []TransferIdsUnique
<1>1. IInv => TransferIdsUnique
  BY DEF IInv
<1> QED BY <1>1, Invariant, PTL

(* Order and approval request agree, whichever of owner, suspension, job   *)
(* and crash comes first.                                                  *)
THEOREM ApprovalsAgree == Spec => []ApprovalAgrees
<1>1. IInv => ApprovalAgrees
  BY DEF IInv
<1> QED BY <1>1, Invariant, PTL

(* No step takes an order out of a closed status.                          *)
LEMMA ClosedStep ==
  IInv /\ [Next]_vars =>
    [\A c \in Calls : order[c].status \in Closed
                         => order'[c].status = order[c].status]_vars
<1> DEFINE Kept == \A c \in Calls : order[c].status \in Closed
                                     => order'[c].status = order[c].status
<1> SUFFICES ASSUME IInv, [Next]_vars PROVE Kept
  OBVIOUS
<1>0. StepKind
  BY StepKinds DEF IInv
<1>1. CASE QuietStep
  BY <1>1 DEF QuietStep
<1>2. ASSUME NEW e \in Calls, InsertStep(e) PROVE Kept
  BY <1>2, InsertEffect DEF Closed, NoOrder
<1>3. ASSUME NEW e \in Calls, NEW rate \in Rates, GrantStep(e, rate) PROVE Kept
  BY <1>3, GrantEffect DEF Closed
<1>4. ASSUME NEW job \in VerifyJob, DeliverStep(job) PROVE Kept
  BY <1>4, DeliverEffect DEF Closed
<1>5. ASSUME NEW S \in SUBSET Calls, ExpireStep(S) PROVE Kept
  BY <1>5, ExpireEffect DEF Closed
<1>6. ASSUME NEW A \in SUBSET Calls, NEW O \in SUBSET Calls,
             NEW status \in {"rejected", "expired"}, RefuseStep(A, O, status)
      PROVE  Kept
  <2>1. \A c \in Calls : RefusedRow(c, A, O, status)
    BY <1>6, RefuseEffect
  <2> QED BY <1>6, <2>1, RefuseEffect DEF RefusedRow, Closed
<1> QED BY <1>0, <1>1, <1>2, <1>3, <1>4, <1>5, <1>6 DEF StepKind

(* A delivered, expired or rejected order stays what it is: no late claim, *)
(* job, owner or restarted process revives it.                             *)
THEOREM ClosedStaysClosed ==
  Spec => [][\A c \in Calls : order[c].status \in Closed
                                  => order'[c].status = order[c].status]_vars
<1>1. IInv /\ [Next]_vars =>
        [\A c \in Calls : order[c].status \in Closed
                             => order'[c].status = order[c].status]_vars
  BY ClosedStep
<1> QED BY <1>1, Invariant, PTL DEF Spec

LEMMA FollowsStep ==
  IInv /\ [Next]_vars =>
    [\A c \in Calls : order[c].status # "none"
                         => Follows(order[c].status, order'[c].status)]_vars
<1> DEFINE Moved == \A c \in Calls : order[c].status # "none"
                                        => Follows(order[c].status, order'[c].status)
<1> SUFFICES ASSUME IInv, [Next]_vars PROVE Moved
  OBVIOUS
<1>0. StepKind
  BY StepKinds DEF IInv
<1> USE DEF Follows, Moves
<1>1. CASE QuietStep
  BY <1>1 DEF QuietStep
<1>2. ASSUME NEW e \in Calls, InsertStep(e) PROVE Moved
  BY <1>2, InsertEffect DEF NoOrder
<1>3. ASSUME NEW e \in Calls, NEW rate \in Rates, GrantStep(e, rate) PROVE Moved
  BY <1>3, GrantEffect
<1>4. ASSUME NEW job \in VerifyJob, DeliverStep(job) PROVE Moved
  BY <1>4, DeliverEffect
<1>5. ASSUME NEW S \in SUBSET Calls, ExpireStep(S) PROVE Moved
  BY <1>5, ExpireEffect
<1>6. ASSUME NEW A \in SUBSET Calls, NEW O \in SUBSET Calls,
             NEW status \in {"rejected", "expired"}, RefuseStep(A, O, status)
      PROVE  Moved
  <2>1. \A c \in Calls : RefusedRow(c, A, O, status)
    BY <1>6, RefuseEffect
  <2> QED BY <1>6, <2>1, RefuseEffect DEF RefusedRow
<1> QED BY <1>0, <1>1, <1>2, <1>3, <1>4, <1>5, <1>6 DEF StepKind

(* Once it is inserted, an order moves only as OrderMoves allows: what a   *)
(* watcher of its stream relies on.                                        *)
THEOREM OrdersFollow ==
  Spec => [][\A c \in Calls : order[c].status # "none"
                                  => Follows(order[c].status, order'[c].status)]_vars
<1>1. IInv /\ [Next]_vars =>
        [\A c \in Calls : order[c].status # "none"
                             => Follows(order[c].status, order'[c].status)]_vars
  BY FollowsStep
<1> QED BY <1>1, Invariant, PTL DEF Spec

(* No step changes a request that was sent.                                *)
LEMMA RequestsFixed == [Next]_vars => request' = request
<1> SUFFICES ASSUME [Next]_vars PROVE request' = request
  OBVIOUS
<1>1. CASE AgentStep
  BY <1>1 DEF AgentStep, CreateBegin, CreateCommit, VerifyTooLate, VerifyBegin,
              VerifyClaim, VerifyRefused, Pay
<1>2. CASE OwnerStep
  BY <1>2 DEF OwnerStep, ApproveBegin, ApproveCommit, ApproveRolledBack,
              ApproveMockUsdc, Reject, Suspend, Unsuspend, DeleteKey, UpdateKey
<1>3. CASE JobStep
  BY <1>3 DEF JobStep, ExpireStaleOrders, ExpireApprovalRequests, PruneIdempotencyKeys
<1>4. CASE CrashStep
  BY <1>4 DEF CrashStep, Crash, CrashInClaim, CrashInReject, CrashInSuspend,
              CrashInExpireApprovals
<1>5. CASE Tick \/ UNCHANGED vars
  BY <1>5 DEF Tick, vars
<1> QED BY <1>1, <1>2, <1>3, <1>4, <1>5 DEF Next

-----------------------------------------------------------------------------
(* What was paid: a request to verify holds the terms of its order, which  *)
(* do not change once they are quoted.                                     *)

Quoted(c) == order[c].status \in {"pending_payment", "delivered", "expired"}

Fits(job, row, payer) ==
    /\ row.status \in {"pending_payment", "delivered", "expired"}
    /\ job.due = row.due /\ job.tid = row.tid
    /\ payer # None => job.sender = payer

JobsFit ==
    \A v \in Verifiers : verify[v] # None =>
        Fits(verify[v], order[verify[v].order], request[verify[v].order].payer)

(* The terms of a quoted order stay, and so does the deploy it was sold for. *)
LEMMA QuotedKept ==
  ASSUME IInv, [Next]_vars, NEW c \in Calls, Quoted(c)
  PROVE  /\ Quoted(c)'
         /\ order'[c].due = order[c].due /\ order'[c].tid = order[c].tid
         /\ Delivered(c) => order'[c] = order[c]
<1> DEFINE Kept == /\ order'[c].status \in {"pending_payment", "delivered", "expired"}
                   /\ order'[c].due = order[c].due /\ order'[c].tid = order[c].tid
                   /\ order[c].status = "delivered" => order'[c] = order[c]
<1> SUFFICES Kept
  BY DEF Quoted, Delivered
<1>0. StepKind /\ order[c].status \in {"pending_payment", "delivered", "expired"}
      /\ order[c] \in OrderRow
  BY StepKinds DEF IInv, Quoted, TypeOK
<1>1. ASSUME order'[c] = order[c] PROVE Kept
  BY <1>0, <1>1
<1>2. CASE QuietStep
  BY <1>1, <1>2 DEF QuietStep
<1>3. ASSUME NEW e \in Calls, InsertStep(e) PROVE Kept
  BY <1>0, <1>1, <1>3, InsertEffect DEF NoOrder
<1>4. ASSUME NEW e \in Calls, NEW rate \in Rates, GrantStep(e, rate) PROVE Kept
  BY <1>0, <1>1, <1>4, GrantEffect
<1>5. ASSUME NEW job \in VerifyJob, DeliverStep(job) PROVE Kept
  <2>1. CASE c # job.order
    BY <1>1, <1>5, <2>1, DeliverEffect
  <2>2. CASE c = job.order
    <3>1. order'[c] = [order[c] EXCEPT !.status = "delivered", !.deploy = job.deploy]
      BY <1>5, <2>2 DEF DeliverStep, Claim, IInv, TypeOK
    <3>2. order[c].status = "pending_payment"
      BY <1>5, <2>2, DeliverEffect
    <3> QED BY <1>0, <3>1, <3>2 DEF OrderRow
  <2> QED BY <2>1, <2>2
<1>6. ASSUME NEW S \in SUBSET Calls, ExpireStep(S) PROVE Kept
  <2>1. CASE c \notin S
    BY <1>1, <1>6, <2>1, ExpireEffect
  <2>2. CASE c \in S
    <3>1. order'[c] = [order[c] EXCEPT !.status = "expired"]
      BY <1>6, <2>2 DEF ExpireStep
    <3>2. order[c].status = "pending_payment"
      BY <1>6, <2>2, ExpireEffect
    <3> QED BY <1>0, <3>1, <3>2 DEF OrderRow
  <2> QED BY <2>1, <2>2
<1>7. ASSUME NEW A \in SUBSET Calls, NEW O \in SUBSET Calls,
             NEW status \in {"rejected", "expired"}, RefuseStep(A, O, status)
      PROVE  Kept
  <2>1. RefusedRow(c, A, O, status)
    BY <1>7, RefuseEffect
  <2>2. order'[c] = order[c]
    BY <1>0, <2>1 DEF RefusedRow
  <2> QED BY <1>1, <2>2
<1> QED BY <1>0, <1>2, <1>3, <1>4, <1>5, <1>6, <1>7 DEF StepKind

(* The chain keeps what it executed.                                       *)
LEMMA ChainKept ==
  ASSUME TypeOK, [Next]_vars, NEW d \in Deploys, chain[d].good
  PROVE  chain'[d] = chain[d]
<1>1. CASE UNCHANGED chain
  BY <1>1
<1>2. ASSUME NEW e \in Deploys, NEW c \in Calls, NEW s \in Payers,
             NEW good \in BOOLEAN, NEW paid \in {order[c].due - 1, order[c].due},
             Pay(e, c, s, paid, good)
      PROVE  chain'[d] = chain[d]
  <2>1. chain[e] = Unseen
    BY <1>2 DEF Pay
  <2>2. e # d
    BY <2>1 DEF Unseen
  <2> QED BY <1>2, <2>2 DEF Pay, TypeOK
<1>3. ASSUME AgentStep PROVE chain'[d] = chain[d]
  BY <1>1, <1>2, <1>3 DEF AgentStep, CreateBegin, CreateCommit, VerifyTooLate, VerifyBegin,
              VerifyClaim, VerifyRefused, world
<1>4. ASSUME OwnerStep PROVE chain'[d] = chain[d]
  BY <1>1, <1>4 DEF OwnerStep, ApproveBegin, ApproveCommit, ApproveRolledBack,
              ApproveMockUsdc, Reject, Suspend, Unsuspend, DeleteKey, UpdateKey, world
<1>5. ASSUME JobStep PROVE chain'[d] = chain[d]
  BY <1>1, <1>5 DEF JobStep, ExpireStaleOrders, ExpireApprovalRequests, PruneIdempotencyKeys, world
<1>6. ASSUME CrashStep PROVE chain'[d] = chain[d]
  BY <1>1, <1>6 DEF CrashStep, Crash, CrashInClaim, CrashInReject, CrashInSuspend,
              CrashInExpireApprovals, world
<1>7. ASSUME Tick \/ UNCHANGED vars PROVE chain'[d] = chain[d]
  BY <1>1, <1>7 DEF Tick, vars, world
<1> QED BY <1>3, <1>4, <1>5, <1>6, <1>7 DEF Next

(* A request to verify is begun, goes on or ends.                          *)
LEMMA VerifyKept ==
  ASSUME TypeOK, [Next]_vars, NEW v \in Verifiers
  PROVE  \/ verify'[v] \in {None, verify[v]}
         \/ \E c \in Calls, d \in Deploys, s \in Payers \union {None} : VerifyBegin(v, c, d, s)
<1> DEFINE Same == verify'[v] \in {None, verify[v]}
<1>1. CASE UNCHANGED verify
  BY <1>1
<1>2. ASSUME NEW w \in Verifiers, NEW c \in Calls, NEW d \in Deploys,
             NEW s \in Payers \union {None}, VerifyBegin(w, c, d, s)
      PROVE  Same \/ VerifyBegin(v, c, d, s)
  BY <1>2 DEF VerifyBegin, TypeOK
<1>3. ASSUME NEW w \in Verifiers, VerifyClaim(w) \/ VerifyRefused(w) PROVE Same
  BY <1>3 DEF VerifyClaim, VerifyRefused, TypeOK
<1>4. ASSUME LoseRequests PROVE Same
  BY <1>4 DEF LoseRequests
<1>5. ASSUME NEW c \in Calls, CreateBegin(c) \/ CreateCommit(c) \/ VerifyTooLate(c) PROVE Same
  BY <1>1, <1>5 DEF CreateBegin, CreateCommit, VerifyTooLate, inflight
<1>6. ASSUME NEW d \in Deploys, NEW c \in Calls, NEW s \in Payers, NEW good \in BOOLEAN,
             NEW paid \in {order[c].due - 1, order[c].due}, Pay(d, c, s, paid, good)
      PROVE  Same
  BY <1>1, <1>6 DEF Pay, inflight
<1>7. ASSUME OwnerStep PROVE Same
  BY <1>1, <1>7 DEF OwnerStep, ApproveBegin, ApproveCommit, ApproveRolledBack,
              ApproveMockUsdc, Reject, Suspend, Unsuspend, DeleteKey, UpdateKey, inflight
<1>8. ASSUME JobStep PROVE Same
  BY <1>1, <1>8 DEF JobStep, ExpireStaleOrders, ExpireApprovalRequests, PruneIdempotencyKeys,
                    inflight
<1>9. ASSUME CrashStep PROVE Same
  BY <1>4, <1>9 DEF CrashStep, Crash, CrashInClaim, CrashInReject, CrashInSuspend,
              CrashInExpireApprovals
<1>10. ASSUME Tick \/ UNCHANGED vars PROVE Same
  BY <1>1, <1>10 DEF Tick, vars, inflight
<1> QED BY <1>2, <1>3, <1>5, <1>6, <1>7, <1>8, <1>9, <1>10 DEF Next, AgentStep

(* A live order is delivered by a claim that its transfer proved.          *)
LEMMA DeliveredByClaim ==
  ASSUME IInv, [Next]_vars, NEW c \in Calls, Delivered(c)', ~Delivered(c), Live(c)
  PROVE  \E v \in Verifiers :
           /\ verify[v] # None /\ verify[v] \in VerifyJob /\ verify[v].order = c
           /\ Proves(chain[verify[v].deploy], verify[v])
           /\ order'[c].deploy = verify[v].deploy
<1>0. /\ StepKind /\ order'[c].status = "delivered" /\ order[c].status # "delivered"
      /\ KeyOf(c) \notin Sandbox
  BY StepKinds DEF IInv, Delivered, Live
<1>1. ~QuietStep
  BY <1>0 DEF QuietStep
<1>2. ASSUME NEW e \in Calls, InsertStep(e) PROVE FALSE
  BY <1>0, <1>2, InsertEffect
<1>3. ASSUME NEW e \in Calls, NEW rate \in Rates, GrantStep(e, rate) PROVE FALSE
  BY <1>0, <1>3, GrantEffect
<1>4. ASSUME NEW S \in SUBSET Calls, ExpireStep(S) PROVE FALSE
  BY <1>0, <1>4, ExpireEffect
<1>5. ASSUME NEW A \in SUBSET Calls, NEW O \in SUBSET Calls,
             NEW status \in {"rejected", "expired"}, RefuseStep(A, O, status)
      PROVE  FALSE
  <2>1. RefusedRow(c, A, O, status)
    BY <1>5, RefuseEffect
  <2> QED BY <1>0, <2>1 DEF RefusedRow
<1>6. PICK job \in VerifyJob : DeliverStep(job)
  BY <1>0, <1>1, <1>2, <1>3, <1>4, <1>5 DEF StepKind
<1>7. c = job.order /\ order'[c].deploy = job.deploy
  BY <1>0, <1>6, DeliverEffect
<1> QED BY <1>6, <1>7 DEF DeliverStep

LEMMA PaidStep ==
  ASSUME IInv, JobsFit, DeliveredIsPaid, [Next]_vars
  PROVE  JobsFit' /\ DeliveredIsPaid'
<1>1. request' = request
  BY RequestsFixed
<1>2. ASSUME NEW v \in Verifiers, verify'[v] # None
      PROVE  Fits(verify'[v], order'[verify'[v].order], request[verify'[v].order].payer)
  <2>1. CASE verify'[v] \in {None, verify[v]}
    <3>1. /\ verify'[v] = verify[v] /\ verify[v] \in VerifyJob
          /\ Fits(verify[v], order[verify[v].order], request[verify[v].order].payer)
      BY <1>2, <2>1 DEF JobsFit, IInv, TypeOK
    <3>2. PICK c \in Calls : c = verify[v].order
      BY <3>1 DEF VerifyJob
    <3>3. Quoted(c) /\ Fits(verify[v], order[c], request[c].payer)
      BY <3>1, <3>2 DEF Fits, Quoted
    <3>4. Quoted(c)' /\ order'[c].due = order[c].due /\ order'[c].tid = order[c].tid
      BY <3>3, QuotedKept
    <3>5. order'[c].status \in {"pending_payment", "delivered", "expired"}
      BY <3>4 DEF Quoted
    <3>6. Fits(verify[v], order'[c], request[c].payer)
      BY <3>3, <3>4, <3>5 DEF Fits
    <3> QED BY <3>1, <3>2, <3>6
  <2>2. ASSUME NEW c \in Calls, NEW d \in Deploys, NEW s \in Payers \union {None},
               VerifyBegin(v, c, d, s)
        PROVE  Fits(verify'[v], order'[verify'[v].order], request[verify'[v].order].payer)
    <3>1. /\ verify'[v].order = c /\ verify'[v].due = order[c].due
          /\ verify'[v].tid = order[c].tid
          /\ request[c].payer # None => verify'[v].sender = request[c].payer
          /\ order' = order /\ order[c].status = "pending_payment"
      BY <2>2 DEF VerifyBegin, Pending, tables, IInv, TypeOK
    <3> QED BY <3>1 DEF Fits
  <2> QED BY <2>1, <2>2, VerifyKept DEF IInv
<1>3. ASSUME NEW c \in Calls, Delivered(c)', Live(c)
      PROVE  /\ order'[c].deploy \in Deploys
             /\ chain'[order'[c].deploy].good
             /\ chain'[order'[c].deploy].kind = request[c].asset
             /\ chain'[order'[c].deploy].paid >= order'[c].due
             /\ chain'[order'[c].deploy].kind = "cspr_casper"
                  => chain'[order'[c].deploy].tid = order'[c].tid
             /\ request[c].payer # None
                  => chain'[order'[c].deploy].sender = request[c].payer
  <2>1. CASE Delivered(c)
    <3>1. Quoted(c)
      BY <2>1 DEF Quoted, Delivered
    <3>2. order'[c] = order[c]
      BY <2>1, <3>1, QuotedKept
    <3> DEFINE t == chain[order[c].deploy]
    <3>3. /\ order[c].deploy \in Deploys /\ t.good /\ t.kind = request[c].asset
          /\ t.paid >= order[c].due
          /\ t.kind = "cspr_casper" => t.tid = order[c].tid
          /\ request[c].payer # None => t.sender = request[c].payer
      BY <1>3, <2>1 DEF DeliveredIsPaid
    <3>4. chain'[order[c].deploy] = t
      BY <3>3, ChainKept DEF IInv
    <3> QED BY <3>2, <3>3, <3>4
  <2>2. CASE ~Delivered(c)
    <3>1. PICK v \in Verifiers :
            /\ verify[v] # None /\ verify[v] \in VerifyJob /\ verify[v].order = c
            /\ Proves(chain[verify[v].deploy], verify[v])
            /\ order'[c].deploy = verify[v].deploy
      BY <1>3, <2>2, DeliveredByClaim
    <3> DEFINE job == verify[v]
               t == chain[job.deploy]
    <3>2. /\ job.deploy \in Deploys /\ job.order = c /\ order'[c].deploy = job.deploy
          /\ t.good /\ t.kind = request[c].asset /\ t.paid >= job.due
          /\ t.kind = "cspr_casper" => t.tid = job.tid
          /\ job.sender # None => t.sender = job.sender
      BY <3>1 DEF Proves, VerifyJob
    <3>3. /\ Quoted(c) /\ job.due = order[c].due /\ job.tid = order[c].tid
          /\ request[c].payer # None => job.sender = request[c].payer
      BY <3>1 DEF JobsFit, Fits, Quoted
    <3>4. order'[c].due = order[c].due /\ order'[c].tid = order[c].tid
      BY <3>3, QuotedKept
    <3>5. chain'[job.deploy] = t
      BY <3>2, ChainKept DEF IInv
    <3> HIDE DEF job, t
    <3> QED BY <3>2, <3>3, <3>4, <3>5
  <2> QED BY <2>1, <2>2
<1>4. JobsFit'
  BY <1>1, <1>2 DEF JobsFit, Fits
<1>5. \A c \in Calls : Live(c)' = Live(c)
  BY <1>1 DEF Live, KeyOf
<1>6. DeliveredIsPaid'
  BY <1>1, <1>3, <1>5 DEF DeliveredIsPaid
<1> QED BY <1>4, <1>6

(* A live order is delivered only against a transfer that executed, went   *)
(* to the treasury, covers what was quoted and is the order's own,         *)
(* whatever happened while the node was asked (verify-payment).            *)
THEOREM DeliveredWasPaid == Spec => []DeliveredIsPaid
<1>1. Init => JobsFit /\ DeliveredIsPaid
  BY DEF Init, JobsFit, DeliveredIsPaid, Delivered, NoOrder
<1>2. IInv /\ JobsFit /\ DeliveredIsPaid /\ [Next]_vars => JobsFit' /\ DeliveredIsPaid'
  BY PaidStep
<1> QED BY <1>1, <1>2, Invariant, PTL DEF Spec

-----------------------------------------------------------------------------
(* A retry under one Idempotency-Key.                                      *)

(* An order once inserted keeps the time it was inserted at.               *)
LEMMA InsertedOnce ==
  ASSUME IInv, [Next]_vars, NEW c \in Calls
  PROVE  /\ order[c].status # "none" => /\ order'[c].status # "none"
                                        /\ order'[c].at = order[c].at
         /\ order[c].status = "none" /\ order'[c].status # "none" => InsertStep(c)
<1> DEFINE Goal == /\ order[c].status # "none" => /\ order'[c].status # "none"
                                                  /\ order'[c].at = order[c].at
                   /\ order[c].status = "none" /\ order'[c].status # "none" => InsertStep(c)
<1> SUFFICES Goal
  OBVIOUS
<1>0. StepKind /\ order[c] \in OrderRow
  BY StepKinds DEF IInv, TypeOK
<1>1. ASSUME order'[c] = order[c] PROVE Goal
  BY <1>1
<1>2. CASE QuietStep
  BY <1>1, <1>2 DEF QuietStep
<1>3. ASSUME NEW e \in Calls, InsertStep(e) PROVE Goal
  BY <1>1, <1>3, InsertEffect DEF NoOrder
<1>4. ASSUME NEW e \in Calls, NEW rate \in Rates, GrantStep(e, rate) PROVE Goal
  <2>1. CASE c # e
    BY <1>1, <1>4, <2>1, GrantEffect
  <2>2. CASE c = e
    <3>1. order'[c] = Instructed(order[c], c, rate)
      BY <1>4, <2>2 DEF GrantStep, ApproveTxn, IInv, TypeOK
    <3>2. order'[c].at = order[c].at
      BY <1>0, <3>1 DEF Instructed, OrderRow
    <3> QED BY <1>4, <2>2, <3>2, GrantEffect
  <2> QED BY <2>1, <2>2
<1>5. ASSUME NEW job \in VerifyJob, DeliverStep(job) PROVE Goal
  <2>1. CASE c # job.order
    BY <1>1, <1>5, <2>1, DeliverEffect
  <2>2. CASE c = job.order
    <3>1. order'[c] = [order[c] EXCEPT !.status = "delivered", !.deploy = job.deploy]
      BY <1>5, <2>2 DEF DeliverStep, Claim, IInv, TypeOK
    <3> QED BY <1>0, <1>5, <2>2, <3>1, DeliverEffect DEF OrderRow
  <2> QED BY <2>1, <2>2
<1>6. ASSUME NEW S \in SUBSET Calls, ExpireStep(S) PROVE Goal
  <2>1. CASE c \notin S
    BY <1>1, <1>6, <2>1, ExpireEffect
  <2>2. CASE c \in S
    <3>1. order'[c] = [order[c] EXCEPT !.status = "expired"]
      BY <1>6, <2>2 DEF ExpireStep
    <3> QED BY <1>0, <1>6, <2>2, <3>1, ExpireEffect DEF OrderRow
  <2> QED BY <2>1, <2>2
<1>7. ASSUME NEW A \in SUBSET Calls, NEW O \in SUBSET Calls,
             NEW status \in {"rejected", "expired"}, RefuseStep(A, O, status)
      PROVE  Goal
  <2>1. RefusedRow(c, A, O, status)
    BY <1>7, RefuseEffect
  <2>2. CASE c \notin O
    BY <1>1, <2>1, <2>2 DEF RefusedRow
  <2>3. CASE c \in O
    <3>1. order'[c] = [order[c] EXCEPT !.status = "rejected"]
      BY <1>7, <2>3 DEF RefuseStep, Decide
    <3> QED BY <1>0, <2>1, <2>3, <3>1 DEF OrderRow, RefusedRow
  <2> QED BY <2>2, <2>3
<1> QED BY <1>0, <1>2, <1>3, <1>4, <1>5, <1>6, <1>7 DEF StepKind

(* An insertion found no row that remembers its key, and leaves one.       *)
LEMMA InsertRemembers ==
  ASSUME IInv, NEW c \in Calls, InsertStep(c)
  PROVE  order'[c].at = clock /\ ~Remembered(c) /\ idem' = Remember(c)
<1>1. order[c] = NoOrder /\ order \in [Calls -> OrderRow] /\ clock \in Nat
  BY InsertEffect DEF IInv, TypeOK
<1>2. CASE CreateAwaitingApproval(c)
  BY <1>1, <1>2 DEF CreateAwaitingApproval, Fresh, OrderRow
<1>3. CASE CreateSandbox(c)
  BY <1>1, <1>3 DEF CreateSandbox, Fresh, OrderRow
<1>4. ASSUME NEW rate \in Rates, CreatePendingPayment(c, rate), Payable(c, rate)
      PROVE  order'[c].at = clock /\ ~Remembered(c) /\ idem' = Remember(c)
  <2>1. order'[c] = Instructed([NoOrder EXCEPT !.at = clock], c, rate)
    BY <1>1, <1>4 DEF CreatePendingPayment
  <2>2. order'[c].at = clock
    BY <2>1 DEF Instructed, NoOrder
  <2> QED BY <1>4, <2>2 DEF CreatePendingPayment, Fresh
<1> QED BY <1>2, <1>3, <1>4 DEF InsertStep

(* A row is forgotten only when it is older than its retention.            *)
LEMMA RowsKept ==
  ASSUME TypeOK, [Next]_vars
  PROVE  /\ clock' >= clock
         /\ \A r \in idem : r \in idem' \/ r.at + IdemTTL < clock
<1> DEFINE Kept == /\ clock' >= clock
                   /\ \A r \in idem : r \in idem' \/ r.at + IdemTTL < clock
<1>0. clock \in Nat /\ IdemTTL \in Nat /\ \A r \in idem : r.at \in Nat
  BY TimesTyped DEF TypeOK, IdemRow
<1>1. ASSUME clock' = clock, idem \subseteq idem' PROVE Kept
  BY <1>0, <1>1
<1>2. ASSUME NEW c \in Calls, CreateCommit(c) PROVE Kept
  <2>1. clock' = clock
    BY <1>2 DEF CreateCommit, world
  <2>2. idem \subseteq idem'
    BY <1>2 DEF CreateCommit, CreateAnswered, CreateAwaitingApproval, CreateSandbox,
                CreatePendingPayment, Remember, tables
  <2> QED BY <1>1, <2>1, <2>2
<1>3. ASSUME NEW c \in Calls, CreateBegin(c) \/ VerifyTooLate(c) PROVE Kept
  BY <1>1, <1>3 DEF CreateBegin, VerifyTooLate, tables, world
<1>4. ASSUME NEW v \in Verifiers, NEW c \in Calls, NEW d \in Deploys,
             NEW s \in Payers \union {None}, VerifyBegin(v, c, d, s)
      PROVE  Kept
  BY <1>1, <1>4 DEF VerifyBegin, tables, world
<1>5. ASSUME NEW v \in Verifiers, VerifyClaim(v) \/ VerifyRefused(v) PROVE Kept
  BY <1>1, <1>5 DEF VerifyClaim, VerifyRefused, tables, world
<1>6. ASSUME NEW d \in Deploys, NEW c \in Calls, NEW s \in Payers, NEW good \in BOOLEAN,
             NEW paid \in {order[c].due - 1, order[c].due}, Pay(d, c, s, paid, good)
      PROVE  Kept
  BY <1>1, <1>6 DEF Pay, tables
<1>7. ASSUME OwnerStep PROVE Kept
  BY <1>1, <1>7 DEF OwnerStep, ApproveBegin, ApproveCommit, ApproveRolledBack, ApproveTxn,
              ApproveMockUsdc, Reject, Suspend, Unsuspend, DeleteKey, UpdateKey, tables, world
<1>8. CASE ExpireStaleOrders \/ ExpireApprovalRequests
  BY <1>1, <1>8 DEF ExpireStaleOrders, ExpireApprovalRequests, world
<1>9. CASE PruneIdempotencyKeys
  <2>1. \A r \in idem : r \in idem' \/ ~(r.at + IdemTTL >= clock)
    BY <1>9 DEF PruneIdempotencyKeys
  <2> QED BY <1>0, <1>9, <2>1 DEF PruneIdempotencyKeys, world
<1>10. ASSUME CrashStep PROVE Kept
  BY <1>1, <1>10 DEF CrashStep, Crash, CrashInClaim, CrashInReject, CrashInSuspend,
              CrashInExpireApprovals, tables, world
<1>11. CASE Tick
  BY <1>0, <1>11 DEF Tick, tables
<1>12. CASE UNCHANGED vars
  BY <1>1, <1>12 DEF vars, tables, world
<1> QED BY <1>2, <1>3, <1>4, <1>5, <1>6, <1>7, <1>8, <1>9, <1>10, <1>11, <1>12
        DEF Next, AgentStep, JobStep

(* An order with an Idempotency-Key is remembered, or too old to be.       *)
RememberedOrOld ==
    \A c \in Calls : order[c].status # "none" /\ request[c].idem # None =>
        \/ \E r \in idem : /\ r.key = KeyOf(c) /\ r.idem = request[c].idem
                           /\ r.at = order[c].at
        \/ order[c].at + IdemTTL < clock

LEMMA IdemStep ==
  ASSUME IInv, RememberedOrOld, OneOrderPerIdempotencyKey, [Next]_vars
  PROVE  RememberedOrOld' /\ OneOrderPerIdempotencyKey'
<1>1. /\ request' = request /\ clock \in Nat /\ clock' \in Nat /\ IdemTTL \in Nat
      /\ \A c \in Calls : order[c].at \in Nat /\ order'[c].at \in Nat
  BY RequestsFixed, TimesTyped, TypeStep DEF IInv, TypeOK, OrderRow
<1>2. clock' >= clock /\ \A r \in idem : r \in idem' \/ r.at + IdemTTL < clock
  BY RowsKept DEF IInv
<1>3. ASSUME NEW c \in Calls, order'[c].status # "none", request[c].idem # None
      PROVE  \/ \E r \in idem' : /\ r.key = KeyOf(c) /\ r.idem = request[c].idem
                                 /\ r.at = order'[c].at
             \/ order'[c].at + IdemTTL < clock'
  <2>1. CASE order[c].status # "none"
    <3>1. order'[c].at = order[c].at
      BY <2>1, InsertedOnce
    <3>2. CASE order[c].at + IdemTTL < clock
      BY <1>1, <1>2, <3>1, <3>2
    <3>3. ASSUME NEW r \in idem, r.key = KeyOf(c), r.idem = request[c].idem, r.at = order[c].at
          PROVE  \/ r \in idem'
                 \/ order'[c].at + IdemTTL < clock'
      BY <1>1, <1>2, <3>1, <3>3
    <3> QED BY <1>3, <2>1, <3>1, <3>2, <3>3 DEF RememberedOrOld
  <2>2. CASE order[c].status = "none"
    <3>1. order'[c].at = clock /\ idem' = Remember(c)
      BY <1>3, <2>2, InsertedOnce, InsertRemembers
    <3> DEFINE r == [key |-> KeyOf(c), idem |-> request[c].idem, owner |-> c, at |-> clock]
    <3>2. r \in idem'
      BY <1>3, <3>1 DEF Remember
    <3>3. r.key = KeyOf(c) /\ r.idem = request[c].idem /\ r.at = order'[c].at
      BY <3>1
    <3> HIDE DEF r
    <3> QED BY <3>2, <3>3
  <2> QED BY <2>1, <2>2
<1>4. RememberedOrOld'
  BY <1>1, <1>3 DEF RememberedOrOld, KeyOf
(* Of two orders under one key the earlier one is too old when the later   *)
(* is inserted.                                                            *)
<1>5. ASSUME NEW c \in Calls, NEW d \in Calls, c # d,
             order[c].status = "none", order'[c].status # "none", order'[d].status # "none",
             KeyOf(c) = KeyOf(d), request[c].idem # None, request[c].idem = request[d].idem
      PROVE  order'[d].at + IdemTTL < order'[c].at
  <2>1. InsertStep(c)
    BY <1>5, InsertedOnce
  <2>2. order'[c].at = clock /\ ~Remembered(c)
    BY <2>1, InsertRemembers
  <2>3. order'[d] = order[d] /\ order[d].status # "none"
    BY <1>5, <2>1, InsertEffect
  <2>4. ~ \E r \in idem : r.key = KeyOf(d) /\ r.idem = request[d].idem
    BY <1>5, <2>2 DEF Remembered
  <2>5. order[d].at + IdemTTL < clock
    BY <1>5, <2>3, <2>4 DEF RememberedOrOld
  <2> QED BY <2>2, <2>3, <2>5
<1>6. ASSUME NEW c \in Calls, NEW d \in Calls, c # d,
             order'[c].status # "none", order'[d].status # "none",
             KeyOf(c) = KeyOf(d), request[c].idem # None, request[c].idem = request[d].idem
      PROVE  order'[c].at + IdemTTL < order'[d].at \/ order'[d].at + IdemTTL < order'[c].at
  <2>1. CASE order[c].status # "none" /\ order[d].status # "none"
    <3>1. order'[c].at = order[c].at /\ order'[d].at = order[d].at
      BY <2>1, InsertedOnce
    <3> QED BY <1>6, <2>1, <3>1 DEF OneOrderPerIdempotencyKey
  <2>2. CASE order[c].status = "none"
    BY <1>5, <1>6, <2>2
  <2>3. CASE order[d].status = "none"
    BY <1>5, <1>6, <2>3
  <2> QED BY <2>1, <2>2, <2>3
<1>7. OneOrderPerIdempotencyKey'
  BY <1>1, <1>6 DEF OneOrderPerIdempotencyKey, KeyOf
<1> QED BY <1>4, <1>7

(* A retry under one Idempotency-Key buys nothing while the key is kept,   *)
(* however the requests interleave (POST /v1/orders).                      *)
THEOREM RetriesBuyOnce == Spec => []OneOrderPerIdempotencyKey
<1>1. Init => RememberedOrOld /\ OneOrderPerIdempotencyKey
  BY DEF Init, RememberedOrOld, OneOrderPerIdempotencyKey, NoOrder
<1>2. IInv /\ RememberedOrOld /\ OneOrderPerIdempotencyKey /\ [Next]_vars
        => RememberedOrOld' /\ OneOrderPerIdempotencyKey'
  BY IdemStep
<1> QED BY <1>1, <1>2, Invariant, PTL DEF Spec

-----------------------------------------------------------------------------
(* The owner's word: suspension and the approval threshold.                *)

(* What the policy lets through is of a live key that is not suspended,    *)
(* and is approved at once only up to the threshold.                       *)
LEMMA DecisionMeans ==
  ASSUME TypeOK, NEW c \in Calls
  PROVE  /\ Decision(c) \in {"approved", "pending_approval"} => ~key[KeyOf(c)].suspended
         /\ Decision(c) = "approved" => ~AboveThreshold(key[KeyOf(c)].policy, Amount(c))
<1>1. key[KeyOf(c)].suspended \in BOOLEAN
  BY RequestTyped DEF TypeOK, KeyRow
<1> DEFINE row == key[KeyOf(c)]
           spent == SpentOn(KeyOf(c), Date(clock))
           minute == clock % DayMinutes
           day == Date(clock) % WeekDays
<1>2. Decision(c) = IF row.deleted THEN "blocked"
                    ELSE CheckPolicy(row.policy, row.suspended, Amount(c), spent, minute, day)
  BY DEF Decision
<1>3. CheckPolicy(row.policy, row.suspended, Amount(c), spent, minute, day) =
        IF Broken(row.policy, row.suspended, Amount(c), spent, minute, day) THEN "blocked"
        ELSE IF AboveThreshold(row.policy, Amount(c)) THEN "pending_approval" ELSE "approved"
  BY <1>1, VerdictOf
<1>4. row.suspended => Broken(row.policy, row.suspended, Amount(c), spent, minute, day)
  BY DEF Broken
<1> HIDE DEF row, spent, minute, day
<1>5. /\ Decision(c) \in {"approved", "pending_approval"} => ~row.suspended
      /\ Decision(c) = "approved" => ~AboveThreshold(row.policy, Amount(c))
  BY <1>2, <1>3, <1>4
<1> QED BY <1>5 DEF row

(* The steps that suspend a key or ask an owner; all others do neither.    *)
QuietForOwner ==
    /\ \A k \in Keys : key'[k].suspended => key[k].suspended
    /\ \A c \in Calls : approval'[c].status = "pending" => approval[c].status = "pending"
    /\ undecided \subseteq undecided'

LEMMA RefusalsAsk ==
  ASSUME NEW A, NEW O, NEW status \in {"rejected", "expired"}, Decide(A, O, status), TypeOK,
         NEW c \in Calls
  PROVE  approval'[c].status = "pending" => approval[c].status = "pending" /\ c \notin A
<1>1. approval'[c] = IF c \in A THEN [approval[c] EXCEPT !.status = status] ELSE approval[c]
  BY DEF Decide
<1> QED BY <1>1 DEF TypeOK, ApprovalRow

LEMMA OwnerSteps ==
  ASSUME TypeOK, [Next]_vars
  PROVE  \/ QuietForOwner
         \/ \E c \in Calls : CreateCommit(c) /\ CreateAwaitingApproval(c)
         \/ \E k \in Keys : Suspend(k) \/ CrashInSuspend(k)
<1>1. ASSUME UNCHANGED <<key, approval>>, undecided \subseteq undecided' PROVE QuietForOwner
  BY <1>1 DEF QuietForOwner
<1>2. ASSUME NEW A, NEW O, NEW status \in {"rejected", "expired"}, Decide(A, O, status),
             UNCHANGED key, undecided \subseteq undecided'
      PROVE  QuietForOwner
  BY <1>2, RefusalsAsk DEF QuietForOwner
<1>3. ASSUME NEW c \in Calls, CreateCommit(c), ~CreateAwaitingApproval(c) PROVE QuietForOwner
  BY <1>1, <1>3 DEF CreateCommit, CreateAnswered, CreateSandbox, CreatePendingPayment, tables, cuts
<1>4. ASSUME NEW c \in Calls, CreateBegin(c) \/ VerifyTooLate(c) PROVE QuietForOwner
  BY <1>1, <1>4 DEF CreateBegin, VerifyTooLate, tables, cuts
<1>5. ASSUME NEW v \in Verifiers, NEW c \in Calls, NEW d \in Deploys,
             NEW s \in Payers \union {None}, VerifyBegin(v, c, d, s)
      PROVE  QuietForOwner
  BY <1>1, <1>5 DEF VerifyBegin, tables, cuts
<1>6. ASSUME NEW v \in Verifiers, VerifyClaim(v) PROVE QuietForOwner
  <2> DEFINE k == KeyOf(verify[v].order)
  <2>1. key' = [key EXCEPT ![k].settled = Credited(key[k], verify[v].order)]
    BY <1>6 DEF VerifyClaim
  <2>2. \A j \in Keys : key'[j].suspended = key[j].suspended
    BY <2>1 DEF TypeOK, KeyRow
  <2> QED BY <1>6, <2>2 DEF QuietForOwner, VerifyClaim, cuts
<1>7. ASSUME NEW v \in Verifiers, VerifyRefused(v) PROVE QuietForOwner
  BY <1>1, <1>7 DEF VerifyRefused, tables, cuts
<1>8. ASSUME NEW d \in Deploys, NEW c \in Calls, NEW s \in Payers, NEW good \in BOOLEAN,
             NEW paid \in {order[c].due - 1, order[c].due}, Pay(d, c, s, paid, good)
      PROVE  QuietForOwner
  BY <1>1, <1>8 DEF Pay, tables, cuts
<1>9. ASSUME NEW c \in Calls, NEW rate \in Rates, ApproveTxn(c, rate), UNCHANGED <<key, cuts>>
      PROVE  QuietForOwner
  BY <1>9 DEF ApproveTxn, QuietForOwner, cuts, TypeOK, ApprovalRow
<1>10. ASSUME NEW p \in Operators, NEW c \in Calls, ApproveBegin(p, c) PROVE QuietForOwner
  BY <1>1, <1>10 DEF ApproveBegin, tables, cuts
<1>11. ASSUME NEW p \in Operators, ApproveRolledBack(p) PROVE QuietForOwner
  BY <1>1, <1>11 DEF ApproveRolledBack, tables, cuts
<1>12. ASSUME NEW p \in Operators, ApproveCommit(p) PROVE QuietForOwner
  <2>1. PICK rate \in Rates : ApproveTxn(decide[p], rate)
    BY <1>12 DEF ApproveCommit
  <2>2. decide[p] \in Calls
    BY <1>12 DEF ApproveCommit, TypeOK
  <2> QED BY <1>9, <1>12, <2>1, <2>2 DEF ApproveCommit
<1>13. ASSUME NEW c \in Calls, ApproveMockUsdc(c) PROVE QuietForOwner
  BY <1>9, <1>13 DEF ApproveMockUsdc
<1>14. ASSUME NEW c \in Calls, Reject(c) PROVE QuietForOwner
  BY <1>2, <1>14 DEF Reject, cuts
<1>15. ASSUME NEW k \in Keys, Unsuspend(k) \/ DeleteKey(k) PROVE QuietForOwner
  BY <1>15 DEF Unsuspend, DeleteKey, QuietForOwner, tables, cuts, TypeOK, KeyRow
<1>16. ASSUME NEW k \in Keys, NEW limit \in Limits, NEW policy \in Policies,
              UpdateKey(k, limit, policy)
       PROVE  QuietForOwner
  BY <1>16 DEF UpdateKey, QuietForOwner, tables, cuts, TypeOK, KeyRow
<1>17. CASE ExpireStaleOrders \/ PruneIdempotencyKeys
  BY <1>1, <1>17 DEF ExpireStaleOrders, PruneIdempotencyKeys, cuts
<1>18. CASE ExpireApprovalRequests
  BY <1>2, <1>18 DEF ExpireApprovalRequests, cuts
<1>19. CASE Crash
  BY <1>1, <1>19 DEF Crash, tables, cuts
<1>20. ASSUME NEW v \in Verifiers, CrashInClaim(v) PROVE QuietForOwner
  BY <1>1, <1>20 DEF CrashInClaim
<1>21. ASSUME NEW c \in Calls, CrashInReject(c) PROVE QuietForOwner
  BY <1>2, <1>21 DEF CrashInReject
<1>22. CASE CrashInExpireApprovals
  BY <1>2, <1>22 DEF CrashInExpireApprovals
<1>23. CASE Tick \/ UNCHANGED vars
  BY <1>1, <1>23 DEF Tick, vars, tables, cuts
<1> QED BY <1>3, <1>4, <1>5, <1>6, <1>7, <1>8, <1>10, <1>11, <1>12, <1>13, <1>14, <1>15, <1>16,
           <1>17, <1>18, <1>19, <1>20, <1>21, <1>22, <1>23
        DEF Next, AgentStep, OwnerStep, JobStep, CrashStep

LEMMA SuspendedStep ==
  ASSUME IInv, SuspendedKeyWaitsForNothing, [Next]_vars
  PROVE  SuspendedKeyWaitsForNothing'
<1> SUFFICES ASSUME NEW c \in Calls, c \notin undecided', key'[KeyOf(c)].suspended,
                    approval'[c].status = "pending"
             PROVE  FALSE
  BY RequestsFixed DEF SuspendedKeyWaitsForNothing, KeyOf
<1>1. TypeOK /\ KeyOf(c) \in Keys
  BY RequestTyped DEF IInv
<1>2. CASE QuietForOwner
  BY <1>1, <1>2 DEF QuietForOwner, SuspendedKeyWaitsForNothing
<1>3. ASSUME NEW e \in Calls, CreateCommit(e), CreateAwaitingApproval(e) PROVE FALSE
  <2>1. UNCHANGED <<key, undecided>>
    BY <1>3 DEF CreateCommit, cuts
  <2>2. CASE c = e
    BY <1>1, <1>3, <2>1, <2>2, DecisionMeans DEF CreateAwaitingApproval
  <2>3. CASE c # e
    <3>1. approval'[c] = approval[c]
      BY <1>1, <1>3, <2>3 DEF CreateAwaitingApproval, TypeOK
    <3> QED BY <2>1, <3>1 DEF SuspendedKeyWaitsForNothing
  <2> QED BY <2>2, <2>3
<1>4. ASSUME NEW k \in Keys, Suspend(k) PROVE FALSE
  <2>1. Decide(Waiting(k), Waiting(k), "rejected") /\ UNCHANGED undecided
        /\ key' = [key EXCEPT ![k].suspended = TRUE]
    BY <1>4 DEF Suspend, SuspendKey, cuts
  <2>2. approval[c].status = "pending" /\ c \notin Waiting(k)
    BY <1>1, <2>1, RefusalsAsk
  <2>3. KeyOf(c) # k
    BY <2>2 DEF Waiting, OrdersOf
  <2>4. key[KeyOf(c)].suspended
    BY <1>1, <2>1, <2>3 DEF TypeOK
  <2> QED BY <2>1, <2>2, <2>4 DEF SuspendedKeyWaitsForNothing
<1>5. ASSUME NEW k \in Keys, CrashInSuspend(k) PROVE FALSE
  <2>1. PICK done \in SUBSET Waiting(k) : \E half \in SUBSET (Waiting(k) \ done) :
          /\ Decide(done \union half, done, "rejected")
          /\ undecided' = undecided \union (Waiting(k) \ done)
    BY <1>5 DEF CrashInSuspend
  <2>2. PICK half \in SUBSET (Waiting(k) \ done) :
          /\ Decide(done \union half, done, "rejected")
          /\ undecided' = undecided \union (Waiting(k) \ done)
    BY <2>1
  <2>3. key' = [key EXCEPT ![k].suspended = TRUE]
    BY <1>5 DEF CrashInSuspend, SuspendKey
  <2>4. approval[c].status = "pending" /\ c \notin done
    BY <1>1, <2>2, RefusalsAsk
  <2>5. c \notin Waiting(k) /\ c \notin undecided
    BY <2>2, <2>4
  <2>6. KeyOf(c) # k
    BY <2>4, <2>5 DEF Waiting, OrdersOf
  <2>7. key[KeyOf(c)].suspended
    BY <1>1, <2>3, <2>6 DEF TypeOK
  <2> QED BY <2>4, <2>5, <2>7 DEF SuspendedKeyWaitsForNothing
<1> QED BY <1>1, <1>2, <1>3, <1>4, <1>5, OwnerSteps

(* A suspended key has nothing left waiting for its owner, although        *)
(* requests it authenticated before are still on their way (dashboard.js). *)
THEOREM NothingWaitsSuspended == Spec => []SuspendedKeyWaitsForNothing
<1>1. Init => SuspendedKeyWaitsForNothing
  BY DEF Init, SuspendedKeyWaitsForNothing
<1>2. IInv /\ SuspendedKeyWaitsForNothing /\ [Next]_vars => SuspendedKeyWaitsForNothing'
  BY SuspendedStep
<1> QED BY <1>1, <1>2, Invariant, PTL DEF Spec

(* While the owner has changed nothing, policies and limits are what they  *)
(* were.                                                                   *)
LEMMA PoliciesKept ==
  ASSUME TypeOK, [Next]_vars, updates' = 0
  PROVE  updates = 0 /\ \A k \in Keys : /\ key'[k].policy = key[k].policy
                                        /\ key'[k].limit = key[k].limit
<1> DEFINE Kept == updates = 0 /\ \A k \in Keys : /\ key'[k].policy = key[k].policy
                                                  /\ key'[k].limit = key[k].limit
<1>0. updates \in Nat
  BY DEF TypeOK
<1>1. ASSUME UNCHANGED <<key, updates>> PROVE Kept
  BY <1>1
<1>2. ASSUME updates' = updates + 1 PROVE Kept
  BY <1>0, <1>2
<1>3. ASSUME NEW v \in Verifiers, VerifyClaim(v) PROVE Kept
  <2> DEFINE k == KeyOf(verify[v].order)
  <2>1. key' = [key EXCEPT ![k].settled = Credited(key[k], verify[v].order)] /\ updates' = updates
    BY <1>3 DEF VerifyClaim, bounds
  <2>2. \A j \in Keys : key'[j].policy = key[j].policy /\ key'[j].limit = key[j].limit
    BY <2>1 DEF TypeOK, KeyRow
  <2> QED BY <2>1, <2>2
<1>4. ASSUME NEW k \in Keys, Unsuspend(k) PROVE Kept
  BY <1>4 DEF Unsuspend, bounds, TypeOK, KeyRow
<1>5. ASSUME NEW k \in Keys, NEW limit \in Limits, NEW policy \in Policies,
             UpdateKey(k, limit, policy)
      PROVE  Kept
  BY <1>2, <1>5 DEF UpdateKey
<1>6. ASSUME NEW k \in Keys, Suspend(k) \/ DeleteKey(k) \/ CrashInSuspend(k) PROVE Kept
  BY <1>2, <1>6 DEF Suspend, SuspendKey, DeleteKey, CrashInSuspend
<1>7. ASSUME NEW c \in Calls, CreateBegin(c) \/ CreateCommit(c) \/ VerifyTooLate(c) PROVE Kept
  BY <1>1, <1>7 DEF CreateBegin, CreateCommit, VerifyTooLate, bounds
<1>8. ASSUME NEW v \in Verifiers, NEW c \in Calls, NEW d \in Deploys,
             NEW s \in Payers \union {None}, VerifyBegin(v, c, d, s)
      PROVE  Kept
  BY <1>1, <1>8 DEF VerifyBegin, bounds
<1>9. ASSUME NEW v \in Verifiers, VerifyRefused(v) \/ CrashInClaim(v) PROVE Kept
  BY <1>1, <1>9 DEF VerifyRefused, CrashInClaim, bounds
<1>10. ASSUME NEW d \in Deploys, NEW c \in Calls, NEW s \in Payers, NEW good \in BOOLEAN,
              NEW paid \in {order[c].due - 1, order[c].due}, Pay(d, c, s, paid, good)
       PROVE  Kept
  BY <1>1, <1>10 DEF Pay, bounds
<1>11. ASSUME NEW p \in Operators, NEW c \in Calls, ApproveBegin(p, c) PROVE Kept
  BY <1>1, <1>11 DEF ApproveBegin, bounds
<1>12. ASSUME NEW p \in Operators, ApproveCommit(p) \/ ApproveRolledBack(p) PROVE Kept
  BY <1>1, <1>12 DEF ApproveCommit, ApproveRolledBack, bounds
<1>13. ASSUME NEW c \in Calls, ApproveMockUsdc(c) \/ Reject(c) \/ CrashInReject(c) PROVE Kept
  BY <1>1, <1>13 DEF ApproveMockUsdc, Reject, CrashInReject, bounds
<1>14. CASE JobStep
  BY <1>1, <1>14 DEF JobStep, ExpireStaleOrders, ExpireApprovalRequests, PruneIdempotencyKeys, bounds
<1>15. CASE Crash \/ CrashInExpireApprovals
  BY <1>1, <1>15 DEF Crash, CrashInExpireApprovals
<1>16. CASE Tick \/ UNCHANGED vars
  BY <1>1, <1>16 DEF Tick, vars, bounds
<1> QED BY <1>3, <1>4, <1>5, <1>6, <1>7, <1>8, <1>9, <1>10, <1>11, <1>12, <1>13, <1>14, <1>15, <1>16
        DEF Next, AgentStep, OwnerStep, CrashStep

(* An order becomes payable or delivered by an approval, or by a decision  *)
(* that found it within the threshold; no approval is taken back.          *)
LEMMA QuotedBy ==
  ASSUME IInv, [Next]_vars, NEW c \in Calls, Quoted(c)'
  PROVE  \/ Quoted(c) /\ (approval[c].status = "approved" => approval'[c].status = "approved")
         \/ approval'[c].status = "approved"
         \/ ~AboveThreshold(key[KeyOf(c)].policy, Amount(c))
<1> DEFINE Goal == \/ /\ order[c].status \in {"pending_payment", "delivered", "expired"}
                      /\ approval[c].status = "approved" => approval'[c].status = "approved"
                   \/ approval'[c].status = "approved"
                   \/ ~AboveThreshold(key[KeyOf(c)].policy, Amount(c))
<1> SUFFICES Goal
  BY DEF Quoted
<1>0. StepKind /\ order'[c].status \in {"pending_payment", "delivered", "expired"}
      /\ order[c] \in OrderRow /\ approval[c] \in ApprovalRow
  BY StepKinds DEF IInv, Quoted, TypeOK
<1>1. ASSUME order'[c] = order[c], approval'[c] = approval[c] PROVE Goal
  BY <1>0, <1>1
<1>2. CASE QuietStep
  BY <1>1, <1>2 DEF QuietStep
<1>3. ASSUME NEW e \in Calls, InsertStep(e) PROVE Goal
  <2>1. CASE c # e
    BY <1>1, <1>3, <2>1, InsertEffect
  <2>2. CASE c = e
    <3>1. ~CreateAwaitingApproval(c)
      BY <1>0, <1>3, <2>2 DEF CreateAwaitingApproval, OrderRow, IInv, TypeOK
    <3>2. Decision(c) = "approved"
      BY <1>3, <2>2, <3>1 DEF InsertStep, CreateSandbox, CreatePendingPayment
    <3> QED BY <3>2, DecisionMeans DEF IInv
  <2> QED BY <2>1, <2>2
<1>4. ASSUME NEW e \in Calls, NEW rate \in Rates, GrantStep(e, rate) PROVE Goal
  BY <1>1, <1>4, GrantEffect
<1>5. ASSUME NEW job \in VerifyJob, DeliverStep(job) PROVE Goal
  BY <1>1, <1>5, DeliverEffect
<1>6. ASSUME NEW S \in SUBSET Calls, ExpireStep(S) PROVE Goal
  BY <1>1, <1>6, ExpireEffect
<1>7. ASSUME NEW A \in SUBSET Calls, NEW O \in SUBSET Calls,
             NEW status \in {"rejected", "expired"}, RefuseStep(A, O, status)
      PROVE  Goal
  <2>1. RefusedRow(c, A, O, status)
    BY <1>7, RefuseEffect
  <2>2. c \notin A
    BY <1>0, <2>1 DEF RefusedRow
  <2> QED BY <1>1, <2>1, <2>2 DEF RefusedRow
<1> QED BY <1>0, <1>2, <1>3, <1>4, <1>5, <1>6, <1>7 DEF StepKind

(* No order above the threshold becomes payable or is delivered without    *)
(* the owner's approval, whichever path it takes and however the owner     *)
(* moved the threshold before (policy.js, approve).                        *)
THEOREM NothingAboveThresholdUnasked == Spec => OwnerApprovedAboveThreshold
<1>1. IInv /\ [Next]_vars =>
        [\A c \in Calls :
            /\ ~Granted(c) /\ Granted(c)'
            /\ IsSet(key[KeyOf(c)].policy.approve)
            /\ Amount(c) > key[KeyOf(c)].policy.approve
            => approval'[c].status = "approved"]_vars
  <2> SUFFICES ASSUME IInv, [Next]_vars, NEW c \in Calls, ~Granted(c), Granted(c)',
                      IsSet(key[KeyOf(c)].policy.approve),
                      Amount(c) > key[KeyOf(c)].policy.approve
               PROVE  approval'[c].status = "approved"
    OBVIOUS
  <2>1. Quoted(c)' /\ AboveThreshold(key[KeyOf(c)].policy, Amount(c))
    BY DEF Granted, Quoted, AboveThreshold
  <2>2. order[c].status # "expired"
    <3>1. vars' = vars => order' = order
      BY DEF vars, tables
    <3>2. order[c].status \in Closed => order'[c].status = order[c].status
      BY <3>1, ClosedStep
    <3> QED BY <3>2 DEF Granted, Closed
  <2> QED BY <2>1, <2>2, QuotedBy DEF Quoted, Granted
<1> QED BY <1>1, Invariant, PTL DEF Spec, OwnerApprovedAboveThreshold

-----------------------------------------------------------------------------
(* What the amounts of orders add up to: the daily limit, the spend limit  *)
(* and the total a key has spent.                                          *)

Amounts == [c \in Calls |-> Amount(c)]

(* The total of some orders is a sum over the function of amounts, and no  *)
(* step changes that function.                                             *)
LEMMA TotalIsSum ==
  ASSUME NEW S \in SUBSET Calls
  PROVE  Total(S) = SumOf(Amounts, S)
BY DEF Total, Amounts, Amount, MapThenSumSet, MapThenFoldSet, SumOf, Sums, Chosen

LEMMA TotalStays ==
  ASSUME [Next]_vars, NEW S \in SUBSET Calls
  PROVE  Total(S)' = Total(S)
BY RequestsFixed DEF Total, Amount, MapThenSumSet, MapThenFoldSet

(* A finite set of orders has a total, which grows with the set, by each   *)
(* order's amount.                                                         *)
LEMMA TotalOf ==
  ASSUME TypeOK, NEW S \in SUBSET Calls, IsFiniteSet(S)
  PROVE  /\ Total(S) \in Nat
         /\ \A c \in S : Total(S) = Amount(c) + Total(S \ {c})
         /\ \A T \in SUBSET S : Total(T) <= Total(S)
<1>1. \A c \in Calls : Amounts[c] = Amount(c) /\ Amount(c) \in Nat
  BY RequestTyped DEF Amounts
<1>2. \A T \in SUBSET S : Total(T) = SumOf(Amounts, T)
  BY TotalIsSum
<1>3. \A c \in S : Amounts[c] \in Nat
  BY <1>1
<1>4. SumOf(Amounts, S) \in Nat
  BY <1>3, SumTyped
<1>5. \A c \in S : SumOf(Amounts, S) = Amounts[c] + SumOf(Amounts, S \ {c})
  BY <1>3, SumRemoves
<1>6. \A T \in SUBSET S : SumOf(Amounts, T) <= SumOf(Amounts, S)
  BY <1>3, SumGrows
<1>7. \A c \in S : S \ {c} \in SUBSET S
  OBVIOUS
<1> HIDE DEF Amounts
<1>8. S \in SUBSET S
  OBVIOUS
<1> QED BY <1>1, <1>2, <1>4, <1>5, <1>6, <1>7, <1>8

LEMMA TotalOfNone == Total({}) = 0
<1>1. {} \in SUBSET Calls
  OBVIOUS
<1>2. SumOf(Amounts, {}) = 0
  BY SumUnfolds, FS_EmptySet
<1> QED BY <1>1, <1>2, TotalIsSum

(* Only finitely many orders have been inserted, however many requests     *)
(* there may be.                                                           *)
Inserted == {c \in Calls : order[c].status # "none"}

LEMMA FiniteStep ==
  ASSUME IInv, IsFiniteSet(Inserted), [Next]_vars
  PROVE  IsFiniteSet(Inserted)'
<1>0. PICK I : I = Inserted
  OBVIOUS
<1>1. PICK J : J = Inserted'
  OBVIOUS
<1>2. CASE \E c \in Calls : InsertStep(c)
  <2>1. PICK c \in Calls : InsertStep(c)
    BY <1>2
  <2>2. J \subseteq I \union {c}
    BY <1>0, <1>1, <2>1, InsertEffect DEF Inserted
  <2>3. IsFiniteSet(J)
    BY <1>0, <2>2, FS_AddElement, FS_Subset
  <2> QED BY <1>1, <2>3
<1>3. CASE ~\E c \in Calls : InsertStep(c)
  <2>1. J \subseteq I
    BY <1>0, <1>1, <1>3, InsertedOnce DEF Inserted
  <2>2. IsFiniteSet(J)
    BY <1>0, <2>1, FS_Subset
  <2> QED BY <1>1, <2>2
<1> QED BY <1>2, <1>3

LEMMA FinitelyMany == Spec => []IsFiniteSet(Inserted)
<1>1. Init => IsFiniteSet(Inserted)
  <2>1. Init => Inserted = {}
    BY DEF Init, Inserted, NoOrder
  <2> QED BY <2>1, FS_EmptySet
<1>2. IInv /\ IsFiniteSet(Inserted) /\ [Next]_vars => IsFiniteSet(Inserted)'
  BY FiniteStep
<1> QED BY <1>1, <1>2, Invariant, PTL DEF Spec

(* A set of orders that gains none, or one, on some of those inserted.     *)
LEMMA TotalBounded ==
  ASSUME TypeOK, IsFiniteSet(Inserted), NEW A \in SUBSET Inserted, NEW B \in SUBSET Calls
  PROVE  /\ Total(A) \in Nat
         /\ B \subseteq A => Total(B) \in Nat /\ Total(B) <= Total(A)
         /\ \A c \in Calls : B \subseteq A \union {c} =>
                                 Total(B) \in Nat /\ Total(B) <= Total(A) + Amount(c)
<1>1. A \in SUBSET Calls /\ IsFiniteSet(A)
  BY FS_Subset DEF Inserted
<1>2. ASSUME B \subseteq A PROVE Total(B) \in Nat /\ Total(B) <= Total(A)
  BY <1>1, <1>2, TotalOf, FS_Subset
<1>3. Total(A) \in Nat
  BY <1>1, TotalOf
<1>4. ASSUME NEW c \in Calls, B \subseteq A \union {c}
      PROVE  Total(B) \in Nat /\ Total(B) <= Total(A) + Amount(c)
  <2> DEFINE AA == A \union {c}
  <2>1. AA \in SUBSET Calls /\ IsFiniteSet(AA)
    BY <1>1, FS_AddElement
  <2>2. Total(B) <= Total(AA) /\ Total(AA) = Amount(c) + Total(AA \ {c}) /\ B \in SUBSET AA
    BY <1>4, <2>1, TotalOf
  <2>3. Total(AA \ {c}) <= Total(A) /\ Total(AA \ {c}) \in Nat
    <3>1. AA \ {c} \in SUBSET A
      OBVIOUS
    <3>2. IsFiniteSet(AA \ {c}) /\ AA \ {c} \in SUBSET Calls
      BY <1>1, <3>1, FS_Subset
    <3> QED BY <1>1, <3>1, <3>2, TotalOf
  <2>4. Total(B) \in Nat /\ Amount(c) \in Nat
    <3>1. IsFiniteSet(B)
      BY <2>1, <2>2, FS_Subset
    <3> QED BY <3>1, TotalOf, RequestTyped
  <2> HIDE DEF AA
  <2> QED BY <1>3, <2>2, <2>3, <2>4
<1> QED BY <1>2, <1>3, <1>4

(* What a decision other than a refusal means for the daily limit.         *)
LEMMA DecisionWithinDaily ==
  ASSUME TypeOK, NEW c \in Calls, Decision(c) \in {"approved", "pending_approval"},
         IsSet(key[KeyOf(c)].policy.daily)
  PROVE  ~(SpentOn(KeyOf(c), Date(clock)) + Amount(c) > key[KeyOf(c)].policy.daily)
<1> DEFINE row == key[KeyOf(c)]
           spent == SpentOn(KeyOf(c), Date(clock))
           minute == clock % DayMinutes
           day == Date(clock) % WeekDays
<1>1. row.suspended \in BOOLEAN
  BY RequestTyped DEF TypeOK, KeyRow
<1>2. Decision(c) = IF row.deleted THEN "blocked"
                    ELSE CheckPolicy(row.policy, row.suspended, Amount(c), spent, minute, day)
  BY DEF Decision
<1>3. CheckPolicy(row.policy, row.suspended, Amount(c), spent, minute, day) =
        IF Broken(row.policy, row.suspended, Amount(c), spent, minute, day) THEN "blocked"
        ELSE IF AboveThreshold(row.policy, Amount(c)) THEN "pending_approval" ELSE "approved"
  BY <1>1, VerdictOf
<1>4. IsSet(row.policy.daily) /\ spent + Amount(c) > row.policy.daily
        => Broken(row.policy, row.suspended, Amount(c), spent, minute, day)
  BY DEF Broken
<1> HIDE DEF row, spent, minute, day
<1>5. IsSet(row.policy.daily) => ~(spent + Amount(c) > row.policy.daily)
  BY <1>2, <1>3, <1>4
<1> QED BY <1>5 DEF row, spent

(* An insertion was decided on, and found the limit it read not exceeded.  *)
LEMMA InsertDecided ==
  ASSUME NEW c \in Calls, InsertStep(c)
  PROVE  Decision(c) \in {"approved", "pending_approval"} /\ ~OverLimit(c)
BY DEF InsertStep, CreateAwaitingApproval, CreateSandbox, CreatePendingPayment, Fresh

(* What counts towards the daily limit, and what is in flight, gains an    *)
(* order only when the order is inserted.                                  *)
Counted == InFlightStatuses \union {"delivered"}

LEMMA CountedBefore ==
  ASSUME IInv, [Next]_vars, NEW c \in Calls, ~InsertStep(c)
  PROVE  /\ order'[c].status \in Counted
              => order[c].status \in Counted /\ order'[c].at = order[c].at
         /\ order'[c].status \in InFlightStatuses => order[c].status \in InFlightStatuses
<1>1. order[c].status \in Statuses /\ order'[c].status \in Statuses
  BY TypeStep DEF IInv, TypeOK, OrderRow
<1>2. order[c].status \in Closed => order'[c].status = order[c].status
  <2>1. [\A d \in Calls : order[d].status \in Closed
                            => order'[d].status = order[d].status]_vars
    BY ClosedStep
  <2> QED BY <2>1 DEF vars, tables
<1>3. order'[c].status # "none" => order[c].status # "none" /\ order'[c].at = order[c].at
  BY InsertedOnce
<1> QED BY <1>1, <1>2, <1>3 DEF Counted, Statuses, Closed, InFlightStatuses

(* One insertion at most in a step.                                        *)
LEMMA InsertsOne ==
  ASSUME IInv, NEW c \in Calls, InsertStep(c), NEW d \in Calls, InsertStep(d)
  PROVE  c = d
<1>1. order[d] = NoOrder /\ order'[d].status # "none"
  BY InsertEffect
<1>2. d # c => order'[d] = order[d]
  BY InsertEffect
<1> QED BY <1>1, <1>2 DEF NoOrder

(* The orders of one key and one day that count towards the daily limit.   *)
CountedOn(k, date) == {c \in OrdersOf(k) : order[c].status \in Counted
                                           /\ Date(order[c].at) = date}

LEMMA DailyStep ==
  ASSUME IInv, IsFiniteSet(Inserted), DailyLimitHeld, [Next]_vars
  PROVE  DailyLimitHeld'
<1> SUFFICES ASSUME updates' = 0, NEW k \in Keys, NEW date \in 0 .. Date(MaxTime),
                    IsSet(key'[k].policy.daily)
             PROVE  Total(CountedOn(k, date))' <= key'[k].policy.daily
  BY DEF DailyLimitHeld, CountedOn, Counted
<1>1. updates = 0 /\ key'[k].policy = key[k].policy /\ TypeOK
  BY PoliciesKept DEF IInv
<1>2. PICK n \in Nat : n = key[k].policy.daily
  <2>1. key[k].policy \in Policies
    BY DEF IInv, TypeOK, KeyRow
  <2> QED BY <1>1, <2>1, OrdersAssumption
<1>3. PICK A : A = CountedOn(k, date)
  OBVIOUS
<1>4. PICK B : B = CountedOn(k, date)'
  OBVIOUS
<1>5. request' = request
  BY RequestsFixed
<1>6. A \in SUBSET Inserted /\ A \in SUBSET Calls /\ B \in SUBSET Calls
  BY <1>3, <1>4 DEF CountedOn, Counted, InFlightStatuses, Inserted, OrdersOf
<1>7. Total(A) <= n
  BY <1>1, <1>2, <1>3 DEF DailyLimitHeld, CountedOn, Counted
<1>8. Total(CountedOn(k, date))' = Total(B)
  <2>1. Total(B)' = Total(B)
    BY <1>6, TotalStays
  <2> QED BY <1>4, <2>1
<1>9. CASE \E c \in B : InsertStep(c)
  <2>1. PICK c \in B : InsertStep(c)
    BY <1>9
  <2>2. c \in Calls /\ KeyOf(c) = k /\ Date(order'[c].at) = date
    BY <1>4, <1>5, <2>1 DEF CountedOn, OrdersOf, KeyOf
  <2>3. date = Date(clock)
    BY <2>1, <2>2, InsertRemembers
  <2>4. SpentOn(k, date) = Total(A)
    <3>1. \A d \in Calls : order[d].status \in Statuses
      BY <1>1 DEF TypeOK, OrderRow
    <3>2. A = {d \in OrdersOf(k) : /\ order[d].status \notin {"none", "expired", "rejected"}
                                   /\ Date(order[d].at) = date}
      BY <1>3, <3>1 DEF CountedOn, Counted, InFlightStatuses, Statuses, OrdersOf
    <3> QED BY <3>2 DEF SpentOn
  <2>5. ~(Total(A) + Amount(c) > n)
    BY <1>1, <1>2, <2>1, <2>2, <2>3, <2>4, InsertDecided, DecisionWithinDaily
  <2>6. B \subseteq A \union {c}
    BY <1>3, <1>4, <1>5, <1>6, <2>1, <2>2, InsertsOne, CountedBefore DEF CountedOn, OrdersOf, KeyOf
  <2>7. Total(B) \in Nat /\ Total(B) <= Total(A) + Amount(c) /\ Total(A) \in Nat
    BY <1>1, <1>6, <2>2, <2>6, TotalBounded
  <2>8. Amount(c) \in Nat
    BY <1>1, <2>2, RequestTyped
  <2> QED BY <1>1, <1>2, <1>8, <2>5, <2>7, <2>8
<1>10. CASE ~\E c \in B : InsertStep(c)
  <2>1. B \subseteq A
    BY <1>3, <1>4, <1>5, <1>6, <1>10, CountedBefore DEF CountedOn, OrdersOf, KeyOf
  <2>2. Total(B) \in Nat /\ Total(B) <= Total(A) /\ Total(A) \in Nat
    BY <1>1, <1>6, <2>1, TotalBounded
  <2> QED BY <1>1, <1>2, <1>7, <1>8, <2>1, <2>2
<1> QED BY <1>9, <1>10

(* While the owner changes nothing, the orders of one day stay within the  *)
(* daily limit, however requests, approvals and crashes interleave         *)
(* (policy.js counts unpaid orders so that none slips by).                 *)
THEOREM DailyLimitHolds == Spec => []DailyLimitHeld
<1>1. Init => DailyLimitHeld
  <2> SUFFICES ASSUME Init, NEW k \in Keys, NEW date \in 0 .. Date(MaxTime),
                      IsSet(key[k].policy.daily)
               PROVE  Total(CountedOn(k, date)) <= key[k].policy.daily
    BY DEF DailyLimitHeld, CountedOn, Counted
  <2>1. CountedOn(k, date) = {}
    BY DEF Init, CountedOn, Counted, InFlightStatuses, NoOrder, OrdersOf
  <2>2. Total({}) = 0
    BY TotalOfNone
  <2>3. key[k].policy.daily \in Nat
    <3>1. key[k].policy \in Policies
      BY DEF Init
    <3> QED BY <3>1, OrdersAssumption
  <2> QED BY <2>1, <2>2, <2>3
<1>2. IInv /\ IsFiniteSet(Inserted) /\ DailyLimitHeld /\ [Next]_vars => DailyLimitHeld'
  BY DailyStep
<1> QED BY <1>1, <1>2, Invariant, FinitelyMany, PTL DEF Spec

(* A request under way holds the spend limit of its key as the middleware  *)
(* read it: while the owner changes nothing that is the limit the key has. *)
LimitsRead ==
    updates = 0 => \A c \in Calls :
        call[c].pc = "authed" => call[c].limit = key[KeyOf(c)].limit

(* A request is authenticated once, by the row of its key at that time.    *)
LEMMA AuthedOnce ==
  ASSUME TypeOK, [Next]_vars, NEW c \in Calls, call'[c].pc = "authed"
  PROVE  call'[c] = call[c] \/ call'[c].limit = key[KeyOf(c)].limit
<1> DEFINE Read == call'[c] = call[c] \/ call'[c].limit = key[KeyOf(c)].limit
<1>0. call[c] \in CallState
  BY DEF TypeOK
<1>1. ASSUME UNCHANGED call PROVE Read
  BY <1>1
<1>2. ASSUME NEW e \in Calls, CreateBegin(e) PROVE Read
  <2>1. call' = [call EXCEPT ![e] = [pc |-> "authed", limit |-> key[KeyOf(e)].limit,
                                     settled |-> key[KeyOf(e)].settled]]
    BY <1>2 DEF CreateBegin
  <2> QED BY <2>1 DEF TypeOK
<1>3. ASSUME NEW e \in Calls, CreateCommit(e) PROVE Read
  <2>1. call' = [call EXCEPT ![e].pc = "done"]
    BY <1>3 DEF CreateCommit
  <2>2. c # e
    BY <1>0, <2>1 DEF CallState, TypeOK
  <2> QED BY <2>1, <2>2 DEF TypeOK
<1>4. ASSUME LoseRequests PROVE Read
  <2>1. call'[c] = IF call[c].pc = "authed" THEN [call[c] EXCEPT !.pc = "done"] ELSE call[c]
    BY <1>4 DEF LoseRequests
  <2> QED BY <1>0, <2>1 DEF CallState
<1>5. ASSUME NEW v \in Verifiers, NEW e \in Calls, NEW d \in Deploys,
             NEW s \in Payers \union {None}, VerifyBegin(v, e, d, s)
      PROVE  Read
  BY <1>1, <1>5 DEF VerifyBegin
<1>6. ASSUME NEW v \in Verifiers, VerifyClaim(v) \/ VerifyRefused(v) PROVE Read
  BY <1>1, <1>6 DEF VerifyClaim, VerifyRefused
<1>7. ASSUME NEW d \in Deploys, NEW e \in Calls, NEW s \in Payers, NEW good \in BOOLEAN,
             NEW paid \in {order[e].due - 1, order[e].due}, Pay(d, e, s, paid, good)
      PROVE  Read
  BY <1>1, <1>7 DEF Pay, inflight
<1>8. ASSUME NEW e \in Calls, VerifyTooLate(e) PROVE Read
  BY <1>1, <1>8 DEF VerifyTooLate, inflight
<1>9. ASSUME OwnerStep PROVE Read
  BY <1>1, <1>9 DEF OwnerStep, ApproveBegin, ApproveCommit, ApproveRolledBack, ApproveMockUsdc,
                    Reject, Suspend, Unsuspend, DeleteKey, UpdateKey, inflight
<1>10. CASE JobStep
  BY <1>1, <1>10 DEF JobStep, ExpireStaleOrders, ExpireApprovalRequests, PruneIdempotencyKeys,
                     inflight
<1>11. CASE CrashStep
  BY <1>4, <1>11 DEF CrashStep, Crash, CrashInClaim, CrashInReject, CrashInSuspend,
                     CrashInExpireApprovals
<1>12. CASE Tick \/ UNCHANGED vars
  BY <1>1, <1>12 DEF Tick, vars, inflight
<1> QED BY <1>2, <1>3, <1>5, <1>6, <1>7, <1>8, <1>9, <1>10, <1>11, <1>12 DEF Next, AgentStep

LEMMA LimitsStep ==
  ASSUME IInv, LimitsRead, [Next]_vars
  PROVE  LimitsRead'
<1> SUFFICES ASSUME updates' = 0, NEW c \in Calls, call'[c].pc = "authed"
             PROVE  call'[c].limit = key'[KeyOf(c)].limit
  BY RequestsFixed DEF LimitsRead, KeyOf
<1>1. updates = 0 /\ key'[KeyOf(c)].limit = key[KeyOf(c)].limit
  BY PoliciesKept, RequestTyped DEF IInv
<1>2. call'[c] = call[c] => call[c].limit = key[KeyOf(c)].limit
  BY <1>1 DEF LimitsRead
<1> QED BY <1>1, <1>2, AuthedOnce DEF IInv

LEMMA InFlightStep ==
  ASSUME IInv, IsFiniteSet(Inserted), LimitsRead, InFlightWithinLimit, [Next]_vars
  PROVE  InFlightWithinLimit'
<1> SUFFICES ASSUME updates' = 0, NEW k \in Keys, key'[k].limit # None
             PROVE  Total(InFlightOrders(k))' <= key'[k].limit
  BY DEF InFlightWithinLimit, InFlightOrders
<1>1. updates = 0 /\ key'[k].limit = key[k].limit /\ TypeOK
  BY PoliciesKept DEF IInv
<1>2. PICK n \in Nat : n = key[k].limit
  <2>1. key[k].limit \in Limits
    BY DEF IInv, TypeOK, KeyRow
  <2> QED BY <1>1, <2>1, OrdersAssumption
<1>3. PICK A : A = InFlightOrders(k)
  OBVIOUS
<1>4. PICK B : B = InFlightOrders(k)'
  OBVIOUS
<1>5. request' = request
  BY RequestsFixed
<1>6. A \in SUBSET Inserted /\ A \in SUBSET Calls /\ B \in SUBSET Calls
  BY <1>3, <1>4 DEF InFlightOrders, InFlightStatuses, Inserted, OrdersOf
<1>7. Total(A) <= n
  BY <1>1, <1>2, <1>3 DEF InFlightWithinLimit, InFlightOrders
<1>8. Total(InFlightOrders(k))' = Total(B)
  <2>1. Total(B)' = Total(B)
    BY <1>6, TotalStays
  <2> QED BY <1>4, <2>1
<1>9. CASE \E c \in B : InsertStep(c)
  <2>1. PICK c \in B : InsertStep(c)
    BY <1>9
  <2>2. c \in Calls /\ KeyOf(c) = k
    BY <1>4, <1>5 DEF InFlightOrders, OrdersOf, KeyOf
  <2>3. call[c].limit = n /\ n # None
    BY <1>1, <1>2, <2>1, <2>2 DEF LimitsRead, InsertStep
  <2>4. ~(call[c].settled + Total(A) + Amount(c) > n)
    BY <1>3, <2>1, <2>2, <2>3, InsertDecided DEF OverLimit
  <2>5. call[c].settled \in Nat
    BY <1>1, <2>2 DEF TypeOK, CallState
  <2>6. B \subseteq A \union {c}
    BY <1>3, <1>4, <1>5, <1>6, <2>1, <2>2, InsertsOne, CountedBefore
    DEF InFlightOrders, OrdersOf, KeyOf
  <2>7. Total(B) \in Nat /\ Total(B) <= Total(A) + Amount(c) /\ Total(A) \in Nat
    BY <1>1, <1>6, <2>2, <2>6, TotalBounded
  <2>8. Amount(c) \in Nat
    BY <1>1, <2>2, RequestTyped
  <2> QED BY <1>1, <1>2, <1>8, <2>4, <2>5, <2>7, <2>8
<1>10. CASE ~\E c \in B : InsertStep(c)
  <2>1. B \subseteq A
    BY <1>3, <1>4, <1>5, <1>6, <1>10, CountedBefore DEF InFlightOrders, OrdersOf, KeyOf
  <2>2. Total(B) \in Nat /\ Total(B) <= Total(A) /\ Total(A) \in Nat
    BY <1>1, <1>6, <2>1, TotalBounded
  <2> QED BY <1>1, <1>2, <1>7, <1>8, <2>1, <2>2
<1> QED BY <1>9, <1>10

(* While the owner changes nothing, what a key has in flight never exceeds *)
(* its spend limit, although every request checks the limit as it read it  *)
(* before its awaits (orders.js).                                          *)
THEOREM InFlightLimitHolds == Spec => []InFlightWithinLimit
<1>1. Init => LimitsRead /\ InFlightWithinLimit
  <2> SUFFICES ASSUME Init PROVE LimitsRead /\ InFlightWithinLimit
    OBVIOUS
  <2>1. LimitsRead
    BY DEF Init, LimitsRead
  <2>2. ASSUME NEW k \in Keys, key[k].limit # None
        PROVE  Total(InFlightOrders(k)) <= key[k].limit
    <3>1. InFlightOrders(k) = {}
      BY DEF Init, InFlightOrders, InFlightStatuses, NoOrder, OrdersOf
    <3>2. key[k].limit \in Nat
      <4>1. key[k].limit \in Limits
        BY DEF Init
      <4> QED BY <2>2, <4>1, OrdersAssumption
    <3> QED BY <3>1, <3>2, TotalOfNone
  <2> QED BY <2>1, <2>2 DEF InFlightWithinLimit, InFlightOrders
<1>2. IInv /\ IsFiniteSet(Inserted) /\ LimitsRead /\ InFlightWithinLimit /\ [Next]_vars
        => LimitsRead' /\ InFlightWithinLimit'
  BY LimitsStep, InFlightStep
<1> QED BY <1>1, <1>2, Invariant, FinitelyMany, PTL DEF Spec

(* The steps that credit a key, or die before they do; all others deliver  *)
(* no live order and leave every total spent alone.                        *)
Uncharged ==
    /\ UNCHANGED uncredited
    /\ \A k \in Keys : key'[k].settled = key[k].settled /\ (key[k].deleted => key'[k].deleted)
    /\ \A c \in Calls : order'[c].status = "delivered"
                            => order[c].status = "delivered" \/ KeyOf(c) \in Sandbox

LEMMA RefusalDelivers ==
  ASSUME TypeOK, NEW A, NEW O, NEW status, Decide(A, O, status), NEW c \in Calls,
         order'[c].status = "delivered"
  PROVE  order[c].status = "delivered"
<1>1. order'[c] = IF c \in O THEN [order[c] EXCEPT !.status = "rejected"] ELSE order[c]
  BY DEF Decide
<1> QED BY <1>1 DEF TypeOK, OrderRow

LEMMA QuoteDelivers ==
  ASSUME TypeOK, NEW e \in Calls, NEW rate \in Rates, NEW row,
         row = order[e] \/ row = [NoOrder EXCEPT !.at = clock],
         order' = [order EXCEPT ![e] = Instructed(row, e, rate)],
         NEW c \in Calls, order'[c].status = "delivered"
  PROVE  order[c].status = "delivered"
<1>1. Instructed(row, e, rate).status = "pending_payment"
  BY DEF Instructed, TypeOK, OrderRow, NoOrder
<1>2. order'[c] = IF c = e THEN Instructed(row, e, rate) ELSE order[c]
  BY DEF TypeOK
<1> QED BY <1>1, <1>2

LEMMA CreditSteps ==
  ASSUME TypeOK, [Next]_vars
  PROVE  \/ Uncharged
         \/ \E v \in Verifiers : VerifyClaim(v) \/ CrashInClaim(v)
<1>1. ASSUME UNCHANGED <<key, order, uncredited>> PROVE Uncharged
  BY <1>1 DEF Uncharged
<1>2. ASSUME NEW A, NEW O, NEW status, Decide(A, O, status), UNCHANGED <<key, uncredited>>
      PROVE  Uncharged
  BY <1>2, RefusalDelivers DEF Uncharged
<1>3. ASSUME NEW c \in Calls, CreateCommit(c) PROVE Uncharged
  <2>1. UNCHANGED <<key, uncredited>>
    BY <1>3 DEF CreateCommit, cuts
  <2>2. CASE CreateAnswered(c)
    BY <1>1, <2>1, <2>2 DEF CreateAnswered, tables
  <2>3. CASE CreateAwaitingApproval(c)
    <3>1. order' = [order EXCEPT ![c].status = "awaiting_approval", ![c].at = clock]
      BY <2>3 DEF CreateAwaitingApproval
    <3>2. \A d \in Calls : order'[d].status = "delivered" => order[d].status = "delivered"
      BY <3>1 DEF TypeOK, OrderRow
    <3> QED BY <2>1, <3>2 DEF Uncharged
  <2>4. CASE CreateSandbox(c)
    <3>1. \A d \in Calls : order'[d].status = "delivered" /\ d # c => order[d].status = "delivered"
      BY <2>4 DEF CreateSandbox, TypeOK
    <3>2. KeyOf(c) \in Sandbox
      BY <2>4 DEF CreateSandbox
    <3> QED BY <2>1, <3>1, <3>2 DEF Uncharged
  <2>5. ASSUME NEW rate \in Rates, CreatePendingPayment(c, rate) PROVE Uncharged
    <3>1. CASE Payable(c, rate)
      <4>1. order' = [order EXCEPT ![c] = Instructed([NoOrder EXCEPT !.at = clock], c, rate)]
        BY <2>5, <3>1 DEF CreatePendingPayment
      <4>2. \A d \in Calls : order'[d].status = "delivered" => order[d].status = "delivered"
        BY <4>1, QuoteDelivers
      <4> QED BY <2>1, <4>2 DEF Uncharged
    <3>2. CASE ~Payable(c, rate)
      BY <1>1, <2>1, <2>5, <3>2 DEF CreatePendingPayment
    <3> QED BY <3>1, <3>2
  <2> QED BY <1>3, <2>2, <2>3, <2>4, <2>5 DEF CreateCommit
<1>4. ASSUME NEW c \in Calls, VerifyTooLate(c) PROVE Uncharged
  <2>1. order' = [order EXCEPT ![c].status = "expired"] /\ UNCHANGED <<key, uncredited>>
    BY <1>4 DEF VerifyTooLate, cuts
  <2>2. \A d \in Calls : order'[d].status = "delivered" => order[d].status = "delivered"
    BY <2>1 DEF TypeOK, OrderRow
  <2> QED BY <2>1, <2>2 DEF Uncharged
<1>5. ASSUME NEW c \in Calls, CreateBegin(c) PROVE Uncharged
  BY <1>1, <1>5 DEF CreateBegin, tables, cuts
<1>6. ASSUME NEW v \in Verifiers, NEW c \in Calls, NEW d \in Deploys,
             NEW s \in Payers \union {None}, VerifyBegin(v, c, d, s)
      PROVE  Uncharged
  BY <1>1, <1>6 DEF VerifyBegin, tables, cuts
<1>7. ASSUME NEW v \in Verifiers, VerifyRefused(v) PROVE Uncharged
  BY <1>1, <1>7 DEF VerifyRefused, tables, cuts
<1>8. ASSUME NEW d \in Deploys, NEW c \in Calls, NEW s \in Payers, NEW good \in BOOLEAN,
             NEW paid \in {order[c].due - 1, order[c].due}, Pay(d, c, s, paid, good)
      PROVE  Uncharged
  BY <1>1, <1>8 DEF Pay, tables, cuts
<1>9. ASSUME NEW c \in Calls, NEW rate \in Rates, ApproveTxn(c, rate), UNCHANGED <<key, cuts>>
      PROVE  Uncharged
  <2>1. \A d \in Calls : order'[d].status = "delivered" => order[d].status = "delivered"
    <3>1. order' = [order EXCEPT ![c] = Instructed(order[c], c, rate)]
      BY <1>9 DEF ApproveTxn
    <3> QED BY <3>1, QuoteDelivers
  <2> QED BY <1>9, <2>1 DEF Uncharged, cuts
<1>10. ASSUME NEW p \in Operators, NEW c \in Calls, ApproveBegin(p, c) PROVE Uncharged
  BY <1>1, <1>10 DEF ApproveBegin, tables, cuts
<1>11. ASSUME NEW p \in Operators, ApproveRolledBack(p) PROVE Uncharged
  BY <1>1, <1>11 DEF ApproveRolledBack, tables, cuts
<1>12. ASSUME NEW p \in Operators, ApproveCommit(p) PROVE Uncharged
  <2>1. PICK rate \in Rates : ApproveTxn(decide[p], rate)
    BY <1>12 DEF ApproveCommit
  <2>2. decide[p] \in Calls
    BY <1>12 DEF ApproveCommit, TypeOK
  <2> QED BY <1>9, <1>12, <2>1, <2>2 DEF ApproveCommit
<1>13. ASSUME NEW c \in Calls, ApproveMockUsdc(c) PROVE Uncharged
  BY <1>9, <1>13 DEF ApproveMockUsdc
<1>14. ASSUME NEW c \in Calls, Reject(c) \/ CrashInReject(c) PROVE Uncharged
  BY <1>2, <1>14 DEF Reject, CrashInReject, cuts
<1>15. ASSUME NEW k \in Keys, Unsuspend(k) \/ DeleteKey(k) PROVE Uncharged
  <2>1. UNCHANGED <<order, uncredited>>
    BY <1>15 DEF Unsuspend, DeleteKey, tables, cuts
  <2>2. \A j \in Keys : key'[j].settled = key[j].settled /\ (key[j].deleted => key'[j].deleted)
    BY <1>15 DEF Unsuspend, DeleteKey, TypeOK, KeyRow
  <2> QED BY <2>1, <2>2 DEF Uncharged
<1>16. ASSUME NEW k \in Keys, NEW limit \in Limits, NEW policy \in Policies,
              UpdateKey(k, limit, policy)
       PROVE  Uncharged
  <2>1. UNCHANGED <<order, uncredited>>
    BY <1>16 DEF UpdateKey, tables, cuts
  <2>2. \A j \in Keys : key'[j].settled = key[j].settled /\ key'[j].deleted = key[j].deleted
    BY <1>16 DEF UpdateKey, TypeOK, KeyRow
  <2> QED BY <2>1, <2>2 DEF Uncharged
<1>17. ASSUME NEW k \in Keys, Suspend(k) \/ CrashInSuspend(k) PROVE Uncharged
  <2>1. \A j \in Keys : key'[j].settled = key[j].settled /\ (key[j].deleted => key'[j].deleted)
    BY <1>17 DEF Suspend, SuspendKey, CrashInSuspend, TypeOK, KeyRow
  <2>2. uncredited' = uncredited
    BY <1>17 DEF Suspend, CrashInSuspend, cuts
  <2>3. \E A, O : Decide(A, O, "rejected")
    BY <1>17 DEF Suspend, CrashInSuspend
  <2>4. \A d \in Calls : order'[d].status = "delivered" => order[d].status = "delivered"
    BY <2>3, RefusalDelivers
  <2> QED BY <2>1, <2>2, <2>4 DEF Uncharged
<1>18. CASE ExpireStaleOrders
  <2>1. \A d \in Calls : order'[d].status = "delivered" => order[d].status = "delivered"
    BY <1>18 DEF ExpireStaleOrders, TypeOK, OrderRow
  <2> QED BY <1>18, <2>1 DEF ExpireStaleOrders, Uncharged, cuts
<1>19. CASE ExpireApprovalRequests
  BY <1>2, <1>19 DEF ExpireApprovalRequests, cuts
<1>20. CASE PruneIdempotencyKeys
  BY <1>1, <1>20 DEF PruneIdempotencyKeys, cuts
<1>21. CASE Crash
  BY <1>1, <1>21 DEF Crash, tables, cuts
<1>22. CASE CrashInExpireApprovals
  BY <1>2, <1>22 DEF CrashInExpireApprovals
<1>23. CASE Tick \/ UNCHANGED vars
  BY <1>1, <1>23 DEF Tick, vars, tables, cuts
<1> QED BY <1>3, <1>4, <1>5, <1>6, <1>7, <1>8, <1>10, <1>11, <1>12, <1>13, <1>14, <1>15, <1>16,
           <1>17, <1>18, <1>19, <1>20, <1>21, <1>22, <1>23
        DEF Next, AgentStep, OwnerStep, JobStep, CrashStep

(* A claim cut short left its order delivered.                             *)
UncreditedDelivered == \A c \in uncredited : order[c].status = "delivered"

(* What a claim does, credited or cut short.                               *)
LEMMA ClaimEffect ==
  ASSUME TypeOK, NEW v \in Verifiers, VerifyClaim(v) \/ CrashInClaim(v)
  PROVE  \E o \in Calls :
           /\ order[o].status = "pending_payment" /\ order'[o].status = "delivered"
           /\ \A d \in Calls \ {o} : order'[d] = order[d]
           /\ \/ /\ uncredited' = uncredited
                 /\ key' = [key EXCEPT ![KeyOf(o)].settled = Credited(key[KeyOf(o)], o)]
              \/ /\ uncredited' = uncredited \union {o}
                 /\ key' = key
<1> DEFINE job == verify[v]
<1>1. job \in VerifyJob
  BY DEF TypeOK, VerifyClaim, CrashInClaim
<1>2. PICK o \in Calls : o = job.order
  BY <1>1 DEF VerifyJob
<1>3. order[o].status = "pending_payment"
      /\ order' = [order EXCEPT ![o].status = "delivered", ![o].deploy = job.deploy]
  BY <1>2 DEF VerifyClaim, CrashInClaim, Claimable, Pending, Claim
<1>4. order'[o].status = "delivered" /\ \A d \in Calls \ {o} : order'[d] = order[d]
  <2> HIDE DEF job
  <2> QED BY <1>3 DEF TypeOK, OrderRow
<1>5. VerifyClaim(v) => /\ uncredited' = uncredited
                        /\ key' = [key EXCEPT ![KeyOf(o)].settled = Credited(key[KeyOf(o)], o)]
  BY <1>2 DEF VerifyClaim, cuts
<1>6. CrashInClaim(v) => uncredited' = uncredited \union {o} /\ key' = key
  BY <1>2 DEF CrashInClaim
<1> QED BY <1>3, <1>4, <1>5, <1>6

(* The orders whose amounts a key has been charged.                        *)
Charged(k) == {c \in OrdersOf(k) : Delivered(c)} \ uncredited

LEMMA ClaimSettles ==
  ASSUME IInv, IsFiniteSet(Inserted), UncreditedDelivered, SettledMatchesDelivered, [Next]_vars,
         NEW v \in Verifiers, VerifyClaim(v) \/ CrashInClaim(v)
  PROVE  UncreditedDelivered' /\ SettledMatchesDelivered'
<1>1. PICK o \in Calls :
        /\ order[o].status = "pending_payment" /\ order'[o].status = "delivered"
        /\ \A d \in Calls \ {o} : order'[d] = order[d]
        /\ \/ /\ uncredited' = uncredited
              /\ key' = [key EXCEPT ![KeyOf(o)].settled = Credited(key[KeyOf(o)], o)]
           \/ /\ uncredited' = uncredited \union {o}
              /\ key' = key
  BY ClaimEffect DEF IInv
<1>2. /\ TypeOK /\ uncredited \subseteq Calls /\ key \in [Keys -> KeyRow] /\ request' = request
      /\ Amount(o) \in Nat /\ KeyOf(o) \in Keys
  BY RequestTyped, RequestsFixed DEF IInv, TypeOK
<1>3. o \notin uncredited
  BY <1>1 DEF UncreditedDelivered
<1>4. UncreditedDelivered'
  BY <1>1, <1>2 DEF UncreditedDelivered
<1>5. ASSUME NEW k \in Keys \ Sandbox, ~key'[k].deleted
      PROVE  key'[k].settled = Total(Charged(k))'
  <2>1. PICK A : A = Charged(k)
    OBVIOUS
  <2>2. PICK B : B = Charged(k)'
    OBVIOUS
  <2>3. A \in SUBSET Inserted /\ A \in SUBSET Calls /\ B \in SUBSET Calls /\ o \notin A
    BY <1>1, <2>1, <2>2 DEF Charged, Inserted, OrdersOf, Delivered
  <2>4. Total(Charged(k))' = Total(B)
    <3>1. Total(B)' = Total(B)
      BY <2>3, TotalStays
    <3> QED BY <2>2, <3>1
  <2>5. IsFiniteSet(A)
    BY <2>3, FS_Subset
  <2>6. ~key[k].deleted => key[k].settled = Total(A)
    BY <2>1 DEF SettledMatchesDelivered, Charged
  <2>7. CASE uncredited' = uncredited \union {o} /\ key' = key
    <3>1. B = A
      BY <1>1, <1>2, <1>3, <2>1, <2>2, <2>7 DEF Charged, OrdersOf, KeyOf, Delivered
    <3> QED BY <1>5, <2>4, <2>6, <2>7, <3>1
  <2>8. CASE /\ uncredited' = uncredited
             /\ key' = [key EXCEPT ![KeyOf(o)].settled = Credited(key[KeyOf(o)], o)]
    <3>1. CASE KeyOf(o) = k
      <4>1. key[k].deleted = key'[k].deleted /\ key'[k].settled = Credited(key[k], o)
        BY <1>2, <2>8, <3>1 DEF KeyRow
      <4>2. key'[k].settled = Total(A) + Amount(o)
        BY <1>5, <2>6, <4>1 DEF Credited
      <4>3. B = A \union {o}
        BY <1>1, <1>2, <1>3, <2>1, <2>2, <2>8, <3>1 DEF Charged, OrdersOf, KeyOf, Delivered
      <4>4. IsFiniteSet(B) /\ o \in B /\ B \ {o} = A
        BY <2>3, <2>5, <4>3, FS_AddElement
      <4>5. Total(B) = Amount(o) + Total(A) /\ Total(A) \in Nat
        BY <1>2, <2>3, <2>5, <4>4, TotalOf
      <4> QED BY <1>2, <2>4, <4>2, <4>5
    <3>2. CASE KeyOf(o) # k
      <4>1. key'[k] = key[k]
        BY <1>2, <2>8, <3>2
      <4>2. B = A
        BY <1>1, <1>2, <2>1, <2>2, <2>8, <3>2 DEF Charged, OrdersOf, KeyOf, Delivered
      <4> QED BY <1>5, <2>4, <2>6, <4>1, <4>2
    <3> QED BY <3>1, <3>2
  <2> QED BY <1>1, <2>7, <2>8
<1> QED BY <1>4, <1>5 DEF SettledMatchesDelivered, Charged

LEMMA SettledStep ==
  ASSUME IInv, IsFiniteSet(Inserted), UncreditedDelivered, SettledMatchesDelivered, [Next]_vars
  PROVE  UncreditedDelivered' /\ SettledMatchesDelivered'
<1>1. CASE \E v \in Verifiers : VerifyClaim(v) \/ CrashInClaim(v)
  BY <1>1, ClaimSettles
<1>2. CASE Uncharged
  <2>1. request' = request /\ uncredited' = uncredited /\ uncredited \subseteq Calls
    BY <1>2, RequestsFixed DEF Uncharged, IInv, TypeOK
  <2>2. \A c \in Calls : order[c].status = "delivered" => order'[c].status = "delivered"
    <3>1. \A c \in Calls : order[c].status \in Closed => order'[c].status = order[c].status
      <4>1. [\A c \in Calls : order[c].status \in Closed
                                => order'[c].status = order[c].status]_vars
        BY ClosedStep
      <4> QED BY <4>1 DEF vars, tables
    <3> QED BY <3>1 DEF Closed
  <2>3. UncreditedDelivered'
    BY <2>1, <2>2 DEF UncreditedDelivered
  <2>4. ASSUME NEW k \in Keys \ Sandbox, ~key'[k].deleted
        PROVE  key'[k].settled = Total(Charged(k))'
    <3>1. PICK A : A = Charged(k)
      OBVIOUS
    <3>2. Charged(k)' = A
      BY <1>2, <2>1, <2>2, <3>1 DEF Charged, OrdersOf, KeyOf, Delivered, Uncharged
    <3>3. A \in SUBSET Calls
      BY <3>1 DEF Charged, OrdersOf
    <3>4. Total(A)' = Total(A)
      BY <3>3, TotalStays
    <3>5. key'[k].settled = key[k].settled /\ ~key[k].deleted
      BY <1>2, <2>4 DEF Uncharged
    <3>6. key[k].settled = Total(A)
      BY <3>1, <3>5 DEF SettledMatchesDelivered, Charged
    <3> QED BY <3>2, <3>4, <3>5, <3>6
  <2> QED BY <2>3, <2>4 DEF SettledMatchesDelivered, Charged
<1> QED BY <1>1, <1>2, CreditSteps DEF IInv

(* What a live key has spent is the sum of its orders delivered, whatever  *)
(* claims, crashes and refusals interleave, but for the orders whose claim *)
(* a crash cut short of its credit (verify-payment).                       *)
THEOREM SettledIsDelivered == Spec => []SettledMatchesDelivered
<1>1. Init => UncreditedDelivered /\ SettledMatchesDelivered
  <2> SUFFICES ASSUME Init PROVE UncreditedDelivered /\ SettledMatchesDelivered
    OBVIOUS
  <2>1. UncreditedDelivered
    BY DEF Init, UncreditedDelivered
  <2>2. ASSUME NEW k \in Keys PROVE key[k].settled = Total(Charged(k))
    <3>1. Charged(k) = {} /\ key[k].settled = 0
      BY DEF Init, Charged, Delivered, NoOrder, OrdersOf
    <3> QED BY <3>1, TotalOfNone
  <2> QED BY <2>1, <2>2 DEF SettledMatchesDelivered, Charged
<1>2. IInv /\ IsFiniteSet(Inserted) /\ UncreditedDelivered /\ SettledMatchesDelivered
        /\ [Next]_vars => UncreditedDelivered' /\ SettledMatchesDelivered'
  BY SettledStep
<1> QED BY <1>1, <1>2, Invariant, FinitelyMany, PTL DEF Spec

-----------------------------------------------------------------------------
(* Where the comments promise more than the code keeps: under which        *)
(* condition each promise holds.                                           *)

(* An order is inserted with the total spent as it is at that moment, not  *)
(* as it was when the request was authenticated.                           *)
ReadsAreFresh ==
    [][\A c \in Calls : order[c].status = "none" /\ order'[c].status # "none"
                            => call[c].settled = key[KeyOf(c)].settled]_vars

LEMMA SpentStep ==
  ASSUME IInv, IsFiniteSet(Inserted), LimitsRead, SpendLimitHeld, [Next]_vars,
         \A c \in Calls : order[c].status = "none" /\ order'[c].status # "none"
                              => call[c].settled = key[KeyOf(c)].settled
  PROVE  SpendLimitHeld'
<1> SUFFICES ASSUME updates' = 0, NEW k \in Keys, key'[k].limit # None
             PROVE  key'[k].settled + Total(InFlightOrders(k))' <= key'[k].limit
  BY DEF SpendLimitHeld
<1>1. updates = 0 /\ key'[k].limit = key[k].limit /\ TypeOK /\ request' = request
  BY PoliciesKept, RequestsFixed DEF IInv
<1>2. PICK n \in Nat : n = key[k].limit
  <2>1. key[k].limit \in Limits
    BY <1>1 DEF TypeOK, KeyRow
  <2> QED BY <1>1, <2>1, OrdersAssumption
<1>3. PICK s \in Nat : s = key[k].settled
  BY <1>1 DEF TypeOK, KeyRow
<1>4. PICK A : A = InFlightOrders(k)
  OBVIOUS
<1>5. PICK B : B = InFlightOrders(k)'
  OBVIOUS
<1>6. A \in SUBSET Inserted /\ A \in SUBSET Calls /\ B \in SUBSET Calls
  BY <1>4, <1>5 DEF InFlightOrders, InFlightStatuses, Inserted, OrdersOf
<1>7. s + Total(A) <= n
  BY <1>1, <1>2, <1>3, <1>4 DEF SpendLimitHeld
<1>8. Total(InFlightOrders(k))' = Total(B)
  <2>1. Total(B)' = Total(B)
    BY <1>6, TotalStays
  <2> QED BY <1>5, <2>1
<1>9. CASE Uncharged /\ \E c \in B : InsertStep(c)
  <2>1. PICK c \in B : InsertStep(c)
    BY <1>9
  <2>2. c \in Calls /\ KeyOf(c) = k
    BY <1>1, <1>5 DEF InFlightOrders, OrdersOf, KeyOf
  <2>3. call[c].limit = n /\ n # None
    BY <1>1, <1>2, <2>1, <2>2 DEF LimitsRead, InsertStep
  <2>4. call[c].settled = s
    BY <1>3, <2>1, <2>2, InsertEffect DEF NoOrder
  <2>5. ~(s + Total(A) + Amount(c) > n)
    BY <1>4, <2>1, <2>2, <2>3, <2>4, InsertDecided DEF OverLimit
  <2>6. B \subseteq A \union {c}
    BY <1>1, <1>4, <1>5, <1>6, <2>1, <2>2, InsertsOne, CountedBefore
    DEF InFlightOrders, OrdersOf, KeyOf
  <2>7. Total(B) \in Nat /\ Total(B) <= Total(A) + Amount(c) /\ Total(A) \in Nat
    BY <1>1, <1>6, <2>2, <2>6, TotalBounded
  <2>8. Amount(c) \in Nat /\ key'[k].settled = s
    BY <1>1, <1>3, <1>9, <2>2, RequestTyped DEF Uncharged
  <2> QED BY <1>1, <1>2, <1>8, <2>5, <2>7, <2>8
<1>10. CASE Uncharged /\ ~\E c \in B : InsertStep(c)
  <2>1. B \subseteq A
    BY <1>1, <1>4, <1>5, <1>6, <1>10, CountedBefore DEF InFlightOrders, OrdersOf, KeyOf
  <2>2. Total(B) \in Nat /\ Total(B) <= Total(A) /\ Total(A) \in Nat
    BY <1>1, <1>6, <2>1, TotalBounded
  <2>3. key'[k].settled = s
    BY <1>3, <1>10 DEF Uncharged
  <2> QED BY <1>1, <1>2, <1>7, <1>8, <2>2, <2>3
<1>11. ASSUME NEW v \in Verifiers, VerifyClaim(v) \/ CrashInClaim(v)
       PROVE  key'[k].settled + Total(InFlightOrders(k))' <= key'[k].limit
  <2>1. PICK o \in Calls :
          /\ order[o].status = "pending_payment" /\ order'[o].status = "delivered"
          /\ \A d \in Calls \ {o} : order'[d] = order[d]
          /\ \/ key' = [key EXCEPT ![KeyOf(o)].settled = Credited(key[KeyOf(o)], o)]
             \/ key' = key
    BY <1>1, <1>11, ClaimEffect
  <2>2. Amount(o) \in Nat /\ KeyOf(o) \in Keys /\ key \in [Keys -> KeyRow]
    BY <1>1, RequestTyped DEF TypeOK
  <2>3. IsFiniteSet(A) /\ Total(A) \in Nat
    BY <1>1, <1>6, FS_Subset, TotalBounded
  <2>4. CASE KeyOf(o) = k
    <3>1. o \in A /\ B = A \ {o}
      BY <1>1, <1>4, <1>5, <2>1, <2>4 DEF InFlightOrders, InFlightStatuses, OrdersOf, KeyOf
    <3>2. Total(A) = Amount(o) + Total(B)
      BY <1>1, <1>6, <2>3, <3>1, TotalOf
    <3>3. Total(B) \in Nat
      BY <1>1, <1>6, <3>1, TotalBounded
    <3>4. key'[k].settled \in {s, s + Amount(o)}
      <4>1. CASE key' = key
        BY <1>3, <4>1
      <4>2. CASE key' = [key EXCEPT ![KeyOf(o)].settled = Credited(key[KeyOf(o)], o)]
        <5>1. key'[k].settled = Credited(key[k], o)
          BY <2>2, <2>4, <4>2 DEF KeyRow
        <5> QED BY <1>3, <5>1 DEF Credited
      <4> QED BY <2>1, <4>1, <4>2
    <3> QED BY <1>1, <1>2, <1>7, <1>8, <2>2, <2>3, <3>2, <3>3, <3>4
  <2>5. CASE KeyOf(o) # k
    <3>1. B = A
      BY <1>1, <1>4, <1>5, <2>1, <2>5 DEF InFlightOrders, OrdersOf, KeyOf
    <3>2. key'[k] = key[k]
      BY <2>1, <2>2, <2>5
    <3> QED BY <1>1, <1>2, <1>3, <1>7, <1>8, <3>1, <3>2
  <2> QED BY <2>4, <2>5
<1> QED BY <1>1, <1>9, <1>10, <1>11, CreditSteps

(* What breaks the spend limit is the outdated total alone: were the total *)
(* read in the transaction that inserts, nothing would (orders.js).        *)
THEOREM OnlyStaleReadsOverspend == Spec /\ ReadsAreFresh => []SpendLimitHeld
<1>1. Init => LimitsRead /\ SpendLimitHeld
  <2> SUFFICES ASSUME Init PROVE LimitsRead /\ SpendLimitHeld
    OBVIOUS
  <2>1. LimitsRead
    BY DEF Init, LimitsRead
  <2>2. ASSUME NEW k \in Keys, key[k].limit # None
        PROVE  key[k].settled + Total(InFlightOrders(k)) <= key[k].limit
    <3>1. InFlightOrders(k) = {} /\ key[k].settled = 0
      BY DEF Init, InFlightOrders, InFlightStatuses, NoOrder, OrdersOf
    <3>2. key[k].limit \in Nat
      <4>1. key[k].limit \in Limits
        BY DEF Init
      <4> QED BY <2>2, <4>1, OrdersAssumption
    <3> QED BY <3>1, <3>2, TotalOfNone
  <2> QED BY <2>1, <2>2 DEF SpendLimitHeld
<1> DEFINE Now == \A c \in Calls : order[c].status = "none" /\ order'[c].status # "none"
                                       => call[c].settled = key[KeyOf(c)].settled
<1>2. IInv /\ IsFiniteSet(Inserted) /\ LimitsRead /\ SpendLimitHeld /\ [Next]_vars /\ [Now]_vars
        => LimitsRead' /\ SpendLimitHeld'
  <2> SUFFICES ASSUME IInv, IsFiniteSet(Inserted), LimitsRead, SpendLimitHeld,
                      [Next]_vars, [Now]_vars
               PROVE  LimitsRead' /\ SpendLimitHeld'
    OBVIOUS
  <2>1. Now
    BY DEF vars, tables
  <2> QED BY <2>1, LimitsStep, SpentStep
<1> QED BY <1>1, <1>2, Invariant, FinitelyMany, PTL DEF Spec, ReadsAreFresh

(* How an order comes to be payable or expired; no approval is taken back. *)
LEMMA WindowBy ==
  ASSUME IInv, [Next]_vars, NEW c \in Calls
  PROVE  /\ approval[c].status = "approved" => approval'[c].status = "approved"
         /\ order'[c].status \in {"pending_payment", "expired"} =>
              \/ order'[c] = order[c]
              \/ order'[c].status = "pending_payment" /\ approval'[c].status = "approved"
              \/ order'[c].status = "pending_payment"
                 /\ order'[c].payBy = order'[c].at + PaymentTTL
              \/ order[c].status = "pending_payment"
                 /\ order'[c] = [order[c] EXCEPT !.status = "expired"]
<1> DEFINE Goal ==
         /\ approval[c].status = "approved" => approval'[c].status = "approved"
         /\ order'[c].status \in {"pending_payment", "expired"} =>
              \/ order'[c] = order[c]
              \/ order'[c].status = "pending_payment" /\ approval'[c].status = "approved"
              \/ order'[c].status = "pending_payment"
                 /\ order'[c].payBy = order'[c].at + PaymentTTL
              \/ order[c].status = "pending_payment"
                 /\ order'[c] = [order[c] EXCEPT !.status = "expired"]
<1> SUFFICES Goal
  OBVIOUS
<1>0. StepKind /\ order[c] \in OrderRow /\ clock \in Nat /\ order \in [Calls -> OrderRow]
  BY StepKinds DEF IInv, TypeOK
<1>1. ASSUME order'[c] = order[c], approval'[c] = approval[c] PROVE Goal
  BY <1>1
<1>2. CASE QuietStep
  BY <1>1, <1>2 DEF QuietStep
<1>3. ASSUME NEW e \in Calls, InsertStep(e) PROVE Goal
  <2>1. CASE c # e
    BY <1>1, <1>3, <2>1, InsertEffect
  <2>2. CASE c = e
    <3>1. approval[c].status = "none"
      BY <1>3, <2>2, InsertEffect
    <3>2. CASE order'[c].status = "pending_payment"
      <4>1. ~CreateAwaitingApproval(c) /\ ~CreateSandbox(c)
        BY <1>0, <3>2 DEF CreateAwaitingApproval, CreateSandbox, OrderRow
      <4>2. PICK rate \in Rates : CreatePendingPayment(c, rate) /\ Payable(c, rate)
        BY <1>3, <2>2, <4>1 DEF InsertStep
      <4>3. order'[c] = Instructed([NoOrder EXCEPT !.at = clock], c, rate)
        BY <1>0, <4>2 DEF CreatePendingPayment
      <4>4. order'[c].payBy = clock + PaymentTTL /\ order'[c].at = clock
        BY <4>3 DEF Instructed, NoOrder
      <4> QED BY <3>1, <3>2, <4>4
    <3>3. order'[c].status # "expired"
      BY <1>3, <2>2, InsertEffect
    <3> QED BY <3>1, <3>2, <3>3
  <2> QED BY <2>1, <2>2
<1>4. ASSUME NEW e \in Calls, NEW rate \in Rates, GrantStep(e, rate) PROVE Goal
  BY <1>1, <1>4, GrantEffect
<1>5. ASSUME NEW job \in VerifyJob, DeliverStep(job) PROVE Goal
  BY <1>1, <1>5, DeliverEffect
<1>6. ASSUME NEW S \in SUBSET Calls, ExpireStep(S) PROVE Goal
  <2>1. CASE c \notin S
    BY <1>1, <1>6, <2>1, ExpireEffect
  <2>2. CASE c \in S
    BY <1>6, <2>2 DEF ExpireStep, Pending
  <2> QED BY <2>1, <2>2
<1>7. ASSUME NEW A \in SUBSET Calls, NEW O \in SUBSET Calls,
             NEW status \in {"rejected", "expired"}, RefuseStep(A, O, status)
      PROVE  Goal
  <2>1. RefusedRow(c, A, O, status)
    BY <1>7, RefuseEffect
  <2> QED BY <2>1 DEF RefusedRow
<1> QED BY <1>0, <1>2, <1>3, <1>4, <1>5, <1>6, <1>7 DEF StepKind

(* What expires an order: its window closed, or it is older than the job's *)
(* age.                                                                    *)
LEMMA ExpiredBy ==
  ASSUME TypeOK, [Next]_vars, NEW c \in Calls,
         order[c].status = "pending_payment", order'[c].status = "expired"
  PROVE  order[c].payBy <= clock \/ order[c].at + StaleAfter < clock
<1> DEFINE Due == order[c].payBy <= clock \/ order[c].at + StaleAfter < clock
<1>0. order[c].status # order'[c].status /\ order[c] \in OrderRow
  BY DEF TypeOK
<1>1. order' # order
  BY <1>0
<1>2. ASSUME NEW A, NEW O, NEW status, Decide(A, O, status) PROVE FALSE
  <2>1. order'[c] = IF c \in O THEN [order[c] EXCEPT !.status = "rejected"] ELSE order[c]
    BY <1>2 DEF Decide
  <2> QED BY <1>0, <2>1 DEF OrderRow
<1>3. ASSUME NEW e \in Calls, CreateCommit(e) PROVE FALSE
  <2>1. \A d \in Calls \ {e} : order'[d] = order[d]
    BY <1>3 DEF CreateCommit, CreateAnswered, CreateAwaitingApproval, CreateSandbox,
                CreatePendingPayment, tables, TypeOK
  <2>2. c = e
    BY <1>0, <2>1
  <2>3. CASE CreateAnswered(e)
    BY <1>1, <2>3 DEF CreateAnswered, tables
  <2>4. CASE CreateAwaitingApproval(e)
    BY <2>2, <2>4 DEF CreateAwaitingApproval, TypeOK, OrderRow
  <2>5. CASE CreateSandbox(e)
    BY <2>2, <2>5 DEF CreateSandbox, TypeOK, OrderRow
  <2>6. ASSUME NEW rate \in Rates, CreatePendingPayment(e, rate) PROVE FALSE
    <3>1. order' = [order EXCEPT ![e] = Instructed([NoOrder EXCEPT !.at = clock], e, rate)]
      BY <1>1, <2>6 DEF CreatePendingPayment
    <3>2. order'[c].status = "pending_payment"
      BY <2>2, <3>1 DEF Instructed, NoOrder, TypeOK
    <3> QED BY <3>2
  <2> QED BY <1>3, <2>3, <2>4, <2>5, <2>6 DEF CreateCommit
<1>4. ASSUME NEW e \in Calls, VerifyTooLate(e) PROVE Due
  <2>1. c = e
    BY <1>0, <1>4 DEF VerifyTooLate, TypeOK
  <2> QED BY <1>4, <2>1 DEF VerifyTooLate
<1>5. CASE ExpireStaleOrders
  <2>1. c \in StaleOrders
    BY <1>0, <1>5 DEF ExpireStaleOrders
  <2> QED BY <2>1 DEF StaleOrders
<1>6. ASSUME NEW v \in Verifiers, VerifyClaim(v) \/ CrashInClaim(v) PROVE FALSE
  <2>1. PICK o \in Calls : order'[o].status = "delivered"
                           /\ \A d \in Calls \ {o} : order'[d] = order[d]
    BY <1>6, ClaimEffect
  <2> QED BY <1>0, <2>1
<1>7. ASSUME NEW e \in Calls, NEW rate \in Rates, ApproveTxn(e, rate) PROVE FALSE
  <2>1. order' = [order EXCEPT ![e] = Instructed(order[e], e, rate)]
        /\ order[e].status = "awaiting_approval"
    BY <1>7 DEF ApproveTxn
  <2>2. c # e
    BY <2>1
  <2> QED BY <1>0, <2>1, <2>2 DEF TypeOK
<1>8. ASSUME NEW p \in Operators, ApproveCommit(p) PROVE FALSE
  <2>1. PICK rate \in Rates : ApproveTxn(decide[p], rate)
    BY <1>8 DEF ApproveCommit
  <2>2. decide[p] \in Calls
    BY <1>8 DEF ApproveCommit, TypeOK
  <2> QED BY <1>7, <2>1, <2>2
<1>9. ASSUME NEW e \in Calls, ApproveMockUsdc(e) PROVE FALSE
  BY <1>7, <1>9 DEF ApproveMockUsdc
<1>10. ASSUME NEW e \in Calls, Reject(e) \/ CrashInReject(e) PROVE FALSE
  BY <1>2, <1>10 DEF Reject, CrashInReject
<1>11. ASSUME NEW k \in Keys, Suspend(k) \/ CrashInSuspend(k) PROVE FALSE
  BY <1>2, <1>11 DEF Suspend, CrashInSuspend
<1>12. ASSUME ExpireApprovalRequests \/ CrashInExpireApprovals PROVE FALSE
  BY <1>2, <1>12 DEF ExpireApprovalRequests, CrashInExpireApprovals
<1>13. ASSUME NEW v \in Verifiers, NEW e \in Calls, NEW d \in Deploys,
              NEW s \in Payers \union {None}, VerifyBegin(v, e, d, s)
       PROVE  FALSE
  BY <1>1, <1>13 DEF VerifyBegin, tables
<1>14. ASSUME NEW e \in Calls, CreateBegin(e) PROVE FALSE
  BY <1>1, <1>14 DEF CreateBegin, tables
<1>15. ASSUME NEW v \in Verifiers, VerifyRefused(v) PROVE FALSE
  BY <1>1, <1>15 DEF VerifyRefused, tables
<1>16. ASSUME NEW d \in Deploys, NEW e \in Calls, NEW s \in Payers, NEW good \in BOOLEAN,
              NEW paid \in {order[e].due - 1, order[e].due}, Pay(d, e, s, paid, good)
       PROVE  FALSE
  BY <1>1, <1>16 DEF Pay, tables
<1>17. ASSUME NEW p \in Operators, NEW e \in Calls, ApproveBegin(p, e) PROVE FALSE
  BY <1>1, <1>17 DEF ApproveBegin, tables
<1>18. ASSUME NEW p \in Operators, ApproveRolledBack(p) PROVE FALSE
  BY <1>1, <1>18 DEF ApproveRolledBack, tables
<1>19. ASSUME NEW k \in Keys, Unsuspend(k) \/ DeleteKey(k) PROVE FALSE
  BY <1>1, <1>19 DEF Unsuspend, DeleteKey, tables
<1>20. ASSUME NEW k \in Keys, NEW limit \in Limits, NEW policy \in Policies,
              UpdateKey(k, limit, policy)
       PROVE  FALSE
  BY <1>1, <1>20 DEF UpdateKey, tables
<1>21. ASSUME PruneIdempotencyKeys \/ Crash \/ Tick \/ UNCHANGED vars PROVE FALSE
  BY <1>1, <1>21 DEF PruneIdempotencyKeys, Crash, Tick, vars, tables
<1> QED BY <1>3, <1>4, <1>5, <1>6, <1>8, <1>9, <1>10, <1>11, <1>12, <1>13, <1>14, <1>15,
           <1>16, <1>17, <1>18, <1>19, <1>20, <1>21
        DEF Next, AgentStep, OwnerStep, JobStep, CrashStep

(* An order expired before its window closed is one whose window began at  *)
(* the owner's approval, and that was too old for the job by then.         *)
ExpiredEarlyWasApproved ==
    \A c \in Calls : order[c].status = "expired" =>
        \/ order[c].payBy <= clock
        \/ approval[c].status = "approved" /\ order[c].at + StaleAfter < clock

WindowFromInsertion ==
    \A c \in Calls : order[c].status = "pending_payment" =>
        approval[c].status = "approved" \/ order[c].payBy = order[c].at + PaymentTTL

LEMMA WindowStep ==
  ASSUME PaymentTTL <= StaleAfter, IInv, WindowFromInsertion, ExpiredEarlyWasApproved,
         [Next]_vars
  PROVE  WindowFromInsertion' /\ ExpiredEarlyWasApproved'
<1>1. ASSUME NEW c \in Calls, order'[c].status = "pending_payment"
      PROVE  approval'[c].status = "approved" \/ order'[c].payBy = order'[c].at + PaymentTTL
  <2>1. order[c] \in OrderRow
    BY DEF IInv, TypeOK
  <2>2. \/ order'[c] = order[c]
        \/ approval'[c].status = "approved"
        \/ order'[c].payBy = order'[c].at + PaymentTTL
        \/ order'[c] = [order[c] EXCEPT !.status = "expired"]
    BY <1>1, WindowBy
  <2>3. order'[c] # [order[c] EXCEPT !.status = "expired"]
    BY <1>1, <2>1 DEF OrderRow
  <2>4. CASE order'[c] = order[c]
    BY <1>1, <2>4, WindowBy DEF WindowFromInsertion
  <2> QED BY <2>2, <2>3, <2>4
<1>2. ASSUME NEW c \in Calls, order'[c].status = "expired"
      PROVE  \/ order'[c].payBy <= clock'
             \/ approval'[c].status = "approved" /\ order'[c].at + StaleAfter < clock'
  <2>1. /\ order[c] \in OrderRow /\ clock \in Nat /\ clock' \in Nat /\ clock' >= clock
        /\ approval[c].status = "approved" => approval'[c].status = "approved"
        /\ PaymentTTL \in Nat /\ StaleAfter \in Nat
    BY TypeStep, RowsKept, WindowBy, TimesTyped DEF IInv, TypeOK
  <2>2. order[c].at \in Nat /\ order[c].payBy \in Nat
    BY <2>1 DEF OrderRow
  <2>3. CASE order'[c] = order[c]
    BY <1>2, <2>1, <2>2, <2>3 DEF ExpiredEarlyWasApproved
  <2>4. CASE order[c].status = "pending_payment"
             /\ order'[c] = [order[c] EXCEPT !.status = "expired"]
    <3>1. order'[c].at = order[c].at /\ order'[c].payBy = order[c].payBy
      BY <2>1, <2>4 DEF OrderRow
    <3>2. order[c].payBy <= clock \/ order[c].at + StaleAfter < clock
      BY <1>2, <2>4, ExpiredBy DEF IInv
    <3>3. approval[c].status = "approved" \/ order[c].payBy = order[c].at + PaymentTTL
      BY <2>4 DEF WindowFromInsertion
    <3> QED BY <2>1, <2>2, <3>1, <3>2, <3>3
  <2> QED BY <1>2, <2>3, <2>4, WindowBy
<1> QED BY <1>1, <1>2 DEF WindowFromInsertion, ExpiredEarlyWasApproved

(* What expires an order inside its payment window is the wait for its     *)
(* owner alone: an order that asked nobody keeps the window it was quoted, *)
(* as long as the job's age is not below it (expireStaleOrders).           *)
THEOREM OnlyApprovedExpireEarly ==
  ASSUME PaymentTTL <= StaleAfter PROVE Spec => []ExpiredEarlyWasApproved
<1>1. Init => WindowFromInsertion /\ ExpiredEarlyWasApproved
  BY DEF Init, WindowFromInsertion, ExpiredEarlyWasApproved, NoOrder
<1>2. IInv /\ WindowFromInsertion /\ ExpiredEarlyWasApproved /\ [Next]_vars
        => WindowFromInsertion' /\ ExpiredEarlyWasApproved'
  BY WindowStep
<1> QED BY <1>1, <1>2, Invariant, PTL DEF Spec

(* What leaves a refused order waiting is a crash alone.                   *)
THEOREM OnlyCrashesLeaveRefused ==
  ASSUME MaxCrashes = 0 PROVE Spec => []RefusalClosesOrder
<1> DEFINE Uncut == crashes = 0 /\ undecided = {}
<1>1. Init => Uncut
  BY DEF Init
<1>2. TypeOK /\ Uncut /\ [Next]_vars => Uncut'
  <2> SUFFICES ASSUME TypeOK, Uncut, [Next]_vars PROVE Uncut'
    OBVIOUS
  <2>1. ~LoseRequests
    BY DEF LoseRequests
  <2>2. ~CrashStep
    BY <2>1 DEF CrashStep, Crash, CrashInClaim, CrashInReject, CrashInSuspend,
                CrashInExpireApprovals
  <2>3. CASE AgentStep
    BY <2>3 DEF AgentStep, CreateBegin, CreateCommit, VerifyTooLate, VerifyBegin, VerifyClaim,
                VerifyRefused, Pay, cuts, bounds
  <2>4. CASE OwnerStep
    BY <2>4 DEF OwnerStep, ApproveBegin, ApproveCommit, ApproveRolledBack, ApproveMockUsdc,
                Reject, Suspend, Unsuspend, DeleteKey, UpdateKey, cuts, bounds
  <2>5. CASE JobStep \/ Tick \/ UNCHANGED vars
    BY <2>5 DEF JobStep, ExpireStaleOrders, ExpireApprovalRequests, PruneIdempotencyKeys, Tick,
                vars, cuts, bounds
  <2> QED BY <2>2, <2>3, <2>4, <2>5 DEF Next
<1>3. IInv /\ Uncut => RefusalClosesOrder
  BY DEF IInv, ApprovalAgrees, RefusalClosesOrder
<1>4. IInv => TypeOK
  BY DEF IInv
<1> QED BY <1>1, <1>2, <1>3, <1>4, Invariant, PTL DEF Spec

-----------------------------------------------------------------------------
(* The orders implement the promise *)

Free == [c \in Calls |-> KeyOf(c) \in Sandbox]
Phases == [c \in Calls |-> Phase(order[c].status)]
Coins == [c \in Calls |-> order[c].deploy]

(* Initially the promise has no orders.                                    *)
LEMMA PromiseInit == Init => Promise!Init
<1> SUFFICES ASSUME Init PROVE Promise!Init
  OBVIOUS
<1>1. Free \in [Calls -> BOOLEAN]
  BY DEF Free
<1>2. Phases = [c \in Calls |-> "absent"] /\ Coins = [c \in Calls |-> None]
  BY DEF Init, NoOrder, Phases, Coins, Phase
<1> QED BY <1>1, <1>2 DEF Promise!Init, Free, Phases, Coins

(* Each kind of step is a step of the promise, or none of its business.    *)
LEMMA PromiseStep == IInv /\ IInv' /\ [Next]_vars => [Promise!Next]_(Promise!vars)
<1> SUFFICES ASSUME IInv, IInv', [Next]_vars
             PROVE  Promise!Next \/ UNCHANGED <<Free, Phases, Coins>>
  BY DEF Promise!vars, Free, Phases, Coins
<1>0. StepKind /\ Free' = Free
  BY StepKinds, RequestsFixed DEF IInv, Free, KeyOf
<1>00. DOMAIN Phases = Calls /\ DOMAIN Coins = Calls
  BY DEF Phases, Coins
<1>1. CASE QuietStep
  BY <1>0, <1>1 DEF QuietStep, Phases, Coins
<1>2. ASSUME NEW e \in Calls, InsertStep(e) PROVE Promise!Next
  <2>1. Coins' = Coins
    BY <1>2, InsertEffect DEF Coins, NoOrder
  <2>2. Phases[e] = "absent"
    BY <1>2, InsertEffect DEF Phases, Phase, NoOrder
  <2>3. Phases' = [Phases EXCEPT ![e] = Phase(order'[e].status)]
    BY <1>2, InsertEffect DEF Phases
  <2>4. CASE order'[e].status = "awaiting_approval"
    <3>1. Phases' = [Phases EXCEPT ![e] = "awaiting_approval"]
      BY <2>3, <2>4 DEF Phase
    <3>2. Promise!Ask(e)
      BY <1>0, <2>1, <2>2, <3>1 DEF Promise!Ask, Promise!Becomes, Phases, Coins, Free
    <3> QED BY <3>2 DEF Promise!Next
  <2>5. CASE order'[e].status = "delivered" /\ KeyOf(e) \in Sandbox
    <3>1. Phases' = [Phases EXCEPT ![e] = "ready"]
      BY <2>3, <2>5 DEF Phase
    <3>2. Promise!Gift(e)
      BY <1>0, <2>1, <2>2, <2>5, <3>1 DEF Promise!Gift, Promise!Becomes, Phases, Coins, Free
    <3> QED BY <3>2 DEF Promise!Next
  <2>6. CASE order'[e].status = "pending_payment" /\ KeyOf(e) \notin Sandbox
    <3>1. Phases' = [Phases EXCEPT ![e] = "awaiting_payment"]
      BY <2>3, <2>6 DEF Phase
    <3>2. Promise!Open(e)
      BY <1>0, <2>1, <2>2, <2>6, <3>1 DEF Promise!Open, Promise!Becomes, Phases, Coins, Free
    <3> QED BY <3>2 DEF Promise!Next
  <2> QED BY <1>2, <2>4, <2>5, <2>6, InsertEffect
<1>3. ASSUME NEW e \in Calls, NEW rate \in Rates, GrantStep(e, rate) PROVE Promise!Next
  <2>1. Coins' = Coins
    BY <1>3, GrantEffect DEF Coins
  <2>2. Phases[e] = "awaiting_approval"
    BY <1>3, GrantEffect DEF Phases, Phase
  <2>3. Phases' = [Phases EXCEPT ![e] = "awaiting_payment"]
    BY <1>3, GrantEffect DEF Phases, Phase
  <2>4. Promise!Grant(e)
    BY <1>0, <2>1, <2>2, <2>3 DEF Promise!Grant, Promise!Becomes, Phases, Coins, Free
  <2> QED BY <2>4 DEF Promise!Next
<1>4. ASSUME NEW job \in VerifyJob, DeliverStep(job) PROVE Promise!Next
  <2> DEFINE o == job.order
             d == job.deploy
  <2>1. o \in Calls /\ d \in Deploys
    BY <1>4, DeliverEffect
  <2>2. Coins' = [Coins EXCEPT ![o] = d]
    BY <1>4, DeliverEffect DEF Coins
  <2>3. Phases[o] = "awaiting_payment"
    BY <1>4, DeliverEffect DEF Phases, Phase
  <2>4. Phases' = [Phases EXCEPT ![o] = "ready"]
    BY <1>4, DeliverEffect DEF Phases, Phase
  <2>5. \A other \in Calls : Coins[other] # d
    BY <1>4, DeliverEffect DEF Coins
  <2>6. Promise!Deliver(o, d)
    BY <1>0, <2>2, <2>3, <2>4, <2>5
    DEF Promise!Deliver, Promise!Becomes, Phases, Coins, Free
  <2> QED BY <2>1, <2>6 DEF Promise!Next
<1>5. ASSUME NEW S \in SUBSET Calls, ExpireStep(S) PROVE Promise!Next
  <2>1. Coins' = Coins
    BY <1>5, ExpireEffect DEF Coins
  <2>2. \A c \in S : Phases[c] = "awaiting_payment"
    BY <1>5, ExpireEffect DEF Phases, Phase
  <2>3. Phases' = [c \in Calls |-> IF c \in S THEN "expired" ELSE Phases[c]]
    BY <1>5, ExpireEffect DEF Phases, Phase
  <2>4. Promise!CloseAll(S, "awaiting_payment", "expired")
    BY <1>0, <2>1, <2>2, <2>3 DEF Promise!CloseAll, Phases, Coins, Free
  <2> QED BY <2>4 DEF Promise!Next
<1>6. ASSUME NEW A \in SUBSET Calls, NEW O \in SUBSET Calls,
             NEW status \in {"rejected", "expired"}, RefuseStep(A, O, status)
      PROVE  Promise!Next
  <2>0. \A c \in Calls : RefusedRow(c, A, O, status)
    BY <1>6, RefuseEffect
  <2>1. Coins' = Coins
    BY <2>0 DEF Coins, RefusedRow
  <2>2. \A c \in O : Phases[c] = "awaiting_approval"
    BY <2>0 DEF Phases, Phase, RefusedRow
  <2>3. Phases' = [c \in Calls |-> IF c \in O THEN "rejected" ELSE Phases[c]]
    BY <2>0 DEF Phases, Phase, RefusedRow
  <2>4. Promise!CloseAll(O, "awaiting_approval", "rejected")
    BY <1>0, <2>1, <2>2, <2>3 DEF Promise!CloseAll, Phases, Coins, Free
  <2> QED BY <2>4 DEF Promise!Next
<1> QED BY <1>0, <1>1, <1>2, <1>3, <1>4, <1>5, <1>6 DEF StepKind

(* Whatever handlers, jobs and crashes do, an agent sees only what the     *)
(* promise allows.                                                         *)
THEOREM PromiseKept == Spec => KeepsPromise
<1>1. Init => Promise!Init
  BY PromiseInit
<1>2. IInv /\ IInv' /\ [Next]_vars => [Promise!Next]_(Promise!vars)
  BY PromiseStep
<1> QED BY <1>1, <1>2, Invariant, PTL DEF Spec, KeepsPromise, Promise!Spec
=============================================================================
