-------------------------------- MODULE Orders --------------------------------
(***************************************************************************)
(* The life of an order: src/backend/src/api/orders.js (create, verify),   *)
(* src/backend/src/api/dashboard.js (approve, reject, suspend, key update) *)
(* and the expiry jobs of src/backend/src/jobs.js, over one SQLite         *)
(* database and one Node process.                                          *)
(*                                                                         *)
(* Statements between two awaits of a handler run without interruption, so *)
(* a handler is one action per stretch between awaits.  What a handler     *)
(* read before an await and uses after it is kept in call, verify, decide. *)
(***************************************************************************)
EXTENDS Policy, Money

CONSTANTS
    Keys,          \* API keys
    Sandbox,       \* the keys in sandbox mode
    Calls,         \* POST /v1/orders requests; the order one inserts bears its name
    Bodies,        \* the request bodies clients send
    Limits,        \* spend limits an owner may set
    Policies,      \* policies an owner may set
    Verifiers,     \* concurrent verify-payment requests
    Operators,     \* concurrent approve requests
    Deploys,       \* deploy hashes on the Casper chain
    Payers,        \* Casper public keys
    Rates,         \* CSPR/USD rates the price oracle may answer
    PaymentTTL,    \* CASPER_PAYMENT_TTL_MINUTES
    StaleAfter,    \* age at which the job expires an unpaid order
    ApprovalTTL,   \* APPROVAL_TTL_MINUTES
    IdemTTL,       \* age at which an idempotency row is pruned
    MaxTime,       \* bound: the clock stops here
    LastCall,      \* bound: no order is requested or inserted later
    MaxCrashes,    \* bound: crashes of the process
    MaxUpdates     \* bound: owner changes of a key row

ASSUME OrdersAssumption ==
    /\ None \notin Calls \union Deploys \union Payers
    /\ Sandbox \subseteq Keys
    /\ Rates \subseteq Decimal
    /\ Limits \subseteq Nat \union {None}
    /\ \A p \in Policies : IsSet(p.daily) => p.daily \in Nat
    /\ Bodies \subseteq [key : Keys, amount : Nat \ {0},
                         asset : {"cspr_casper", "mock_usdc_cep18"},
                         payer : Payers \union {None}, idem : STRING \union {None}]
    /\ \A b \in Bodies : b.asset = "mock_usdc_cep18" => b.payer # None
    /\ \A t \in {PaymentTTL, StaleAfter, ApprovalTTL, IdemTTL,
                 MaxTime, LastCall, MaxCrashes, MaxUpdates} : t \in Nat

VARIABLES
    clock,      \* wall-clock time
    request,    \* request[c]: the body call c sends
    key,        \* key[k]: the api_keys row
    order,      \* order[c]: the orders row call c inserted, if any
    approval,   \* approval[c]: the approval_requests row of that order
    idem,       \* the idempotency_keys table
    nextTid,    \* system_state.casper_next_transfer_id
    chain,      \* chain[d]: what the Casper node reports of deploy d
    call,       \* call[c]: a create request between its awaits
    verify,     \* verify[v]: a verify request waiting for the node
    decide,     \* decide[p]: an approve request waiting for the price
    uncredited, \* orders whose claim a crash cut short of crediting the key
    undecided,  \* orders whose owner decision a crash cut short
    crashes,    \* crashes so far
    updates     \* key updates so far

tables == <<order, approval, idem, nextTid>>
inflight == <<call, verify, decide>>
world == <<clock, request, chain>>
cuts == <<uncredited, undecided>>
bounds == <<crashes, updates>>
vars == <<tables, inflight, world, cuts, bounds, key>>

-----------------------------------------------------------------------------
(* Rows *)

Statuses == {"none", "awaiting_approval", "pending_payment",
             "delivered", "expired", "rejected"}
Closed == {"delivered", "expired", "rejected"}
InFlightStatuses == {"awaiting_approval", "pending_payment"}

OrderRow == [status : Statuses, at : Nat, due : Nat, tid : Nat, payBy : Nat,
             deploy : Deploys \union {None}]
NoOrder == [status |-> "none", at |-> 0, due |-> 0, tid |-> 0, payBy |-> 0,
            deploy |-> None]

ApprovalRow == [status : {"none", "pending", "approved", "rejected", "expired"},
                until : Nat]

KeyRow == [limit : Limits, policy : Policies, suspended : BOOLEAN,
           deleted : BOOLEAN, settled : Nat]

IdemRow == [key : Keys, idem : STRING \union {None}, owner : Calls, at : Nat]

Transfer == [kind : {"none", "cspr_casper", "mock_usdc_cep18"}, tid : Nat,
             paid : Nat, sender : Payers \union {None}, good : BOOLEAN]
Unseen == [kind |-> "none", tid |-> 0, paid |-> 0, sender |-> None, good |-> FALSE]

CallState == [pc : {"idle", "authed", "done"}, limit : Limits \union {None},
              settled : Nat]
VerifyJob == [order : Calls, deploy : Deploys, sender : Payers \union {None},
              due : Nat, tid : Nat]

TypeOK ==
    /\ clock \in Nat
    /\ request \in [Calls -> Bodies]
    /\ key \in [Keys -> KeyRow]
    /\ order \in [Calls -> OrderRow]
    /\ approval \in [Calls -> ApprovalRow]
    /\ idem \subseteq IdemRow
    /\ nextTid \in Nat \ {0}
    /\ chain \in [Deploys -> Transfer]
    /\ call \in [Calls -> CallState]
    /\ verify \in [Verifiers -> VerifyJob \union {None}]
    /\ decide \in [Operators -> Calls \union {None}]
    /\ uncredited \subseteq Calls
    /\ undecided \subseteq Calls
    /\ crashes \in Nat
    /\ updates \in Nat

Init ==
    /\ clock = 0
    /\ request \in [Calls -> Bodies]
    /\ \E limit \in Limits, policy \in Policies :
         key = [k \in Keys |-> [limit |-> limit, policy |-> policy,
                                suspended |-> FALSE, deleted |-> FALSE,
                                settled |-> 0]]
    /\ order = [c \in Calls |-> NoOrder]
    /\ approval = [c \in Calls |-> [status |-> "none", until |-> 0]]
    /\ idem = {}
    /\ nextTid = 1
    /\ chain = [d \in Deploys |-> Unseen]
    /\ call = [c \in Calls |-> [pc |-> "idle", limit |-> None, settled |-> 0]]
    /\ verify = [v \in Verifiers |-> None]
    /\ decide = [p \in Operators |-> None]
    /\ uncredited = {}
    /\ undecided = {}
    /\ crashes = 0
    /\ updates = 0

-----------------------------------------------------------------------------
(* Queries *)

Amount(c) == request[c].amount
KeyOf(c) == request[c].key
OrdersOf(k) == {c \in Calls : KeyOf(c) = k}
Total(S) == MapThenSumSet(Amount, S)

Date(t) == t \div DayMinutes

(* Mutant: orders that wait for approval are forgotten. *)
PayableOrders(k) == {c \in OrdersOf(k) : order[c].status = "pending_payment"}

(* The orders whose amounts count against the spend limit beside what the  *)
(* key has spent.                                                          *)
InFlightOrders(k) == {c \in OrdersOf(k) : order[c].status \in InFlightStatuses}

(* Mutant: only cards already delivered count. *)
DeliveredOn(k, date) ==
    Total({c \in OrdersOf(k) : /\ order[c].status = "delivered"
                               /\ Date(order[c].at) = date})

(* The SUM policy.js takes over the orders created today. *)
SpentOn(k, date) ==
    Total({c \in OrdersOf(k) :
             /\ order[c].status \notin {"none", "expired", "rejected"}
             /\ Date(order[c].at) = date})

(* Mutant: suspension is left to the middleware. *)
DecisionIgnoringSuspension(c) ==
    LET row == key[KeyOf(c)]
    IN  IF row.deleted THEN "blocked"
        ELSE CheckPolicy(row.policy, FALSE, Amount(c), SpentOn(KeyOf(c), Date(clock)),
                         clock % DayMinutes, Date(clock) % WeekDays)

(* Mutant: the threshold is left out. *)
DecisionWithoutThreshold(c) ==
    LET row == key[KeyOf(c)]
    IN  IF row.deleted THEN "blocked"
        ELSE CheckPolicy([row.policy EXCEPT !.approve = None], row.suspended,
                         Amount(c), SpentOn(KeyOf(c), Date(clock)),
                         clock % DayMinutes, Date(clock) % WeekDays)

(* A key that is gone fails closed (rule key_not_found). *)
Decision(c) ==
    LET row == key[KeyOf(c)]
    IN  IF row.deleted THEN "blocked"
        ELSE CheckPolicy(row.policy, row.suspended, Amount(c),
                         SpentOn(KeyOf(c), Date(clock)),
                         clock % DayMinutes, Date(clock) % WeekDays)

(* What an order costs in the smallest unit of its asset. *)
Price(c, rate) ==
    LET usd == [units |-> Amount(c), scale |-> 1]
    IN  IF request[c].asset = "cspr_casper"
        THEN UsdToMotes(usd, rate)
        ELSE UsdToMockUsdc(usd)

Payable(c, rate) ==
    request[c].asset = "cspr_casper" => Price(c, rate) >= MinTransferMotes

(* A payment instruction for order c: the transfer id counter moves for    *)
(* native transfers only.                                                  *)
Instructed(row, c, rate) ==
    [row EXCEPT !.status = "pending_payment",
                !.due = Price(c, rate),
                !.tid = IF request[c].asset = "cspr_casper" THEN nextTid ELSE 0,
                !.payBy = clock + PaymentTTL]

(* Mutant: the counter is read and not written back. *)
TidNotAdvanced(c) == nextTid

TidAfter(c) ==
    IF request[c].asset = "cspr_casper" THEN nextTid + 1 ELSE nextTid

(* INSERT OR IGNORE INTO idempotency_keys, when the request carries a key. *)
Remember(c) ==
    IF request[c].idem = None THEN idem
    ELSE idem \union {[key |-> KeyOf(c), idem |-> request[c].idem,
                       owner |-> c, at |-> clock]}

-----------------------------------------------------------------------------
(* POST /v1/orders *)

(* The auth middleware reads the key row, then awaits bcrypt; the route    *)
(* goes on to await the webhook URL check and the price.                   *)
CreateBegin(c) ==
    /\ call[c].pc = "idle"
    /\ clock <= LastCall
    /\ ~key[KeyOf(c)].suspended /\ ~key[KeyOf(c)].deleted
    /\ call' = [call EXCEPT ![c] = [pc |-> "authed",
                                    limit |-> key[KeyOf(c)].limit,
                                    settled |-> key[KeyOf(c)].settled]]
    /\ UNCHANGED <<tables, verify, decide, world, cuts, bounds, key>>

Remembered(c) ==
    \E r \in idem : /\ r.key = KeyOf(c)
                    /\ r.idem = request[c].idem

(* The check inside the transaction: fresh orders, but the limit and the   *)
(* total spent as the middleware read them.                                *)
OverLimit(c) ==
    /\ call[c].limit # None
    /\ call[c].settled + Total(InFlightOrders(KeyOf(c))) + Amount(c) > call[c].limit

Fresh(c) == ~Remembered(c) /\ ~OverLimit(c)

(* An idempotency hit or conflict, a spend limit or a policy refusal: the  *)
(* transaction writes nothing.                                             *)
CreateAnswered(c) ==
    /\ \/ Remembered(c)
       \/ OverLimit(c)
       \/ Decision(c) = "blocked"
    /\ UNCHANGED tables

CreateAwaitingApproval(c) ==
    /\ Fresh(c)
    /\ Decision(c) = "pending_approval"
    /\ order' = [order EXCEPT ![c].status = "awaiting_approval", ![c].at = clock]
    /\ approval' = [approval EXCEPT ![c] = [status |-> "pending",
                                            until |-> clock + ApprovalTTL]]
    /\ idem' = Remember(c)
    /\ UNCHANGED nextTid

CreateSandbox(c) ==
    /\ Fresh(c)
    /\ Decision(c) = "approved"
    /\ KeyOf(c) \in Sandbox
    /\ order' = [order EXCEPT ![c].status = "delivered", ![c].at = clock]
    /\ idem' = Remember(c)
    /\ UNCHANGED <<approval, nextTid>>

CreatePendingPayment(c, rate) ==
    /\ Fresh(c)
    /\ Decision(c) = "approved"
    /\ KeyOf(c) \notin Sandbox
    /\ nextTid' = TidAfter(c)
    /\ IF Payable(c, rate)
       THEN /\ order' = [order EXCEPT
                            ![c] = Instructed([NoOrder EXCEPT !.at = clock], c, rate)]
            /\ idem' = Remember(c)
       ELSE UNCHANGED <<order, idem>>   \* too small: only the id is spent
    /\ UNCHANGED approval

(* The synchronous transaction after the last await. *)
CreateCommit(c) ==
    /\ call[c].pc = "authed"
    /\ clock <= LastCall
    /\ call' = [call EXCEPT ![c].pc = "done"]
    /\ \/ CreateAnswered(c)
       \/ CreateAwaitingApproval(c)
       \/ CreateSandbox(c)
       \/ \E rate \in Rates : CreatePendingPayment(c, rate)
    /\ UNCHANGED <<verify, decide, world, cuts, bounds, key>>

-----------------------------------------------------------------------------
(* POST /v1/orders/:id/verify-payment *)

Pending(c) == order[c].status = "pending_payment"

(* The submitted sender may be left out of a native transfer, and must be  *)
(* the payer the order is bound to, if it is bound to one.                 *)
SenderAccepted(c, sender) ==
    /\ request[c].asset = "mock_usdc_cep18" => sender # None
    /\ request[c].payer # None => sender \in {None, request[c].payer}

HoldsDeploy(c, d) == order[c].deploy = d

(* The handler up to the call of the node.  The middleware refuses a       *)
(* suspended key, but awaits bcrypt after reading the row: the handler may *)
(* still run for a key suspended since, so suspension is no guard here.    *)

VerifyBegin(v, c, d, sender) ==
    /\ verify[v] = None
    /\ Pending(c)
    /\ SenderAccepted(c, sender)
    /\ order[c].payBy > clock
    /\ \A other \in Calls \ {c} : ~HoldsDeploy(other, d)
    /\ verify' = [verify EXCEPT
                    ![v] = [order |-> c, deploy |-> d,
                            sender |-> IF request[c].payer # None
                                       THEN request[c].payer ELSE sender,
                            due |-> order[c].due, tid |-> order[c].tid]]
    /\ UNCHANGED <<tables, call, decide, world, cuts, bounds, key>>

(* A request that comes after the payment window closes the order. *)
VerifyTooLate(c) ==
    /\ Pending(c)
    /\ order[c].payBy <= clock
    /\ order' = [order EXCEPT ![c].status = "expired"]
    /\ UNCHANGED <<approval, idem, nextTid, inflight, world, cuts, bounds, key>>

(* Mutant: a transfer is taken whatever order it was sent for. *)
ProvesAnyTransferId(t, job) ==
    /\ t.good
    /\ t.kind = request[job.order].asset
    /\ job.sender # None => t.sender = job.sender
    /\ t.paid >= job.due

(* What verifyCasperDeployPayment and verifyCasperCep18Payment accept.     *)
Proves(t, job) ==
    /\ t.good
    /\ t.kind = request[job.order].asset
    /\ t.kind = "cspr_casper" => t.tid = job.tid
    /\ job.sender # None => t.sender = job.sender
    /\ t.paid >= job.due

(* Mutant: no unique index on casper_deploy_hash. *)
ClaimableUnindexed(job) ==
    /\ Pending(job.order)
    /\ order[job.order].deploy = None

(* Mutant: the UPDATE trusts the status read before the node was asked. *)
ClaimableInAnyState(job) ==
    \A other \in Calls : ~HoldsDeploy(other, job.deploy)

(* The guarded UPDATE can match: the order is still unpaid, and the unique *)
(* index on casper_deploy_hash lets the hash in.                           *)
Claimable(job) ==
    /\ Pending(job.order)
    /\ order[job.order].deploy = None
    /\ \A other \in Calls : ~HoldsDeploy(other, job.deploy)

Claim(job) ==
    order' = [order EXCEPT ![job.order].status = "delivered",
                           ![job.order].deploy = job.deploy]

(* The second UPDATE finds no row if the key was deleted meanwhile. *)
Credited(row, c) ==
    IF row.deleted THEN row.settled ELSE row.settled + Amount(c)

VerifyClaim(v) ==
    LET job == verify[v]
    IN  /\ job # None
        /\ Proves(chain[job.deploy], job)
        /\ Claimable(job)
        /\ Claim(job)
        /\ key' = [key EXCEPT ![KeyOf(job.order)].settled =
                                   Credited(key[KeyOf(job.order)], job.order)]
        /\ verify' = [verify EXCEPT ![v] = None]
        /\ UNCHANGED <<approval, idem, nextTid, call, decide, world, cuts, bounds>>

(* The node refuses the deploy, does not know it yet or does not answer,   *)
(* or the claim comes too late: the request ends and nothing is written.   *)
VerifyRefused(v) ==
    /\ verify[v] # None
    /\ verify' = [verify EXCEPT ![v] = None]
    /\ UNCHANGED <<tables, call, decide, world, cuts, bounds, key>>

-----------------------------------------------------------------------------
(* The owner's dashboard *)

(* Both approve paths read the approval first and check the spend limit    *)
(* against what the key row says then and the other orders in flight.      *)
MayApprove(c) ==
    LET row == key[KeyOf(c)]
        others == InFlightOrders(KeyOf(c)) \ {c}
    IN  /\ ~row.deleted
        /\ approval[c].status = "pending"
        /\ approval[c].until > clock
        /\ row.limit # None => row.settled + Total(others) + Amount(c) <= row.limit

(* Mutant: both UPDATEs trust what the handler read before the price. *)
ApproveTxnTrusting(c, rate) ==
    /\ Payable(c, rate)
    /\ approval' = [approval EXCEPT ![c].status = "approved"]
    /\ order' = [order EXCEPT ![c] = Instructed(@, c, rate)]
    /\ nextTid' = TidAfter(c)
    /\ UNCHANGED idem

(* The transaction of approve: both guarded UPDATEs, or neither. *)
ApproveTxn(c, rate) ==
    /\ approval[c].status = "pending"
    /\ approval[c].until >= clock
    /\ Payable(c, rate)
    /\ order[c].status = "awaiting_approval"
    /\ approval' = [approval EXCEPT ![c].status = "approved"]
    /\ order' = [order EXCEPT ![c] = Instructed(@, c, rate)]
    /\ nextTid' = TidAfter(c)
    /\ UNCHANGED idem

ApproveBegin(p, c) ==
    /\ decide[p] = None
    /\ request[c].asset = "cspr_casper"
    /\ MayApprove(c)
    /\ decide' = [decide EXCEPT ![p] = c]
    /\ UNCHANGED <<tables, call, verify, world, cuts, bounds, key>>

ApproveCommit(p) ==
    /\ decide[p] # None
    /\ \E rate \in Rates : ApproveTxn(decide[p], rate)
    /\ decide' = [decide EXCEPT ![p] = None]
    /\ UNCHANGED <<call, verify, world, cuts, bounds, key>>

(* A guard of the transaction failed, or the price is too small: rollback. *)
ApproveRolledBack(p) ==
    /\ decide[p] # None
    /\ LET c == decide[p]
       IN  \/ approval[c].status # "pending"
           \/ approval[c].until < clock
           \/ order[c].status # "awaiting_approval"
           \/ \E rate \in Rates : ~Payable(c, rate)
    /\ decide' = [decide EXCEPT ![p] = None]
    /\ UNCHANGED <<tables, call, verify, world, cuts, bounds, key>>

(* A mockUSDC order needs no price, so nothing is awaited. *)
ApproveMockUsdc(c) ==
    /\ request[c].asset = "mock_usdc_cep18"
    /\ MayApprove(c)
    /\ \E rate \in Rates : ApproveTxn(c, rate)
    /\ UNCHANGED <<inflight, world, cuts, bounds, key>>

(* Approvals are refused one by one, each with two statements in           *)
(* autocommit mode: the approval first, then its order.                    *)
Decide(approvals, orders, status) ==
    /\ approval' = [c \in Calls |-> IF c \in approvals
                                    THEN [approval[c] EXCEPT !.status = status]
                                    ELSE approval[c]]
    /\ order' = [c \in Calls |-> IF c \in orders
                                 THEN [order[c] EXCEPT !.status = "rejected"]
                                 ELSE order[c]]

(* Mutant: the approval is refused and its order forgotten. *)
AwaitingNone(S) == {}

Awaiting(S) == {c \in S : order[c].status = "awaiting_approval"}

MayReject(c) == ~key[KeyOf(c)].deleted /\ approval[c].status = "pending"

Reject(c) ==
    /\ MayReject(c)
    /\ Decide({c}, Awaiting({c}), "rejected")
    /\ UNCHANGED <<idem, nextTid, inflight, world, cuts, bounds, key>>

(* Suspending a key rejects what it has waiting, whatever the order is.    *)
Waiting(k) == {c \in OrdersOf(k) : approval[c].status = "pending"}

SuspendKey(k) ==
    /\ ~key[k].deleted
    /\ updates < MaxUpdates
    /\ updates' = updates + 1
    /\ key' = [key EXCEPT ![k].suspended = TRUE]

Suspend(k) ==
    /\ SuspendKey(k)
    /\ Decide(Waiting(k), Waiting(k), "rejected")
    /\ UNCHANGED <<idem, nextTid, inflight, world, cuts, crashes>>

Unsuspend(k) ==
    /\ key[k].suspended /\ ~key[k].deleted
    /\ key' = [key EXCEPT ![k].suspended = FALSE]
    /\ UNCHANGED <<tables, inflight, world, cuts, bounds>>

UpdateKey(k, limit, policy) ==
    /\ ~key[k].deleted
    /\ updates < MaxUpdates
    /\ updates' = updates + 1
    /\ key' = [key EXCEPT ![k].limit = limit, ![k].policy = policy]
    /\ UNCHANGED <<tables, inflight, world, cuts, crashes>>

(* No foreign key ties orders or approvals to api_keys: they stay behind.  *)
DeleteKey(k) ==
    /\ ~key[k].deleted
    /\ updates < MaxUpdates
    /\ updates' = updates + 1
    /\ key' = [key EXCEPT ![k].deleted = TRUE]
    /\ UNCHANGED <<tables, inflight, world, cuts, crashes>>

-----------------------------------------------------------------------------
(* Background jobs *)

(* Mutant: only native transfers expire. *)
StaleNativeOrders ==
    {c \in Calls : /\ Pending(c) /\ order[c].tid # 0
                   /\ order[c].at + StaleAfter < clock}

StaleOrders == {c \in Calls : Pending(c) /\ order[c].at + StaleAfter < clock}

ExpireStaleOrders ==
    /\ StaleOrders # {}
    /\ order' = [c \in Calls |-> IF c \in StaleOrders
                                 THEN [order[c] EXCEPT !.status = "expired"]
                                 ELSE order[c]]
    /\ UNCHANGED <<approval, idem, nextTid, inflight, world, cuts, bounds, key>>

LapsedApprovals ==
    {c \in Calls : approval[c].status = "pending" /\ approval[c].until < clock}

ExpireApprovalRequests ==
    /\ LapsedApprovals # {}
    /\ Decide(LapsedApprovals, Awaiting(LapsedApprovals), "expired")
    /\ UNCHANGED <<idem, nextTid, inflight, world, cuts, bounds, key>>

(* Mutant: a row is pruned one tick too early. *)
PruneEarly ==
    /\ \E r \in idem : r.at + IdemTTL <= clock
    /\ idem' = {r \in idem : r.at + IdemTTL > clock}
    /\ UNCHANGED <<order, approval, nextTid, inflight, world, cuts, bounds, key>>

PruneIdempotencyKeys ==
    /\ \E r \in idem : r.at + IdemTTL < clock
    /\ idem' = {r \in idem : r.at + IdemTTL >= clock}
    /\ UNCHANGED <<order, approval, nextTid, inflight, world, cuts, bounds, key>>

-----------------------------------------------------------------------------
(* The process dies, the world goes on *)

(* Requests in flight are lost; what SQLite committed stays. *)
LoseRequests ==
    /\ crashes < MaxCrashes
    /\ crashes' = crashes + 1
    /\ call' = [c \in Calls |-> IF call[c].pc = "authed"
                                THEN [call[c] EXCEPT !.pc = "done"] ELSE call[c]]
    /\ verify' = [v \in Verifiers |-> None]
    /\ decide' = [p \in Operators |-> None]

Crash ==
    /\ LoseRequests
    /\ UNCHANGED <<tables, world, cuts, updates, key>>

(* Claim and credit are two statements in autocommit mode: dying between   *)
(* them keeps the card and loses the credit.                               *)
CrashInClaim(v) ==
    LET job == verify[v]
    IN  /\ job # None
        /\ Proves(chain[job.deploy], job)
        /\ Claimable(job)
        /\ Claim(job)
        /\ uncredited' = uncredited \union {job.order}
        /\ LoseRequests
        /\ UNCHANGED <<approval, idem, nextTid, undecided, world, updates, key>>

(* Dying between the two statements of a refusal leaves the order waiting  *)
(* for an approval that is over.                                           *)
CrashInReject(c) ==
    /\ MayReject(c)
    /\ Decide({c}, {}, "rejected")
    /\ undecided' = undecided \union {c}
    /\ LoseRequests
    /\ UNCHANGED <<idem, nextTid, uncredited, world, updates, key>>

(* Dying in the loop of a suspension: some requests are done, one may be   *)
(* half done, the others still wait although the key is suspended.         *)
CrashInSuspend(k) ==
    /\ SuspendKey(k)
    /\ \E done \in SUBSET Waiting(k) : \E half \in SUBSET (Waiting(k) \ done) :
         /\ \A c, d \in half : c = d
         /\ Decide(done \union half, done, "rejected")
         /\ undecided' = undecided \union (Waiting(k) \ done)
    /\ LoseRequests
    /\ UNCHANGED <<idem, nextTid, uncredited, world>>

(* Dying in the loop of the expiry job, in the middle of one approval; the *)
(* next run takes up those it had not reached.                             *)
CrashInExpireApprovals ==
    /\ \E half \in LapsedApprovals : \E done \in SUBSET (LapsedApprovals \ {half}) :
         /\ Decide(done \union {half}, Awaiting(done), "expired")
         /\ undecided' = undecided \union {half}
    /\ LoseRequests
    /\ UNCHANGED <<idem, nextTid, uncredited, world, updates, key>>

(* An agent sends a transfer for an instruction it was given, at any time: *)
(* exactly what is due, short by one unit, or one that is not good (failed *)
(* execution, wrong chain, contract or recipient).                         *)
Pay(d, c, sender, paid, good) ==
    /\ chain[d] = Unseen
    /\ order[c].payBy > 0
    /\ paid > 0
    /\ paid = order[c].due \/ (good /\ paid + 1 = order[c].due)
    /\ chain' = [chain EXCEPT ![d] = [kind |-> request[c].asset, tid |-> order[c].tid,
                                      paid |-> paid, sender |-> sender, good |-> good]]
    /\ UNCHANGED <<tables, inflight, clock, request, cuts, bounds, key>>

Tick ==
    /\ clock < MaxTime
    /\ clock' = clock + 1
    /\ UNCHANGED <<tables, inflight, request, chain, cuts, bounds, key>>

-----------------------------------------------------------------------------
AgentStep ==
    \/ \E c \in Calls : CreateBegin(c) \/ CreateCommit(c) \/ VerifyTooLate(c)
    \/ \E v \in Verifiers, c \in Calls, d \in Deploys, s \in Payers \union {None} :
         VerifyBegin(v, c, d, s)
    \/ \E v \in Verifiers : VerifyClaim(v) \/ VerifyRefused(v)
    \/ \E d \in Deploys, c \in Calls, s \in Payers, good \in BOOLEAN :
         \E paid \in {order[c].due - 1, order[c].due} : Pay(d, c, s, paid, good)

OwnerStep ==
    \/ \E p \in Operators, c \in Calls : ApproveBegin(p, c)
    \/ \E p \in Operators : ApproveCommit(p) \/ ApproveRolledBack(p)
    \/ \E c \in Calls : ApproveMockUsdc(c) \/ Reject(c)
    \/ \E k \in Keys : Suspend(k) \/ Unsuspend(k) \/ DeleteKey(k)
    \/ \E k \in Keys, limit \in Limits, policy \in Policies :
         UpdateKey(k, limit, policy)

JobStep == ExpireStaleOrders \/ ExpireApprovalRequests \/ PruneIdempotencyKeys

CrashStep ==
    \/ Crash
    \/ \E v \in Verifiers : CrashInClaim(v)
    \/ \E c \in Calls : CrashInReject(c)
    \/ \E k \in Keys : CrashInSuspend(k)
    \/ CrashInExpireApprovals

Next ==
    \/ AgentStep
    \/ OwnerStep
    \/ JobStep
    \/ CrashStep
    \/ Tick

Spec == Init /\ [][Next]_vars

(* Time passes, and runJobs fires on an interval for as long as it does.   *)
Fairness ==
    /\ WF_vars(Tick)
    /\ WF_vars(ExpireStaleOrders)
    /\ WF_vars(ExpireApprovalRequests)

FairSpec == Spec /\ Fairness

-----------------------------------------------------------------------------
(* Properties *)

Delivered(c) == order[c].status = "delivered"
Live(c) == KeyOf(c) \notin Sandbox

(* One transfer on the chain buys one card: no two orders ever hold the    *)
(* same deploy, although the check for duplicates runs before the node is  *)
(* asked and a mockUSDC transfer names no order (verify-payment).          *)
DeployRedeemedOnce ==
    \A c, d \in Calls : order[c].deploy # None /\ order[c].deploy = order[d].deploy
                            => c = d

(* A live order is delivered only against a transfer that executed, went   *)
(* to the treasury in the order's asset, covers the price quoted, and for  *)
(* native CSPR carries the order's own transfer id (verify-payment).       *)
DeliveredIsPaid ==
    \A c \in Calls : Delivered(c) /\ Live(c) =>
        /\ order[c].deploy \in Deploys
        /\ LET t == chain[order[c].deploy]
           IN  /\ t.good
               /\ t.kind = request[c].asset
               /\ t.paid >= order[c].due
               /\ t.kind = "cspr_casper" => t.tid = order[c].tid
               /\ request[c].payer # None => t.sender = request[c].payer

(* total_spent_usdc is the sum of the live orders delivered, whatever the  *)
(* interleaving, but for those whose claim a crash cut short.              *)
SettledMatchesDelivered ==
    \A k \in Keys \ Sandbox : ~key[k].deleted =>
        key[k].settled = Total({c \in OrdersOf(k) : Delivered(c)} \ uncredited)

(* The payer can tell native payments apart: two orders that were ever     *)
(* quoted in CSPR never share a transfer id (allocateTransferId).          *)
TransferIdsUnique ==
    \A c, d \in Calls : order[c].tid # 0 /\ order[c].tid = order[d].tid => c = d

(* The order and its approval request never disagree: the order waits      *)
(* exactly while the request is pending, moves on only if it was approved, *)
(* and a request refused or lapsed leaves the order rejected.  (Refusals   *)
(* a crash cut short apart: they are two statements, not a transaction.)   *)
ApprovalAgrees ==
    \A c \in Calls \ undecided :
        /\ (order[c].status = "awaiting_approval") <=> (approval[c].status = "pending")
        /\ approval[c].status = "approved" =>
               order[c].status \in {"pending_payment", "delivered", "expired"}
        /\ (approval[c].status \in {"rejected", "expired"})
               <=> (order[c].status = "rejected")

(* A suspended key has nothing left waiting for its owner, although        *)
(* requests it authenticated before may still be on their way.             *)
SuspendedKeyWaitsForNothing ==
    \A c \in Calls \ undecided :
        key[KeyOf(c)].suspended => approval[c].status # "pending"

(* While the owner changes nothing, what a key has in flight never exceeds *)
(* its spend limit, however many requests and approvals interleave.        *)
InFlightWithinLimit ==
    updates = 0 =>
        \A k \in Keys : key[k].limit # None =>
            Total({c \in OrdersOf(k) : order[c].status \in InFlightStatuses})
                <= key[k].limit

(* While the owner changes nothing, the orders of one day stay within the  *)
(* daily limit (policy.js counts unpaid orders so that none slips by).     *)
DailyLimitHeld ==
    updates = 0 =>
        \A k \in Keys, date \in 0 .. Date(MaxTime) :
            IsSet(key[k].policy.daily) =>
                Total({c \in OrdersOf(k) :
                         /\ order[c].status \in InFlightStatuses \union {"delivered"}
                         /\ Date(order[c].at) = date}) <= key[k].policy.daily

(* No order above the threshold becomes payable or is delivered without    *)
(* the owner's approval; the threshold is the one in force at that moment, *)
(* however the owner moved it since the request was authenticated or the   *)
(* order created (orders.js:548-550).                                      *)
Granted(c) == order[c].status \in {"pending_payment", "delivered"}

OwnerApprovedAboveThreshold ==
    [][\A c \in Calls :
        /\ ~Granted(c) /\ Granted(c)'
        /\ IsSet(key[KeyOf(c)].policy.approve)
        /\ Amount(c) > key[KeyOf(c)].policy.approve
        => approval'[c].status = "approved"]_vars

(* Two orders of one key under one Idempotency-Key are further apart than  *)
(* the retention of the row that joins them: a retry never buys twice.     *)
OneOrderPerIdempotencyKey ==
    \A c, d \in Calls :
        /\ c # d
        /\ order[c].status # "none" /\ order[d].status # "none"
        /\ KeyOf(c) = KeyOf(d)
        /\ request[c].idem # None /\ request[c].idem = request[d].idem
        => order[c].at + IdemTTL < order[d].at \/ order[d].at + IdemTTL < order[c].at

(* Every order that waits for the owner or for payment is closed in the    *)
(* end, whatever agent, owner and node do (runJobs), unless a crash left   *)
(* it waiting for an approval that is over.                                *)
EveryOrderCloses ==
    \A c \in Calls : order[c].status \in InFlightStatuses
                         ~> order[c].status \in Closed \/ c \in undecided

(* To the agent an order is its phase (PHASE in orders.js) and the deploy  *)
(* its card was sold for.                                                  *)
Phase(status) ==
    CASE status = "none"            -> "absent"
      [] status = "pending_payment" -> "awaiting_payment"
      [] status = "delivered"       -> "ready"
      [] OTHER                      -> status

Promise == INSTANCE OrderPromise
    WITH Orders <- Calls, Coins <- Deploys, NoCoin <- None,
         free <- [c \in Calls |-> KeyOf(c) \in Sandbox],
         phase <- [c \in Calls |-> Phase(order[c].status)],
         coin <- [c \in Calls |-> order[c].deploy]

(* Under every interleaving, retry and crash the orders do only what the   *)
(* promise allows: phases move forward, a card costs a deploy of its own,  *)
(* and an order once payable is never shown as rejected.                   *)
KeepsPromise == Promise!Spec

(* Claimed by orders.js: the spend limit holds however requests interleave.*)
SpendLimitHeld ==
    updates = 0 =>
        \A k \in Keys : key[k].limit # None =>
            key[k].settled + Total(InFlightOrders(k)) <= key[k].limit

(* Claimed by jobs.js: an order is expired once its payment window closed. *)
ExpiredOnlyAfterWindow ==
    \A c \in Calls : order[c].status = "expired" => order[c].payBy <= clock

(* Claimed by jobs.js and dashboard.js: a request that lapsed or was       *)
(* refused leaves its order rejected, so the agent sees a terminal status. *)
RefusalClosesOrder ==
    \A c \in Calls : approval[c].status \in {"rejected", "expired"}
                         => order[c].status = "rejected"
=============================================================================
