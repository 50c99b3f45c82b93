------------------------------ MODULE Fulfilment ------------------------------
(***************************************************************************)
(* The virtual card pipeline: reconcileOrderingFulfillment and             *)
(* recoverStuckOrders of src/backend/src/jobs.js, the handler of           *)
(* src/backend/src/api/vcc-callback.js, the refunds of                     *)
(* src/backend/src/fulfillment.js, and what payments/xlm-sender.js and     *)
(* vcc-client.js answer them.                                              *)
(*                                                                         *)
(* VCC makes the card once the invoice of its job is paid on Stellar and   *)
(* it was told so.  No statement of src sets status 'ordering' any more:   *)
(* the orders here are rows an earlier release left there, in the three    *)
(* shapes the comment at jobs.js:225 lists.                                *)
(*                                                                         *)
(* One tick runs reconcile and then recover, never two ticks at once.      *)
(* Every await of a job is a step of its own, between which callbacks and  *)
(* refunds run.  updated_at is kept as its age.                            *)
(***************************************************************************)
EXTENDS Integers, FiniteSets, Functions

CONSTANTS
    Orders,         \* the rows left in 'ordering'
    Refundable,     \* those with a sender, a known asset and a valid amount
    None,           \* no order is being handled
    RetryAfter,     \* STUCK_RETRY_AFTER_MS
    RecoverAfter,   \* the 10 minutes of recoverStuckOrders
    FailAfter,      \* STUCK_FAIL_AFTER_MS
    MaxAttempts,    \* MAX_FULFILLMENT_ATTEMPTS
    MaxFaults       \* bound: crashes, freezes and jobs VCC runs again

ASSUME FulfilmentAssumption ==
    /\ Refundable \subseteq Orders /\ None \notin Orders
    /\ RetryAfter \in Nat /\ RecoverAfter \in Nat /\ FailAfter \in Nat
    /\ RetryAfter <= FailAfter /\ RecoverAfter <= FailAfter
    /\ MaxAttempts \in Nat \ {0} /\ MaxFaults \in Nat

VARIABLES
    row,       \* row[o]: its row in orders
    age,       \* age[o]: ticks since updated_at
    frozen,    \* system_state.frozen
    job,       \* where the tick is, and the rows its SELECT returned
    sending,   \* the orders whose refund is being sent
    vcc,       \* vcc[o]: status of its job at VCC
    paid,      \* paid[o]: payments of its invoice that landed
    late,      \* late[o]: those that landed after the order was closed
    cut,       \* cut[o]: payments a crash kept from being recorded
    refunds,   \* refunds[o]: refunds that landed
    spent,     \* spent[o]: times it was added to its key's total_spent_usdc
    faults     \* crashes, freezes and jobs run again so far

chain == <<paid, late, cut, refunds>>
vars == <<row, age, frozen, job, sending, vcc, chain, spent, faults>>

Statuses == {"ordering", "delivered", "failed", "refund_pending", "refunded",
             "pending_manual_recovery"}
Terminal == Statuses \ {"ordering"}

(* A row's checkpoints: the VCC job is known, the payment was sent, its    *)
(* hash is stored, VCC was notified; and the card and the refund's hash.   *)
Row == [status : Statuses, invoiced : BOOLEAN, sent : BOOLEAN, ctx : BOOLEAN,
        notified : BOOLEAN, attempts : 0 .. MaxAttempts, card : BOOLEAN,
        refundTx : BOOLEAN]

(* queued stands for running too.                                          *)
VccStatus == {"none", "invoice_issued", "queued", "delivered", "failed"}
Step == {"next", "hard_fail", "invoice", "url", "pay", "notify", "poll"}
NoJob == [phase |-> "idle", step |-> "next", at |-> None,
          seen |-> None, heard |-> None, todo |-> <<>>]

(* A row as a SELECT returned it, with the age of its updated_at then.      *)
Seen == [row : Row, age : 0 .. FailAfter]
Todo == UNION {[S -> Seen] : S \in SUBSET Orders}
Job == [phase : {"idle", "reconcile", "recover"}, step : Step,
        at : Orders \union {None}, seen : Seen \union {None},
        heard : VccStatus \union {None}, todo : Todo]

TypeOK ==
    /\ row \in [Orders -> Row]
    /\ age \in [Orders -> 0 .. FailAfter]
    /\ frozen \in BOOLEAN
    /\ job \in Job
    /\ (job.at = None) <=> (job.step = "next")
    /\ sending \in SUBSET Orders
    /\ vcc \in [Orders -> VccStatus]
    /\ paid \in [Orders -> Nat] /\ late \in [Orders -> Nat] /\ cut \in [Orders -> Nat]
    /\ refunds \in [Orders -> Nat] /\ spent \in [Orders -> Nat]
    /\ faults \in 0 .. MaxFaults

-----------------------------------------------------------------------------
(* The shapes a crash of the first pass left, and what VCC and the chain   *)
(* knew then.  The payment's time and hash are written together.           *)

Left(invoiced, sent) ==
    [status |-> "ordering", invoiced |-> invoiced, sent |-> sent, ctx |-> sent,
     notified |-> FALSE, attempts |-> 0, card |-> FALSE, refundTx |-> FALSE]

Shapes ==
    {[row |-> Left(FALSE, FALSE), vcc |-> v, paid |-> 0] : v \in {"none", "invoice_issued"}}
    \union {[row |-> Left(TRUE, FALSE), vcc |-> "invoice_issued", paid |-> n] : n \in {0, 1}}
    \union {[row |-> Left(TRUE, TRUE), vcc |-> v, paid |-> 1] : v \in {"invoice_issued", "queued"}}

Init ==
    \E shape \in [Orders -> Shapes] :
        /\ row = [o \in Orders |-> shape[o].row]
        /\ vcc = [o \in Orders |-> shape[o].vcc]
        /\ paid = [o \in Orders |-> shape[o].paid]
        /\ cut = [o \in Orders |-> IF shape[o].row.sent THEN 0 ELSE shape[o].paid]
        /\ age = [o \in Orders |-> 0]
        /\ frozen = FALSE
        /\ job = NoJob
        /\ sending = {}
        /\ late = [o \in Orders |-> 0]
        /\ refunds = [o \in Orders |-> 0]
        /\ spent = [o \in Orders |-> 0]
        /\ faults = 0

-----------------------------------------------------------------------------
(* Writes, and the refund that may follow them.                            *)

Touch(o) == age' = [age EXCEPT ![o] = 0]
Write(o, r) == row' = [row EXCEPT ![o] = r] /\ Touch(o)

(* Mutant: refund without looking at the payment leg. *)
MustRefundPaidToo(r) == ~frozen /\ r.status \notin {"refund_pending", "refunded"}

(* refundOrQuarantine on a row just closed as r: an order whose invoice    *)
(* was paid is left for an operator (r is already terminal, so quarantine  *)
(* changes nothing), a frozen system sends nothing, and otherwise          *)
(* scheduleRefund claims the order.                                        *)
MustRefund(r) ==
    /\ ~r.ctx /\ ~frozen
    /\ r.status \notin {"refund_pending", "refunded"}

RefundOrQuarantine(o, r) ==
    IF MustRefund(r)
    THEN /\ Write(o, [r EXCEPT !.status = "refund_pending"])
         /\ sending' = sending \union ({o} \intersect Refundable)
    ELSE Write(o, r) /\ UNCHANGED sending

(* The status a failure leads to: an operator must look at a paid order.   *)
FailureOf(known) == IF known.ctx THEN "pending_manual_recovery" ELSE "failed"

-----------------------------------------------------------------------------
(* The tick.                                                               *)

NextOrder ==
    job' = [job EXCEPT !.step = "next", !.at = None, !.seen = None, !.heard = None]

Snapshot(S) == [o \in S |-> [row |-> row[o], age |-> age[o]]]

StuckOrders ==
    {o \in Orders : /\ row[o].status = "ordering"
                    /\ ~(row[o].invoiced /\ row[o].sent /\ row[o].notified)
                    /\ ~row[o].ctx
                    /\ age[o] >= RetryAfter}

(* reconcileOrderingFulfillment does nothing while the system is frozen.   *)
StartReconcile ==
    /\ job.phase = "idle"
    /\ job' = [NoJob EXCEPT !.phase = "reconcile",
                            !.todo = IF frozen THEN <<>> ELSE Snapshot(StuckOrders)]
    /\ UNCHANGED <<row, age, frozen, sending, vcc, chain, spent, faults>>

(* Mutant: the poll leaves paid orders to the callback. *)
PollableUnpaid ==
    {o \in Orders : row[o].status = "ordering" /\ row[o].invoiced /\ ~row[o].ctx
                                              /\ age[o] >= RecoverAfter}

PollableOrders ==
    {o \in Orders : row[o].status = "ordering" /\ row[o].invoiced /\ age[o] >= RecoverAfter}

StartRecover ==
    /\ job.phase = "reconcile" /\ job.step = "next" /\ DOMAIN job.todo = {}
    /\ job' = [NoJob EXCEPT !.phase = "recover", !.todo = Snapshot(PollableOrders)]
    /\ UNCHANGED <<row, age, frozen, sending, vcc, chain, spent, faults>>

EndTick ==
    /\ job.phase = "recover" /\ job.step = "next" /\ DOMAIN job.todo = {}
    /\ job' = NoJob
    /\ UNCHANGED <<row, age, frozen, sending, vcc, chain, spent, faults>>

Without(o) == Restrict(job.todo, DOMAIN job.todo \ {o})

(* Mutant: the row is failed whatever happened to it meanwhile. *)
HardFailUnclaimed(o) ==
    RefundOrQuarantine(o, [row[o] EXCEPT !.status = "failed"])

(* The hard fail claims the row, and refunds it only if the claim won.     *)
HardFail(o) ==
    IF row[o].status = "ordering"
    THEN RefundOrQuarantine(o, [row[o] EXCEPT !.status = "failed"])
    ELSE UNCHANGED <<row, age, sending>>

OutOfTime(s) == s.age >= FailAfter \/ s.row.attempts >= MaxAttempts

(* A stuck order that timed out or used up its attempts: VCC is asked      *)
(* first, unless it has no job.                                            *)
GiveUpOn(o, s) ==
    /\ OutOfTime(s)
    /\ IF s.row.invoiced
       THEN /\ job' = [job EXCEPT !.step = "hard_fail", !.at = o, !.seen = s,
                                  !.todo = Without(o)]
            /\ UNCHANGED <<row, age, sending>>
       ELSE HardFail(o) /\ job' = [job EXCEPT !.todo = Without(o)]

(* Otherwise one more attempt is claimed, and starts at the first step     *)
(* that the row as selected had not passed.                                *)
FirstStep(r) == IF ~r.invoiced THEN "invoice" ELSE IF ~r.sent THEN "url" ELSE "notify"

ClaimAttempt(o, s) ==
    /\ ~OutOfTime(s)
    /\ IF row[o].status = "ordering" /\ row[o].attempts = s.row.attempts
       THEN /\ Write(o, [row[o] EXCEPT !.attempts = @ + 1])
            /\ job' = [job EXCEPT !.step = FirstStep(s.row), !.at = o, !.seen = s,
                                  !.todo = Without(o)]
       ELSE job' = [job EXCEPT !.todo = Without(o)] /\ UNCHANGED <<row, age>>
    /\ UNCHANGED sending

Reconcile(o) ==
    /\ job.phase = "reconcile" /\ job.step = "next" /\ o \in DOMAIN job.todo
    /\ GiveUpOn(o, job.todo[o]) \/ ClaimAttempt(o, job.todo[o])
    /\ UNCHANGED <<frozen, vcc, chain, spent, faults>>

Recover(o) ==
    /\ job.phase = "recover" /\ job.step = "next" /\ o \in DOMAIN job.todo
    /\ job' = [job EXCEPT !.step = "poll", !.at = o, !.seen = job.todo[o],
                          !.todo = Without(o)]
    /\ UNCHANGED <<row, age, frozen, sending, vcc, chain, spent, faults>>

-----------------------------------------------------------------------------
(* What an await of the job returns.  A call may fail, or reach VCC and    *)
(* its answer be lost, and the circuit breaker of vcc-client.js fails      *)
(* calls without making them.                                              *)

At(step, o) == job.step = step /\ job.at = o

(* The attempt ends here, or an error left it to the next tick. *)
AttemptEnds(o) ==
    /\ \E step \in Step \ {"next"} : At(step, o)
    /\ job.step # "pay"
    /\ NextOrder
    /\ UNCHANGED <<row, frozen, sending, vcc, chain, spent, faults>>
    /\ IF job.step = "hard_fail" THEN Touch(o) ELSE UNCHANGED age

VccInProgress == {"invoice_issued", "queued", "delivered"}

(* VCC reads the status of the job it is asked for; by the time the answer *)
(* is here the job and the row may be elsewhere.                           *)
VccReads(o) ==
    /\ At("hard_fail", o) \/ At("poll", o)
    /\ job.heard = None /\ job' = [job EXCEPT !.heard = vcc[o]]
    /\ UNCHANGED <<row, age, frozen, sending, vcc, chain, spent, faults>>

(* The hard fail goes on only if VCC is not working on the job.            *)
HardFailAnswered(o) ==
    /\ At("hard_fail", o) /\ job.heard # None
    /\ IF job.heard \in VccInProgress
       THEN Touch(o) /\ UNCHANGED <<row, sending>>
       ELSE HardFail(o)
    /\ NextOrder
    /\ UNCHANGED <<frozen, vcc, chain, spent, faults>>

(* getInvoice returns the job VCC already has for the order, if any.       *)
Invoiced == [vcc EXCEPT ![job.at] = IF @ = "none" THEN "invoice_issued" ELSE @]

InvoiceAnswered(o) ==
    /\ At("invoice", o)
    /\ Write(o, [row[o] EXCEPT !.invoiced = TRUE])
    /\ vcc' = Invoiced
    /\ job' = [job EXCEPT !.step = IF job.seen.row.sent THEN "notify" ELSE "pay"]
    /\ UNCHANGED <<frozen, sending, chain, spent, faults>>

InvoiceAnswerLost(o) ==
    /\ At("invoice", o)
    /\ vcc' = Invoiced
    /\ NextOrder
    /\ UNCHANGED <<row, age, frozen, sending, chain, spent, faults>>

(* A job past its invoice must have been paid by an earlier run.           *)
UrlAnswered(o) ==
    /\ At("url", o)
    /\ IF vcc[o] = "invoice_issued"
       THEN job' = [job EXCEPT !.step = "pay"] /\ UNCHANGED <<row, age>>
       ELSE /\ Write(o, [row[o] EXCEPT !.sent = TRUE])
            /\ job' = [job EXCEPT !.step = "notify"]
    /\ UNCHANGED <<frozen, sending, vcc, chain, spent, faults>>

(* The outcomes of submitWithRetry, with whether the transfer landed: a    *)
(* rejection or a hash no ledger knows means that it did not, a failed     *)
(* lookup means nothing.                                                   *)
Outcomes == {[answer |-> "ok", landed |-> TRUE], [answer |-> "rejected", landed |-> FALSE],
             [answer |-> "ambiguous", landed |-> TRUE], [answer |-> "ambiguous", landed |-> FALSE]}

Landed(o, n) ==
    /\ paid' = [paid EXCEPT ![o] = @ + n]
    /\ late' = [late EXCEPT ![o] = @ + IF row[o].status # "ordering" THEN n ELSE 0]

(* Mutant: an ambiguous payment is left to the next tick. *)
ParkedForRetry(r) == r

(* callPayCtxOrderWithAmbiguousPark overwrites the status whatever it is.  *)
Parked(r) == [r EXCEPT !.status = "failed", !.ctx = TRUE]

PayAnswered(o) ==
    /\ At("pay", o)
    /\ \E outcome \in Outcomes :
        /\ Landed(o, IF outcome.landed THEN 1 ELSE 0)
        /\ CASE outcome.answer = "ok" ->
                    /\ Write(o, [row[o] EXCEPT !.sent = TRUE, !.ctx = TRUE])
                    /\ job' = [job EXCEPT !.step = "notify"]
             [] outcome.answer = "rejected" -> NextOrder /\ UNCHANGED <<row, age>>
             [] OTHER -> NextOrder /\ Write(o, Parked(row[o]))
    /\ UNCHANGED <<frozen, sending, vcc, cut, refunds, spent, faults>>

(* VCC answers already_queued for a job past its invoice.                  *)
Notified == [vcc EXCEPT ![job.at] = IF @ = "invoice_issued" THEN "queued" ELSE @]

NotifyAnswered(o) ==
    /\ At("notify", o)
    /\ vcc' = Notified
    /\ Write(o, [row[o] EXCEPT !.notified = TRUE])
    /\ NextOrder
    /\ UNCHANGED <<frozen, sending, chain, spent, faults>>

NotifyAnswerLost(o) ==
    /\ At("notify", o)
    /\ vcc' = Notified
    /\ NextOrder
    /\ UNCHANGED <<row, age, frozen, sending, chain, spent, faults>>

(* recoverStuckOrders decides with the payment leg as selected.            *)
PollAnswered(o) ==
    /\ At("poll", o) /\ job.heard # None
    /\ NextOrder
    /\ CASE job.heard = "delivered" -> Touch(o) /\ UNCHANGED <<row, sending>>
         [] job.heard = "failed" /\ row[o].status = "ordering" ->
                RefundOrQuarantine(o, [row[o] EXCEPT !.status = FailureOf(job.seen.row)])
         [] OTHER -> UNCHANGED <<row, age, sending>>
    /\ UNCHANGED <<frozen, vcc, chain, spent, faults>>

-----------------------------------------------------------------------------
(* VCC's callbacks, in one step each: late, repeated or never.             *)

(* Mutant: a callback does not look whether the order is closed. *)
OpenToCallbackAlways(o) == TRUE

OpenToCallback(o) == row[o].status \notin Terminal

FulfilledCallback(o) ==
    /\ vcc[o] = "delivered" /\ OpenToCallback(o)
    /\ Write(o, [row[o] EXCEPT !.status = "delivered", !.card = TRUE])
    /\ spent' = [spent EXCEPT ![o] = @ + 1]
    /\ UNCHANGED <<frozen, job, sending, vcc, chain, faults>>

FailedCallback(o) ==
    /\ vcc[o] = "failed" /\ OpenToCallback(o)
    /\ RefundOrQuarantine(o, [row[o] EXCEPT !.status = FailureOf(row[o])])
    /\ UNCHANGED <<frozen, job, vcc, chain, spent, faults>>

-----------------------------------------------------------------------------
(* scheduleRefund after its await.  A failed refund is not tried again: it *)
(* stays refund_pending, with the hash if the transfer may have landed.    *)

RefundAnswered(o) ==
    /\ o \in sending
    /\ sending' = sending \ {o}
    /\ \E outcome \in Outcomes :
        /\ refunds' = [refunds EXCEPT ![o] = @ + IF outcome.landed THEN 1 ELSE 0]
        /\ CASE outcome.answer = "ok" ->
                    Write(o, [row[o] EXCEPT !.status = "refunded", !.refundTx = TRUE])
             [] outcome.answer = "rejected" -> UNCHANGED <<row, age>>
             [] OTHER -> Write(o, [row[o] EXCEPT !.refundTx = TRUE])
    /\ UNCHANGED <<frozen, job, vcc, paid, late, cut, spent, faults>>

-----------------------------------------------------------------------------
(* VCC, time, operators and crashes.                                       *)

VccDecides(o) ==
    /\ vcc[o] = "queued"
    /\ \E s \in {"delivered", "failed"} : vcc' = [vcc EXCEPT ![o] = s]
    /\ UNCHANGED <<row, age, frozen, job, sending, chain, spent, faults>>

VccGivesInvoiceUp(o) ==
    /\ vcc[o] = "invoice_issued" /\ vcc' = [vcc EXCEPT ![o] = "failed"]
    /\ UNCHANGED <<row, age, frozen, job, sending, chain, spent, faults>>

(* VCC's operators run a failed job again. *)
VccRunsAgain(o) ==
    /\ vcc[o] = "failed" /\ paid[o] > 0 /\ faults < MaxFaults
    /\ vcc' = [vcc EXCEPT ![o] = "queued"] /\ faults' = faults + 1
    /\ UNCHANGED <<row, age, frozen, job, sending, chain, spent>>

Tick ==
    /\ \E o \in Orders : age[o] < FailAfter
    /\ age' = [o \in Orders |-> IF age[o] < FailAfter THEN age[o] + 1 ELSE FailAfter]
    /\ UNCHANGED <<row, frozen, job, sending, vcc, chain, spent, faults>>

Freeze ==
    /\ ~frozen /\ faults < MaxFaults
    /\ frozen' = TRUE /\ faults' = faults + 1
    /\ UNCHANGED <<row, age, job, sending, vcc, chain, spent>>

Unfreeze ==
    /\ frozen /\ frozen' = FALSE
    /\ UNCHANGED <<row, age, job, sending, vcc, chain, spent, faults>>

(* The process dies.  What it was sending may land all the same.           *)
Crash ==
    /\ faults < MaxFaults /\ faults' = faults + 1
    /\ job' = NoJob /\ sending' = {}
    /\ \E S \in SUBSET sending :
        refunds' = [o \in Orders |-> refunds[o] + IF o \in S THEN 1 ELSE 0]
    /\ \/ UNCHANGED <<paid, late, cut>>
       \/ /\ job.step = "pay"
          /\ Landed(job.at, 1)
          /\ cut' = [cut EXCEPT ![job.at] = @ + 1]
    /\ UNCHANGED <<row, age, frozen, vcc, spent>>

VccAnswers(o) ==
    \/ HardFailAnswered(o) \/ InvoiceAnswered(o) \/ UrlAnswered(o)
    \/ NotifyAnswered(o) \/ PollAnswered(o)

JobStep ==
    \/ StartReconcile \/ StartRecover \/ EndTick
    \/ \E o \in Orders : \/ Reconcile(o) \/ Recover(o) \/ AttemptEnds(o)
                         \/ VccReads(o) \/ VccAnswers(o) \/ PayAnswered(o)

Next ==
    \/ JobStep
    \/ \E o \in Orders :
        \/ InvoiceAnswerLost(o) \/ NotifyAnswerLost(o)
        \/ FulfilledCallback(o) \/ FailedCallback(o)
        \/ RefundAnswered(o)
        \/ VccDecides(o) \/ VccGivesInvoiceUp(o) \/ VccRunsAgain(o)
    \/ Tick \/ Freeze \/ Unfreeze \/ Crash

Spec == Init /\ [][Next]_vars

(* The interval runs the jobs and every call has a timeout, so the jobs    *)
(* never stop; the clock runs, and an operator ends a freeze.  VCC is not  *)
(* down for ever (again and again a call is answered), gives up a job it   *)
(* is never told is paid, decides every other, and repeats the callback of *)
(* a delivered card, or has an operator replay it.  The callback of a      *)
(* failure may be lost.                                                    *)
Fairness ==
    /\ WF_vars(JobStep) /\ WF_vars(Tick) /\ WF_vars(Unfreeze)
    /\ \A o \in Orders :
        /\ SF_vars(VccReads(o)) /\ SF_vars(VccAnswers(o))
        /\ WF_vars(VccDecides(o)) /\ WF_vars(VccGivesInvoiceUp(o))
        /\ WF_vars(FulfilledCallback(o))

FairSpec == Spec /\ Fairness

-----------------------------------------------------------------------------
(* Properties.                                                             *)

(* The treasury pays an invoice at most once, unless a crash kept a        *)
(* payment from being recorded: retries, lost answers, parked payments and *)
(* timeouts never pay again (jobs.js:97-118).                              *)
PaidOnceUnlessCut == \A o \in Orders : paid[o] <= 1 + cut[o]

(* An order ends in one card, counted once in its key's spend, or in one   *)
(* refund, never in both nor in two: whichever of the callbacks, the hard  *)
(* fail, the poll and a crash come to close it (jobs.js:325-342,           *)
(* vcc-callback.js:204-239, fulfillment.js:419-435).                       *)
SettledOnce == \A o \in Orders : spent[o] + refunds[o] <= 1

(* The gift card of a refunded order is not left at CTX: an order whose    *)
(* invoice was paid is refunded only if a crash cut the payment's record   *)
(* or the payment was under way when VCC's failure closed the order        *)
(* (fulfillment.js:564-573).                                               *)
RefundedWasUnpaid ==
    \A o \in Orders : refunds[o] > 0 => paid[o] <= cut[o] + late[o]

(* The poll, the hard fail, late callbacks and late payments never reopen  *)
(* an order an operator must look at, nor take back a delivered card       *)
(* (jobs.js:325-342, 573-581).  Only parking an ambiguous payment does     *)
(* that, whose UPDATE has no guard (jobs.js:128-135).                      *)
ClosedStays ==
    [][\A o \in Orders :
        ( \/ row[o].status = "pending_manual_recovery"
          \/ row[o].status = "delivered" /\ ~At("pay", o) )
        => row'[o].status = row[o].status]_vars

(* Every stuck order is closed in the end, if VCC decides every job        *)
(* (jobs.js:229-231).                                                      *)
EveryStuckOrderCloses ==
    \A o \in Orders : (row[o].status = "ordering") ~> (row[o].status # "ordering")

-----------------------------------------------------------------------------
(* The promise.                                                            *)

(* A refund under way first: nothing else may be true of its order.        *)
EndOf(o) ==
    IF o \in sending THEN "refunding"
    ELSE IF refunds[o] > 0 THEN "refunded"
    ELSE IF spent[o] > 0 THEN "card"
    ELSE IF row[o].status = "ordering" THEN "open" ELSE "operator"

Settlement == INSTANCE SettlementPromise WITH
                end <- [o \in Orders |-> EndOf(o)],
                booked <- [o \in Orders |-> row[o].ctx]

(* The pipeline keeps its promise: through every race of callbacks, jobs,  *)
(* refunds and crashes an order takes one of the ways to its end, and no   *)
(* other afterwards (fulfillment.js:419-435, 564-580).                     *)
KeepsSettlement == Settlement!Spec
=============================================================================
