--------------------------- MODULE FulfilmentProofs ---------------------------
(***************************************************************************)
(* What the card pipeline guarantees for any number of orders, whatever    *)
(* its delays, its number of attempts and the number of faults.            *)
(***************************************************************************)
EXTENDS Fulfilment, OrderMoves, TLAPS

(* The parts of a job; its list is a partial function on orders.           *)
LEMMA JobParts ==
  ASSUME NEW j \in Job
  PROVE  /\ j.todo \in Todo /\ j.at \in Orders \union {None} /\ j.step \in Step
         /\ DOMAIN j.todo \subseteq Orders
         /\ \A o \in DOMAIN j.todo : j.todo[o] \in Seen
<1>1. j.todo \in Todo /\ j.at \in Orders \union {None} /\ j.step \in Step
  BY DEF Job
<1>2. PICK S \in SUBSET Orders : j.todo \in [S -> Seen]
  BY <1>1 DEF Todo
<1> QED BY <1>1, <1>2

(* Taking an order off the list, and a SELECT, keep it one.                *)
LEMMA ListsTyped ==
  ASSUME TypeOK
  PROVE  /\ \A o \in Orders :
              Without(o) \in Todo /\ DOMAIN Without(o) = DOMAIN job.todo \ {o}
         /\ \A S \in SUBSET Orders : Snapshot(S) \in Todo /\ DOMAIN Snapshot(S) = S
         /\ <<>> \in Todo /\ DOMAIN <<>> = {}
<1>a. job \in Job
  BY DEF TypeOK
<1>1. ASSUME NEW o \in Orders
      PROVE  Without(o) \in Todo /\ DOMAIN Without(o) = DOMAIN job.todo \ {o}
  <2>1. DOMAIN job.todo \subseteq Orders /\ \A x \in DOMAIN job.todo : job.todo[x] \in Seen
    BY <1>a, JobParts
  <2>2. Without(o) \in [DOMAIN job.todo \ {o} -> Seen]
    BY <2>1 DEF Without, Restrict
  <2> QED BY <2>1, <2>2 DEF Todo
<1>2. ASSUME NEW S \in SUBSET Orders
      PROVE  Snapshot(S) \in Todo /\ DOMAIN Snapshot(S) = S
  <2>1. \A o \in S : [row |-> row[o], age |-> age[o]] \in Seen
    BY DEF TypeOK, Seen
  <2>2. Snapshot(S) \in [S -> Seen]
    BY <2>1 DEF Snapshot
  <2> QED BY <2>2 DEF Todo
<1>3. <<>> \in [{} -> Seen] /\ DOMAIN <<>> = {}
  OBVIOUS
<1>4. <<>> \in Todo
  BY <1>3 DEF Todo
<1> QED BY <1>1, <1>2, <1>3, <1>4

(* Every write of a row leaves a row.                                      *)
LEMMA RowWrites ==
  ASSUME NEW r \in Row
  PROVE  /\ \A status \in Statuses : [r EXCEPT !.status = status] \in Row
         /\ [r EXCEPT !.invoiced = TRUE] \in Row
         /\ [r EXCEPT !.sent = TRUE] \in Row
         /\ [r EXCEPT !.sent = TRUE, !.ctx = TRUE] \in Row
         /\ [r EXCEPT !.notified = TRUE] \in Row
         /\ [r EXCEPT !.refundTx = TRUE] \in Row
         /\ [r EXCEPT !.status = "refunded", !.refundTx = TRUE] \in Row
         /\ [r EXCEPT !.status = "delivered", !.card = TRUE] \in Row
         /\ Parked(r) \in Row
         /\ r.attempts < MaxAttempts => [r EXCEPT !.attempts = @ + 1] \in Row
<1>1. \A status \in Statuses : [r EXCEPT !.status = status] \in Row
  BY DEF Row
<1>2. [r EXCEPT !.invoiced = TRUE] \in Row
  BY DEF Row
<1>3. [r EXCEPT !.sent = TRUE] \in Row
  BY DEF Row
<1>4. [r EXCEPT !.sent = TRUE, !.ctx = TRUE] \in Row
  BY DEF Row
<1>5. [r EXCEPT !.notified = TRUE] \in Row
  BY DEF Row
<1>6. [r EXCEPT !.refundTx = TRUE] \in Row
  BY DEF Row
<1>7. [r EXCEPT !.status = "refunded", !.refundTx = TRUE] \in Row
  BY DEF Row, Statuses
<1>8. [r EXCEPT !.status = "delivered", !.card = TRUE] \in Row
  BY DEF Row, Statuses
<1>9. Parked(r) \in Row
  BY DEF Row, Statuses, Parked
<1>10. r.attempts < MaxAttempts => [r EXCEPT !.attempts = @ + 1] \in Row
  BY FulfilmentAssumption DEF Row
<1> QED BY <1>1, <1>2, <1>3, <1>4, <1>5, <1>6, <1>7, <1>8, <1>9, <1>10

(* What a write changes of a row's status and payment.                     *)
LEMMA RowFields ==
  ASSUME NEW r \in Row
  PROVE  /\ \A status \in Statuses :
              [r EXCEPT !.status = status].status = status
                /\ [r EXCEPT !.status = status].ctx = r.ctx
         /\ [r EXCEPT !.invoiced = TRUE].status = r.status /\ [r EXCEPT !.invoiced = TRUE].ctx = r.ctx
         /\ [r EXCEPT !.sent = TRUE].status = r.status /\ [r EXCEPT !.sent = TRUE].ctx = r.ctx
         /\ [r EXCEPT !.notified = TRUE].status = r.status /\ [r EXCEPT !.notified = TRUE].ctx = r.ctx
         /\ [r EXCEPT !.refundTx = TRUE].status = r.status /\ [r EXCEPT !.refundTx = TRUE].ctx = r.ctx
         /\ [r EXCEPT !.attempts = @ + 1].status = r.status /\ [r EXCEPT !.attempts = @ + 1].ctx = r.ctx
         /\ [r EXCEPT !.sent = TRUE, !.ctx = TRUE].status = r.status
         /\ [r EXCEPT !.sent = TRUE, !.ctx = TRUE].ctx
         /\ Parked(r).status = "failed" /\ Parked(r).ctx
         /\ [r EXCEPT !.status = "refunded", !.refundTx = TRUE].status = "refunded"
         /\ [r EXCEPT !.status = "refunded", !.refundTx = TRUE].ctx = r.ctx
         /\ [r EXCEPT !.status = "delivered", !.card = TRUE].status = "delivered"
         /\ [r EXCEPT !.status = "delivered", !.card = TRUE].ctx = r.ctx
BY DEF Row, Parked

(* Writing a row, and closing one whether or not a refund follows, keeps   *)
(* the tables typed.                                                       *)
LEMMA WritesTyped ==
  ASSUME TypeOK, NEW o \in Orders, NEW r \in Row
  PROVE  /\ Write(o, r) => row' \in [Orders -> Row] /\ age' \in [Orders -> 0 .. FailAfter]
         /\ RefundOrQuarantine(o, r) =>
              /\ row' \in [Orders -> Row] /\ age' \in [Orders -> 0 .. FailAfter]
              /\ sending' \in SUBSET Orders
<1>1. \A x \in Row :
        Write(o, x) => row' \in [Orders -> Row] /\ age' \in [Orders -> 0 .. FailAfter]
  BY FulfilmentAssumption DEF Write, Touch, TypeOK
<1>2. ASSUME RefundOrQuarantine(o, r)
      PROVE  /\ row' \in [Orders -> Row] /\ age' \in [Orders -> 0 .. FailAfter]
             /\ sending' \in SUBSET Orders
  <2>1. [r EXCEPT !.status = "refund_pending"] \in Row
    BY RowWrites DEF Statuses
  <2>2. sending' \in SUBSET Orders
    BY <1>2 DEF RefundOrQuarantine, TypeOK
  <2>3. Write(o, [r EXCEPT !.status = "refund_pending"]) \/ Write(o, r)
    BY <1>2 DEF RefundOrQuarantine
  <2> QED BY <1>1, <2>1, <2>2, <2>3
<1> QED BY <1>1, <1>2

(* The job's record after each kind of move.                               *)
GoodJob(j) == j \in Job /\ ((j.at = None) <=> (j.step = "next"))

LEMMA JobMoves ==
  ASSUME NEW j, GoodJob(j)
  PROVE  /\ \A t \in Todo : GoodJob([j EXCEPT !.todo = t])
         /\ \A h \in VccStatus : GoodJob([j EXCEPT !.heard = h])
         /\ \A step \in Step \ {"next"} : j.at # None => GoodJob([j EXCEPT !.step = step])
         /\ \A step \in Step \ {"next"}, o \in Orders, s \in Seen, t \in Todo :
              GoodJob([j EXCEPT !.step = step, !.at = o, !.seen = s, !.todo = t])
         /\ GoodJob([j EXCEPT !.step = "next", !.at = None, !.seen = None, !.heard = None])
<1>1. ASSUME NEW t \in Todo PROVE GoodJob([j EXCEPT !.todo = t])
  BY DEF Job, GoodJob
<1>2. ASSUME NEW h \in VccStatus PROVE GoodJob([j EXCEPT !.heard = h])
  BY DEF Job, GoodJob
<1>3. ASSUME NEW step \in Step \ {"next"}, j.at # None PROVE GoodJob([j EXCEPT !.step = step])
  BY <1>3 DEF Job, GoodJob
<1>4. ASSUME NEW step \in Step \ {"next"}, NEW o \in Orders, NEW s \in Seen, NEW t \in Todo
      PROVE  GoodJob([j EXCEPT !.step = step, !.at = o, !.seen = s, !.todo = t])
  BY FulfilmentAssumption DEF Job, GoodJob
<1>5. GoodJob([j EXCEPT !.step = "next", !.at = None, !.seen = None, !.heard = None])
  BY DEF Job, Step, GoodJob
<1> QED BY <1>1, <1>2, <1>3, <1>4, <1>5

-----------------------------------------------------------------------------
(* The rows, the jobs, VCC and the counters keep their shape in every      *)
(* behaviour of the pipeline.                                              *)
THEOREM TypeCorrect == Spec => []TypeOK
<1>0. ASSUME NEW t \in Todo, NEW phase \in {"idle", "reconcile", "recover"}
      PROVE  GoodJob([NoJob EXCEPT !.phase = phase, !.todo = t]) /\ GoodJob(NoJob)
  <2>1. <<>> \in Todo
    BY <<>> \in [{} -> Seen] DEF Todo
  <2> QED BY <2>1 DEF NoJob, GoodJob, Job, Step
<1>1. Init => TypeOK
  <2> SUFFICES ASSUME Init PROVE TypeOK
    OBVIOUS
  <2>1. PICK shape \in [Orders -> Shapes] :
          /\ row = [o \in Orders |-> shape[o].row]
          /\ vcc = [o \in Orders |-> shape[o].vcc]
          /\ paid = [o \in Orders |-> shape[o].paid]
          /\ cut = [o \in Orders |-> IF shape[o].row.sent THEN 0 ELSE shape[o].paid]
          /\ age = [o \in Orders |-> 0] /\ frozen = FALSE /\ sending = {} /\ faults = 0
          /\ late = [o \in Orders |-> 0] /\ refunds = [o \in Orders |-> 0]
          /\ spent = [o \in Orders |-> 0]
    BY DEF Init
  <2>2. Left(FALSE, FALSE) \in Row /\ Left(TRUE, FALSE) \in Row /\ Left(TRUE, TRUE) \in Row
    BY FulfilmentAssumption DEF Left, Row, Statuses
  <2>3. ASSUME NEW x \in Shapes PROVE x.row \in Row /\ x.vcc \in VccStatus /\ x.paid \in Nat
    <3>1. \E r \in Row, v \in VccStatus, n \in Nat : x = [row |-> r, vcc |-> v, paid |-> n]
      <4> DEFINE fresh == Left(FALSE, FALSE)
                 invoiced == Left(TRUE, FALSE)
                 sent == Left(TRUE, TRUE)
      <4>1. \/ \E v \in {"none", "invoice_issued"} : x = [row |-> fresh, vcc |-> v, paid |-> 0]
            \/ \E n \in {0, 1} : x = [row |-> invoiced, vcc |-> "invoice_issued", paid |-> n]
            \/ \E v \in {"invoice_issued", "queued"} : x = [row |-> sent, vcc |-> v, paid |-> 1]
        BY Zenon DEF Shapes
      <4>2. fresh \in Row /\ invoiced \in Row /\ sent \in Row
        BY <2>2
      <4> HIDE DEF fresh, invoiced, sent
      <4> QED BY <4>1, <4>2 DEF VccStatus
    <3> QED BY <3>1
  <2>4. row \in [Orders -> Row] /\ vcc \in [Orders -> VccStatus]
        /\ paid \in [Orders -> Nat] /\ cut \in [Orders -> Nat]
    BY <2>1, <2>3
  <2>5. <<>> \in Todo
    BY <<>> \in [{} -> Seen] DEF Todo
  <2>6. job \in Job /\ ((job.at = None) <=> (job.step = "next"))
    BY <2>5, <1>0 DEF Init, GoodJob
  <2>7. /\ age \in [Orders -> 0 .. FailAfter] /\ sending \in SUBSET Orders
        /\ late \in [Orders -> Nat] /\ refunds \in [Orders -> Nat] /\ spent \in [Orders -> Nat]
        /\ faults \in 0 .. MaxFaults
    BY <2>1, FulfilmentAssumption
  <2>8. frozen \in BOOLEAN
    BY <2>1, Zenon
  <2> QED BY <2>4, <2>6, <2>7, <2>8 DEF TypeOK
<1>2. TypeOK /\ [Next]_vars => TypeOK'
  <2> SUFFICES ASSUME TypeOK, [Next]_vars PROVE TypeOK'
    OBVIOUS
  <2> USE FulfilmentAssumption
  <2>1. \A o \in Orders : Without(o) \in Todo
    BY ListsTyped
  <2>2. \A o \in DOMAIN job.todo : o \in Orders /\ job.todo[o] \in Seen
    <3>1. job \in Job
      BY DEF TypeOK
    <3> QED BY <3>1, JobParts
  <2>3. GoodJob(job) /\ \A o \in Orders : row[o] \in Row
    <3>1. GoodJob(job)
      BY DEF TypeOK, GoodJob
    <3> QED BY <3>1 DEF TypeOK
  <2>4. NextOrder => GoodJob(job')
    BY <2>3, JobMoves DEF NextOrder
  <2>5. ASSUME GoodJob(job')
        PROVE  job' \in Job /\ ((job.at = None) <=> (job.step = "next"))'
    BY <2>5 DEF GoodJob
  <2>6. CASE StartReconcile
    <3>1. StuckOrders \in SUBSET Orders
      BY DEF StuckOrders
    <3>2. GoodJob(job')
      BY <2>6, <3>1, ListsTyped, <1>0 DEF StartReconcile
    <3> QED BY <2>5, <2>6, <3>2 DEF StartReconcile, chain, TypeOK
  <2>7. CASE StartRecover
    <3>1. PollableOrders \in SUBSET Orders
      BY DEF PollableOrders
    <3>2. GoodJob(job')
      BY <2>7, <3>1, ListsTyped, <1>0 DEF StartRecover
    <3> QED BY <2>5, <2>7, <3>2 DEF StartRecover, chain, TypeOK
  <2>8. CASE EndTick
    <3>1. GoodJob(job')
      BY <2>8, ListsTyped, <1>0 DEF EndTick
    <3> QED BY <2>5, <2>8, <3>1 DEF EndTick, chain, TypeOK
  <2>9. ASSUME NEW o \in Orders, Reconcile(o) PROVE TypeOK'
    <3> DEFINE s == job.todo[o]
    <3>1. s \in Seen /\ s.row \in Row /\ DOMAIN job.todo \subseteq Orders
      BY <2>2, <2>9 DEF Reconcile, Seen
    <3>2. GoodJob([job EXCEPT !.todo = Without(o)])
      BY <2>1, <2>3, JobMoves
    <3>3. \A step \in Step \ {"next"} :
            GoodJob([job EXCEPT !.step = step, !.at = o, !.seen = s, !.todo = Without(o)])
      BY <2>1, <2>3, <3>1, JobMoves
    <3>4. SUFFICES /\ GoodJob(job')
                   /\ row' \in [Orders -> Row] /\ age' \in [Orders -> 0 .. FailAfter]
                   /\ sending' \in SUBSET Orders
      BY <2>5, <2>9 DEF Reconcile, chain, TypeOK
    <3> HIDE DEF s
    <3>5. CASE GiveUpOn(o, s)
      <4>1. CASE s.row.invoiced
        <5>1. GoodJob(job') /\ UNCHANGED <<row, age, sending>>
          BY <3>5, <4>1, <3>3 DEF GiveUpOn, Step
        <5> QED BY <5>1 DEF TypeOK
      <4>2. CASE ~s.row.invoiced
        <5>1. HardFail(o) /\ GoodJob(job')
          BY <3>5, <4>2, <3>2 DEF GiveUpOn
        <5>2. [row[o] EXCEPT !.status = "failed"] \in Row
          BY <2>3, RowWrites DEF Statuses
        <5> QED BY <5>1, <5>2, WritesTyped DEF HardFail, TypeOK
      <4> QED BY <4>1, <4>2
    <3>6. CASE ClaimAttempt(o, s)
      <4>1. CASE row[o].status = "ordering" /\ row[o].attempts = s.row.attempts
        <5>1. FirstStep(s.row) \in Step \ {"next"}
          BY DEF FirstStep, Step
        <5>2. GoodJob(job')
          BY <3>6, <4>1, <5>1, <3>3 DEF ClaimAttempt, s
        <5>3. row[o].attempts < MaxAttempts
          BY <3>6, <4>1, <3>1, <2>3 DEF ClaimAttempt, OutOfTime, Row
        <5>4. [row[o] EXCEPT !.attempts = @ + 1] \in Row
          BY <5>3, <2>3, RowWrites
        <5> QED BY <3>6, <4>1, <5>2, <5>4, WritesTyped DEF ClaimAttempt, TypeOK
      <4>2. CASE ~(row[o].status = "ordering" /\ row[o].attempts = s.row.attempts)
        BY <3>6, <4>2, <3>2 DEF ClaimAttempt, TypeOK
      <4> QED BY <4>1, <4>2
    <3> QED BY <2>9, <3>5, <3>6 DEF Reconcile, s
  <2>10. ASSUME NEW o \in Orders, Recover(o) PROVE TypeOK'
    <3>1. GoodJob(job')
      BY <2>1, <2>2, <2>3, <2>10, JobMoves DEF Recover, Step
    <3> QED BY <2>5, <2>10, <3>1 DEF Recover, chain, TypeOK
  <2>11. ASSUME NEW o \in Orders, AttemptEnds(o) PROVE TypeOK'
    BY <2>4, <2>5, <2>11 DEF AttemptEnds, Touch, chain, TypeOK
  <2>12. ASSUME NEW o \in Orders, VccReads(o) PROVE TypeOK'
    <3>1. GoodJob(job')
      BY <2>3, <2>12, JobMoves DEF VccReads, TypeOK
    <3> QED BY <2>5, <2>12, <3>1 DEF VccReads, chain, TypeOK
  <2>13. ASSUME NEW o \in Orders, HardFailAnswered(o) PROVE TypeOK'
    <3>1. [row[o] EXCEPT !.status = "failed"] \in Row
      BY <2>3, RowWrites DEF Statuses
    <3>2. /\ row' \in [Orders -> Row] /\ age' \in [Orders -> 0 .. FailAfter]
          /\ sending' \in SUBSET Orders
      BY <2>13, <3>1, WritesTyped DEF HardFailAnswered, HardFail, Touch, TypeOK
    <3> QED BY <2>4, <2>5, <2>13, <3>2 DEF HardFailAnswered, chain, TypeOK
  <2>14. ASSUME NEW o \in Orders, InvoiceAnswered(o) PROVE TypeOK'
    <3>1. GoodJob(job')
      BY <2>3, <2>14, JobMoves DEF InvoiceAnswered, At, Step
    <3>2. [row[o] EXCEPT !.invoiced = TRUE] \in Row
      BY <2>3, RowWrites
    <3>3. vcc' \in [Orders -> VccStatus]
      BY <2>14 DEF InvoiceAnswered, Invoiced, At, TypeOK, VccStatus
    <3> QED BY <2>5, <2>14, <3>1, <3>2, <3>3, WritesTyped DEF InvoiceAnswered, chain, TypeOK
  <2>15. ASSUME NEW o \in Orders, InvoiceAnswerLost(o) PROVE TypeOK'
    <3>1. vcc' \in [Orders -> VccStatus]
      BY <2>15 DEF InvoiceAnswerLost, Invoiced, At, TypeOK, VccStatus
    <3> QED BY <2>4, <2>5, <2>15, <3>1 DEF InvoiceAnswerLost, chain, TypeOK
  <2>16. ASSUME NEW o \in Orders, UrlAnswered(o) PROVE TypeOK'
    <3>1. GoodJob(job')
      <4>1. GoodJob([job EXCEPT !.step = "pay"]) /\ GoodJob([job EXCEPT !.step = "notify"])
        BY <2>3, <2>16, JobMoves DEF UrlAnswered, At, Step
      <4> QED BY <2>16, <4>1 DEF UrlAnswered
    <3>2. [row[o] EXCEPT !.sent = TRUE] \in Row
      BY <2>3, RowWrites
    <3>3. row' \in [Orders -> Row] /\ age' \in [Orders -> 0 .. FailAfter]
      BY <2>16, <3>2, WritesTyped DEF UrlAnswered, TypeOK
    <3> QED BY <2>5, <2>16, <3>1, <3>3 DEF UrlAnswered, chain, TypeOK
  <2>17. ASSUME NEW o \in Orders, PayAnswered(o) PROVE TypeOK'
    <3>1. GoodJob([job EXCEPT !.step = "notify"])
      BY <2>3, <2>17, JobMoves DEF PayAnswered, At, Step
    <3>2. [row[o] EXCEPT !.sent = TRUE, !.ctx = TRUE] \in Row /\ Parked(row[o]) \in Row
      BY <2>3, RowWrites
    <3>3. PICK outcome \in Outcomes :
            /\ Landed(o, IF outcome.landed THEN 1 ELSE 0)
            /\ \/ Write(o, [row[o] EXCEPT !.sent = TRUE, !.ctx = TRUE])
                  /\ job' = [job EXCEPT !.step = "notify"]
               \/ NextOrder /\ UNCHANGED <<row, age>>
               \/ NextOrder /\ Write(o, Parked(row[o]))
      BY <2>17 DEF PayAnswered, Outcomes
    <3>4. GoodJob(job')
      BY <2>4, <3>1, <3>3
    <3>5. row' \in [Orders -> Row] /\ age' \in [Orders -> 0 .. FailAfter]
      BY <3>2, <3>3, WritesTyped DEF TypeOK
    <3>6. paid' \in [Orders -> Nat] /\ late' \in [Orders -> Nat]
      BY <3>3 DEF Landed, TypeOK
    <3> QED BY <2>5, <2>17, <3>4, <3>5, <3>6 DEF PayAnswered, TypeOK
  <2>18. ASSUME NEW o \in Orders, NotifyAnswered(o) PROVE TypeOK'
    <3>1. vcc' \in [Orders -> VccStatus]
      BY <2>18 DEF NotifyAnswered, Notified, At, TypeOK, VccStatus
    <3>2. [row[o] EXCEPT !.notified = TRUE] \in Row
      BY <2>3, RowWrites
    <3>3. row' \in [Orders -> Row] /\ age' \in [Orders -> 0 .. FailAfter]
      BY <2>18, <3>2, WritesTyped DEF NotifyAnswered
    <3> QED BY <2>4, <2>5, <2>18, <3>1, <3>3 DEF NotifyAnswered, chain, TypeOK
  <2>19. ASSUME NEW o \in Orders, NotifyAnswerLost(o) PROVE TypeOK'
    <3>1. vcc' \in [Orders -> VccStatus]
      BY <2>19 DEF NotifyAnswerLost, Notified, At, TypeOK, VccStatus
    <3> QED BY <2>4, <2>5, <2>19, <3>1 DEF NotifyAnswerLost, chain, TypeOK
  <2>20. ASSUME NEW o \in Orders, PollAnswered(o) PROVE TypeOK'
    <3>1. [row[o] EXCEPT !.status = FailureOf(job.seen.row)] \in Row
      BY <2>3, RowWrites DEF FailureOf, Statuses
    <3>2. /\ row' \in [Orders -> Row] /\ age' \in [Orders -> 0 .. FailAfter]
          /\ sending' \in SUBSET Orders
      BY <2>20, <3>1, WritesTyped DEF PollAnswered, Touch, TypeOK
    <3> QED BY <2>4, <2>5, <2>20, <3>2 DEF PollAnswered, chain, TypeOK
  <2>21. ASSUME NEW o \in Orders, FulfilledCallback(o) PROVE TypeOK'
    <3>1. [row[o] EXCEPT !.status = "delivered", !.card = TRUE] \in Row
      BY <2>3, RowWrites
    <3>2. row' \in [Orders -> Row] /\ age' \in [Orders -> 0 .. FailAfter]
      BY <2>21, <3>1, WritesTyped DEF FulfilledCallback
    <3>3. spent' \in [Orders -> Nat]
      BY <2>21 DEF FulfilledCallback, TypeOK
    <3> QED BY <2>21, <3>2, <3>3 DEF FulfilledCallback, chain, TypeOK
  <2>22. ASSUME NEW o \in Orders, FailedCallback(o) PROVE TypeOK'
    <3>1. [row[o] EXCEPT !.status = FailureOf(row[o])] \in Row
      BY <2>3, RowWrites DEF FailureOf, Statuses
    <3>2. /\ row' \in [Orders -> Row] /\ age' \in [Orders -> 0 .. FailAfter]
          /\ sending' \in SUBSET Orders
      BY <2>22, <3>1, WritesTyped DEF FailedCallback
    <3> QED BY <2>22, <3>2 DEF FailedCallback, chain, TypeOK
  <2>23. ASSUME NEW o \in Orders, RefundAnswered(o) PROVE TypeOK'
    <3>1. /\ [row[o] EXCEPT !.status = "refunded", !.refundTx = TRUE] \in Row
          /\ [row[o] EXCEPT !.refundTx = TRUE] \in Row
      BY <2>3, RowWrites
    <3>2. row' \in [Orders -> Row] /\ age' \in [Orders -> 0 .. FailAfter]
      BY <2>23, <3>1, WritesTyped DEF RefundAnswered, TypeOK
    <3>3. refunds' \in [Orders -> Nat] /\ sending' \in SUBSET Orders
      BY <2>23 DEF RefundAnswered, TypeOK
    <3> QED BY <2>23, <3>2, <3>3 DEF RefundAnswered, TypeOK
  <2>24. ASSUME NEW o \in Orders, VccDecides(o) \/ VccGivesInvoiceUp(o) \/ VccRunsAgain(o)
         PROVE  TypeOK'
    BY <2>24 DEF VccDecides, VccGivesInvoiceUp, VccRunsAgain, VccStatus, chain, TypeOK
  <2>25. CASE Tick
    <3>1. age' \in [Orders -> 0 .. FailAfter]
      BY <2>25 DEF Tick, TypeOK
    <3> QED BY <2>25, <3>1 DEF Tick, chain, TypeOK
  <2>26. CASE Freeze \/ Unfreeze
    <3>1. frozen' \in BOOLEAN
      BY <2>26, Zenon DEF Freeze, Unfreeze
    <3>2. faults' \in 0 .. MaxFaults
      BY <2>26 DEF Freeze, Unfreeze, TypeOK
    <3> QED BY <2>26, <3>1, <3>2 DEF Freeze, Unfreeze, chain, TypeOK
  <2>27. CASE Crash
    <3>1. refunds' \in [Orders -> Nat]
      BY <2>27 DEF Crash, TypeOK
    <3>2. paid' \in [Orders -> Nat] /\ late' \in [Orders -> Nat] /\ cut' \in [Orders -> Nat]
      BY <2>27 DEF Crash, Landed, TypeOK
    <3>3. GoodJob(job')
      BY <2>27, ListsTyped, <1>0 DEF Crash
    <3>4. sending' \in SUBSET Orders /\ faults' \in 0 .. MaxFaults
      BY <2>27 DEF Crash, TypeOK
    <3> QED BY <2>5, <2>27, <3>1, <3>2, <3>3, <3>4 DEF Crash, TypeOK
  <2>28. CASE UNCHANGED vars
    BY <2>28 DEF vars, chain, TypeOK
  <2> QED BY <2>6, <2>7, <2>8, <2>9, <2>10, <2>11, <2>12, <2>13, <2>14, <2>15, <2>16, <2>17,
             <2>18, <2>19, <2>20, <2>21, <2>22, <2>23, <2>24, <2>25, <2>26, <2>27, <2>28
          DEF Next, JobStep, VccAnswers
<1> QED BY <1>1, <1>2, PTL DEF Spec

-----------------------------------------------------------------------------
(* The inductive invariant.                                                *)

(* An order still open was not settled at all, and one whose refund is     *)
(* being sent was settled in no other way.                                 *)
OpenIsUnsettled ==
    \A o \in Orders :
        /\ row[o].status = "ordering" => o \notin sending /\ refunds[o] = 0 /\ spent[o] = 0
        /\ o \in sending => /\ refunds[o] = 0 /\ spent[o] = 0
                            /\ row[o].status \in {"refund_pending", "failed"}

(* Only a crash hides a payment from the row.                              *)
UnpaidByTheRow == \A o \in Orders : ~row[o].ctx => paid[o] <= cut[o]

(* An operator is only asked about an order that is paid as far as its row *)
(* tells.                                                                  *)
OperatorSeesPaid == \A o \in Orders : row[o].status = "pending_manual_recovery" => row[o].ctx

(* A refund is decided on a row without a payment, and what is paid        *)
(* afterwards is paid late.                                                *)
RefundWasDue ==
    \A o \in Orders : o \in sending \/ refunds[o] > 0 => paid[o] <= cut[o] + late[o]

(* No order is handled twice in a tick; an attempt that may still pay is   *)
(* on an unpaid row; and a payment the job has read is still there.        *)
JobKnowsPayments ==
    /\ job.at \notin DOMAIN job.todo
    /\ job.step \in {"invoice", "url", "pay"} => ~row[job.at].ctx
    /\ job.at # None /\ job.seen.row.ctx => row[job.at].ctx
    /\ \A o \in DOMAIN job.todo : job.todo[o].row.ctx => row[o].ctx
    /\ job.phase = "reconcile" => \A o \in DOMAIN job.todo : ~row[o].ctx

IInv ==
    /\ TypeOK
    /\ OpenIsUnsettled /\ SettledOnce
    /\ UnpaidByTheRow /\ PaidOnceUnlessCut
    /\ RefundWasDue /\ OperatorSeesPaid
    /\ JobKnowsPayments

(* What a step may do to one order: nothing that concerns its settling,    *)
(* deliver it, close it (with a refund only if unpaid), pay its invoice,   *)
(* end its refund, or crash.                                               *)
SameLedger(x) == spent'[x] = spent[x] /\ refunds'[x] = refunds[x]
SamePayments(x) == paid'[x] = paid[x] /\ late'[x] = late[x] /\ cut'[x] = cut[x]
SameCtx(x) == row'[x].ctx = row[x].ctx

Same(x) ==
    /\ row'[x].status = row[x].status /\ SameCtx(x)
    /\ SameLedger(x) /\ SamePayments(x) /\ (x \in sending' <=> x \in sending)

Delivers(x) ==
    /\ row[x].status = "ordering" /\ row'[x].status = "delivered" /\ SameCtx(x)
    /\ spent'[x] = spent[x] + 1 /\ refunds'[x] = refunds[x]
    /\ SamePayments(x) /\ (x \in sending' <=> x \in sending)

(* The one who closes the order knows it is paid, or knew it was.          *)
KnownPaid(x) == row[x].ctx \/ (At("poll", x) /\ job.seen.row.ctx)

Closes(x) ==
    /\ row[x].status = "ordering" /\ SameCtx(x)
    /\ row'[x].status = "pending_manual_recovery" => KnownPaid(x)
    /\ row'[x].status \in {"failed", "pending_manual_recovery", "refund_pending"}
    /\ x \in sending' /\ x \notin sending => ~row[x].ctx /\ row'[x].status = "refund_pending"
    /\ SameLedger(x) /\ SamePayments(x)

Pays(x) ==
    /\ At("pay", x) /\ job'.step # "pay"
    /\ SameLedger(x) /\ cut'[x] = cut[x] /\ (x \in sending' <=> x \in sending)
    /\ \/ /\ row'[x].status \in {row[x].status, "failed"} /\ row'[x].ctx
          /\ \E n \in {0, 1} :
               /\ paid'[x] = paid[x] + n
               /\ late'[x] = late[x] + (IF row[x].status # "ordering" THEN n ELSE 0)
       \/ /\ row'[x].status = row[x].status /\ SameCtx(x)
          /\ paid'[x] = paid[x] /\ late'[x] = late[x]

EndsRefund(x) ==
    /\ x \in sending /\ x \notin sending'
    /\ row'[x].status \in {row[x].status, "refunded"} /\ SameCtx(x)
    /\ refunds'[x] \in {refunds[x], refunds[x] + 1} /\ spent'[x] = spent[x]
    /\ SamePayments(x)

Cuts(x) ==
    /\ row'[x].status = row[x].status /\ SameCtx(x) /\ spent'[x] = spent[x]
    /\ x \notin sending'
    /\ refunds'[x] = refunds[x] \/ (x \in sending /\ refunds'[x] = refunds[x] + 1)
    /\ \/ SamePayments(x)
       \/ /\ paid'[x] = paid[x] + 1 /\ cut'[x] = cut[x] + 1
          /\ late'[x] \in {late[x], late[x] + 1}

LEMMA StepKinds ==
  ASSUME TypeOK, [Next]_vars, NEW x \in Orders
  PROVE  Same(x) \/ Delivers(x) \/ Closes(x) \/ Pays(x) \/ EndsRefund(x) \/ Cuts(x)
<1> DEFINE Kind == Same(x) \/ Delivers(x) \/ Closes(x) \/ Pays(x) \/ EndsRefund(x) \/ Cuts(x)
<1> SUFFICES Kind
  OBVIOUS
<1>1. \A o \in Orders : row[o] \in Row
  BY DEF TypeOK
<1>2. ASSUME NEW o \in Orders, NEW r \in Row, Write(o, r)
      PROVE  row'[o] = r /\ \A y \in Orders : y # o => row'[y] = row[y]
  BY <1>2 DEF Write, TypeOK
<1>3. ASSUME UNCHANGED <<row, sending, chain, spent>> PROVE Kind
  BY <1>3 DEF Same, SameCtx, SameLedger, SamePayments, chain
<1>4. ASSUME NEW o \in Orders, NEW r \in Row, Write(o, r),
             r.status = row[o].status, r.ctx = row[o].ctx,
             UNCHANGED <<sending, chain, spent>>
      PROVE  Kind
  BY <1>2, <1>4 DEF Same, SameCtx, SameLedger, SamePayments, chain
<1>5. ASSUME NEW o \in Orders, NEW s \in {"failed", "pending_manual_recovery"},
             row[o].status = "ordering", s = "pending_manual_recovery" => KnownPaid(o),
             RefundOrQuarantine(o, [row[o] EXCEPT !.status = s]),
             UNCHANGED <<chain, spent>>
      PROVE  Kind
  <2> DEFINE r == [row[o] EXCEPT !.status = s]
  <2>1. r \in Row /\ r.status = s /\ r.ctx = row[o].ctx
    <3>1. row[o] \in Row /\ s \in Statuses
      BY <1>1 DEF Statuses
    <3>2. r \in Row
      BY <3>1, RowWrites
    <3> QED BY <3>1, <3>2, RowFields
  <2>2. [r EXCEPT !.status = "refund_pending"] \in Row
        /\ [r EXCEPT !.status = "refund_pending"].status = "refund_pending"
        /\ [r EXCEPT !.status = "refund_pending"].ctx = row[o].ctx
    BY <2>1, RowWrites, RowFields DEF Statuses
  <2>3. RefundOrQuarantine(o, r)
    BY <1>5
  <2> HIDE DEF r
  <2>4. CASE MustRefund(r)
    <3>1. row'[o].status = "refund_pending" /\ row'[o].ctx = row[o].ctx
          /\ (\A y \in Orders : y # o => row'[y] = row[y])
          /\ sending' \subseteq sending \union {o} /\ sending \subseteq sending' /\ ~row[o].ctx
      BY <1>2, <2>1, <2>2, <2>3, <2>4 DEF RefundOrQuarantine, MustRefund
    <3>2. CASE x = o
      BY <1>5, <3>1, <3>2 DEF Closes, SameCtx, SameLedger, SamePayments, chain
    <3>3. CASE x # o
      BY <1>5, <3>1, <3>3 DEF Same, SameCtx, SameLedger, SamePayments, chain
    <3> QED BY <3>2, <3>3
  <2>5. CASE ~MustRefund(r)
    <3>1. row'[o].status = s /\ row'[o].ctx = row[o].ctx
          /\ (\A y \in Orders : y # o => row'[y] = row[y]) /\ sending' = sending
      BY <1>2, <2>1, <2>3, <2>5 DEF RefundOrQuarantine
    <3>2. CASE x = o
      BY <1>5, <3>1, <3>2 DEF Closes, SameCtx, SameLedger, SamePayments, chain
    <3>3. CASE x # o
      BY <1>5, <3>1, <3>3 DEF Same, SameCtx, SameLedger, SamePayments, chain
    <3> QED BY <3>2, <3>3
  <2> QED BY <2>4, <2>5
<1>6. ASSUME NEW o \in Orders, HardFail(o), UNCHANGED <<chain, spent>> PROVE Kind
  BY <1>3, <1>5, <1>6 DEF HardFail
<1>7. ASSUME NEW o \in Orders, Touch(o), UNCHANGED <<row, sending, chain, spent>> PROVE Kind
  BY <1>3, <1>7
<1>8. CASE StartReconcile \/ StartRecover \/ EndTick \/ Tick \/ Freeze \/ Unfreeze
  BY <1>3, <1>8 DEF StartReconcile, StartRecover, EndTick, Tick, Freeze, Unfreeze
<1>9. ASSUME NEW o \in Orders, Reconcile(o) PROVE Kind
  <2> DEFINE s == job.todo[o]
  <2>1. UNCHANGED <<chain, spent>>
    BY <1>9 DEF Reconcile
  <2>2. CASE GiveUpOn(o, s)
    BY <1>3, <1>6, <2>1, <2>2 DEF GiveUpOn
  <2>3. CASE ClaimAttempt(o, s)
    <3>1. CASE row[o].status = "ordering" /\ row[o].attempts = s.row.attempts
      <4>1. row[o].attempts < MaxAttempts
        BY <1>1, <2>3, <3>1, FulfilmentAssumption DEF ClaimAttempt, OutOfTime, Row
      <4>2. [row[o] EXCEPT !.attempts = @ + 1] \in Row
        BY <4>1, <1>1, RowWrites
      <4> QED BY <1>1, <1>4, <2>1, <2>3, <3>1, <4>2, RowFields DEF ClaimAttempt
    <3>2. CASE ~(row[o].status = "ordering" /\ row[o].attempts = s.row.attempts)
      BY <1>3, <2>1, <2>3, <3>2 DEF ClaimAttempt
    <3> QED BY <3>1, <3>2
  <2> QED BY <1>9, <2>2, <2>3 DEF Reconcile
<1>10. ASSUME NEW o \in Orders,
              \/ Recover(o) \/ AttemptEnds(o) \/ VccReads(o)
              \/ InvoiceAnswerLost(o) \/ NotifyAnswerLost(o)
              \/ VccDecides(o) \/ VccGivesInvoiceUp(o) \/ VccRunsAgain(o)
       PROVE  Kind
  BY <1>3, <1>10 DEF Recover, AttemptEnds, VccReads, InvoiceAnswerLost, NotifyAnswerLost,
                     VccDecides, VccGivesInvoiceUp, VccRunsAgain
<1>11. ASSUME NEW o \in Orders, HardFailAnswered(o) PROVE Kind
  BY <1>3, <1>6, <1>11 DEF HardFailAnswered
<1>12. ASSUME NEW o \in Orders, InvoiceAnswered(o) \/ UrlAnswered(o) \/ NotifyAnswered(o)
       PROVE  Kind
  <2>1. UNCHANGED <<sending, chain, spent>>
    BY <1>12 DEF InvoiceAnswered, UrlAnswered, NotifyAnswered
  <2>2. \/ UNCHANGED row
        \/ \E w \in {[row[o] EXCEPT !.invoiced = TRUE], [row[o] EXCEPT !.sent = TRUE],
                     [row[o] EXCEPT !.notified = TRUE]} : Write(o, w)
    BY <1>12 DEF InvoiceAnswered, UrlAnswered, NotifyAnswered
  <2>3. CASE UNCHANGED row
    BY <1>3, <2>1, <2>3
  <2>4. ASSUME NEW w \in {[row[o] EXCEPT !.invoiced = TRUE], [row[o] EXCEPT !.sent = TRUE],
                          [row[o] EXCEPT !.notified = TRUE]},
               Write(o, w)
        PROVE  Kind
    <3>1. w \in Row
      BY <1>1, RowWrites
    <3>2. row[o] \in Row
      BY <1>1
    <3>3. w.status = row[o].status /\ w.ctx = row[o].ctx
      <4>1. CASE w = [row[o] EXCEPT !.invoiced = TRUE]
        BY <3>2, <4>1, RowFields
      <4>2. CASE w = [row[o] EXCEPT !.sent = TRUE]
        BY <3>2, <4>2, RowFields
      <4>3. CASE w = [row[o] EXCEPT !.notified = TRUE]
        BY <3>2, <4>3, RowFields
      <4> QED BY <2>4, <4>1, <4>2, <4>3
    <3> QED BY <1>4, <2>1, <2>4, <3>1, <3>3
  <2> QED BY <2>2, <2>3, <2>4
<1>13. ASSUME NEW o \in Orders, PayAnswered(o) PROVE Kind
  <2>1. /\ At("pay", o) /\ UNCHANGED <<sending, cut, refunds, spent>>
        /\ job \in Job
    BY <1>13 DEF PayAnswered, TypeOK
  <2>2. PICK outcome \in Outcomes :
          /\ Landed(o, IF outcome.landed THEN 1 ELSE 0)
          /\ \/ Write(o, [row[o] EXCEPT !.sent = TRUE, !.ctx = TRUE])
                /\ job' = [job EXCEPT !.step = "notify"]
             \/ outcome.landed = FALSE /\ NextOrder /\ UNCHANGED <<row, age>>
             \/ NextOrder /\ Write(o, Parked(row[o]))
    BY <1>13 DEF PayAnswered, Outcomes
  <2>3. job'.step # "pay"
    BY <2>1, <2>2 DEF NextOrder, Job
  <2>4. PICK n \in {0, 1} : Landed(o, n) /\ (outcome.landed = FALSE => n = 0)
    BY <2>2
  <2>5. /\ paid'[o] = paid[o] + n
        /\ late'[o] = late[o] + (IF row[o].status # "ordering" THEN n ELSE 0)
        /\ \A y \in Orders : y # o => paid'[y] = paid[y] /\ late'[y] = late[y]
    BY <2>4 DEF Landed, TypeOK
  <2>6. \/ /\ row'[o].status \in {row[o].status, "failed"} /\ row'[o].ctx
           /\ \A y \in Orders : y # o => row'[y] = row[y]
        \/ n = 0 /\ UNCHANGED row
    <3>1. row[o] \in Row
      BY <1>1
    <3>2. CASE Write(o, [row[o] EXCEPT !.sent = TRUE, !.ctx = TRUE])
      <4>1. [row[o] EXCEPT !.sent = TRUE, !.ctx = TRUE] \in Row
        BY <3>1, RowWrites
      <4>2. row'[o] = [row[o] EXCEPT !.sent = TRUE, !.ctx = TRUE]
            /\ \A y \in Orders : y # o => row'[y] = row[y]
        BY <1>2, <3>2, <4>1
      <4> QED BY <3>1, <4>2, RowFields
    <3>3. CASE Write(o, Parked(row[o]))
      <4>1. Parked(row[o]) \in Row
        BY <3>1, RowWrites
      <4>2. row'[o] = Parked(row[o]) /\ \A y \in Orders : y # o => row'[y] = row[y]
        BY <1>2, <3>3, <4>1
      <4> QED BY <3>1, <4>2, RowFields
    <3> QED BY <2>2, <2>4, <3>2, <3>3
  <2>7. CASE x = o
    BY <2>1, <2>3, <2>5, <2>6, <2>7 DEF Pays, SameCtx, SameLedger, TypeOK
  <2>8. CASE x # o
    BY <2>1, <2>5, <2>6, <2>8 DEF Same, SameCtx, SameLedger, SamePayments
  <2> QED BY <2>7, <2>8
<1>14. ASSUME NEW o \in Orders, PollAnswered(o) PROVE Kind
  <2>1. UNCHANGED <<chain, spent>>
    BY <1>14 DEF PollAnswered
  <2>2. /\ FailureOf(job.seen.row) \in {"failed", "pending_manual_recovery"}
        /\ FailureOf(job.seen.row) = "pending_manual_recovery" => KnownPaid(o)
    BY <1>14 DEF FailureOf, KnownPaid, PollAnswered
  <2>3. \/ UNCHANGED <<row, sending>>
        \/ /\ row[o].status = "ordering"
           /\ RefundOrQuarantine(o, [row[o] EXCEPT !.status = FailureOf(job.seen.row)])
    BY <1>14 DEF PollAnswered
  <2> QED BY <1>3, <1>5, <2>1, <2>2, <2>3
<1>15. ASSUME NEW o \in Orders, FulfilledCallback(o) PROVE Kind
  <2>1. row[o].status = "ordering"
    BY <1>1, <1>15 DEF FulfilledCallback, OpenToCallback, Terminal, Row
  <2>2. row'[o].status = "delivered" /\ row'[o].ctx = row[o].ctx
        /\ \A y \in Orders : y # o => row'[y] = row[y]
    <3>1. row[o] \in Row
      BY <1>1
    <3>2. [row[o] EXCEPT !.status = "delivered", !.card = TRUE] \in Row
      BY <3>1, RowWrites
    <3>3. row'[o] = [row[o] EXCEPT !.status = "delivered", !.card = TRUE]
          /\ \A y \in Orders : y # o => row'[y] = row[y]
      BY <1>2, <1>15, <3>2 DEF FulfilledCallback
    <3> QED BY <3>1, <3>3, RowFields
  <2>3. spent'[o] = spent[o] + 1 /\ (\A y \in Orders : y # o => spent'[y] = spent[y])
        /\ UNCHANGED <<sending, paid, late, cut, refunds>>
    BY <1>15 DEF FulfilledCallback, chain, TypeOK
  <2>4. CASE x = o
    BY <2>1, <2>2, <2>3, <2>4 DEF Delivers, SameCtx, SamePayments
  <2>5. CASE x # o
    BY <2>2, <2>3, <2>5 DEF Same, SameCtx, SameLedger, SamePayments
  <2> QED BY <2>4, <2>5
<1>16. ASSUME NEW o \in Orders, FailedCallback(o) PROVE Kind
  <2>1. row[o].status = "ordering"
    BY <1>1, <1>16 DEF FailedCallback, OpenToCallback, Terminal, Row
  <2>2. /\ FailureOf(row[o]) \in {"failed", "pending_manual_recovery"}
        /\ FailureOf(row[o]) = "pending_manual_recovery" => KnownPaid(o)
    BY DEF FailureOf, KnownPaid
  <2> QED BY <1>5, <1>16, <2>1, <2>2 DEF FailedCallback
<1>17. ASSUME NEW o \in Orders, RefundAnswered(o) PROVE Kind
  <2>1. /\ o \in sending /\ sending' = sending \ {o}
        /\ UNCHANGED <<paid, late, cut, spent>>
    BY <1>17 DEF RefundAnswered
  <2>2. /\ refunds'[o] \in {refunds[o], refunds[o] + 1}
        /\ \A y \in Orders : y # o => refunds'[y] = refunds[y]
    BY <1>17 DEF RefundAnswered, TypeOK
  <2>3. \/ UNCHANGED row
        \/ Write(o, [row[o] EXCEPT !.status = "refunded", !.refundTx = TRUE])
        \/ Write(o, [row[o] EXCEPT !.refundTx = TRUE])
    BY <1>17 DEF RefundAnswered
  <2>4. /\ row'[o].status \in {row[o].status, "refunded"} /\ row'[o].ctx = row[o].ctx
        /\ \A y \in Orders : y # o => row'[y] = row[y]
    <3>1. row[o] \in Row
      BY <1>1
    <3>2. ASSUME NEW w \in {[row[o] EXCEPT !.status = "refunded", !.refundTx = TRUE],
                            [row[o] EXCEPT !.refundTx = TRUE]},
                 Write(o, w)
          PROVE  /\ row'[o].status \in {row[o].status, "refunded"} /\ row'[o].ctx = row[o].ctx
                 /\ \A y \in Orders : y # o => row'[y] = row[y]
      <4>1. w \in Row
        BY <3>1, RowWrites
      <4>2. w.status \in {row[o].status, "refunded"} /\ w.ctx = row[o].ctx
        <5>1. CASE w = [row[o] EXCEPT !.status = "refunded", !.refundTx = TRUE]
          BY <3>1, <5>1, RowFields
        <5>2. CASE w = [row[o] EXCEPT !.refundTx = TRUE]
          BY <3>1, <5>2, RowFields
        <5> QED BY <3>2, <5>1, <5>2
      <4> QED BY <1>2, <3>2, <4>1, <4>2
    <3> QED BY <2>3, <3>2
  <2>5. CASE x = o
    BY <2>1, <2>2, <2>4, <2>5 DEF EndsRefund, SameCtx, SamePayments
  <2>6. CASE x # o
    BY <2>1, <2>2, <2>4, <2>6 DEF Same, SameCtx, SameLedger, SamePayments
  <2> QED BY <2>5, <2>6
<1>18. CASE Crash
  <2>1. UNCHANGED <<row, spent>> /\ sending' = {}
    BY <1>18 DEF Crash
  <2>2. refunds'[x] = refunds[x] \/ (x \in sending /\ refunds'[x] = refunds[x] + 1)
    BY <1>18 DEF Crash, TypeOK
  <2>3. \/ SamePayments(x)
        \/ /\ paid'[x] = paid[x] + 1 /\ cut'[x] = cut[x] + 1
           /\ late'[x] \in {late[x], late[x] + 1}
    BY <1>18 DEF Crash, Landed, SamePayments, TypeOK
  <2> QED BY <2>1, <2>2, <2>3 DEF Cuts, SameCtx
<1>19. CASE UNCHANGED vars
  BY <1>3, <1>19 DEF vars
<1> QED BY <1>8, <1>9, <1>10, <1>11, <1>12, <1>13, <1>14, <1>15, <1>16, <1>17, <1>18, <1>19
        DEF Next, JobStep, VccAnswers

(* The job looks at payments that stay: each of its moves keeps what it    *)
(* knows, and what it knows about one order changes only when it pays it.  *)
LEMMA KnowledgeKept ==
  ASSUME TypeOK, JobKnowsPayments, [Next]_vars
  PROVE  JobKnowsPayments'
<1>1. job \in Job /\ DOMAIN job.todo \subseteq Orders /\ ((job.at = None) <=> (job.step = "next"))
      /\ job.at \in Orders \union {None}
  <2>1. job \in Job
    BY DEF TypeOK
  <2> QED BY <2>1, JobParts DEF TypeOK
<1>2. ASSUME NEW x \in Orders, ~(At("pay", x) /\ job'.step # "pay")
      PROVE  row'[x].ctx = row[x].ctx
  BY <1>2, StepKinds DEF Same, Delivers, Closes, Pays, EndsRefund, Cuts, SameCtx
<1>3. ASSUME NEW x \in Orders, row[x].ctx PROVE row'[x].ctx
  BY <1>3, StepKinds DEF Same, Delivers, Closes, Pays, EndsRefund, Cuts, SameCtx
<1>4. CASE UNCHANGED job
  <2>1. \A x \in Orders : row'[x].ctx = row[x].ctx
    BY <1>2, <1>4 DEF At
  <2> QED BY <1>1, <1>4, <2>1, FulfilmentAssumption DEF JobKnowsPayments, Step
<1>5. ASSUME NEW S \in SUBSET Orders, job'.at = None, job'.step = "next",
             job'.todo = Snapshot(S), UNCHANGED row,
             job'.phase = "reconcile" => \A x \in S : ~row[x].ctx
      PROVE  JobKnowsPayments'
  <2>1. DOMAIN job'.todo = S /\ \A x \in S : job'.todo[x].row = row[x]
    BY <1>5 DEF Snapshot
  <2> QED BY <1>5, <2>1, FulfilmentAssumption DEF JobKnowsPayments
<1>6. ASSUME job'.at = None, job'.step = "next", job'.todo = <<>> PROVE JobKnowsPayments'
  <2>1. DOMAIN job'.todo = {}
    BY <1>6
  <2> QED BY <1>6, <2>1 DEF JobKnowsPayments
<1>7. ASSUME job.step = "next", NEW o \in DOMAIN job.todo,
             \/ job' = [job EXCEPT !.todo = Without(o)]
             \/ \E step \in Step \ {"next", "pay"} :
                  /\ job' = [job EXCEPT !.step = step, !.at = o, !.seen = job.todo[o],
                                        !.todo = Without(o)]
                  /\ step \in {"invoice", "url"} => job.phase = "reconcile"
      PROVE  JobKnowsPayments'
  <2>1. o \in Orders /\ job.at = None
    BY <1>1, <1>7
  <2>2. \A x \in Orders : row'[x].ctx = row[x].ctx
    BY <1>2, <1>7 DEF At
  <2>3. DOMAIN Without(o) = DOMAIN job.todo \ {o}
        /\ \A x \in DOMAIN job.todo \ {o} : Without(o)[x] = job.todo[x]
    BY DEF Without, Restrict
  <2>4. job'.todo = Without(o) /\ job'.phase = job.phase
        /\ \/ job'.at = None /\ job'.step = "next"
           \/ /\ job'.at = o /\ job'.seen = job.todo[o] /\ job'.step # "pay"
              /\ job'.step \in {"invoice", "url"} => job.phase = "reconcile"
    BY <1>1, <1>7, <2>1 DEF Job
  <2> QED BY <1>1, <2>1, <2>2, <2>3, <2>4, FulfilmentAssumption DEF JobKnowsPayments
<1>8. ASSUME NextOrder PROVE JobKnowsPayments'
  <2>1. job'.at = None /\ job'.step = "next" /\ job'.todo = job.todo /\ job'.phase = job.phase
    BY <1>1, <1>8 DEF NextOrder, Job
  <2>2. \A x \in DOMAIN job.todo : row'[x].ctx = row[x].ctx
    BY <1>1, <1>2 DEF At, JobKnowsPayments
  <2> QED BY <1>1, <2>1, <2>2, FulfilmentAssumption DEF JobKnowsPayments
<1>9. ASSUME NEW step \in Step \ {"next"}, job' = [job EXCEPT !.step = step],
             step = "pay" => job.step \in {"invoice", "url"},
             step \notin {"invoice", "url"}
      PROVE  JobKnowsPayments'
  <2>1. job'.at = job.at /\ job'.step = step /\ job'.todo = job.todo /\ job'.phase = job.phase
        /\ job'.seen = job.seen
    BY <1>1, <1>9 DEF Job
  <2>2. \A x \in DOMAIN job.todo : row'[x].ctx = row[x].ctx
    BY <1>1, <1>2 DEF At, JobKnowsPayments
  <2>3. job.step \in {"invoice", "url"} /\ job.at \in Orders => row'[job.at].ctx = row[job.at].ctx
    BY <1>2 DEF At
  <2> QED BY <1>1, <1>3, <1>9, <2>1, <2>2, <2>3 DEF JobKnowsPayments
<1>10. ASSUME NEW h, job' = [job EXCEPT !.heard = h], UNCHANGED row PROVE JobKnowsPayments'
  <2>1. job'.at = job.at /\ job'.step = job.step /\ job'.todo = job.todo
        /\ job'.phase = job.phase /\ job'.seen = job.seen
    BY <1>1, <1>10 DEF Job
  <2> QED BY <1>10, <2>1 DEF JobKnowsPayments
<1>11. CASE StartReconcile
  <2>1. job'.at = None /\ job'.step = "next" /\ UNCHANGED row
        /\ job'.todo = (IF frozen THEN <<>> ELSE Snapshot(StuckOrders))
    BY <1>11 DEF StartReconcile, NoJob
  <2>2. StuckOrders \in SUBSET Orders /\ \A x \in StuckOrders : ~row[x].ctx
    BY DEF StuckOrders
  <2> QED BY <1>5, <1>6, <2>1, <2>2
<1>12. CASE StartRecover
  <2>1. job'.at = None /\ job'.step = "next" /\ UNCHANGED row /\ job'.phase = "recover"
        /\ job'.todo = Snapshot(PollableOrders)
    BY <1>12 DEF StartRecover, NoJob
  <2>2. PollableOrders \in SUBSET Orders
    BY DEF PollableOrders
  <2> QED BY <1>5, <2>1, <2>2
<1>13. CASE EndTick \/ Crash
  BY <1>6, <1>13 DEF EndTick, Crash, NoJob
<1>14. ASSUME NEW o \in Orders, Reconcile(o) \/ Recover(o) PROVE JobKnowsPayments'
  <2>1. job.step = "next" /\ o \in DOMAIN job.todo
    BY <1>14 DEF Reconcile, Recover
  <2>2. CASE Recover(o)
    <3>1. job' = [job EXCEPT !.step = "poll", !.at = o, !.seen = job.todo[o],
                            !.todo = Without(o)]
      BY <2>2 DEF Recover
    <3>2. "poll" \in Step \ {"next", "pay"} /\ "poll" \notin {"invoice", "url"}
      BY DEF Step
    <3> QED BY <1>7, <2>1, <3>1, <3>2
  <2>3. CASE Reconcile(o)
    <3>1. job.phase = "reconcile" /\ (GiveUpOn(o, job.todo[o]) \/ ClaimAttempt(o, job.todo[o]))
      BY <2>3 DEF Reconcile
    <3>2. FirstStep(job.todo[o].row) \in Step \ {"next", "pay"}
      BY DEF FirstStep, Step
    <3>3. \/ job' = [job EXCEPT !.todo = Without(o)]
          \/ \E step \in Step \ {"next", "pay"} :
               job' = [job EXCEPT !.step = step, !.at = o, !.seen = job.todo[o],
                                  !.todo = Without(o)]
      BY <3>1, <3>2 DEF GiveUpOn, ClaimAttempt, Step
    <3> QED BY <1>7, <2>1, <3>1, <3>3
  <2> QED BY <1>14, <2>2, <2>3
<1>15. ASSUME NEW o \in Orders,
              \/ AttemptEnds(o) \/ HardFailAnswered(o) \/ InvoiceAnswerLost(o)
              \/ NotifyAnswered(o) \/ NotifyAnswerLost(o) \/ PollAnswered(o)
       PROVE  JobKnowsPayments'
  BY <1>8, <1>15 DEF AttemptEnds, HardFailAnswered, InvoiceAnswerLost, NotifyAnswered,
                     NotifyAnswerLost, PollAnswered
<1>16. ASSUME NEW o \in Orders, VccReads(o) PROVE JobKnowsPayments'
  BY <1>10, <1>16 DEF VccReads
<1>17. ASSUME NEW o \in Orders, InvoiceAnswered(o) \/ UrlAnswered(o) \/ PayAnswered(o)
       PROVE  JobKnowsPayments'
  <2>1. \/ NextOrder
        \/ job' = [job EXCEPT !.step = "notify"]
        \/ job' = [job EXCEPT !.step = "pay"] /\ job.step \in {"invoice", "url"}
    BY <1>17 DEF InvoiceAnswered, UrlAnswered, PayAnswered, At
  <2> QED BY <1>8, <1>9, <2>1 DEF Step
<1>18. ASSUME NEW o \in Orders,
              \/ FulfilledCallback(o) \/ FailedCallback(o) \/ RefundAnswered(o)
              \/ VccDecides(o) \/ VccGivesInvoiceUp(o) \/ VccRunsAgain(o)
       PROVE  UNCHANGED job
  BY <1>18 DEF FulfilledCallback, FailedCallback, RefundAnswered, VccDecides,
               VccGivesInvoiceUp, VccRunsAgain
<1>19. CASE Tick \/ Freeze \/ Unfreeze \/ UNCHANGED vars
  BY <1>4, <1>19 DEF Tick, Freeze, Unfreeze, vars
<1> QED BY <1>4, <1>11, <1>12, <1>13, <1>14, <1>15, <1>16, <1>17, <1>18, <1>19
        DEF Next, JobStep, VccAnswers

(* Whatever the crash left, every order waits for its card.                *)
LEMMA AllOpen ==
  ASSUME NEW shape \in [Orders -> Shapes], row = [o \in Orders |-> shape[o].row], NEW o \in Orders
  PROVE  row[o].status = "ordering"
<1>1. \A invoiced, sent \in BOOLEAN : Left(invoiced, sent).status = "ordering"
  BY DEF Left
<1>2. ASSUME NEW x \in Shapes PROVE \E invoiced, sent \in BOOLEAN : x.row = Left(invoiced, sent)
  <2> DEFINE fresh == Left(FALSE, FALSE)
             invoiced == Left(TRUE, FALSE)
             sent == Left(TRUE, TRUE)
  <2>1. \/ \E v \in {"none", "invoice_issued"} : x = [row |-> fresh, vcc |-> v, paid |-> 0]
        \/ \E n \in {0, 1} : x = [row |-> invoiced, vcc |-> "invoice_issued", paid |-> n]
        \/ \E v \in {"invoice_issued", "queued"} : x = [row |-> sent, vcc |-> v, paid |-> 1]
    BY Zenon DEF Shapes
  <2> HIDE DEF fresh, invoiced, sent
  <2>2. x.row \in {fresh, invoiced, sent}
    BY <2>1
  <2> QED BY <2>2 DEF fresh, invoiced, sent
<1>3. shape[o] \in Shapes /\ row[o] = shape[o].row
  OBVIOUS
<1> QED BY <1>1, <1>2, <1>3

(* The invariant holds in every behaviour of the pipeline.                 *)
THEOREM Invariant == Spec => []IInv
<1>1. TypeOK /\ Init => IInv
  <2> SUFFICES ASSUME TypeOK, Init PROVE IInv
    OBVIOUS
  <2>1. PICK shape \in [Orders -> Shapes] :
          /\ row = [o \in Orders |-> shape[o].row]
          /\ paid = [o \in Orders |-> shape[o].paid]
          /\ cut = [o \in Orders |-> IF shape[o].row.sent THEN 0 ELSE shape[o].paid]
          /\ job = NoJob /\ sending = {}
          /\ refunds = [o \in Orders |-> 0] /\ spent = [o \in Orders |-> 0]
    BY DEF Init
  <2>2. ASSUME NEW x \in Shapes PROVE x.paid \in {0, 1} /\ (x.row.ctx \/ ~x.row.sent)
    <3> DEFINE fresh == Left(FALSE, FALSE)
               invoiced == Left(TRUE, FALSE)
               sent == Left(TRUE, TRUE)
    <3>1. \E r \in {fresh, invoiced, sent}, v \in VccStatus, n \in {0, 1} :
             x = [row |-> r, vcc |-> v, paid |-> n]
      <4>1. \/ \E v \in {"none", "invoice_issued"} : x = [row |-> fresh, vcc |-> v, paid |-> 0]
            \/ \E n \in {0, 1} : x = [row |-> invoiced, vcc |-> "invoice_issued", paid |-> n]
            \/ \E v \in {"invoice_issued", "queued"} : x = [row |-> sent, vcc |-> v, paid |-> 1]
        BY Zenon DEF Shapes
      <4> HIDE DEF fresh, invoiced, sent
      <4> QED BY <4>1 DEF VccStatus
    <3>2. ~fresh.sent /\ ~invoiced.sent /\ sent.ctx
      BY DEF Left
    <3> HIDE DEF fresh, invoiced, sent
    <3> QED BY <3>1, <3>2
  <2>3. \A o \in Orders : (~row[o].ctx => paid[o] <= cut[o]) /\ paid[o] <= 1 + cut[o]
    BY <2>1, <2>2
  <2>4. JobKnowsPayments
    BY <2>1 DEF NoJob, JobKnowsPayments
  <2>5. OpenIsUnsettled /\ SettledOnce /\ RefundWasDue
    BY <2>1 DEF OpenIsUnsettled, SettledOnce, RefundWasDue
  <2>6. \A o \in Orders : row[o].status = "ordering"
    BY <2>1, AllOpen
  <2> QED BY <2>3, <2>4, <2>5, <2>6 DEF IInv, UnpaidByTheRow, PaidOnceUnlessCut, OperatorSeesPaid
<1>2. TypeOK /\ TypeOK' /\ IInv /\ [Next]_vars => IInv'
  <2> SUFFICES ASSUME TypeOK, TypeOK', IInv, [Next]_vars PROVE IInv'
    OBVIOUS
  <2>1. ASSUME NEW x \in Orders
        PROVE  /\ spent[x] \in Nat /\ refunds[x] \in Nat
               /\ paid[x] \in Nat /\ late[x] \in Nat /\ cut[x] \in Nat
    BY DEF TypeOK
  <2>2. ASSUME NEW x \in Orders
        PROVE  Same(x) \/ Delivers(x) \/ Closes(x) \/ Pays(x) \/ EndsRefund(x) \/ Cuts(x)
    BY StepKinds
  <2>3. ASSUME NEW x \in Orders, Pays(x) PROVE ~row[x].ctx
    BY <2>3 DEF Pays, At, IInv, JobKnowsPayments
  <2>4. OpenIsUnsettled' /\ SettledOnce'
    <3> SUFFICES ASSUME NEW x \in Orders
                 PROVE  /\ row'[x].status = "ordering" =>
                               x \notin sending' /\ refunds'[x] = 0 /\ spent'[x] = 0
                        /\ x \in sending' => /\ refunds'[x] = 0 /\ spent'[x] = 0
                                             /\ row'[x].status \in {"refund_pending", "failed"}
                        /\ spent'[x] + refunds'[x] <= 1
      BY DEF OpenIsUnsettled, SettledOnce
    <3>1. /\ row[x].status = "ordering" => x \notin sending /\ refunds[x] = 0 /\ spent[x] = 0
          /\ x \in sending => /\ refunds[x] = 0 /\ spent[x] = 0
                              /\ row[x].status \in {"refund_pending", "failed"}
          /\ spent[x] + refunds[x] <= 1
      BY DEF IInv, OpenIsUnsettled, SettledOnce
    <3> QED BY <2>1, <2>2, <3>1
            DEF Same, Delivers, Closes, Pays, EndsRefund, Cuts, SameLedger
  <2>5. UnpaidByTheRow' /\ PaidOnceUnlessCut'
    <3> SUFFICES ASSUME NEW x \in Orders
                 PROVE  (~row'[x].ctx => paid'[x] <= cut'[x]) /\ paid'[x] <= 1 + cut'[x]
      BY DEF UnpaidByTheRow, PaidOnceUnlessCut
    <3>1. (~row[x].ctx => paid[x] <= cut[x]) /\ paid[x] <= 1 + cut[x]
      BY DEF IInv, UnpaidByTheRow, PaidOnceUnlessCut
    <3> QED BY <2>1, <2>2, <2>3, <3>1
            DEF Same, Delivers, Closes, Pays, EndsRefund, Cuts, SamePayments, SameCtx
  <2>6. RefundWasDue'
    <3> SUFFICES ASSUME NEW x \in Orders, x \in sending' \/ refunds'[x] > 0
                 PROVE  paid'[x] <= cut'[x] + late'[x]
      BY DEF RefundWasDue
    <3>1. /\ row[x].status = "ordering" => x \notin sending /\ refunds[x] = 0
          /\ x \in sending \/ refunds[x] > 0 => paid[x] <= cut[x] + late[x]
          /\ ~row[x].ctx => paid[x] <= cut[x]
      BY DEF IInv, OpenIsUnsettled, RefundWasDue, UnpaidByTheRow
    <3> QED BY <2>1, <2>2, <3>1
            DEF Same, Delivers, Closes, Pays, EndsRefund, Cuts, SameLedger, SamePayments
  <2>7. JobKnowsPayments'
    BY KnowledgeKept DEF IInv
  <2>8. OperatorSeesPaid'
    <3> SUFFICES ASSUME NEW x \in Orders, row'[x].status = "pending_manual_recovery"
                 PROVE  row'[x].ctx
      BY DEF OperatorSeesPaid
    <3>1. row[x].status = "pending_manual_recovery" => row[x].ctx
      BY DEF IInv, OperatorSeesPaid
    <3>2. KnownPaid(x) => row[x].ctx
      BY FulfilmentAssumption DEF KnownPaid, At, IInv, JobKnowsPayments
    <3> QED BY <2>2, <3>1, <3>2
            DEF Same, Delivers, Closes, Pays, EndsRefund, Cuts, SameCtx
  <2> QED BY <2>4, <2>5, <2>6, <2>7, <2>8 DEF IInv
<1> QED BY <1>1, <1>2, TypeCorrect, PTL DEF Spec

(* What is about to be paid is not paid as far as its row tells.           *)
LEMMA PaysUnpaid ==
  ASSUME JobKnowsPayments, NEW x \in Orders, Pays(x)
  PROVE  ~row[x].ctx
  BY DEF Pays, At, JobKnowsPayments

(* No order ends in both a card and a refund, nor in two of either.        *)
THEOREM SettledAtMostOnce == Spec => []SettledOnce
BY Invariant, PTL DEF IInv

(* Only a crash makes the treasury pay an invoice again.                   *)
THEOREM PaidAtMostOnce == Spec => []PaidOnceUnlessCut
BY Invariant, PTL DEF IInv

(* A refunded order was unpaid as far as its row told.                     *)
THEOREM RefundsOnlyUnpaid == Spec => []RefundedWasUnpaid
<1>1. IInv => RefundedWasUnpaid
  BY DEF IInv, RefundWasDue, RefundedWasUnpaid
<1> QED BY <1>1, Invariant, PTL

(* An order an operator looks at is not reopened, nor a delivered card     *)
(* taken back, but by the unguarded parking of a payment.                  *)
THEOREM ClosedOrdersStay == Spec => ClosedStays
<1>1. IInv /\ [Next]_vars =>
        [\A o \in Orders :
            ( \/ row[o].status = "pending_manual_recovery"
              \/ row[o].status = "delivered" /\ ~At("pay", o) )
            => row'[o].status = row[o].status]_vars
  <2> SUFFICES ASSUME IInv, [Next]_vars, NEW o \in Orders,
                      \/ row[o].status = "pending_manual_recovery"
                      \/ row[o].status = "delivered" /\ ~At("pay", o)
               PROVE  row'[o].status = row[o].status
    OBVIOUS
  <2>1. o \notin sending /\ ~Pays(o)
    BY PaysUnpaid DEF IInv, OpenIsUnsettled, OperatorSeesPaid, Pays
  <2>2. Same(o) \/ Delivers(o) \/ Closes(o) \/ Pays(o) \/ EndsRefund(o) \/ Cuts(o)
    BY StepKinds DEF IInv
  <2> QED BY <2>1, <2>2 DEF Same, Delivers, Closes, EndsRefund, Cuts
<1> QED BY <1>1, Invariant, PTL DEF Spec, ClosedStays

(* Rows move along the statuses that the streams expect: each job,         *)
(* callback, refund and parked payment takes an UPDATE of OrderMoves.      *)
THEOREM RowsFollow == Spec => [][\A o \in Orders : Follows(row[o].status, row'[o].status)]_vars
<1>1. IInv /\ [Next]_vars => [\A o \in Orders : Follows(row[o].status, row'[o].status)]_vars
  <2> SUFFICES ASSUME IInv, [Next]_vars, NEW o \in Orders
               PROVE  Follows(row[o].status, row'[o].status)
    OBVIOUS
  <2>1. row[o].status \in Statuses
    BY DEF IInv, TypeOK, Row
  <2>2. Same(o) \/ Delivers(o) \/ Closes(o) \/ Pays(o) \/ EndsRefund(o) \/ Cuts(o)
    BY StepKinds DEF IInv
  <2>3. CASE Same(o) \/ Delivers(o) \/ Closes(o) \/ Cuts(o)
    BY <2>3 DEF Same, Delivers, Closes, Cuts, Follows, Moves
  <2>4. CASE Pays(o)
    <3>1. row[o].status # "pending_manual_recovery"
      BY <2>4, PaysUnpaid DEF IInv, OperatorSeesPaid
    <3> QED BY <2>1, <2>4, <3>1 DEF Pays, Follows, Moves, Statuses
  <2>5. CASE EndsRefund(o)
    <3>1. row[o].status \in {"refund_pending", "failed"}
      BY <2>5 DEF EndsRefund, IInv, OpenIsUnsettled
    <3> QED BY <2>5, <3>1 DEF EndsRefund, Follows, Moves
  <2> QED BY <2>2, <2>3, <2>4, <2>5
<1> QED BY <1>1, Invariant, PTL DEF Spec

-----------------------------------------------------------------------------
(* The pipeline implements its promise.                                    *)

Settled == [o \in Orders |-> EndOf(o)]
Booked == [o \in Orders |-> row[o].ctx]

(* An order as the promise sees it, before and after a step.               *)
LEMMA PromiseSees ==
  ASSUME NEW o \in Orders
  PROVE  /\ Settled[o] = EndOf(o) /\ Settled'[o] = EndOf(o)'
         /\ Booked[o] = row[o].ctx /\ Booked'[o] = row'[o].ctx
         /\ EndOf(o) \in Settlement!Ends /\ EndOf(o)' \in Settlement!Ends
  BY DEF Settled, Booked, EndOf, Settlement!Ends

LEMMA PromiseStep == IInv /\ IInv' /\ [Next]_vars => [Settlement!Next]_(Settlement!vars)
<1> SUFFICES ASSUME IInv, IInv', [Next]_vars PROVE Settlement!Next
  OBVIOUS
<1>1. Settled' \in [Orders -> Settlement!Ends] /\ Booked' \in [Orders -> BOOLEAN]
  <2>1. \A o \in Orders : row'[o].ctx \in BOOLEAN
    BY DEF IInv, TypeOK, Row
  <2> QED BY <2>1, PromiseSees DEF Settled, Booked
<1> DEFINE Kept(o) == \/ Settlement!Issue(o) \/ Settlement!BeginRefund(o) \/ Settlement!Refund(o)
                      \/ Settlement!LoseRefund(o) \/ Settlement!HandOver(o) \/ Settlement!Book(o)
                      \/ Settlement!Stay(o)
<1>2. ASSUME NEW o \in Orders PROVE Kept(o)
  <2>1. /\ row[o].status = "ordering" => o \notin sending /\ refunds[o] = 0 /\ spent[o] = 0
        /\ o \in sending => /\ refunds[o] = 0 /\ spent[o] = 0
                            /\ row[o].status \in {"refund_pending", "failed"}
        /\ spent[o] \in Nat /\ refunds[o] \in Nat /\ row[o].ctx \in BOOLEAN
    BY DEF IInv, OpenIsUnsettled, TypeOK, Row
  <2>2. Same(o) \/ Delivers(o) \/ Closes(o) \/ Pays(o) \/ EndsRefund(o) \/ Cuts(o)
    BY StepKinds DEF IInv
  <2>3. CASE Same(o)
    <3>1. EndOf(o)' = EndOf(o) /\ row'[o].ctx = row[o].ctx
      BY <2>3 DEF Same, SameCtx, SameLedger, EndOf
    <3>2. Settlement!Stay(o)
      BY <3>1, PromiseSees DEF Settlement!Stay, Settlement!Becomes, Settlement!BooksStay, Settled, Booked
    <3> QED BY <3>2
  <2>4. CASE Delivers(o)
    <3>1. EndOf(o) = "open" /\ EndOf(o)' = "card" /\ row'[o].ctx = row[o].ctx
      BY <2>1, <2>4 DEF Delivers, SameCtx, EndOf
    <3>2. Settlement!Issue(o)
      BY <3>1, PromiseSees DEF Settlement!Issue, Settlement!Becomes, Settlement!BooksStay, Settled, Booked
    <3> QED BY <3>2
  <2>5. CASE Closes(o)
    <3>1. EndOf(o) = "open" /\ row'[o].ctx = row[o].ctx
      BY <2>1, <2>5 DEF Closes, SameCtx, EndOf
    <3>2. CASE o \in sending'
      <4>1. EndOf(o)' = "refunding" /\ ~row[o].ctx
        BY <2>1, <2>5, <3>2 DEF Closes, EndOf
      <4>2. Settlement!BeginRefund(o)
        BY <3>1, <4>1, PromiseSees
           DEF Settlement!BeginRefund, Settlement!Becomes, Settlement!BooksStay, Settled, Booked
      <4> QED BY <4>2
    <3>3. CASE o \notin sending'
      <4>1. EndOf(o)' = "operator"
        BY <2>1, <2>5, <3>3 DEF Closes, SameLedger, EndOf
      <4>2. Settlement!HandOver(o)
        BY <3>1, <4>1, PromiseSees DEF Settlement!HandOver, Settlement!Becomes, Settled, Booked
      <4> QED BY <4>2
    <3> QED BY <3>2, <3>3
  <2>6. CASE Pays(o)
    <3>1. ~row[o].ctx
      BY <2>6, PaysUnpaid DEF IInv
    <3>2. \/ EndOf(o)' = EndOf(o)
          \/ EndOf(o) = "open" /\ EndOf(o)' = "operator"
      BY <2>1, <2>6 DEF Pays, SameLedger, EndOf
    <3>3. Settlement!Book(o) \/ Settlement!Stay(o) \/ Settlement!HandOver(o)
      BY <3>1, <3>2, <2>6, <1>1, PromiseSees
         DEF Pays, SameCtx, Settlement!Book, Settlement!Stay, Settlement!HandOver,
             Settlement!Becomes, Settlement!BooksStay, Settled, Booked
    <3> QED BY <3>3
  <2>7. CASE EndsRefund(o) \/ Cuts(o)
    <3>1. row'[o].ctx = row[o].ctx
      BY <2>7 DEF EndsRefund, Cuts, SameCtx
    <3>2. \/ EndOf(o)' = EndOf(o)
          \/ EndOf(o) = "refunding" /\ EndOf(o)' \in {"refunded", "operator"}
      BY <2>1, <2>7 DEF EndsRefund, Cuts, EndOf
    <3>3. Settlement!Stay(o) \/ Settlement!Refund(o) \/ Settlement!LoseRefund(o)
      BY <3>1, <3>2, PromiseSees
         DEF Settlement!Stay, Settlement!Refund, Settlement!LoseRefund, Settlement!Becomes,
             Settlement!BooksStay, Settled, Booked
    <3> QED BY <3>3
  <2> QED BY <2>2, <2>3, <2>4, <2>5, <2>6, <2>7
<1> HIDE DEF Kept
<1>3. \A o \in Orders : Kept(o)
  BY <1>2
<1> QED BY <1>1, <1>3 DEF Kept, Settlement!Next, Settled, Booked

(* Whatever races, every order takes one way to its end, as                *)
(* SettlementPromise says, and no refund begins of an order whose row      *)
(* shows its payment.                                                      *)
THEOREM SettlementKept == Spec => KeepsSettlement
<1>1. TypeOK /\ Init => Settlement!Init
  <2> SUFFICES ASSUME TypeOK, Init PROVE Settlement!Init
    OBVIOUS
  <2>1. /\ \A o \in Orders : row[o].status = "ordering" /\ refunds[o] = 0 /\ spent[o] = 0
        /\ sending = {}
    BY AllOpen DEF Init
  <2>2. \A o \in Orders : EndOf(o) = "open" /\ row[o].ctx \in BOOLEAN
    BY <2>1 DEF EndOf, TypeOK, Row
  <2> QED BY <2>2 DEF Settlement!Init
<1>2. IInv /\ IInv' /\ [Next]_vars => [Settlement!Next]_(Settlement!vars)
  BY PromiseStep
<1> QED BY <1>1, <1>2, Invariant, TypeCorrect, PTL DEF Spec, KeepsSettlement, Settlement!Spec
=============================================================================
