---------------------------- MODULE WebhooksProofs ----------------------------
(***************************************************************************)
(* What delivery guarantees for any number of webhooks and origins,        *)
(* whatever the delays, the limits and the number of faults.               *)
(***************************************************************************)
EXTENDS Webhooks, TLAPS

(* The types of all but the failures that are counted, which no property   *)
(* below depends on: the circuit may open when it likes.                   *)
Typed ==
    /\ first \in [Hooks -> {"idle", "firing", "ended"}]
    /\ row \in [Hooks -> Row]
    /\ retrying \in [Hooks -> {0, 1}]
    /\ bare \subseteq Hooks
    /\ vault \in [Hooks -> {"sealed", "unreadable", "purged"}]
    /\ open \in [Origins -> 0 .. Cooldown]
    /\ fires \in [Hooks -> Nat]
    /\ acks \in [Hooks -> Nat]
    /\ got \in [Hooks -> SUBSET {"full", "redacted"}]
    /\ faults \in Nat

(* A row exists after the first call only, and counts its attempts.        *)
RowFollowsCall(h) ==
    row[h].stored => /\ first[h] = "ended"
                     /\ row[h].attempts \in 1 .. MaxAttempts + 1
                     /\ row[h].delivered => row[h].attempts <= MaxAttempts

(* The job calls only what is still due.                                   *)
RetriesDue(h) ==
    retrying[h] = 1 => /\ row[h].stored /\ ~row[h].delivered
                       /\ row[h].attempts <= MaxAttempts

(* Every call is an attempt, the one under way, or lost to a fault.        *)
CallsCounted(h) ==
    /\ first[h] = "idle" => fires[h] = 0
    /\ ~row[h].stored => fires[h] <= 1
    /\ row[h].stored /\ ~row[h].delivered =>
         fires[h] <= row[h].attempts + retrying[h] + faults
    /\ row[h].delivered => fires[h] <= row[h].attempts + 1 + faults

(* What is not marked as delivered was acknowledged at faults only.        *)
AcksCounted(h) ==
    /\ first[h] # "ended" => acks[h] = 0
    /\ row[h].stored /\ ~row[h].delivered => acks[h] <= faults
    /\ acks[h] <= 1 + faults

(* A call without its card is of an order whose card was purged.           *)
CardsPurged(h) ==
    /\ h \in bare => vault[h] = "purged"
    /\ "redacted" \in got[h] => vault[h] = "purged"

HookInv(h) ==
    /\ RowFollowsCall(h) /\ RetriesDue(h) /\ CallsCounted(h)
    /\ AcksCounted(h) /\ CardsPurged(h)

IInv == Typed /\ \A h \in Hooks : HookInv(h)

(* A hook nothing happens to.                                              *)
Same(h) ==
    /\ first'[h] = first[h] /\ row'[h] = row[h] /\ retrying'[h] = retrying[h]
    /\ (h \in bare') => (h \in bare)
    /\ vault'[h] = vault[h] /\ fires'[h] = fires[h] /\ acks'[h] = acks[h]
    /\ got'[h] = got[h]

LEMMA Untouched ==
  ASSUME Typed, Typed', NEW h \in Hooks, HookInv(h), Same(h), faults' >= faults
  PROVE  HookInv(h)'
BY DEF Typed, HookInv, Same, RowFollowsCall, RetriesDue, CallsCounted, AcksCounted,
       CardsPurged, Row

-----------------------------------------------------------------------------
LEMMA RowTypes ==
  ASSUME NEW r \in Row
  PROVE  /\ FailedRow(r) \in Row /\ FailedRow(r).attempts = r.attempts + 1
         /\ FailedRow(r).stored = r.stored /\ FailedRow(r).delivered = r.delivered
         /\ GivenUp(r) \in Row /\ GivenUp(r).attempts = MaxAttempts + 1
         /\ GivenUp(r).stored = r.stored /\ GivenUp(r).delivered = r.delivered
         /\ [r EXCEPT !.delivered = TRUE] \in Row
         /\ [r EXCEPT !.wait = Down(@)] \in Row
<1>1. MaxAttempts \in Nat /\ Delays \in Seq(Nat)
  BY WebhooksAssumption
<1>2. r.attempts \in Nat /\ r.wait \in Nat
  BY DEF Row
<1>3. r.attempts < MaxAttempts => Delays[r.attempts + 1] \in Nat
  <2>1. r.attempts < MaxAttempts => r.attempts + 1 \in 1 .. Len(Delays)
    BY <1>1, <1>2, WebhooksAssumption
  <2> QED BY <1>1, <2>1
<1>4. (IF r.attempts < MaxAttempts THEN Delays[r.attempts + 1] ELSE 0) \in Nat
  BY <1>3
<1>a. ASSUME NEW a \in Nat, NEW w \in Nat
      PROVE  LET q == [r EXCEPT !.attempts = a, !.wait = w]
             IN  /\ q \in Row /\ q.attempts = a /\ q.wait = w
                 /\ q.stored = r.stored /\ q.delivered = r.delivered
  BY <1>a DEF Row
<1>5. /\ FailedRow(r) \in Row /\ FailedRow(r).attempts = r.attempts + 1
      /\ FailedRow(r).stored = r.stored /\ FailedRow(r).delivered = r.delivered
  <2>1. FailedRow(r) = [r EXCEPT !.attempts = r.attempts + 1,
              !.wait = IF r.attempts < MaxAttempts THEN Delays[r.attempts + 1] ELSE 0]
    BY DEF FailedRow
  <2>2. r.attempts + 1 \in Nat
    BY <1>2
  <2>3. PICK w \in Nat : FailedRow(r) = [r EXCEPT !.attempts = r.attempts + 1, !.wait = w]
    BY <1>4, <2>1
  <2> DEFINE q == [r EXCEPT !.attempts = r.attempts + 1, !.wait = w]
  <2>4. q \in Row /\ q.attempts = r.attempts + 1 /\ q.stored = r.stored /\ q.delivered = r.delivered
    BY <1>a, <2>2, Zenon
  <2> QED BY <2>3, <2>4
<1>6. /\ GivenUp(r) \in Row /\ GivenUp(r).attempts = MaxAttempts + 1
      /\ GivenUp(r).stored = r.stored /\ GivenUp(r).delivered = r.delivered
  <2>1. MaxAttempts + 1 \in Nat /\ 0 \in Nat
    BY <1>1
  <2> QED BY <1>a, <2>1 DEF GivenUp
<1>7. [r EXCEPT !.delivered = TRUE] \in Row
  BY DEF Row
<1>8. [r EXCEPT !.wait = Down(@)] \in Row
  BY <1>2 DEF Row, Down
<1> QED BY <1>5, <1>6, <1>7, <1>8

(* The breaker keeps its circuits typed, and closes none.                  *)
LEMMA CircuitsOpen ==
  ASSUME Typed, NEW o \in Origins
  PROVE  /\ RecordSuccess(o) => open' = open
         /\ \A n \in Nat : RecordFailures(o, n) =>
              /\ open' \in [Origins -> 0 .. Cooldown]
              /\ \A p \in Origins : open'[p] >= open[p]
<1>1. RecordSuccess(o) => open' = open
  BY DEF RecordSuccess
<1>2. ASSUME NEW n \in Nat, RecordFailures(o, n)
      PROVE  /\ open' \in [Origins -> 0 .. Cooldown]
             /\ \A p \in Origins : open'[p] >= open[p]
  <2>1. open' = [open EXCEPT ![o] = IF Filled(o, n) THEN Cooldown ELSE @]
    BY <1>2 DEF RecordFailures
  <2>2. open \in [Origins -> 0 .. Cooldown] /\ Cooldown \in Nat
    BY WebhooksAssumption DEF Typed
  <2> QED BY <2>1, <2>2
<1> QED BY <1>1, <1>2

LEMMA FailuresOpen ==
  ASSUME Typed, NEW h \in Hooks, NEW f \in Outcomes, Failed(h, f)
  PROVE  /\ open' \in [Origins -> 0 .. Cooldown]
         /\ \A o \in Origins : open'[o] >= open[o]
<1>1. OriginOf[h] \in Origins
  BY WebhooksAssumption
<1>2. CASE f = "unsafe"
  BY <1>2, WebhooksAssumption DEF Failed, breaker, Typed
<1>3. CASE f # "unsafe"
  <2>1. Recorded(f) \in Nat
    BY <1>3 DEF Recorded, Outcomes
  <2> QED BY <1>1, <1>3, <2>1, CircuitsOpen DEF Failed
<1> QED BY <1>2, <1>3

-----------------------------------------------------------------------------
LEMMA Initially == Init => IInv
BY WebhooksAssumption DEF Init, IInv, Typed, HookInv, RowFollowsCall, RetriesDue, CallsCounted,
   AcksCounted, CardsPurged, Row, NoRow

-----------------------------------------------------------------------------
(* A step at one hook.                                                     *)
LEMMA OneHook ==
  ASSUME IInv, Typed', NEW h \in Hooks, HookInv(h)', faults' >= faults,
         \A g \in Hooks \ {h} : Same(g)
  PROVE  IInv'
<1>1. ASSUME NEW g \in Hooks PROVE HookInv(g)'
  <2>1. CASE g = h
    BY <2>1
  <2>2. CASE g # h
    <3>1. Typed /\ HookInv(g) /\ Same(g)
      BY <2>2 DEF IInv
    <3> QED BY <3>1, Untouched
  <2> QED BY <2>1, <2>2
<1> QED BY <1>1 DEF IInv

LEMMA Faults ==
  ASSUME Typed, Fault \/ UNCHANGED faults
  PROVE  faults' \in Nat /\ faults' >= faults /\ (Fault => faults' = faults + 1)
BY DEF Typed, Fault

(* A row of the queue as it is inserted.                                   *)
LEMMA Inserted ==
  ASSUME Typed, NEW h \in Hooks, AfterFailure(h)
  PROVE  /\ row' \in [Hooks -> Row]
         /\ \A g \in Hooks \ {h} : row'[g] = row[g]
         /\ \/ row'[h] = row[h]
            \/ /\ row'[h].stored /\ ~row'[h].delivered /\ row'[h].attempts = 1
         /\ faults' \in Nat /\ faults' >= faults
<1>1. Delays[1] \in Nat
  BY WebhooksAssumption
<1>2. [stored |-> TRUE, delivered |-> FALSE, attempts |-> 1, wait |-> Delays[1]] \in Row
  BY <1>1 DEF Row
<1>3. CASE row' = Queued(h)
  <2>1. row' \in [Hooks -> Row] /\ \A g \in Hooks \ {h} : row'[g] = row[g]
    BY <1>2, <1>3 DEF Queued, Typed
  <2>2. row'[h] = [stored |-> TRUE, delivered |-> FALSE, attempts |-> 1, wait |-> Delays[1]]
    BY <1>3 DEF Queued, Typed
  <2>3. Fault \/ UNCHANGED faults
    BY DEF AfterFailure
  <2> QED BY <2>1, <2>2, <2>3, Faults
<1>4. CASE UNCHANGED row
  <2>1. Fault \/ UNCHANGED faults
    BY DEF AfterFailure
  <2> QED BY <1>4, <2>1, Faults DEF Typed
<1> QED BY <1>3, <1>4 DEF AfterFailure

LEMMA RaiseKeeps ==
  ASSUME IInv, NEW h \in Hooks, Raise(h)
  PROVE  IInv'
<1>1. Typed /\ HookInv(h)
  BY DEF IInv
<1>2. Typed'
  BY <1>1 DEF Typed, Raise, breaker, receiver
<1>3. HookInv(h)'
  BY <1>1 DEF Typed, HookInv, Raise, breaker, receiver, RowFollowsCall, RetriesDue, CallsCounted,
     AcksCounted, CardsPurged, Row
<1>4. faults' >= faults /\ \A g \in Hooks \ {h} : Same(g)
  BY <1>1 DEF Typed, Raise, Same, breaker, receiver
<1> QED BY <1>2, <1>3, <1>4, OneHook

LEMMA RaiseFailsFastKeeps ==
  ASSUME IInv, NEW h \in Hooks, RaiseFailsFast(h)
  PROVE  IInv'
<1>1. Typed /\ HookInv(h)
  BY DEF IInv
<1>2. AfterFailure(h)
  BY DEF RaiseFailsFast
<1>3. Typed'
  BY <1>1, <1>2, Inserted DEF Typed, RaiseFailsFast, breaker, receiver
<1>4. HookInv(h)'
  <2>1. /\ first[h] = "idle" /\ first'[h] = "ended"
        /\ retrying'[h] = retrying[h] /\ bare' = bare /\ vault'[h] = vault[h]
        /\ fires'[h] = fires[h] /\ acks'[h] = acks[h] /\ got'[h] = got[h]
    BY <1>1 DEF RaiseFailsFast, Typed, breaker, receiver
  <2>2. \/ row'[h] = row[h]
        \/ row'[h].stored /\ ~row'[h].delivered /\ row'[h].attempts = 1
    BY <1>1, <1>2, Inserted
  <2>3. faults \in Nat /\ faults' \in Nat /\ faults' >= faults
    BY <1>1, <1>2, Inserted DEF Typed
  <2>4. /\ retrying[h] \in {0, 1} /\ fires[h] \in Nat /\ acks[h] \in Nat
        /\ row[h].attempts \in Nat /\ row[h].stored \in BOOLEAN /\ row[h].delivered \in BOOLEAN
    BY <1>1 DEF Typed, Row
  <2>5. MaxAttempts \in Nat /\ MaxAttempts >= 1
    BY WebhooksAssumption
  <2>6. RowFollowsCall(h)'
    BY <1>1, <2>1, <2>2, <2>4, <2>5 DEF HookInv, RowFollowsCall
  <2>7. RetriesDue(h)'
    BY <1>1, <2>1, <2>2, <2>4, <2>5 DEF HookInv, RowFollowsCall, RetriesDue
  <2>8. CallsCounted(h)'
    BY <1>1, <2>1, <2>2, <2>3, <2>4 DEF HookInv, RowFollowsCall, CallsCounted
  <2>9. AcksCounted(h)' /\ CardsPurged(h)'
    BY <1>1, <2>1, <2>2, <2>3, <2>4 DEF HookInv, RowFollowsCall, AcksCounted, CardsPurged
  <2> QED BY <2>6, <2>7, <2>8, <2>9 DEF HookInv
<1>5. faults' >= faults /\ \A g \in Hooks \ {h} : Same(g)
  BY <1>1, <1>2, Inserted DEF Typed, RaiseFailsFast, Same, breaker, receiver
<1> QED BY <1>3, <1>4, <1>5, OneHook

LEMMA FirstFailedKeeps ==
  ASSUME IInv, NEW h \in Hooks, NEW f \in Outcomes, FirstFailed(h, f)
  PROVE  IInv'
<1>1. Typed /\ HookInv(h)
  BY DEF IInv
<1>2. AfterFailure(h) /\ Failed(h, f)
  BY DEF FirstFailed
<1>3. Typed'
  BY <1>1, <1>2, Inserted, FailuresOpen DEF Typed, FirstFailed, receiver
<1>4. HookInv(h)'
  <2>1. /\ first[h] = "firing" /\ first'[h] = "ended"
        /\ retrying'[h] = retrying[h] /\ bare' = bare /\ vault'[h] = vault[h]
        /\ fires'[h] = fires[h] /\ acks'[h] = acks[h] /\ got'[h] = got[h]
    BY <1>1 DEF FirstFailed, Typed, receiver
  <2>2. \/ row'[h] = row[h]
        \/ row'[h].stored /\ ~row'[h].delivered /\ row'[h].attempts = 1
    BY <1>1, <1>2, Inserted
  <2>3. faults \in Nat /\ faults' \in Nat /\ faults' >= faults
    BY <1>1, <1>2, Inserted DEF Typed
  <2>4. /\ retrying[h] \in {0, 1} /\ fires[h] \in Nat /\ acks[h] \in Nat
        /\ row[h].attempts \in Nat /\ row[h].stored \in BOOLEAN /\ row[h].delivered \in BOOLEAN
    BY <1>1 DEF Typed, Row
  <2>5. MaxAttempts \in Nat /\ MaxAttempts >= 1
    BY WebhooksAssumption
  <2>6. RowFollowsCall(h)'
    BY <1>1, <2>1, <2>2, <2>4, <2>5 DEF HookInv, RowFollowsCall
  <2>7. RetriesDue(h)'
    BY <1>1, <2>1, <2>2, <2>4, <2>5 DEF HookInv, RowFollowsCall, RetriesDue
  <2>8. CallsCounted(h)'
    BY <1>1, <2>1, <2>2, <2>3, <2>4 DEF HookInv, RowFollowsCall, CallsCounted
  <2>9. AcksCounted(h)' /\ CardsPurged(h)'
    BY <1>1, <2>1, <2>2, <2>3, <2>4 DEF HookInv, RowFollowsCall, AcksCounted, CardsPurged
  <2> QED BY <2>6, <2>7, <2>8, <2>9 DEF HookInv
<1>5. faults' >= faults /\ \A g \in Hooks \ {h} : Same(g)
  BY <1>1, <1>2, Inserted DEF Typed, FirstFailed, Same, receiver
<1> QED BY <1>3, <1>4, <1>5, OneHook

(* What an acknowledgement adds.                                           *)
LEMMA AckTyped ==
  ASSUME Typed, NEW h \in Hooks, NEW p \in {"full", "redacted"}, Acknowledged(h, p)
  PROVE  /\ acks' \in [Hooks -> Nat] /\ got' \in [Hooks -> SUBSET {"full", "redacted"}]
         /\ acks'[h] = acks[h] + 1 /\ got'[h] = got[h] \union {p}
         /\ \A g \in Hooks \ {h} : acks'[g] = acks[g] /\ got'[g] = got[g]
BY DEF Acknowledged, Typed

LEMMA FirstAcknowledgedKeeps ==
  ASSUME IInv, NEW h \in Hooks, FirstAcknowledged(h)
  PROVE  IInv'
<1>1. Typed /\ HookInv(h)
  BY DEF IInv
<1>2. Acknowledged(h, "full") /\ open' = open
  BY <1>1, CircuitsOpen, WebhooksAssumption DEF FirstAcknowledged
<1>3. Typed'
  BY <1>1, <1>2, AckTyped DEF Typed, FirstAcknowledged
<1>4. HookInv(h)'
  <2>1. /\ first[h] = "firing" /\ first'[h] = "ended" /\ row'[h] = row[h]
        /\ retrying'[h] = retrying[h] /\ bare' = bare /\ vault'[h] = vault[h]
        /\ fires'[h] = fires[h] /\ faults' = faults
    BY <1>1 DEF FirstAcknowledged, Typed
  <2>2. acks'[h] = acks[h] + 1 /\ ("redacted" \in got'[h] => "redacted" \in got[h])
    BY <1>1, <1>2, AckTyped
  <2> QED BY <1>1, <2>1, <2>2
          DEF Typed, HookInv, RowFollowsCall, RetriesDue, CallsCounted, AcksCounted, CardsPurged, Row
<1>5. faults' >= faults /\ \A g \in Hooks \ {h} : Same(g)
  BY <1>1, <1>2, AckTyped DEF Typed, FirstAcknowledged, Same
<1> QED BY <1>3, <1>4, <1>5, OneHook

-----------------------------------------------------------------------------
LEMMA RetryAcknowledgedKeeps ==
  ASSUME IInv, NEW h \in Hooks, RetryAcknowledged(h)
  PROVE  IInv'
<1>1. Typed /\ HookInv(h)
  BY DEF IInv
<1>2. Acknowledged(h, Payload(h)) /\ open' = open /\ Payload(h) \in {"full", "redacted"}
  BY <1>1, CircuitsOpen, WebhooksAssumption DEF RetryAcknowledged, Payload
<1>3. /\ retrying[h] = 1 /\ retrying' \in [Hooks -> {0, 1}] /\ retrying'[h] = 0
      /\ bare' = bare \ {h} /\ \A g \in Hooks \ {h} : retrying'[g] = retrying[g]
  BY <1>1 DEF RetryAcknowledged, Landed, Typed
<1>4. /\ row' \in [Hooks -> Row] /\ \A g \in Hooks \ {h} : row'[g] = row[g]
      /\ \/ row'[h] = [row[h] EXCEPT !.delivered = TRUE] /\ faults' = faults
         \/ row'[h] = FailedRow(row[h]) /\ faults' = faults + 1
  <2>1. row[h] \in Row
    BY <1>1 DEF Typed
  <2>2. [row[h] EXCEPT !.delivered = TRUE] \in Row /\ FailedRow(row[h]) \in Row
    BY <2>1, RowTypes
  <2>3. CASE row' = [row EXCEPT ![h].delivered = TRUE] /\ UNCHANGED faults
    BY <1>1, <2>2, <2>3 DEF Typed
  <2>4. CASE row' = [row EXCEPT ![h] = FailedRow(@)] /\ Fault
    BY <1>1, <2>2, <2>4, Faults DEF Typed
  <2> QED BY <2>3, <2>4 DEF RetryAcknowledged
<1>5. faults' \in Nat /\ faults' >= faults
  BY <1>1, <1>4 DEF Typed
<1>6. Typed'
  BY <1>1, <1>2, <1>3, <1>4, <1>5, AckTyped DEF Typed, RetryAcknowledged
<1>7. HookInv(h)'
  <2>1. /\ first'[h] = first[h] /\ vault'[h] = vault[h] /\ fires'[h] = fires[h]
        /\ h \notin bare'
    BY <1>1, <1>3 DEF RetryAcknowledged, Typed
  <2>2. /\ acks'[h] = acks[h] + 1
        /\ "redacted" \in got'[h] => "redacted" \in got[h] \/ h \in bare
    BY <1>1, <1>2, AckTyped DEF Payload
  <2>3. /\ row'[h].stored = row[h].stored
        /\ \/ row'[h].delivered /\ row'[h].attempts = row[h].attempts /\ faults' = faults
           \/ /\ row'[h].delivered = row[h].delivered
              /\ row'[h].attempts = row[h].attempts + 1 /\ faults' = faults + 1
    <3>1. row[h] \in Row
      BY <1>1 DEF Typed
    <3>2. /\ [row[h] EXCEPT !.delivered = TRUE].stored = row[h].stored
          /\ [row[h] EXCEPT !.delivered = TRUE].delivered
          /\ [row[h] EXCEPT !.delivered = TRUE].attempts = row[h].attempts
      BY <3>1 DEF Row
    <3> QED BY <1>4, <3>1, <3>2, RowTypes
  <2>4. row[h].attempts \in Nat /\ row[h].stored /\ ~row[h].delivered
    BY <1>1, <1>3 DEF Typed, HookInv, RetriesDue, Row
  <2>5. /\ fires[h] \in Nat /\ acks[h] \in Nat /\ faults \in Nat
        /\ MaxAttempts \in Nat /\ MaxAttempts >= 1
    BY <1>1, WebhooksAssumption DEF Typed
  <2>6. RowFollowsCall(h)' /\ RetriesDue(h)'
    BY <1>1, <1>3, <2>1, <2>3, <2>4, <2>5 DEF HookInv, RowFollowsCall, RetriesDue
  <2>7. CallsCounted(h)'
    BY <1>1, <1>3, <2>1, <2>3, <2>4, <2>5 DEF HookInv, RowFollowsCall, CallsCounted
  <2>8. AcksCounted(h)' /\ CardsPurged(h)'
    BY <1>1, <2>1, <2>2, <2>3, <2>4, <2>5 DEF HookInv, RowFollowsCall, AcksCounted, CardsPurged
  <2> QED BY <2>6, <2>7, <2>8 DEF HookInv
<1>8. \A g \in Hooks \ {h} : Same(g)
  BY <1>1, <1>2, <1>3, <1>4, AckTyped DEF RetryAcknowledged, Same
<1> QED BY <1>5, <1>6, <1>7, <1>8, OneHook

LEMMA RetryFailedKeeps ==
  ASSUME IInv, NEW h \in Hooks, NEW f \in Outcomes, RetryFailed(h, f)
  PROVE  IInv'
<1>1. Typed /\ HookInv(h)
  BY DEF IInv
<1>2. /\ retrying[h] = 1 /\ retrying' \in [Hooks -> {0, 1}] /\ retrying'[h] = 0
      /\ bare' = bare \ {h} /\ \A g \in Hooks \ {h} : retrying'[g] = retrying[g]
  BY <1>1 DEF RetryFailed, Landed, Typed
<1>3. /\ row' \in [Hooks -> Row] /\ \A g \in Hooks \ {h} : row'[g] = row[g]
      /\ row'[h] = FailedRow(row[h])
  <2>1. row[h] \in Row /\ FailedRow(row[h]) \in Row
    BY <1>1, RowTypes DEF Typed
  <2>2. row' = [row EXCEPT ![h] = FailedRow(row[h])]
    BY DEF RetryFailed
  <2> QED BY <1>1, <2>1, <2>2 DEF Typed
<1>4. Typed'
  BY <1>1, <1>2, <1>3, FailuresOpen DEF Typed, RetryFailed, receiver
<1>5. HookInv(h)'
  <2>1. /\ first'[h] = first[h] /\ vault'[h] = vault[h] /\ fires'[h] = fires[h]
        /\ h \notin bare' /\ acks'[h] = acks[h] /\ got'[h] = got[h] /\ faults' = faults
    BY <1>1, <1>2 DEF RetryFailed, Typed, receiver
  <2>2. /\ row'[h].stored = row[h].stored /\ row'[h].delivered = row[h].delivered
        /\ row'[h].attempts = row[h].attempts + 1 /\ row[h].attempts \in Nat
    <3>1. row[h] \in Row
      BY <1>1 DEF Typed
    <3>2. row[h].attempts \in Nat
      BY <3>1 DEF Row
    <3> QED BY <1>3, <3>1, <3>2, RowTypes
  <2>3. row[h].stored /\ ~row[h].delivered
    BY <1>1, <1>2 DEF HookInv, RetriesDue
  <2> QED BY <1>1, <1>2, <2>1, <2>2, <2>3, WebhooksAssumption
          DEF Typed, HookInv, RowFollowsCall, RetriesDue, CallsCounted, AcksCounted, CardsPurged
<1>6. faults' >= faults /\ \A g \in Hooks \ {h} : Same(g)
  BY <1>1, <1>2, <1>3 DEF Typed, RetryFailed, receiver, Same
<1> QED BY <1>4, <1>5, <1>6, OneHook

-----------------------------------------------------------------------------
LEMMA VaultKeeps ==
  ASSUME IInv, NEW h \in Hooks, PurgeOldCards(h) \/ VaultBreaks(h)
  PROVE  IInv'
<1>1. Typed /\ HookInv(h)
  BY DEF IInv
<1>2. /\ vault' \in [Hooks -> {"sealed", "unreadable", "purged"}]
      /\ \A g \in Hooks \ {h} : vault'[g] = vault[g]
      /\ vault[h] = "purged" => vault'[h] = "purged"
  BY <1>1 DEF PurgeOldCards, VaultBreaks, Typed
<1>3. faults' \in Nat /\ faults' >= faults
  BY <1>1, Faults DEF PurgeOldCards, VaultBreaks
<1>4. UNCHANGED <<first, row, retrying, bare, breaker, fires, receiver>>
  BY DEF PurgeOldCards, VaultBreaks
<1>5. Typed'
  BY <1>1, <1>2, <1>3, <1>4 DEF Typed, breaker, receiver
<1>6. HookInv(h)'
  <2>1. RowFollowsCall(h)' /\ RetriesDue(h)' /\ CardsPurged(h)'
    BY <1>1, <1>2, <1>4 DEF HookInv, RowFollowsCall, RetriesDue, CardsPurged, breaker, receiver
  <2>2. CallsCounted(h)' /\ AcksCounted(h)'
    <3>1. /\ fires[h] \in Nat /\ acks[h] \in Nat /\ faults \in Nat /\ retrying[h] \in {0, 1}
          /\ row[h].attempts \in Nat
      BY <1>1 DEF Typed, Row
    <3> QED BY <1>1, <1>3, <1>4, <3>1 DEF HookInv, CallsCounted, AcksCounted, breaker, receiver
  <2> QED BY <2>1, <2>2 DEF HookInv
<1>7. \A g \in Hooks \ {h} : Same(g)
  BY <1>2, <1>4 DEF Same, breaker, receiver
<1> QED BY <1>3, <1>5, <1>6, <1>7, OneHook

(* The job: every hook is given up, delayed, called or left alone.         *)
LEMMA RunRetriesKeeps ==
  ASSUME IInv, RunRetries
  PROVE  IInv'
<1> DEFINE broken == {h \in Due : h \in CardHooks /\ vault[h] = "unreadable"}
           barred == {h \in Due \ broken : CircuitIsOpen(OriginOf[h])}
           fired  == Due \ (broken \union barred)
<1>a. Typed
  BY DEF IInv
<1>b. /\ ~JobsRunning
      /\ row' = [h \in Hooks |-> CASE h \in broken -> GivenUp(row[h])
                                   [] h \in barred -> FailedRow(row[h])
                                   [] OTHER        -> row[h]]
      /\ retrying' = [h \in Hooks |-> IF h \in fired THEN retrying[h] + 1 ELSE retrying[h]]
      /\ fires' = [h \in Hooks |-> IF h \in fired THEN fires[h] + 1 ELSE fires[h]]
      /\ bare' = bare \union {h \in fired \intersect CardHooks : ~Rehydrates(h)}
      /\ UNCHANGED <<first, vault, breaker, receiver, faults>>
  BY DEF RunRetries
<1>c. broken \subseteq Due /\ barred \subseteq Due /\ fired \subseteq Due /\ Due \subseteq Hooks
      /\ broken \intersect barred = {} /\ fired \intersect (broken \union barred) = {}
  BY DEF Due
<1>d. \A h \in fired : h \in CardHooks => vault[h] # "unreadable"
  BY <1>c
<1>e. \A h \in Due : row[h].stored /\ ~row[h].delivered /\ row[h].attempts <= MaxAttempts
  BY DEF Due
<1>f. \A h \in Hooks : retrying[h] = 0
  BY <1>a, <1>b DEF JobsRunning, Typed
<1> HIDE DEF broken, barred, fired
<1>1. ASSUME NEW h \in Hooks
      PROVE  /\ row'[h] \in Row
             /\ retrying'[h] \in {0, 1} /\ fires'[h] \in Nat
             /\ HookInv(h)'
  <2>1. /\ row[h] \in Row /\ fires[h] \in Nat /\ acks[h] \in Nat /\ faults \in Nat
        /\ vault[h] \in {"sealed", "unreadable", "purged"} /\ HookInv(h) /\ retrying[h] = 0
    BY <1>a, <1>f DEF Typed, IInv
  <2>2. /\ row[h].attempts \in Nat /\ row[h].stored \in BOOLEAN /\ row[h].delivered \in BOOLEAN
    BY <2>1 DEF Row
  <2>3. /\ first'[h] = first[h] /\ vault'[h] = vault[h] /\ acks'[h] = acks[h]
        /\ got'[h] = got[h] /\ faults' = faults
    BY <1>b DEF breaker, receiver
  <2>4. MaxAttempts \in Nat /\ MaxAttempts >= 1
    BY WebhooksAssumption
  <2>5. CASE h \in broken \/ h \in barred
    <3>1. h \in Due /\ h \notin fired
      BY <1>c, <2>5
    <3>2. /\ row'[h] \in Row /\ row'[h].stored /\ ~row'[h].delivered
          /\ row'[h].attempts \in {row[h].attempts + 1, MaxAttempts + 1}
      BY <1>b, <1>c, <1>e, <2>1, <2>5, <3>1, RowTypes
    <3>3. retrying'[h] = 0 /\ fires'[h] = fires[h] /\ (h \in bare' => h \in bare)
      BY <1>b, <2>1, <3>1
    <3>4. row[h].attempts <= MaxAttempts /\ row[h].stored /\ ~row[h].delivered
      BY <1>e, <3>1
    <3>5. RowFollowsCall(h)' /\ RetriesDue(h)'
      BY <2>1, <2>2, <2>3, <2>4, <3>2, <3>3, <3>4 DEF HookInv, RowFollowsCall, RetriesDue
    <3>6. CallsCounted(h)'
      BY <2>1, <2>2, <2>3, <2>4, <3>2, <3>3, <3>4 DEF HookInv, RowFollowsCall, CallsCounted
    <3>7. AcksCounted(h)' /\ CardsPurged(h)'
      BY <2>1, <2>2, <2>3, <3>2, <3>3, <3>4 DEF HookInv, AcksCounted, CardsPurged
    <3> QED BY <2>1, <3>2, <3>3, <3>5, <3>6, <3>7 DEF HookInv
  <2>6. CASE h \in fired
    <3>1. h \in Due /\ row'[h] = row[h] /\ retrying'[h] = 1 /\ fires'[h] = fires[h] + 1
      BY <1>b, <1>c, <2>1, <2>6
    <3>2. h \in bare' => h \in bare \/ vault[h] = "purged"
      BY <1>b, <1>d, <2>1, <2>6 DEF Rehydrates
    <3>3. row[h].attempts <= MaxAttempts /\ row[h].stored /\ ~row[h].delivered
      BY <1>e, <3>1
    <3>4. RowFollowsCall(h)' /\ RetriesDue(h)'
      BY <2>1, <2>2, <2>3, <2>4, <3>1, <3>3 DEF HookInv, RowFollowsCall, RetriesDue
    <3>5. CallsCounted(h)'
      BY <2>1, <2>2, <2>3, <2>4, <3>1, <3>3 DEF HookInv, RowFollowsCall, CallsCounted
    <3>6. AcksCounted(h)' /\ CardsPurged(h)'
      BY <2>1, <2>2, <2>3, <3>1, <3>2, <3>3 DEF HookInv, AcksCounted, CardsPurged
    <3> QED BY <2>1, <3>1, <3>4, <3>5, <3>6 DEF HookInv
  <2>7. CASE h \notin broken \union barred \union fired
    <3>1. /\ row'[h] = row[h] /\ retrying'[h] = retrying[h] /\ fires'[h] = fires[h]
          /\ h \in bare' => h \in bare
      BY <1>b, <2>7
    <3>2. RowFollowsCall(h)' /\ RetriesDue(h)' /\ CallsCounted(h)'
      BY <2>1, <2>3, <3>1 DEF HookInv, RowFollowsCall, RetriesDue, CallsCounted
    <3>3. AcksCounted(h)' /\ CardsPurged(h)'
      BY <2>1, <2>3, <3>1 DEF HookInv, AcksCounted, CardsPurged
    <3> QED BY <2>1, <3>1, <3>2, <3>3 DEF HookInv
  <2> QED BY <2>5, <2>6, <2>7
<1>2. row' \in [Hooks -> Row] /\ retrying' \in [Hooks -> {0, 1}] /\ fires' \in [Hooks -> Nat]
  <2>1. \A h \in Hooks : row'[h] \in Row /\ retrying'[h] \in {0, 1} /\ fires'[h] \in Nat
    BY <1>1
  <2>2. /\ row' = [h \in Hooks |-> row'[h]] /\ retrying' = [h \in Hooks |-> retrying'[h]]
        /\ fires' = [h \in Hooks |-> fires'[h]]
    BY <1>b
  <2> QED BY <2>1, <2>2
<1>3. bare' \subseteq Hooks
  BY <1>a, <1>b, <1>c DEF Typed
<1>4. Typed'
  BY <1>a, <1>b, <1>2, <1>3 DEF Typed, breaker, receiver
<1> QED BY <1>1, <1>4 DEF IInv

LEMMA CrashKeeps ==
  ASSUME IInv, Crash
  PROVE  IInv'
<1>1. Typed
  BY DEF IInv
<1> DEFINE flying == {h \in Hooks : first[h] = "firing" \/ retrying[h] > 0}
<1>2. PICK landed \in SUBSET flying :
        /\ acks' = [h \in Hooks |-> IF h \in landed THEN acks[h] + 1 ELSE acks[h]]
        /\ got' = [h \in Hooks |-> IF h \in landed
                                   THEN got[h] \union {Payload(h)} ELSE got[h]]
  BY DEF Crash
<1>3. /\ first' = [h \in Hooks |-> IF first[h] = "firing" THEN "ended" ELSE first[h]]
      /\ retrying' = [h \in Hooks |-> 0] /\ bare' = {} /\ open' = [o \in Origins |-> 0]
      /\ UNCHANGED <<row, vault, fires>>
  BY DEF Crash
<1>4. faults' = faults + 1
  BY <1>1, Faults DEF Crash
<1>5. \A h \in Hooks : Payload(h) \in {"full", "redacted"}
  BY DEF Payload
<1>6. Typed'
  <2>1. acks' \in [Hooks -> Nat] /\ got' \in [Hooks -> SUBSET {"full", "redacted"}]
    BY <1>1, <1>2, <1>5 DEF Typed
  <2> QED BY <1>1, <1>3, <1>4, <2>1, WebhooksAssumption DEF Typed
<1>7. ASSUME NEW h \in Hooks PROVE HookInv(h)'
  <2>1. /\ row[h] \in Row /\ fires[h] \in Nat /\ acks[h] \in Nat /\ faults \in Nat
        /\ first[h] \in {"idle", "firing", "ended"} /\ HookInv(h) /\ retrying[h] \in {0, 1}
    BY <1>1 DEF Typed, IInv
  <2>2. /\ row[h].attempts \in Nat /\ row[h].stored \in BOOLEAN /\ row[h].delivered \in BOOLEAN
    BY <2>1 DEF Row
  <2>3. /\ first'[h] = (IF first[h] = "firing" THEN "ended" ELSE first[h])
        /\ retrying'[h] = 0 /\ row'[h] = row[h] /\ vault'[h] = vault[h] /\ fires'[h] = fires[h]
        /\ h \notin bare'
    BY <1>3
  <2>4. h \in landed => first[h] = "firing" \/ retrying[h] = 1
    BY <2>1
  <2>5. acks'[h] = (IF h \in landed THEN acks[h] + 1 ELSE acks[h])
    BY <1>2
  <2>6. "redacted" \in got'[h] => "redacted" \in got[h] \/ h \in bare
    BY <1>2 DEF Payload
  <2>7. RowFollowsCall(h)' /\ RetriesDue(h)' /\ CardsPurged(h)'
    BY <2>1, <2>3, <2>6 DEF HookInv, RowFollowsCall, RetriesDue, CardsPurged
  <2>8. CallsCounted(h)'
    BY <1>4, <2>1, <2>2, <2>3 DEF HookInv, CallsCounted
  <2>9. AcksCounted(h)'
    BY <1>4, <2>1, <2>2, <2>3, <2>4, <2>5 DEF HookInv, AcksCounted, RowFollowsCall, RetriesDue
  <2> QED BY <2>7, <2>8, <2>9 DEF HookInv
<1> QED BY <1>6, <1>7 DEF IInv

LEMMA TickKeeps ==
  ASSUME IInv, Tick
  PROVE  IInv'
<1>1. Typed
  BY DEF IInv
<1>2. /\ row' = [h \in Hooks |-> [row[h] EXCEPT !.wait = Down(@)]]
      /\ open' = [o \in Origins |-> Down(open[o])]
      /\ UNCHANGED <<first, retrying, bare, vault, fires, receiver, faults>>
  BY DEF Tick
<1>3. \A h \in Hooks : row'[h] \in Row
  <2> SUFFICES ASSUME NEW h \in Hooks PROVE row'[h] \in Row
    OBVIOUS
  <2>1. row[h] \in Row
    BY <1>1 DEF Typed
  <2> QED BY <1>2, <2>1, RowTypes
<1>4. row' \in [Hooks -> Row]
  BY <1>2, <1>3
<1>5. open' \in [Origins -> 0 .. Cooldown]
  BY <1>1, <1>2, WebhooksAssumption DEF Typed, Down
<1>6. Typed'
  BY <1>1, <1>2, <1>4, <1>5 DEF Typed, receiver
<1>7. ASSUME NEW h \in Hooks PROVE HookInv(h)'
  <2>1. row[h] \in Row /\ HookInv(h)
    BY <1>1 DEF Typed, IInv
  <2>2. /\ row'[h].stored = row[h].stored /\ row'[h].delivered = row[h].delivered
        /\ row'[h].attempts = row[h].attempts
    BY <1>2, <2>1 DEF Row
  <2> QED BY <1>2, <2>1, <2>2 DEF HookInv, RowFollowsCall, RetriesDue, CallsCounted,
             AcksCounted, CardsPurged, receiver
<1> QED BY <1>6, <1>7 DEF IInv

-----------------------------------------------------------------------------
(* The inductive invariant holds in every reachable state.                 *)
THEOREM Invariant == Spec => []IInv
<1>1. IInv /\ [Next]_vars => IInv'
  <2> SUFFICES ASSUME IInv, [Next]_vars PROVE IInv'
    OBVIOUS
  <2>1. ASSUME NEW h \in Hooks, Raise(h) PROVE IInv'
    BY <2>1, RaiseKeeps
  <2>2. ASSUME NEW h \in Hooks, RaiseFailsFast(h) PROVE IInv'
    BY <2>2, RaiseFailsFastKeeps
  <2>3. ASSUME NEW h \in Hooks, FirstEnds(h) PROVE IInv'
    BY <2>3, FirstAcknowledgedKeeps, FirstFailedKeeps DEF FirstEnds
  <2>4. ASSUME NEW h \in Hooks, RetryEnds(h) PROVE IInv'
    BY <2>4, RetryAcknowledgedKeeps, RetryFailedKeeps DEF RetryEnds
  <2>5. ASSUME NEW h \in Hooks, PurgeOldCards(h) \/ VaultBreaks(h) PROVE IInv'
    BY <2>5, VaultKeeps
  <2>6. ASSUME RunRetries PROVE IInv'
    BY <2>6, RunRetriesKeeps
  <2>7. ASSUME Crash PROVE IInv'
    BY <2>7, CrashKeeps
  <2>8. ASSUME Tick PROVE IInv'
    BY <2>8, TickKeeps
  <2>9. CASE UNCHANGED vars
    BY <2>9 DEF vars, breaker, receiver, IInv, Typed, HookInv, RowFollowsCall, RetriesDue,
       CallsCounted, AcksCounted, CardsPurged
  <2> QED BY <2>1, <2>2, <2>3, <2>4, <2>5, <2>6, <2>7, <2>8, <2>9 DEF Next
<1> QED BY <1>1, Initially, PTL DEF Spec

(* A webhook is called once, once per attempt after that, and once more    *)
(* for each fault (retryWebhooks, MAX_WEBHOOK_ATTEMPTS).                   *)
THEOREM CallsAreBounded == Spec => []CallsBounded
<1>1. IInv => CallsBounded
  <2> SUFFICES ASSUME IInv, NEW h \in Hooks PROVE fires[h] <= 1 + MaxAttempts + faults
    BY DEF CallsBounded
  <2>1. /\ HookInv(h) /\ fires[h] \in Nat /\ faults \in Nat /\ retrying[h] \in {0, 1}
        /\ row[h].stored \in BOOLEAN /\ row[h].delivered \in BOOLEAN /\ row[h].attempts \in Nat
    BY DEF IInv, Typed, Row
  <2>2. MaxAttempts \in Nat
    BY WebhooksAssumption
  <2> QED BY <2>1, <2>2 DEF HookInv, RowFollowsCall, RetriesDue, CallsCounted
<1> QED BY <1>1, Invariant, PTL

(* A receiver acknowledges a webhook once, and once more for each fault:   *)
(* no first call and no two runs of the job overlap on a row (runJobs).    *)
THEOREM AcknowledgedOnceOnly == Spec => []AcknowledgedOnce
<1>1. IInv => AcknowledgedOnce
  BY DEF IInv, HookInv, AcksCounted, AcknowledgedOnce
<1> QED BY <1>1, Invariant, PTL

(* A card that an acknowledged webhook came without was purged: it was not *)
(* left out because the vault could not be read (retryWebhooks).           *)
THEOREM CardsArrive == Spec => []CardArrives
<1>1. IInv => CardArrives
  BY WebhooksAssumption DEF IInv, HookInv, CardsPurged, CardArrives
<1> QED BY <1>1, Invariant, PTL

(* While the process lives, only time closes a circuit: a call that was in *)
(* flight and succeeds does not (recordCircuitSuccess).                    *)
THEOREM CooldownHolds == Spec => CooldownLasts
<1>1. IInv /\ [Next]_vars =>
        [\A o \in Origins : open'[o] < open[o] => Tick \/ Crash]_vars
  <2> SUFFICES ASSUME IInv, Next, ~Tick, ~Crash, NEW o \in Origins PROVE ~(open'[o] < open[o])
    OBVIOUS
  <2>1. Typed /\ open[o] \in 0 .. Cooldown /\ Cooldown \in Nat
    BY WebhooksAssumption DEF IInv, Typed
  <2>2. CASE UNCHANGED open
    BY <2>1, <2>2
  <2>3. ASSUME NEW h \in Hooks, FirstEnds(h) \/ RetryEnds(h) PROVE ~(open'[o] < open[o])
    <3>1. ASSUME RecordSuccess(OriginOf[h]) PROVE ~(open'[o] < open[o])
      BY <2>1, <3>1 DEF RecordSuccess
    <3>2. ASSUME NEW f \in Outcomes, Failed(h, f) PROVE ~(open'[o] < open[o])
      <4>1. open'[o] \in 0 .. Cooldown /\ open'[o] >= open[o]
        BY <2>1, <3>2, FailuresOpen
      <4> QED BY <2>1, <4>1
    <3> QED BY <2>3, <3>1, <3>2 DEF FirstEnds, FirstAcknowledged, FirstFailed, RetryEnds,
               RetryAcknowledged, RetryFailed
  <2> QED BY <2>2, <2>3 DEF Next, Raise, RaiseFailsFast, RunRetries, PurgeOldCards, VaultBreaks,
             breaker
<1> QED BY <1>1, Invariant, PTL DEF Spec, CooldownLasts
=============================================================================
