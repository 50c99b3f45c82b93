------------------------------- MODULE Webhooks -------------------------------
(***************************************************************************)
(* Delivery of webhooks: fireWebhook and enqueueWebhook of                 *)
(* src/backend/src/fulfillment.js, retryWebhooks and purgeOldCards of      *)
(* src/backend/src/jobs.js.                                                *)
(*                                                                         *)
(* A webhook is fired once, outside any queue.  If that fails, a copy      *)
(* without the card is queued, and a job fires it again, with the card     *)
(* taken from the vault, until it is acknowledged or given up.  A circuit  *)
(* breaker per origin, in memory, lets calls fail without being made.      *)
(*                                                                         *)
(* Times are counted down, so the model needs no clock and no last tick:   *)
(* a deadline t of the code is here the ticks left until t.                *)
(***************************************************************************)
EXTENDS Integers, Sequences, SequencesExt

CONSTANTS
    Hooks,         \* the notifications to deliver
    Direct,        \* those fired without a queue (test endpoint, alerts)
    CardHooks,     \* those whose payload carries a card
    Origins,       \* origins of the receivers' URLs
    OriginOf,      \* the origin of each notification's receiver
    Delays,        \* WEBHOOK_RETRY_DELAYS_MS
    MaxAttempts,   \* MAX_WEBHOOK_ATTEMPTS
    Threshold,     \* CB_THRESHOLD
    Window,        \* CB_WINDOW_MS
    Cooldown,      \* CB_COOLDOWN_MS
    MaxFaults      \* bound: crashes and failed writes

ASSUME WebhooksAssumption ==
    /\ Direct \subseteq Hooks /\ CardHooks \subseteq Hooks
    /\ OriginOf \in [Hooks -> Origins]
    /\ Delays \in Seq(Nat \ {0})
    /\ MaxAttempts \in 1 .. Len(Delays)
    /\ Threshold \in Nat \ {0, 1} /\ Window \in Nat \ {0} /\ Cooldown \in Nat \ {0}
    /\ MaxFaults \in Nat

VARIABLES
    first,      \* first[h]: the call made when the event happens
    row,        \* row[h]: its row in webhook_queue
    retrying,   \* retrying[h]: calls of the retry job in flight
    bare,       \* the calls in flight of the retry job that ship no card
    vault,      \* vault[h]: the sealed card of its order
    failures,   \* failures[o]: ticks each failure still counts
    open,       \* open[o]: ticks the circuit stays open
    fires,      \* fires[h]: calls made
    acks,       \* acks[h]: calls the receiver acknowledged
    got,        \* got[h]: what the receiver acknowledged
    faults      \* crashes and failed writes so far

breaker == <<failures, open>>
receiver == <<acks, got>>
vars == <<first, row, retrying, bare, vault, breaker, fires, receiver, faults>>

Row == [stored : BOOLEAN, delivered : BOOLEAN, attempts : Nat, wait : Nat]
NoRow == [stored |-> FALSE, delivered |-> FALSE, attempts |-> 0, wait |-> 0]

TypeOK ==
    /\ first \in [Hooks -> {"idle", "firing", "ended"}]
    /\ row \in [Hooks -> Row]
    /\ retrying \in [Hooks -> {0, 1}]
    /\ bare \subseteq Hooks
    /\ vault \in [Hooks -> {"sealed", "unreadable", "purged"}]
    /\ failures \in [Origins -> Seq(1 .. Window)]
    /\ open \in [Origins -> 0 .. Cooldown]
    /\ \A o \in Origins : Len(failures[o]) < Threshold
    /\ fires \in [Hooks -> Nat]
    /\ acks \in [Hooks -> Nat]
    /\ got \in [Hooks -> SUBSET {"full", "redacted"}]
    /\ faults \in 0 .. MaxFaults

Init ==
    /\ first = [h \in Hooks |-> "idle"]
    /\ row = [h \in Hooks |-> NoRow]
    /\ retrying = [h \in Hooks |-> 0]
    /\ bare = {}
    /\ vault = [h \in Hooks |-> "sealed"]
    /\ failures = [o \in Origins |-> <<>>]
    /\ open = [o \in Origins |-> 0]
    /\ fires = [h \in Hooks |-> 0]
    /\ acks = [h \in Hooks |-> 0]
    /\ got = [h \in Hooks |-> {}]
    /\ faults = 0

-----------------------------------------------------------------------------
(* The circuit breaker *)

CircuitIsOpen(o) == open[o] > 0

(* n records of a failure: whenever the window holds enough, the circuit   *)
(* opens and the window is emptied.                                        *)
Filled(o, n) == Len(failures[o]) + n >= Threshold

RecordFailures(o, n) ==
    LET left == Len(failures[o]) + n - Threshold
        rest == IF Filled(o, n) THEN [i \in 1 .. left |-> Window]
                ELSE failures[o] \o [i \in 1 .. n |-> Window]
    IN  /\ failures' = [failures EXCEPT ![o] = rest]
        /\ open' = [open EXCEPT ![o] = IF Filled(o, n) THEN Cooldown ELSE @]

(* Mutant: a success closes the circuit at once. *)
ClosingSuccess(o) ==
    /\ failures' = [failures EXCEPT ![o] = <<>>]
    /\ open' = [open EXCEPT ![o] = 0]

RecordSuccess(o) ==
    /\ failures' = [failures EXCEPT ![o] = <<>>]
    /\ UNCHANGED open

(* How often a failed call is recorded: an answer that is not 2xx throws   *)
(* inside the try, so its own record and the one of the catch both count;  *)
(* a URL refused as unsafe throws before the try.                          *)
Recorded(outcome) ==
    CASE outcome = "http"   -> 2
      [] outcome = "net"    -> 1
      [] outcome = "unsafe" -> 0

Failed(h, outcome) ==
    IF outcome = "unsafe" THEN UNCHANGED breaker
    ELSE RecordFailures(OriginOf[h], Recorded(outcome))

Outcomes == {"http", "net", "unsafe"}

Acknowledged(h, payload) ==
    /\ acks' = [acks EXCEPT ![h] = @ + 1]
    /\ got' = [got EXCEPT ![h] = @ \union {payload}]

Fault ==
    /\ faults < MaxFaults
    /\ faults' = faults + 1

-----------------------------------------------------------------------------
(* The first call *)

Queued(h) == [row EXCEPT ![h] = [stored |-> TRUE, delivered |-> FALSE,
                                 attempts |-> 1, wait |-> Delays[1]]]

(* What becomes of a notification whose first call failed: it is queued,   *)
(* unless it is one of those nobody queues, or the insert fails too.       *)
AfterFailure(h) ==
    \/ h \notin Direct /\ row' = Queued(h) /\ UNCHANGED faults
    \/ h \notin Direct /\ UNCHANGED row /\ Fault
    \/ h \in Direct /\ UNCHANGED <<row, faults>>

Raise(h) ==
    /\ first[h] = "idle"
    /\ ~CircuitIsOpen(OriginOf[h])
    /\ first' = [first EXCEPT ![h] = "firing"]
    /\ fires' = [fires EXCEPT ![h] = @ + 1]
    /\ UNCHANGED <<row, retrying, bare, vault, breaker, receiver, faults>>

RaiseFailsFast(h) ==
    /\ first[h] = "idle"
    /\ CircuitIsOpen(OriginOf[h])
    /\ first' = [first EXCEPT ![h] = "ended"]
    /\ AfterFailure(h)
    /\ UNCHANGED <<retrying, bare, vault, breaker, fires, receiver>>

FirstAcknowledged(h) ==
    /\ first[h] = "firing"
    /\ first' = [first EXCEPT ![h] = "ended"]
    /\ RecordSuccess(OriginOf[h])
    /\ Acknowledged(h, "full")
    /\ UNCHANGED <<row, retrying, bare, vault, fires, faults>>

FirstFailed(h, outcome) ==
    /\ first[h] = "firing"
    /\ first' = [first EXCEPT ![h] = "ended"]
    /\ Failed(h, outcome)
    /\ AfterFailure(h)
    /\ UNCHANGED <<retrying, bare, vault, fires, receiver>>

-----------------------------------------------------------------------------
(* The retry job *)

(* Mutant: runs of the job may overlap. *)
NeverRunning == FALSE

(* runJobs skips a tick while the previous run is still in flight. *)
JobsRunning == \E h \in Hooks : retrying[h] > 0

(* Mutant: a row is never given up. *)
DueForEver == {h \in Hooks : row[h].stored /\ ~row[h].delivered /\ row[h].wait = 0}

(* Mutant: the last attempt is never made, and the row never given up. *)
DueButLast == {h \in Hooks : /\ row[h].stored /\ ~row[h].delivered
                             /\ row[h].attempts < MaxAttempts
                             /\ row[h].wait = 0}

Due == {h \in Hooks : /\ row[h].stored /\ ~row[h].delivered
                      /\ row[h].attempts <= MaxAttempts
                      /\ row[h].wait = 0}

(* One more failed attempt: the next delay, or the end. *)
FailedRow(r) ==
    [r EXCEPT !.attempts = @ + 1,
              !.wait = IF r.attempts < MaxAttempts THEN Delays[r.attempts + 1] ELSE 0]

GivenUp(r) == [r EXCEPT !.attempts = MaxAttempts + 1, !.wait = 0]

(* Mutant: the queued copy is shipped as it is stored. *)
NothingSealed(h) == FALSE

(* The card can be put back into the payload. *)
Rehydrates(h) == h \in CardHooks /\ vault[h] = "sealed"

(* Up to its first await the job goes through all due rows: a card that    *)
(* cannot be opened ends its row, an open circuit costs it an attempt, and *)
(* the others are fired together.                                          *)
RunRetries ==
    LET broken == {h \in Due : h \in CardHooks /\ vault[h] = "unreadable"}
        barred == {h \in Due \ broken : CircuitIsOpen(OriginOf[h])}
        fired  == Due \ (broken \union barred)
    IN  /\ ~JobsRunning
        /\ Due # {}
        /\ row' = [h \in Hooks |-> CASE h \in broken -> GivenUp(row[h])
                                     [] h \in barred -> FailedRow(row[h])
                                     [] OTHER        -> row[h]]
        /\ retrying' = [h \in Hooks |-> IF h \in fired THEN retrying[h] + 1 ELSE retrying[h]]
        /\ fires' = [h \in Hooks |-> IF h \in fired THEN fires[h] + 1 ELSE fires[h]]
        /\ bare' = bare \union {h \in fired \intersect CardHooks : ~Rehydrates(h)}
        /\ UNCHANGED <<first, vault, breaker, receiver, faults>>

Landed(h) ==
    /\ retrying' = [retrying EXCEPT ![h] = @ - 1]
    /\ bare' = bare \ {h}

Payload(h) == IF h \in bare THEN "redacted" ELSE "full"

(* Acknowledged and marked; if the mark cannot be written, the catch block *)
(* counts a failed attempt of a call that succeeded.                       *)
RetryAcknowledged(h) ==
    /\ retrying[h] > 0
    /\ Landed(h)
    /\ RecordSuccess(OriginOf[h])
    /\ Acknowledged(h, Payload(h))
    /\ \/ row' = [row EXCEPT ![h].delivered = TRUE] /\ UNCHANGED faults
       \/ row' = [row EXCEPT ![h] = FailedRow(@)] /\ Fault
    /\ UNCHANGED <<first, vault, fires>>

RetryFailed(h, outcome) ==
    /\ retrying[h] > 0
    /\ Landed(h)
    /\ Failed(h, outcome)
    /\ row' = [row EXCEPT ![h] = FailedRow(@)]
    /\ UNCHANGED <<first, vault, fires, receiver, faults>>

-----------------------------------------------------------------------------
(* The vault, the clock and the process *)

PurgeOldCards(h) ==
    /\ h \in CardHooks
    /\ vault[h] # "purged"
    /\ vault' = [vault EXCEPT ![h] = "purged"]
    /\ UNCHANGED <<first, row, retrying, bare, breaker, fires, receiver, faults>>

(* The vault key was rotated or the ciphertext is corrupt. *)
VaultBreaks(h) ==
    /\ h \in CardHooks
    /\ vault[h] = "sealed"
    /\ Fault
    /\ vault' = [vault EXCEPT ![h] = "unreadable"]
    /\ UNCHANGED <<first, row, retrying, bare, breaker, fires, receiver>>

(* Calls in flight are lost, acknowledged or not; so is the breaker. *)
Crash ==
    LET flying == {h \in Hooks : first[h] = "firing" \/ retrying[h] > 0}
    IN  /\ Fault
        /\ first' = [h \in Hooks |-> IF first[h] = "firing" THEN "ended" ELSE first[h]]
        /\ retrying' = [h \in Hooks |-> 0]
        /\ bare' = {}
        /\ \E landed \in SUBSET flying :
             /\ acks' = [h \in Hooks |-> IF h \in landed THEN acks[h] + 1 ELSE acks[h]]
             /\ got' = [h \in Hooks |-> IF h \in landed
                                        THEN got[h] \union {Payload(h)} ELSE got[h]]
        /\ failures' = [o \in Origins |-> <<>>]
        /\ open' = [o \in Origins |-> 0]
        /\ UNCHANGED <<row, vault, fires>>

Down(n) == IF n > 0 THEN n - 1 ELSE 0

(* Failures leave the window as they age. *)
Aged(seq) == [i \in 1 .. Len(SelectSeq(seq, LAMBDA n : n > 1)) |->
                 SelectSeq(seq, LAMBDA n : n > 1)[i] - 1]

Ticking ==
    \/ \E h \in Hooks : row[h].wait > 0
    \/ \E o \in Origins : open[o] > 0 \/ failures[o] # <<>>

Tick ==
    /\ Ticking
    /\ row' = [h \in Hooks |-> [row[h] EXCEPT !.wait = Down(@)]]
    /\ open' = [o \in Origins |-> Down(open[o])]
    /\ failures' = [o \in Origins |-> Aged(failures[o])]
    /\ UNCHANGED <<first, retrying, bare, vault, fires, receiver, faults>>

-----------------------------------------------------------------------------
FirstEnds(h) == FirstAcknowledged(h) \/ \E f \in Outcomes : FirstFailed(h, f)
RetryEnds(h) == RetryAcknowledged(h) \/ \E f \in Outcomes : RetryFailed(h, f)

Next ==
    \/ \E h \in Hooks : \/ Raise(h) \/ RaiseFailsFast(h)
                        \/ FirstEnds(h) \/ RetryEnds(h)
                        \/ PurgeOldCards(h) \/ VaultBreaks(h)
    \/ RunRetries
    \/ Crash
    \/ Tick

Spec == Init /\ [][Next]_vars

(* Calls end (AbortSignal.timeout), time passes, the job runs. *)
Fairness ==
    /\ WF_vars(Tick)
    /\ WF_vars(RunRetries)
    /\ \A h \in Hooks : WF_vars(FirstEnds(h)) /\ WF_vars(RetryEnds(h))

FairSpec == Spec /\ Fairness

-----------------------------------------------------------------------------
(* Properties *)

(* A receiver that acknowledged a webhook gets it again only if the        *)
(* process died or a write failed in between: no two runs of the job and   *)
(* no first call overlap on one row (runJobs, enqueueWebhook).             *)
AcknowledgedOnce == \A h \in Hooks : acks[h] <= 1 + faults

(* A webhook is called at most once and MaxAttempts times more, however    *)
(* calls fail and circuits open; a crash in flight may cost one call more. *)
CallsBounded == \A h \in Hooks : fires[h] <= 1 + MaxAttempts + faults

(* The queue stores no card, yet a receiver that acknowledges an event of  *)
(* a card gets the card, unless the retention sweep purged it; half a      *)
(* payload is never shipped because the vault could not be read.           *)
CardArrives ==
    \A h \in CardHooks : "redacted" \in got[h] => vault[h] = "purged"

(* A call that was in flight when the circuit opened and succeeds does not *)
(* close it: while the process lives, cooldown ends by time alone.         *)
CooldownLasts ==
    [][\A o \in Origins : open'[o] < open[o] => Tick \/ Crash]_vars

Unsettled(h) ==
    \/ first[h] = "firing"
    \/ row[h].stored /\ ~row[h].delivered /\ row[h].attempts <= MaxAttempts

(* Every webhook raised is in the end acknowledged or given up, whatever   *)
(* the receiver, the vault and the breaker do: no row waits for ever.      *)
EveryHookSettles == \A h \in Hooks : Unsettled(h) ~> ~Unsettled(h)
=============================================================================
