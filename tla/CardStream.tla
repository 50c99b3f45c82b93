------------------------------ MODULE CardStream ------------------------------
(***************************************************************************)
(* How an agent learns what became of its order: the event stream of       *)
(* GET /v1/orders/:id/stream (src/backend/src/api/orders.js) and           *)
(* waitForCard of src/sdk/src/client.ts, which reads it and falls back to  *)
(* polling.  The dashboard's feed (src/backend/src/api/dashboard.js) takes *)
(* its slots from the same two counters.                                   *)
(*                                                                         *)
(* A stream is known by the call that opened it: each call of waitForCard  *)
(* has a connection of its own.  What the server wrote and the client has  *)
(* not read yet is on the wire.  Keep-alives, event ids and the encoding   *)
(* are left out; orders change as Orders and Fulfilment make them change.  *)
(***************************************************************************)
EXTENDS Naturals, Sequences, FiniteSets, OrderMoves

CONSTANTS
    Calls,        \* calls of waitForCard, by agents
    Feeds,        \* browsers that open the dashboard's feed
    Buckets,      \* API keys and dashboards, whose streams are counted
    BucketOf,     \* BucketOf[s]: the bucket of a call or a feed
    Orders,
    OrderOf,      \* OrderOf[c]: the order a call waits for
    MaxPerKey,    \* MAX_STREAMS_PER_KEY
    MaxTotal,     \* MAX_STREAMS_TOTAL
    MaxMoves,     \* bound: changes of an order's status
    MaxFaults     \* bound: handlers that throw, and crashes

Streams == Calls \union Feeds

ASSUME CardStreamAssumption ==
    /\ Calls \intersect Feeds = {}
    /\ IsFiniteSet(Streams)
    /\ BucketOf \in [Streams -> Buckets]
    /\ OrderOf \in [Calls -> Orders]
    /\ MaxPerKey \in Nat \ {0} /\ MaxTotal \in Nat \ {0}
    /\ MaxMoves \in Nat /\ MaxFaults \in Nat

VARIABLES
    row,      \* row[o]: status, version of updated_at, whether the card is kept
    issued,   \* ghost: orders that were delivered at some time
    perKey,   \* openStreamsByKey
    total,    \* openStreamsTotal
    lost,     \* ghost: slots taken by feeds that failed to open, since the start
    server,   \* server[s]: the handler of s: none, open, or closed by itself
    sent,     \* sent[s]: lastUpdated
    wire,     \* wire[s]: events written and not read
    pipe,     \* pipe[s]: what follows them: more, the end, or a broken connection
    client,   \* client[c]: where the call is and what it told its caller
    cut,      \* ghost: calls whose stream the server ended without an outcome
    faults

orders == <<row, issued>>
counters == <<perKey, total>>
slots == <<counters, lost>>
conns == <<server, sent, wire, pipe>>
vars == <<orders, slots, conns, client, cut, faults>>

Statuses == {"awaiting_approval", "pending_payment", "expired", "rejected", "ordering",
             "delivered", "failed", "refund_pending", "refunded", "pending_manual_recovery"}

(* Mutant: a card that is being recovered is shown as failed. *)
PHASEWithoutRecovery(s) ==
    CASE s = "pending_payment" -> "awaiting_payment"
      [] s = "ordering" -> "processing"
      [] s = "delivered" -> "ready"
      [] s \in {"refund_pending", "pending_manual_recovery"} -> "failed"
      [] OTHER -> s

PHASE(s) ==
    CASE s = "pending_payment" -> "awaiting_payment"
      [] s = "ordering" -> "processing"
      [] s = "delivered" -> "ready"
      [] s = "refund_pending" -> "failed"
      [] s = "pending_manual_recovery" -> "pending_recovery"
      [] OTHER -> s

(* Mutant: what is being recovered is not terminal, so its stream stays. *)
TERMINAL_STATUSES_WithoutRecovery == {"delivered", "failed", "refunded", "expired", "rejected"}

(* The server ends a stream here; a refund under way is not among them.    *)
TERMINAL_STATUSES ==
    {"delivered", "failed", "refunded", "expired", "rejected", "pending_manual_recovery"}

(* buildOrderResponse: a purged card is an object without a number.        *)
Payload == [phase : {PHASE(s) : s \in Statuses}, card : BOOLEAN]
Shown(o) ==
    [phase |-> PHASE(row[o].status), card |-> row[o].status = "delivered" /\ row[o].card]

Row == [status : Statuses, version : Nat, card : BOOLEAN]
Steps == {"idle", "connecting", "streaming", "polling", "asked", "done"}
Answers == {"nothing", "card", "blank card", "failed", "timeout", "error"}
NoAnswer == [phase |-> "processing", card |-> FALSE]
Idle == [step |-> "idle", told |-> "nothing", late |-> FALSE, answer |-> NoAnswer]

TypeOK ==
    /\ row \in [Orders -> Row] /\ issued \in SUBSET Orders
    /\ perKey \in [Buckets -> Nat] /\ total \in Nat
    /\ lost \in SUBSET [feed : Feeds, fault : 0 .. MaxFaults]
    /\ server \in [Streams -> {"none", "open", "closed"}]
    /\ sent \in [Streams -> Nat]
    /\ wire \in [Streams -> Seq(Payload)]
    /\ pipe \in [Streams -> {"more", "end", "broken"}]
    /\ client \in [Calls -> [step : Steps, told : Answers, late : BOOLEAN, answer : Payload]]
    /\ cut \in SUBSET Calls
    /\ faults \in 0 .. MaxFaults

Init ==
    /\ row \in [Orders -> [status : {"awaiting_approval", "pending_payment", "ordering"},
                           version : {1}, card : {FALSE}]]
    /\ issued = {}
    /\ perKey = [b \in Buckets |-> 0] /\ total = 0 /\ lost = {}
    /\ server = [s \in Streams |-> "none"]
    /\ sent = [s \in Streams |-> 0]
    /\ wire = [s \in Streams |-> <<>>]
    /\ pipe = [s \in Streams |-> "more"]
    /\ client = [c \in Calls |-> Idle]
    /\ cut = {}
    /\ faults = 0

Fault == faults < MaxFaults /\ faults' = faults + 1

-----------------------------------------------------------------------------
(* Orders, as the other handlers and jobs change them (OrderMoves).        *)

(* Mutant: a change of status leaves updated_at alone. *)
SameVersion(o) == row[o].version

(* Every statement that changes a status sets updated_at; two of one       *)
(* order's are more than a millisecond apart.                              *)
NewVersion(o) == row[o].version + 1

Move(o) ==
    /\ row[o].version <= MaxMoves
    /\ \E to \in Moves(row[o].status) :
        /\ row' = [row EXCEPT ![o] = [status |-> to, version |-> NewVersion(o),
                                     card |-> @.card \/ to = "delivered"]]
        /\ issued' = IF to = "delivered" THEN issued \union {o} ELSE issued
    /\ UNCHANGED <<slots, conns, client, cut, faults>>

(* The retention sweep takes the card's details and leaves updated_at.     *)
PurgeOldCards(o) ==
    /\ row[o].card
    /\ row' = [row EXCEPT ![o].card = FALSE]
    /\ UNCHANGED <<issued, slots, conns, client, cut, faults>>

-----------------------------------------------------------------------------
(* The server's side of a stream.                                          *)

HasSlot(b) == total < MaxTotal /\ perKey[b] < MaxPerKey

Acquire(b) ==
    /\ perKey' = [perKey EXCEPT ![b] = @ + 1]
    /\ total' = total + 1

Release(b) ==
    /\ perKey' = [perKey EXCEPT ![b] = IF @ <= 1 THEN 0 ELSE @ - 1]
    /\ total' = IF total > 0 THEN total - 1 ELSE 0

(* Mutant: a stream may be closed twice. *)
CloseTwice(s) == Release(BucketOf[s])

(* closeStream gives the slot back the first time.                         *)
CloseStream(s) == IF server[s] = "open" THEN Release(BucketOf[s]) ELSE UNCHANGED counters

(* What is written to a dead socket is lost, and does not revive it.       *)
Goes(s, state, after) ==
    /\ server' = [server EXCEPT ![s] = state]
    /\ pipe' = [pipe EXCEPT ![s] = IF @ = "broken" THEN @ ELSE after]

(* What a client makes of an event: a card, even one without details, or   *)
(* a failure ends the wait.                                                *)
Outcome(payload) ==
    CASE payload.phase = "ready" -> IF payload.card THEN "card" ELSE "blank card"
      [] payload.phase \in {"failed", "refunded", "rejected", "expired"} -> "failed"
      [] OTHER -> "nothing"

(* What nobody reads is lost. *)
Reading(c) == client[c].step \in {"connecting", "streaming"} /\ pipe[c] # "broken"

(* emit, and the end of the stream after a terminal status.                *)
Emit(c) ==
    LET o == OrderOf[c]
        terminal == row[o].status \in TERMINAL_STATUSES
    IN  /\ wire' = [wire EXCEPT ![c] = IF Reading(c) THEN Append(@, Shown(o)) ELSE @]
        /\ sent' = [sent EXCEPT ![c] = row[o].version]
        /\ IF terminal THEN Goes(c, "closed", "end") ELSE Goes(c, "open", "more")
        /\ cut' = IF terminal /\ Outcome(Shown(o)) = "nothing" THEN cut \union {c} ELSE cut

Connecting(c) == client[c].step = "connecting" /\ server[c] = "none"
ClientGoes(c, step) == client' = [client EXCEPT ![c].step = step]

(* The slot is taken and the current state is sent at once; a terminal     *)
(* order's stream is closed, and its slot free, before it is ever idle.    *)
StreamOpens(c) ==
    /\ Connecting(c) /\ HasSlot(BucketOf[c])
    /\ Emit(c)
    /\ IF server'[c] = "open" THEN Acquire(BucketOf[c]) ELSE UNCHANGED counters
    /\ ClientGoes(c, "streaming")
    /\ UNCHANGED <<orders, lost, faults>>

(* The first write throws: a card that does not open, a dead socket.  The  *)
(* slot was taken before and is free again.                                *)
OpeningThrows(c) ==
    /\ Connecting(c) /\ HasSlot(BucketOf[c]) /\ Fault
    /\ Goes(c, "closed", "end")
    /\ cut' = cut \union {c}
    /\ ClientGoes(c, "streaming")
    /\ UNCHANGED <<orders, slots, sent, wire>>

(* 429, for want of a slot or of rate, or no connection at all.            *)
StreamRefused(c) ==
    /\ Connecting(c)
    /\ ClientGoes(c, "polling")
    /\ UNCHANGED <<orders, slots, conns, cut, faults>>

(* The timer of 500 ms.                                                    *)
Tick(c) ==
    /\ server[c] = "open" /\ row[OrderOf[c]].version # sent[c]
    /\ Emit(c)
    /\ IF server'[c] = "closed" THEN CloseStream(c) ELSE UNCHANGED counters
    /\ UNCHANGED <<orders, lost, client, faults>>

(* Any error in a timer ends the one stream.                               *)
TickThrows(c) ==
    /\ server[c] = "open" /\ Fault
    /\ CloseStream(c)
    /\ Goes(c, "closed", "end")
    /\ cut' = cut \union {c}
    /\ UNCHANGED <<orders, lost, sent, wire, client>>

(* The dashboard's feed, which ends when its browser leaves or a write     *)
(* throws.                                                                 *)
OpenFeed(f) ==
    /\ server[f] = "none" /\ HasSlot(BucketOf[f])
    /\ Acquire(BucketOf[f])
    /\ server' = [server EXCEPT ![f] = "open"]
    /\ pipe' = [pipe EXCEPT ![f] = "more"]
    /\ UNCHANGED <<orders, lost, sent, wire, client, cut, faults>>

(* The keys of the dashboard are read between the slot and the handler     *)
(* that would give it back: if that throws, the slot is gone for good.     *)
FeedLoadFails(f) ==
    /\ server[f] = "none" /\ HasSlot(BucketOf[f]) /\ Fault
    /\ Acquire(BucketOf[f])
    /\ lost' = lost \union {[feed |-> f, fault |-> faults]}
    /\ UNCHANGED <<orders, conns, client, cut>>

FeedThrows(f) ==
    /\ server[f] = "open" /\ Fault
    /\ CloseStream(f)
    /\ Goes(f, "closed", "end")
    /\ UNCHANGED <<orders, lost, sent, wire, client, cut>>

SocketDies(s) ==
    /\ server[s] = "open" /\ pipe[s] = "more"
    /\ pipe' = [pipe EXCEPT ![s] = "broken"]
    /\ UNCHANGED <<orders, slots, server, sent, wire, client, cut, faults>>

(* The request's close event, which also follows the server's own end.     *)
OnClose(s) ==
    /\ server[s] = "closed" \/ (server[s] = "open" /\ pipe[s] = "broken")
    /\ CloseStream(s)
    /\ server' = [server EXCEPT ![s] = "none"]
    /\ sent' = [sent EXCEPT ![s] = 0]
    /\ UNCHANGED <<orders, lost, wire, pipe, client, cut, faults>>

(* The backend dies and comes back: rows stay, counters start at zero.     *)
Crash ==
    /\ Fault
    /\ perKey' = [b \in Buckets |-> 0] /\ total' = 0 /\ lost' = {}
    /\ server' = [s \in Streams |-> "none"]
    /\ pipe' = [s \in Streams |-> IF server[s] = "open" THEN "broken" ELSE pipe[s]]
    /\ sent' = [s \in Streams |-> 0]
    /\ UNCHANGED <<orders, wire, client, cut>>

-----------------------------------------------------------------------------
(* waitForCard.                                                            *)

Wait(c) ==
    /\ client[c].step \in {"idle", "done"} /\ server[c] = "none"
    /\ client' = [client EXCEPT ![c] = [Idle EXCEPT !.step = "connecting"]]
    /\ wire' = [wire EXCEPT ![c] = <<>>]
    /\ pipe' = [pipe EXCEPT ![c] = "more"]
    /\ cut' = cut \ {c}
    /\ UNCHANGED <<orders, slots, server, sent, faults>>

Tells(c, answer) ==
    client' = [client EXCEPT ![c] =
                 [step |-> "done", told |-> answer, late |-> @.late, answer |-> NoAnswer]]

(* The reader is not cancelled when an event ends the wait.                *)
Read(c) ==
    /\ client[c].step = "streaming" /\ wire[c] # <<>>
    /\ LET outcome == Outcome(Head(wire[c]))
       IN  IF outcome = "nothing"
           THEN wire' = [wire EXCEPT ![c] = Tail(@)] /\ UNCHANGED client
           ELSE wire' = [wire EXCEPT ![c] = <<>>] /\ Tells(c, outcome)
    /\ UNCHANGED <<orders, slots, server, sent, pipe, cut, faults>>

(* The stream ended without an outcome: "treat as timeout".                *)
ReadEnd(c) ==
    /\ client[c].step = "streaming" /\ wire[c] = <<>> /\ pipe[c] = "end"
    /\ Tells(c, "timeout")
    /\ UNCHANGED <<orders, slots, conns, cut, faults>>

ReadBreaks(c) ==
    /\ client[c].step = "streaming" /\ pipe[c] = "broken"
    /\ ClientGoes(c, "polling")
    /\ wire' = [wire EXCEPT ![c] = <<>>]
    /\ UNCHANGED <<orders, slots, server, sent, pipe, cut, faults>>

(* The timer of timeoutMs aborts the fetch or the read.                    *)
Abort(c) ==
    /\ client[c].step \in {"connecting", "streaming"}
    /\ client' = [client EXCEPT ![c] =
                    [step |-> "done", told |-> "timeout", late |-> TRUE, answer |-> @.answer]]
    /\ pipe' = [pipe EXCEPT ![c] = IF @ = "more" THEN "broken" ELSE @]
    /\ wire' = [wire EXCEPT ![c] = <<>>]
    /\ UNCHANGED <<orders, slots, server, sent, cut, faults>>

(* waitForCardPoll looks at its deadline between two requests only.        *)
DeadlinePasses(c) ==
    /\ client[c].step \in {"polling", "asked"} /\ ~client[c].late
    /\ client' = [client EXCEPT ![c].late = TRUE]
    /\ UNCHANGED <<orders, slots, conns, cut, faults>>

(* The backend answers; the order may move before the client reads it.     *)
Poll(c) ==
    /\ client[c].step = "polling"
    /\ IF client[c].late
       THEN Tells(c, "timeout")
       ELSE client' = [client EXCEPT ![c] =
                         [@ EXCEPT !.step = "asked", !.answer = Shown(OrderOf[c])]]
    /\ UNCHANGED <<orders, slots, conns, cut, faults>>

PollAnswered(c) ==
    /\ client[c].step = "asked"
    /\ LET outcome == Outcome(client[c].answer)
       IN  IF outcome = "nothing"
           THEN client' = [client EXCEPT ![c] =
                             [@ EXCEPT !.step = "polling", !.answer = NoAnswer]]
           ELSE Tells(c, outcome)
    /\ UNCHANGED <<orders, slots, conns, cut, faults>>

(* After the retries of fetchWithRetry the error is the caller's.          *)
PollFails(c) ==
    /\ client[c].step = "asked" /\ Fault
    /\ Tells(c, "error")
    /\ UNCHANGED <<orders, slots, conns, cut>>

-----------------------------------------------------------------------------
ServerStep(c) == StreamOpens(c) \/ Tick(c)
ClientStep(c) == Read(c) \/ ReadEnd(c) \/ ReadBreaks(c) \/ Poll(c) \/ PollAnswered(c)

Next ==
    \/ Crash
    \/ \E o \in Orders : Move(o) \/ PurgeOldCards(o)
    \/ \E c \in Calls :
        \/ ServerStep(c) \/ ClientStep(c) \/ Wait(c)
        \/ OpeningThrows(c) \/ TickThrows(c) \/ StreamRefused(c)
        \/ Abort(c) \/ DeadlinePasses(c) \/ PollFails(c)
    \/ \E f \in Feeds : OpenFeed(f) \/ FeedLoadFails(f) \/ FeedThrows(f)
    \/ \E s \in Streams : SocketDies(s) \/ OnClose(s)

Spec == Init /\ [][Next]_vars

(* Timers and sockets: a connection is answered, the tick runs every half  *)
(* second, a client reads and polls, a dead socket is noticed.  Nothing    *)
(* makes a deadline pass, an order move or a client ask.                   *)
Fairness ==
    /\ \A c \in Calls :
        /\ WF_vars(StreamOpens(c) \/ StreamRefused(c)) /\ WF_vars(Tick(c))
        /\ WF_vars(ClientStep(c))
    /\ \A s \in Streams : WF_vars(OnClose(s))

FairSpec == Spec /\ Fairness

-----------------------------------------------------------------------------
(* Properties.                                                             *)

(* However streams end, by a terminal status, an error, a dead socket, the *)
(* event that follows or all of them, the counters are the open streams,   *)
(* of agents and dashboards together, and within their limits              *)
(* (orders.js:118-141, 1351-1386); only a feed whose keys could not be     *)
(* read keeps the slot it took until the process ends                      *)
(* (dashboard.js:83-97).                                                   *)
OpenIn(b) == {s \in Streams : BucketOf[s] = b /\ server[s] = "open"}
LostIn(b) == {l \in lost : BucketOf[l.feed] = b}

SlotsAreStreams ==
    /\ total = Cardinality({s \in Streams : server[s] = "open"}) + Cardinality(lost)
    /\ total <= MaxTotal
    /\ \A b \in Buckets :
        /\ perKey[b] = Cardinality(OpenIn(b)) + Cardinality(LostIn(b))
        /\ perKey[b] <= MaxPerKey

(* What a call told its caller is so and stays so, although it was read    *)
(* before the order moved on: a card was issued; after a failure no card   *)
(* will come (orders.js:840-857, client.ts:519-535).                       *)
CardIssued(o) == o \in issued
NoCardAnyMore(o) == row[o].status \in {"failed", "refund_pending", "refunded", "rejected", "expired"}

ToldTheTruth ==
    \A c \in Calls :
        /\ client[c].told \in {"card", "blank card"} => CardIssued(OrderOf[c])
        /\ client[c].told = "failed" => NoCardAnyMore(OrderOf[c])

(* A call that waits for an order whose outcome is known is told of it,    *)
(* through a refused, broken or ended stream: not by its deadline, unless  *)
(* that passes, and not by an error, unless one is thrown                  *)
(* (client.ts:405-443).                                                    *)
Waiting(c) == client[c].step \notin {"idle", "done"}
Known(o) == Outcome(Shown(o)) # "nothing"

OutcomeIsTold ==
    \A c \in Calls :
        Waiting(c) /\ Known(OrderOf[c]) ~>
            \/ client[c].told \in {"card", "blank card", "failed", "error"}
            \/ client[c].late \/ c \in cut

(* A stream whose socket is dead or whose order has reached its end gives  *)
(* its slot back (orders.js:949-953); after a failure that is refunded at  *)
(* once, it waits for the refund.                                          *)
Over(c) == pipe[c] = "broken" \/ row[OrderOf[c]].status \in
             {"delivered", "refunded", "expired", "rejected", "pending_manual_recovery"}

SlotsComeBack ==
    \A c \in Calls :
        server[c] = "open" /\ Over(c) ~>
            server[c] # "open" \/ row[OrderOf[c]].status = "refund_pending"
=============================================================================
