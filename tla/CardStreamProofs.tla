--------------------------- MODULE CardStreamProofs ---------------------------
(***************************************************************************)
(* What the streams guarantee for any number of calls, browsers, keys and  *)
(* orders, whatever the limits and the number of faults.                   *)
(***************************************************************************)
EXTENDS CardStream, FiniteSetTheorems, TLAPS

LEMMA ShownTyped ==
  ASSUME TypeOK, NEW o \in Orders
  PROVE  /\ row[o] \in Row /\ row[o].status \in Statuses /\ row[o].version \in Nat
         /\ Shown(o) \in Payload
<1>1. row[o] \in Row /\ row[o].status \in Statuses /\ row[o].version \in Nat /\ row[o].card \in BOOLEAN
  BY DEF TypeOK, Row
<1>2. PHASE(row[o].status) \in {PHASE(s) : s \in Statuses}
  BY <1>1
<1>3. (row[o].status = "delivered" /\ row[o].card) \in BOOLEAN
  OBVIOUS
<1> QED BY <1>1, <1>2, <1>3 DEF Shown, Payload

LEMMA Constants ==
  /\ \A c \in Calls : c \in Streams /\ OrderOf[c] \in Orders
  /\ \A s \in Streams : BucketOf[s] \in Buckets
  /\ \A f \in Feeds : f \in Streams
BY CardStreamAssumption DEF Streams

(* The counters, and what is written to a stream, stay typed.              *)
LEMMA SlotsTyped ==
  ASSUME TypeOK, NEW s \in Streams
  PROVE  /\ Acquire(BucketOf[s]) => perKey' \in [Buckets -> Nat] /\ total' \in Nat
         /\ CloseStream(s) => perKey' \in [Buckets -> Nat] /\ total' \in Nat
<1>1. BucketOf[s] \in Buckets /\ perKey \in [Buckets -> Nat] /\ total \in Nat
  BY Constants DEF TypeOK
<1>2. Acquire(BucketOf[s]) => perKey' \in [Buckets -> Nat] /\ total' \in Nat
  BY <1>1 DEF Acquire
<1>3. Release(BucketOf[s]) => perKey' \in [Buckets -> Nat] /\ total' \in Nat
  <2>1. (IF perKey[BucketOf[s]] <= 1 THEN 0 ELSE perKey[BucketOf[s]] - 1) \in Nat
    BY <1>1
  <2>2. (IF total > 0 THEN total - 1 ELSE 0) \in Nat
    BY <1>1
  <2> QED BY <1>1, <2>1, <2>2 DEF Release
<1> QED BY <1>1, <1>2, <1>3 DEF CloseStream, counters

LEMMA GoesTyped ==
  ASSUME TypeOK, NEW s \in Streams, NEW state \in {"open", "closed"}, NEW after \in {"more", "end"},
         Goes(s, state, after)
  PROVE  /\ server' \in [Streams -> {"none", "open", "closed"}]
         /\ pipe' \in [Streams -> {"more", "end", "broken"}]
         /\ server' = [server EXCEPT ![s] = state]
<1>1. /\ server' = [server EXCEPT ![s] = state]
      /\ pipe' = [pipe EXCEPT ![s] = IF @ = "broken" THEN @ ELSE after]
  BY DEF Goes
<1>2. server' \in [Streams -> {"none", "open", "closed"}]
  BY <1>1 DEF TypeOK
<1>3. pipe' \in [Streams -> {"more", "end", "broken"}]
  BY <1>1 DEF TypeOK
<1> QED BY <1>1, <1>2, <1>3

LEMMA EmitTyped ==
  ASSUME TypeOK, NEW c \in Calls, Emit(c)
  PROVE  /\ wire' \in [Streams -> Seq(Payload)] /\ sent' \in [Streams -> Nat]
         /\ server' \in [Streams -> {"none", "open", "closed"}]
         /\ pipe' \in [Streams -> {"more", "end", "broken"}]
         /\ cut' \in SUBSET Calls
         /\ server' = [server EXCEPT ![c] = IF row[OrderOf[c]].status \in TERMINAL_STATUSES
                                            THEN "closed" ELSE "open"]
<1>1. c \in Streams /\ OrderOf[c] \in Orders
  BY Constants
<1>2. Shown(OrderOf[c]) \in Payload /\ row[OrderOf[c]].version \in Nat
  BY <1>1, ShownTyped
<1>3. wire' = [wire EXCEPT ![c] = IF Reading(c) THEN Append(@, Shown(OrderOf[c])) ELSE @]
  BY DEF Emit
<1>4. wire' \in [Streams -> Seq(Payload)]
  <2>1. wire[c] \in Seq(Payload) /\ Append(wire[c], Shown(OrderOf[c])) \in Seq(Payload)
    BY <1>1, <1>2 DEF TypeOK
  <2> QED BY <1>3, <2>1 DEF TypeOK
<1>5. sent' \in [Streams -> Nat]
  <2>1. sent' = [sent EXCEPT ![c] = row[OrderOf[c]].version]
    BY DEF Emit
  <2> QED BY <1>2, <2>1 DEF TypeOK
<1>6. cut' \in SUBSET Calls
  BY DEF Emit, TypeOK
<1>7. CASE row[OrderOf[c]].status \in TERMINAL_STATUSES
  <2>1. Goes(c, "closed", "end")
    BY <1>7 DEF Emit
  <2> QED BY <1>1, <1>4, <1>5, <1>6, <1>7, <2>1, GoesTyped
<1>8. CASE row[OrderOf[c]].status \notin TERMINAL_STATUSES
  <2>1. Goes(c, "open", "more")
    BY <1>8 DEF Emit
  <2> QED BY <1>1, <1>4, <1>5, <1>6, <1>8, <2>1, GoesTyped
<1> QED BY <1>7, <1>8

(* Reading a wire leaves a wire.                                           *)
LEMMA WireTyped ==
  ASSUME TypeOK, NEW c \in Calls
  PROVE  /\ \A w \in Seq(Payload) :
              wire' = [wire EXCEPT ![c] = w] => wire' \in [Streams -> Seq(Payload)]
         /\ wire' = [wire EXCEPT ![c] = <<>>] => wire' \in [Streams -> Seq(Payload)]
<1>1. \A w \in Seq(Payload) :
        wire' = [wire EXCEPT ![c] = w] => wire' \in [Streams -> Seq(Payload)]
  BY DEF TypeOK
<1>2. <<>> \in Seq(Payload)
  OBVIOUS
<1> QED BY <1>1, <1>2, Zenon

Client == [step : Steps, told : Answers, late : BOOLEAN, answer : Payload]

LEMMA ClientTyped ==
  ASSUME TypeOK, NEW c \in Calls
  PROVE  /\ client[c] \in Client /\ NoAnswer \in Payload
         /\ \A step \in Steps : ClientGoes(c, step) => client' \in [Calls -> Client]
         /\ \A told \in Answers : Tells(c, told) => client' \in [Calls -> Client]
<1>1. NoAnswer \in Payload
  <2>1. "ordering" \in Statuses /\ PHASE("ordering") = "processing"
    BY DEF Statuses, PHASE
  <2>2. "processing" \in {PHASE(s) : s \in Statuses}
    BY <2>1
  <2> QED BY <2>2 DEF NoAnswer, Payload
<1>2. client[c] \in Client /\ client \in [Calls -> Client]
  BY DEF TypeOK, Client
<1>3. \A step \in Steps : ClientGoes(c, step) => client' \in [Calls -> Client]
  BY <1>2 DEF ClientGoes, Client
<1>4. \A told \in Answers : Tells(c, told) => client' \in [Calls -> Client]
  BY <1>1, <1>2 DEF Tells, Client, Steps
<1> QED BY <1>1, <1>2, <1>3, <1>4

-----------------------------------------------------------------------------
LEMMA RecordsWiden ==
  ASSUME NEW S, NEW V, NEW K, NEW S1, NEW V1, NEW K1, S \subseteq S1, V \subseteq V1, K \subseteq K1,
         NEW D, NEW f \in [D -> [status : S, version : V, card : K]]
  PROVE  f \in [D -> [status : S1, version : V1, card : K1]]
<1>1. \A r \in [status : S, version : V, card : K] : r \in [status : S1, version : V1, card : K1]
  OBVIOUS
<1> QED BY <1>1

LEMMA InitTyped == Init => TypeOK
<1> SUFFICES ASSUME Init PROVE TypeOK
  OBVIOUS
<1>1. Idle \in Client
  <2>1. "ordering" \in Statuses /\ PHASE("ordering") = "processing"
    BY DEF Statuses, PHASE
  <2>2. "processing" \in {PHASE(s) : s \in Statuses}
    BY <2>1
  <2> QED BY <2>2 DEF Idle, Client, Steps, Answers, NoAnswer, Payload
<1>2. client \in [Calls -> Client]
  BY <1>1 DEF Init
<1>3. row \in [Orders -> Row]
  <2>1. row \in [Orders -> [status : {"awaiting_approval", "pending_payment", "ordering"},
                            version : {1}, card : {FALSE}]]
    BY DEF Init
  <2>2. {"awaiting_approval", "pending_payment", "ordering"} \subseteq Statuses
    BY DEF Statuses
  <2>3. {1} \subseteq Nat
    OBVIOUS
  <2>4. {FALSE} \subseteq BOOLEAN
    BY Zenon
  <2> DEFINE S == {"awaiting_approval", "pending_payment", "ordering"}
             V == {1}
             K == {FALSE}
             N == Nat
             B == BOOLEAN
  <2> HIDE DEF S, V, K, N, B
  <2>5. S \subseteq Statuses /\ V \subseteq N /\ K \subseteq B
    BY <2>2, <2>3, <2>4 DEF S, V, K, N, B
  <2>6. row \in [Orders -> [status : S, version : V, card : K]]
    BY <2>1, Zenon DEF S, V, K
  <2>7. row \in [Orders -> [status : Statuses, version : N, card : B]]
    BY <2>5, <2>6, RecordsWiden
  <2> QED BY <2>7, Zenon DEF Row, N, B
<1>4. wire \in [Streams -> Seq(Payload)]
  BY DEF Init
<1> QED BY <1>2, <1>3, <1>4, CardStreamAssumption DEF Init, TypeOK, Client

(* An order changes its status.                                            *)
LEMMA MoveTyped ==
  ASSUME TypeOK, NEW o \in Orders
  PROVE  /\ Move(o) => TypeOK'
         /\ PurgeOldCards(o) => TypeOK'
<1>1. row[o] \in Row /\ row[o].status \in Statuses /\ row[o].version \in Nat /\ row[o].card \in BOOLEAN
  BY DEF TypeOK, Row
<1>2. ASSUME Move(o) PROVE TypeOK'
  <2>1. PICK to \in Moves(row[o].status) :
          /\ row' = [row EXCEPT ![o] = [status |-> to, version |-> NewVersion(o),
                                        card |-> @.card \/ to = "delivered"]]
          /\ issued' = IF to = "delivered" THEN issued \union {o} ELSE issued
    BY <1>2 DEF Move
  <2>2. to \in Statuses
    BY <1>1, <2>1 DEF Moves, Statuses
  <2>3. [status |-> to, version |-> NewVersion(o), card |-> row[o].card \/ to = "delivered"] \in Row
    BY <1>1, <2>2 DEF Row, NewVersion
  <2>4. row' \in [Orders -> Row]
    BY <2>1, <2>3 DEF TypeOK
  <2>5. issued' \in SUBSET Orders
    BY <2>1 DEF TypeOK
  <2> QED BY <1>2, <2>4, <2>5 DEF Move, TypeOK, slots, counters, conns
<1>3. ASSUME PurgeOldCards(o) PROVE TypeOK'
  <2>1. [row[o] EXCEPT !.card = FALSE] \in Row
    BY <1>1 DEF Row
  <2>2. row' = [row EXCEPT ![o] = [row[o] EXCEPT !.card = FALSE]]
    BY <1>3 DEF PurgeOldCards, TypeOK
  <2>3. row' \in [Orders -> Row]
    BY <2>1, <2>2 DEF TypeOK
  <2> QED BY <1>3, <2>3 DEF PurgeOldCards, TypeOK, slots, counters, conns
<1> QED BY <1>2, <1>3

LEMMA FaultTyped == ASSUME TypeOK, Fault PROVE faults' \in 0 .. MaxFaults
BY CardStreamAssumption DEF TypeOK, Fault

LEMMA ServerTyped ==
  ASSUME TypeOK, NEW c \in Calls
  PROVE  /\ StreamOpens(c) => TypeOK'
         /\ OpeningThrows(c) => TypeOK'
         /\ StreamRefused(c) => TypeOK'
         /\ Tick(c) => TypeOK'
         /\ TickThrows(c) => TypeOK'
<1>1. c \in Streams /\ {"streaming", "polling"} \subseteq Steps
  BY Constants DEF Steps
<1>2. ASSUME StreamOpens(c) PROVE TypeOK'
  <2>1. Emit(c) /\ ClientGoes(c, "streaming") /\ UNCHANGED <<orders, lost, faults>>
    BY <1>2 DEF StreamOpens
  <2>2. perKey' \in [Buckets -> Nat] /\ total' \in Nat
    BY <1>1, <1>2, SlotsTyped DEF StreamOpens, counters, TypeOK
  <2>3. client' \in [Calls -> Client]
    BY <1>1, <2>1, ClientTyped
  <2> QED BY <2>1, <2>2, <2>3, EmitTyped DEF TypeOK, orders, Client
<1>3. ASSUME OpeningThrows(c) PROVE TypeOK'
  <2>1. Goes(c, "closed", "end") /\ ClientGoes(c, "streaming") /\ cut' = cut \union {c}
    BY <1>3 DEF OpeningThrows
  <2>2. client' \in [Calls -> Client]
    BY <1>1, <2>1, ClientTyped
  <2>3. cut' \in SUBSET Calls
    BY <2>1 DEF TypeOK
  <2> QED BY <1>1, <1>3, <2>1, <2>2, <2>3, GoesTyped, FaultTyped
          DEF OpeningThrows, TypeOK, orders, slots, counters, Client
<1>4. ASSUME StreamRefused(c) PROVE TypeOK'
  <2>1. client' \in [Calls -> Client]
    BY <1>1, <1>4, ClientTyped DEF StreamRefused
  <2> QED BY <1>4, <2>1 DEF StreamRefused, TypeOK, orders, slots, counters, conns, Client
<1>5. ASSUME Tick(c) PROVE TypeOK'
  <2>1. Emit(c) /\ UNCHANGED <<orders, lost, client, faults>>
    BY <1>5 DEF Tick
  <2>2. perKey' \in [Buckets -> Nat] /\ total' \in Nat
    BY <1>1, <1>5, SlotsTyped DEF Tick, counters, TypeOK
  <2> QED BY <2>1, <2>2, EmitTyped DEF TypeOK, orders
<1>6. ASSUME TickThrows(c) PROVE TypeOK'
  <2>1. Goes(c, "closed", "end") /\ CloseStream(c) /\ cut' = cut \union {c}
    BY <1>6 DEF TickThrows
  <2>2. cut' \in SUBSET Calls
    BY <2>1 DEF TypeOK
  <2> QED BY <1>1, <1>6, <2>1, <2>2, GoesTyped, SlotsTyped, FaultTyped
          DEF TickThrows, TypeOK, orders
<1> QED BY <1>2, <1>3, <1>4, <1>5, <1>6

LEMMA SocketsTyped ==
  ASSUME TypeOK
  PROVE  /\ \A f \in Feeds : (OpenFeed(f) \/ FeedLoadFails(f) \/ FeedThrows(f)) => TypeOK'
         /\ \A s \in Streams : (SocketDies(s) \/ OnClose(s)) => TypeOK'
         /\ Crash => TypeOK'
<1>1. ASSUME NEW f \in Feeds, OpenFeed(f) PROVE TypeOK'
  <2>1. f \in Streams
    BY Constants
  <2> QED BY <1>1, <2>1, SlotsTyped DEF OpenFeed, TypeOK, orders
<1>2. ASSUME NEW f \in Feeds, FeedThrows(f) PROVE TypeOK'
  <2>1. f \in Streams
    BY Constants
  <2> QED BY <1>2, <2>1, SlotsTyped, GoesTyped, FaultTyped DEF FeedThrows, TypeOK, orders
<1>3. ASSUME NEW s \in Streams, SocketDies(s) PROVE TypeOK'
  BY <1>3 DEF SocketDies, TypeOK, orders, slots, counters
<1>4. ASSUME NEW s \in Streams, OnClose(s) PROVE TypeOK'
  BY <1>4, SlotsTyped DEF OnClose, TypeOK, orders
<1>5. ASSUME Crash PROVE TypeOK'
  BY <1>5, FaultTyped DEF Crash, TypeOK, orders
<1>6. ASSUME NEW f \in Feeds, FeedLoadFails(f) PROVE TypeOK'
  <2>1. f \in Streams
    BY Constants
  <2>2. lost' \in SUBSET [feed : Feeds, fault : 0 .. MaxFaults]
    <3>1. [feed |-> f, fault |-> faults] \in [feed : Feeds, fault : 0 .. MaxFaults]
      BY DEF TypeOK
    <3> QED BY <1>6, <3>1 DEF FeedLoadFails, TypeOK
  <2>3. perKey' \in [Buckets -> Nat] /\ total' \in Nat
    BY <1>6, <2>1, SlotsTyped DEF FeedLoadFails
  <2>4. faults' \in 0 .. MaxFaults
    BY <1>6, FaultTyped DEF FeedLoadFails
  <2> QED BY <1>6, <2>2, <2>3, <2>4 DEF FeedLoadFails, TypeOK, orders, conns
<1> QED BY <1>1, <1>2, <1>3, <1>4, <1>5, <1>6

LEMMA CallsTyped ==
  ASSUME TypeOK, NEW c \in Calls
  PROVE  /\ ClientStep(c) => TypeOK'
         /\ (Wait(c) \/ Abort(c) \/ DeadlinePasses(c) \/ PollFails(c)) => TypeOK'
<1>1. c \in Streams /\ OrderOf[c] \in Orders
  BY Constants
<1>2. client[c] \in Client /\ client \in [Calls -> Client] /\ NoAnswer \in Payload
  BY ClientTyped DEF TypeOK, Client
<1>3. \A told \in Answers : Tells(c, told) => client' \in [Calls -> Client]
  BY ClientTyped
<1>4. \A p \in Payload : Outcome(p) \in Answers
  BY DEF Outcome, Answers
<1>5. ASSUME Read(c) PROVE TypeOK'
  <2>1. wire[c] \in Seq(Payload) /\ wire[c] # <<>>
    BY <1>1, <1>5 DEF Read, TypeOK
  <2>2. Head(wire[c]) \in Payload /\ Tail(wire[c]) \in Seq(Payload)
    BY <2>1
  <2>3. wire' \in [Streams -> Seq(Payload)]
    <3>1. \/ wire' = [wire EXCEPT ![c] = <<>>]
          \/ wire' = [wire EXCEPT ![c] = Tail(wire[c])]
      BY <1>1, <1>5 DEF Read, TypeOK
    <3> QED BY <2>2, <3>1, WireTyped, Zenon
  <2>4. client' \in [Calls -> Client]
    BY <1>2, <1>3, <1>4, <1>5, <2>2 DEF Read
  <2> QED BY <1>5, <2>3, <2>4 DEF Read, TypeOK, orders, slots, counters, Client
<1>6. ASSUME ReadEnd(c) PROVE TypeOK'
  <2>1. client' \in [Calls -> Client]
    BY <1>3, <1>6 DEF ReadEnd, Answers
  <2> QED BY <1>6, <2>1 DEF ReadEnd, TypeOK, orders, slots, counters, conns, Client
<1>7. ASSUME ReadBreaks(c) PROVE TypeOK'
  <2>1. client' \in [Calls -> Client]
    BY <1>7, ClientTyped DEF ReadBreaks, Steps
  <2>2. wire' \in [Streams -> Seq(Payload)]
    BY <1>7, WireTyped, Zenon DEF ReadBreaks
  <2> QED BY <1>7, <2>1, <2>2 DEF ReadBreaks, TypeOK, orders, slots, counters, Client
<1>8. ASSUME Poll(c) PROVE TypeOK'
  <2>1. Shown(OrderOf[c]) \in Payload
    BY <1>1, ShownTyped
  <2>2. [client[c] EXCEPT !.step = "asked", !.answer = Shown(OrderOf[c])] \in Client
    BY <1>2, <2>1 DEF Client, Steps
  <2>3. client' \in [Calls -> Client]
    BY <1>2, <1>3, <1>8, <2>2 DEF Poll, Answers
  <2> QED BY <1>8, <2>3 DEF Poll, TypeOK, orders, slots, counters, conns, Client
<1>9. ASSUME PollAnswered(c) PROVE TypeOK'
  <2>1. [client[c] EXCEPT !.step = "polling", !.answer = NoAnswer] \in Client
    BY <1>2 DEF Client, Steps
  <2>2. Outcome(client[c].answer) \in Answers
    BY <1>2, <1>4 DEF Client
  <2>3. client' \in [Calls -> Client]
    BY <1>2, <1>3, <1>9, <2>1, <2>2 DEF PollAnswered
  <2> QED BY <1>9, <2>3 DEF PollAnswered, TypeOK, orders, slots, counters, conns, Client
<1>10. ASSUME Wait(c) PROVE TypeOK'
  <2>1. [Idle EXCEPT !.step = "connecting"] \in Client
    BY <1>2 DEF Idle, Client, Steps, Answers
  <2>2. client' \in [Calls -> Client]
    BY <1>2, <1>10, <2>1 DEF Wait
  <2>3. wire' \in [Streams -> Seq(Payload)]
    BY <1>10, WireTyped, Zenon DEF Wait
  <2>4. pipe' \in [Streams -> {"more", "end", "broken"}]
    BY <1>10 DEF Wait, TypeOK
  <2> QED BY <1>10, <2>2, <2>3, <2>4 DEF Wait, TypeOK, orders, slots, counters, Client
<1>11. ASSUME Abort(c) PROVE TypeOK'
  <2>1. [step |-> "done", told |-> "timeout", late |-> TRUE, answer |-> client[c].answer] \in Client
    BY <1>2 DEF Client, Steps, Answers
  <2>2. client' \in [Calls -> Client]
    BY <1>2, <1>11, <2>1 DEF Abort
  <2>3. wire' \in [Streams -> Seq(Payload)]
    BY <1>11, WireTyped, Zenon DEF Abort
  <2>4. pipe' \in [Streams -> {"more", "end", "broken"}]
    BY <1>11 DEF Abort, TypeOK
  <2> QED BY <1>11, <2>2, <2>3, <2>4 DEF Abort, TypeOK, orders, slots, counters, Client
<1>12. ASSUME DeadlinePasses(c) PROVE TypeOK'
  <2>1. client' \in [Calls -> Client]
    BY <1>2, <1>12 DEF DeadlinePasses, Client
  <2> QED BY <1>12, <2>1 DEF DeadlinePasses, TypeOK, orders, slots, counters, conns, Client
<1>13. ASSUME PollFails(c) PROVE TypeOK'
  <2>1. client' \in [Calls -> Client]
    BY <1>3, <1>13 DEF PollFails, Answers
  <2> QED BY <1>13, <2>1, FaultTyped DEF PollFails, TypeOK, orders, slots, counters, conns, Client
<1> QED BY <1>5, <1>6, <1>7, <1>8, <1>9, <1>10, <1>11, <1>12, <1>13 DEF ClientStep

(* Every reachable state is well typed.                                    *)
THEOREM TypeCorrect == Spec => []TypeOK
<1>1. TypeOK /\ [Next]_vars => TypeOK'
  <2> SUFFICES ASSUME TypeOK, [Next]_vars PROVE TypeOK'
    OBVIOUS
  <2>1. CASE UNCHANGED vars
    BY <2>1 DEF vars, orders, slots, counters, conns, TypeOK
  <2>2. CASE Next
    BY <2>2, MoveTyped, ServerTyped, SocketsTyped, CallsTyped DEF Next, ServerStep
  <2> QED BY <2>1, <2>2
<1> QED BY <1>1, InitTyped, PTL DEF Spec
-----------------------------------------------------------------------------
(* A slot is taken with every stream that opens and given back with every  *)
(* one that stops being open, once; a feed that fails to open keeps one.   *)
Open == {s \in Streams : server[s] = "open"}

LEMMA OpenFinite ==
  /\ IsFiniteSet(Open) /\ Cardinality(Open) \in Nat
  /\ \A b : IsFiniteSet(OpenIn(b)) /\ Cardinality(OpenIn(b)) \in Nat
<1>1. IsFiniteSet(Open)
  BY CardStreamAssumption, FS_Subset DEF Open
<1>2. \A b : IsFiniteSet(OpenIn(b))
  BY CardStreamAssumption, FS_Subset DEF OpenIn
<1> QED BY <1>1, <1>2, FS_CardinalityType

(* Every lost slot was lost to a fault of its own, so they are counted.    *)
LostCounted == IsFiniteSet(lost) /\ \A l \in lost : l.fault < faults
SlotInv == SlotsAreStreams /\ LostCounted

LEMMA LostFinite ==
  ASSUME LostCounted
  PROVE  /\ IsFiniteSet(lost) /\ Cardinality(lost) \in Nat
         /\ \A b : IsFiniteSet(LostIn(b)) /\ Cardinality(LostIn(b)) \in Nat
<1>1. \A b : IsFiniteSet(LostIn(b))
  BY FS_Subset DEF LostIn, LostCounted
<1> QED BY <1>1, FS_CardinalityType DEF LostCounted

(* What the two counters say before a step.                                *)
LEMMA Counted ==
  ASSUME TypeOK, SlotsAreStreams
  PROVE  /\ perKey \in [Buckets -> Nat] /\ total \in Nat
         /\ server \in [Streams -> {"none", "open", "closed"}]
         /\ MaxPerKey \in Nat /\ MaxTotal \in Nat
         /\ total = Cardinality(Open) + Cardinality(lost) /\ total <= MaxTotal
         /\ \A b \in Buckets : /\ perKey[b] = Cardinality(OpenIn(b)) + Cardinality(LostIn(b))
                               /\ perKey[b] <= MaxPerKey
BY CardStreamAssumption DEF TypeOK, SlotsAreStreams, Open

LEMMA SlotsKept ==
  ASSUME SlotsAreStreams, UNCHANGED slots,
         \A s \in Streams : server'[s] = "open" <=> server[s] = "open"
  PROVE  SlotsAreStreams'
<1>1. {s \in Streams : server[s] = "open"}' = {s \in Streams : server[s] = "open"}
  OBVIOUS
<1>2. \A b : OpenIn(b)' = OpenIn(b) /\ LostIn(b)' = LostIn(b)
  BY DEF OpenIn, LostIn, slots
<1> QED BY <1>1, <1>2 DEF SlotsAreStreams, slots, counters

LEMMA SlotsOpened ==
  ASSUME TypeOK, SlotsAreStreams, LostCounted, NEW s \in Streams, server[s] # "open",
         HasSlot(BucketOf[s]), Acquire(BucketOf[s]), server' = [server EXCEPT ![s] = "open"],
         UNCHANGED lost
  PROVE  SlotsAreStreams'
<1>1. BucketOf[s] \in Buckets
  BY Constants
<1>2. Open' = Open \union {s} /\ s \notin Open
  BY Counted DEF Open
<1>3. Cardinality(Open') = Cardinality(Open) + 1
  BY <1>2, OpenFinite, FS_AddElement
<1>4. total' = Cardinality(Open') + Cardinality(lost') /\ total' <= MaxTotal
  BY <1>3, Counted, OpenFinite, LostFinite DEF Acquire, HasSlot
<1>5. ASSUME NEW b \in Buckets
      PROVE  /\ perKey'[b] = Cardinality(OpenIn(b)') + Cardinality(LostIn(b)')
             /\ perKey'[b] <= MaxPerKey
  <2>1. LostIn(b)' = LostIn(b)
    BY DEF LostIn
  <2>2. CASE b = BucketOf[s]
    <3>1. OpenIn(b)' = OpenIn(b) \union {s} /\ s \notin OpenIn(b)
      BY <2>2, Counted DEF OpenIn
    <3>2. Cardinality(OpenIn(b)') = Cardinality(OpenIn(b)) + 1
      BY <3>1, OpenFinite, FS_AddElement
    <3>3. perKey'[b] = perKey[b] + 1 /\ perKey[b] < MaxPerKey
      BY <2>2, Counted DEF Acquire, HasSlot
    <3> QED BY <2>1, <3>2, <3>3, Counted, OpenFinite, LostFinite
  <2>3. CASE b # BucketOf[s]
    <3>1. OpenIn(b)' = OpenIn(b)
      BY <2>3, Counted DEF OpenIn
    <3>2. perKey'[b] = perKey[b]
      BY <1>1, <2>3, Counted DEF Acquire
    <3> QED BY <2>1, <3>1, <3>2, Counted
  <2> QED BY <2>2, <2>3
<1> QED BY <1>4, <1>5 DEF SlotsAreStreams, Open

(* A feed that fails to open takes a slot and opens no stream.             *)
LEMMA SlotLost ==
  ASSUME TypeOK, SlotInv, NEW f \in Feeds, FeedLoadFails(f)
  PROVE  SlotInv'
<1> DEFINE l == [feed |-> f, fault |-> faults]
<1>1. /\ f \in Streams /\ BucketOf[f] \in Buckets
      /\ HasSlot(BucketOf[f]) /\ Acquire(BucketOf[f]) /\ UNCHANGED server
      /\ lost' = lost \union {l} /\ faults \in Nat /\ faults' = faults + 1
  BY Constants DEF FeedLoadFails, Fault, conns, TypeOK
<1>2. l.fault = faults /\ l.feed = f
  OBVIOUS
<1> HIDE DEF l
<1>3. l \notin lost
  BY <1>1, <1>2 DEF SlotInv, LostCounted
<1>4. Cardinality(lost') = Cardinality(lost) + 1 /\ IsFiniteSet(lost')
  BY <1>1, <1>3, FS_AddElement DEF SlotInv, LostCounted
<1>5. LostCounted'
  <2>1. \A k \in lost : k.fault \in Nat
    BY CardStreamAssumption DEF TypeOK
  <2>2. \A k \in lost' : k.fault < faults'
    BY <1>1, <1>2, <2>1 DEF SlotInv, LostCounted
  <2> QED BY <1>4, <2>2 DEF LostCounted
<1>6. Open' = Open
  BY <1>1 DEF Open
<1>7. total' = Cardinality(Open') + Cardinality(lost') /\ total' <= MaxTotal
  BY <1>1, <1>4, <1>6, Counted, OpenFinite, LostFinite DEF Acquire, HasSlot, SlotInv
<1>8. ASSUME NEW b \in Buckets
      PROVE  /\ perKey'[b] = Cardinality(OpenIn(b)') + Cardinality(LostIn(b)')
             /\ perKey'[b] <= MaxPerKey
  <2>1. OpenIn(b)' = OpenIn(b)
    BY <1>1 DEF OpenIn
  <2>2. CASE b = BucketOf[f]
    <3>1. LostIn(b)' = LostIn(b) \union {l} /\ l \notin LostIn(b)
      BY <1>1, <1>2, <1>3, <2>2 DEF LostIn
    <3>2. Cardinality(LostIn(b)') = Cardinality(LostIn(b)) + 1
      BY <3>1, LostFinite, FS_AddElement DEF SlotInv
    <3>3. perKey'[b] = perKey[b] + 1 /\ perKey[b] < MaxPerKey
      BY <1>1, <2>2, Counted DEF Acquire, HasSlot, SlotInv
    <3> QED BY <2>1, <3>2, <3>3, Counted, OpenFinite, LostFinite DEF SlotInv
  <2>3. CASE b # BucketOf[f]
    <3>1. LostIn(b)' = LostIn(b)
      BY <1>1, <1>2, <2>3 DEF LostIn
    <3>2. perKey'[b] = perKey[b]
      BY <1>1, <2>3, Counted DEF Acquire, SlotInv
    <3> QED BY <2>1, <3>1, <3>2, Counted DEF SlotInv
  <2> QED BY <2>2, <2>3
<1> QED BY <1>5, <1>7, <1>8 DEF SlotInv, SlotsAreStreams, Open

LEMMA SlotsClosed ==
  ASSUME TypeOK, SlotsAreStreams, LostCounted, NEW s \in Streams, server[s] = "open", CloseStream(s),
         NEW state, state # "open", server' = [server EXCEPT ![s] = state], UNCHANGED lost
  PROVE  SlotsAreStreams'
<1>1. BucketOf[s] \in Buckets
  BY Constants
<1>2. Open' = Open \ {s} /\ s \in Open
  BY Counted DEF Open
<1>3. Cardinality(Open') = Cardinality(Open) - 1
  BY <1>2, OpenFinite, FS_RemoveElement
<1>4. Cardinality(Open') \in Nat
  BY <1>2, OpenFinite, FS_Subset, FS_CardinalityType
<1>5. Release(BucketOf[s])
  BY DEF CloseStream
<1>6. total' = Cardinality(Open') + Cardinality(lost') /\ total' <= MaxTotal
  <2>1. total' = IF total > 0 THEN total - 1 ELSE 0
    BY <1>5 DEF Release
  <2> QED BY <1>3, <1>4, <2>1, Counted, OpenFinite, LostFinite
<1>7. ASSUME NEW b \in Buckets
      PROVE  /\ perKey'[b] = Cardinality(OpenIn(b)') + Cardinality(LostIn(b)')
             /\ perKey'[b] <= MaxPerKey
  <2>1. LostIn(b)' = LostIn(b)
    BY DEF LostIn
  <2>2. CASE b = BucketOf[s]
    <3>1. OpenIn(b)' = OpenIn(b) \ {s} /\ s \in OpenIn(b)
      BY <2>2, Counted DEF OpenIn
    <3>2. Cardinality(OpenIn(b)') = Cardinality(OpenIn(b)) - 1
      BY <3>1, OpenFinite, FS_RemoveElement
    <3>3. Cardinality(OpenIn(b)') \in Nat
      BY <3>1, OpenFinite, FS_Subset, FS_CardinalityType
    <3>4. perKey'[b] = IF perKey[b] <= 1 THEN 0 ELSE perKey[b] - 1
      BY <1>5, <2>2, Counted DEF Release
    <3> QED BY <2>1, <3>2, <3>3, <3>4, Counted, OpenFinite, LostFinite
  <2>3. CASE b # BucketOf[s]
    <3>1. OpenIn(b)' = OpenIn(b)
      BY <2>3, Counted DEF OpenIn
    <3>2. perKey'[b] = perKey[b]
      BY <1>1, <1>5, <2>3, Counted DEF Release
    <3> QED BY <2>1, <3>1, <3>2, Counted
  <2> QED BY <2>2, <2>3
<1> QED BY <1>6, <1>7 DEF SlotsAreStreams, Open

LEMMA SlotsNone ==
  ASSUME perKey = [b \in Buckets |-> 0], total = 0, server = [s \in Streams |-> "none"], lost = {}
  PROVE  SlotInv
<1>1. {s \in Streams : server[s] = "open"} = {}
  OBVIOUS
<1>2. \A b : OpenIn(b) = {} /\ LostIn(b) = {}
  BY DEF OpenIn, LostIn
<1>3. Cardinality({}) = 0 /\ IsFiniteSet({})
  BY FS_EmptySet
<1>4. LostCounted
  BY <1>3 DEF LostCounted
<1> QED BY <1>1, <1>2, <1>3, <1>4, CardStreamAssumption DEF SlotInv, SlotsAreStreams

(* No other step touches what was lost, and faults only grow.              *)
LEMMA LostKept ==
  ASSUME TypeOK, LostCounted, UNCHANGED lost, faults' = faults \/ Fault
  PROVE  LostCounted'
<1>1. faults \in Nat /\ \A l \in lost : l.fault \in Nat
  BY CardStreamAssumption DEF TypeOK
<1> QED BY <1>1 DEF LostCounted, Fault

LEMMA StreamsKeepSlots ==
  ASSUME TypeOK, SlotInv, NEW c \in Calls
  PROVE  /\ StreamOpens(c) => SlotInv'
         /\ OpeningThrows(c) => SlotInv'
         /\ Tick(c) => SlotInv'
         /\ TickThrows(c) => SlotInv'
<1>1. c \in Streams /\ server \in [Streams -> {"none", "open", "closed"}]
  BY Constants DEF TypeOK
<1>2. SlotsAreStreams /\ LostCounted
  BY DEF SlotInv
<1>3. ASSUME Emit(c)
      PROVE  \/ server' = [server EXCEPT ![c] = "open"]
             \/ server' = [server EXCEPT ![c] = "closed"]
  BY <1>3, EmitTyped
<1>4. ASSUME StreamOpens(c) PROVE SlotInv'
  <2>1. /\ server[c] # "open" /\ HasSlot(BucketOf[c]) /\ Emit(c)
        /\ UNCHANGED lost /\ UNCHANGED faults
    BY <1>4 DEF StreamOpens, Connecting
  <2>2. CASE server' = [server EXCEPT ![c] = "open"]
    <3>1. Acquire(BucketOf[c])
      BY <1>1, <1>4, <2>2 DEF StreamOpens
    <3> QED BY <1>1, <1>2, <2>1, <2>2, <3>1, SlotsOpened, LostKept DEF SlotInv
  <2>3. CASE server' = [server EXCEPT ![c] = "closed"]
    <3>1. UNCHANGED slots
      BY <1>1, <1>4, <2>1, <2>3 DEF StreamOpens, slots
    <3> QED BY <1>1, <1>2, <2>1, <2>3, <3>1, SlotsKept, LostKept DEF SlotInv
  <2> QED BY <1>3, <2>1, <2>2, <2>3
<1>5. ASSUME OpeningThrows(c) PROVE SlotInv'
  <2>1. /\ server[c] # "open" /\ server' = [server EXCEPT ![c] = "closed"]
        /\ UNCHANGED slots /\ UNCHANGED lost /\ Fault
    BY <1>5 DEF OpeningThrows, Connecting, Goes, slots
  <2> QED BY <1>1, <1>2, <2>1, SlotsKept, LostKept DEF SlotInv
<1>6. ASSUME Tick(c) PROVE SlotInv'
  <2>1. server[c] = "open" /\ Emit(c) /\ UNCHANGED lost /\ UNCHANGED faults
    BY <1>6 DEF Tick
  <2>2. CASE server' = [server EXCEPT ![c] = "open"]
    <3>1. UNCHANGED slots
      BY <1>1, <1>6, <2>1, <2>2 DEF Tick, slots
    <3> QED BY <1>1, <1>2, <2>1, <2>2, <3>1, SlotsKept, LostKept DEF SlotInv
  <2>3. CASE server' = [server EXCEPT ![c] = "closed"]
    <3>1. CloseStream(c)
      BY <1>1, <1>6, <2>3 DEF Tick
    <3> QED BY <1>1, <1>2, <2>1, <2>3, <3>1, SlotsClosed, LostKept DEF SlotInv
  <2> QED BY <1>3, <2>1, <2>2, <2>3
<1>7. ASSUME TickThrows(c) PROVE SlotInv'
  <2>1. /\ server[c] = "open" /\ server' = [server EXCEPT ![c] = "closed"]
        /\ CloseStream(c) /\ UNCHANGED lost /\ Fault
    BY <1>7 DEF TickThrows, Goes
  <2> QED BY <1>1, <1>2, <2>1, SlotsClosed, LostKept DEF SlotInv
<1> QED BY <1>4, <1>5, <1>6, <1>7

LEMMA SocketsKeepSlots ==
  ASSUME TypeOK, SlotInv
  PROVE  /\ \A f \in Feeds : (OpenFeed(f) \/ FeedLoadFails(f) \/ FeedThrows(f)) => SlotInv'
         /\ \A s \in Streams : (SocketDies(s) \/ OnClose(s)) => SlotInv'
         /\ Crash => SlotInv'
<1>1. server \in [Streams -> {"none", "open", "closed"}] /\ Feeds \subseteq Streams
  BY Constants DEF TypeOK
<1>2. SlotsAreStreams /\ LostCounted
  BY DEF SlotInv
<1>3. ASSUME NEW f \in Feeds, OpenFeed(f) PROVE SlotInv'
  <2>1. /\ server[f] # "open" /\ server' = [server EXCEPT ![f] = "open"]
        /\ HasSlot(BucketOf[f]) /\ Acquire(BucketOf[f]) /\ UNCHANGED lost /\ UNCHANGED faults
    BY <1>3 DEF OpenFeed
  <2> QED BY <1>1, <1>2, <2>1, SlotsOpened, LostKept DEF SlotInv
<1>4. ASSUME NEW f \in Feeds, FeedThrows(f) PROVE SlotInv'
  <2>1. /\ server[f] = "open" /\ CloseStream(f) /\ server' = [server EXCEPT ![f] = "closed"]
        /\ UNCHANGED lost /\ Fault
    BY <1>4 DEF FeedThrows, Goes
  <2> QED BY <1>1, <1>2, <2>1, SlotsClosed, LostKept DEF SlotInv
<1>5. ASSUME NEW s \in Streams, SocketDies(s) PROVE SlotInv'
  <2>1. UNCHANGED <<slots, lost, server, faults>>
    BY <1>5 DEF SocketDies, slots
  <2> QED BY <1>2, <2>1, SlotsKept, LostKept DEF SlotInv
<1>6. ASSUME NEW s \in Streams, OnClose(s) PROVE SlotInv'
  <2>1. /\ CloseStream(s) /\ server' = [server EXCEPT ![s] = "none"]
        /\ UNCHANGED lost /\ UNCHANGED faults
    BY <1>6 DEF OnClose
  <2>2. CASE server[s] = "open"
    BY <1>2, <2>1, <2>2, SlotsClosed, LostKept DEF SlotInv
  <2>3. CASE server[s] # "open"
    <3>1. UNCHANGED slots
      BY <2>1, <2>3 DEF CloseStream, slots
    <3> QED BY <1>1, <1>2, <2>1, <2>3, <3>1, SlotsKept, LostKept DEF SlotInv
  <2> QED BY <2>2, <2>3
<1>7. ASSUME Crash PROVE SlotInv'
  <2>1. /\ perKey' = [b \in Buckets |-> 0] /\ total' = 0 /\ lost' = {}
        /\ server' = [s \in Streams |-> "none"]
    BY <1>7 DEF Crash
  <2>2. {s \in Streams : server'[s] = "open"} = {}
    BY <2>1
  <2>3. \A b : OpenIn(b)' = {} /\ LostIn(b)' = {}
    BY <2>1 DEF OpenIn, LostIn
  <2>4. Cardinality({}) = 0 /\ IsFiniteSet({})
    BY FS_EmptySet
  <2>5. SlotsAreStreams'
    <3>1. total' = Cardinality({s \in Streams : server'[s] = "open"}) + Cardinality(lost')
          /\ total' <= MaxTotal
      BY <2>1, <2>2, <2>4, CardStreamAssumption
    <3>2. \A b \in Buckets : /\ perKey'[b] = Cardinality(OpenIn(b)') + Cardinality(LostIn(b)')
                             /\ perKey'[b] <= MaxPerKey
      BY <2>1, <2>3, <2>4, CardStreamAssumption
    <3> QED BY <3>1, <3>2 DEF SlotsAreStreams
  <2>6. LostCounted'
    BY <2>1, <2>4 DEF LostCounted
  <2> QED BY <2>5, <2>6 DEF SlotInv
<1> QED BY <1>3, <1>4, <1>5, <1>6, <1>7, SlotLost

(* The counters are the open streams and the slots of the feeds that       *)
(* failed to open, and within their limits, however streams end            *)
(* (orders.js:118-141, 1351-1386; dashboard.js:83-97).                     *)
THEOREM SlotsMatch == Spec => []SlotsAreStreams
<1>1. Init => SlotInv
  BY SlotsNone DEF Init
<1>2. TypeOK /\ SlotInv /\ [Next]_vars => SlotInv'
  <2> SUFFICES ASSUME TypeOK, SlotInv, [Next]_vars PROVE SlotInv'
    OBVIOUS
  <2>1. ASSUME UNCHANGED <<server, slots>>, faults' = faults \/ Fault PROVE SlotInv'
    BY <2>1, SlotsKept, LostKept DEF SlotInv, slots
  <2>2. CASE UNCHANGED vars
    BY <2>1, <2>2 DEF vars, conns
  <2>3. ASSUME NEW o \in Orders, Move(o) \/ PurgeOldCards(o) PROVE SlotInv'
    BY <2>1, <2>3 DEF Move, PurgeOldCards, conns
  <2>4. ASSUME NEW c \in Calls, ClientStep(c) PROVE SlotInv'
    BY <2>1, <2>4 DEF ClientStep, Read, ReadEnd, ReadBreaks, Poll, PollAnswered, conns
  <2>5. ASSUME NEW c \in Calls,
               Wait(c) \/ StreamRefused(c) \/ Abort(c) \/ DeadlinePasses(c) \/ PollFails(c)
        PROVE  SlotInv'
    BY <2>1, <2>5 DEF Wait, StreamRefused, Abort, DeadlinePasses, PollFails, conns
  <2> QED BY <2>2, <2>3, <2>4, <2>5, StreamsKeepSlots, SocketsKeepSlots DEF Next, ServerStep
<1>3. SlotInv => SlotsAreStreams
  BY DEF SlotInv
<1> QED BY <1>1, <1>2, <1>3, TypeCorrect, PTL DEF Spec

-----------------------------------------------------------------------------
(* What is on its way to a call was true when it was written and stays so: *)
(* an issued card stays issued, and what has failed stays failed.          *)
Holds(o, payload) ==
    /\ Outcome(payload) \in {"card", "blank card"} => CardIssued(o)
    /\ Outcome(payload) = "failed" => NoCardAnyMore(o)

DeliveredIssued == \A o \in Orders : row[o].status = "delivered" => o \in issued
WiresTrue == \A c \in Calls : \A i \in 1 .. Len(wire[c]) : Holds(OrderOf[c], wire[c][i])
AnswersTrue == \A c \in Calls : Holds(OrderOf[c], client[c].answer)
TruthInv == DeliveredIssued /\ WiresTrue /\ AnswersTrue /\ ToldTheTruth

LEMMA ShownHolds ==
  ASSUME TypeOK, DeliveredIssued, NEW o \in Orders
  PROVE  Holds(o, Shown(o))
<1>1. row[o].status \in Statuses /\ Shown(o).phase = PHASE(row[o].status)
  BY ShownTyped DEF Shown
<1>2. Shown(o).phase = "ready" => row[o].status = "delivered"
  BY <1>1 DEF Statuses, PHASE
<1>3. Shown(o).phase \in {"failed", "refunded", "rejected", "expired"} => NoCardAnyMore(o)
  BY <1>1 DEF Statuses, PHASE, NoCardAnyMore
<1> QED BY <1>2, <1>3 DEF Holds, Outcome, CardIssued, DeliveredIssued

LEMMA NothingHolds ==
  /\ Outcome(NoAnswer) = "nothing"
  /\ \A o : Holds(o, NoAnswer)
BY DEF Outcome, NoAnswer, Holds

(* The truth of a payload outlives every change of the orders.             *)
Stable(o) == (CardIssued(o) => CardIssued(o)') /\ (NoCardAnyMore(o) => NoCardAnyMore(o)')

LEMMA HoldsStable ==
  ASSUME NEW o, NEW payload, Holds(o, payload), Stable(o)
  PROVE  /\ Outcome(payload) \in {"card", "blank card"} => CardIssued(o)'
         /\ Outcome(payload) = "failed" => NoCardAnyMore(o)'
BY DEF Holds, Stable

LEMMA OrdersKeepTruth ==
  ASSUME TypeOK, TruthInv, NEW o \in Orders, Move(o) \/ PurgeOldCards(o)
  PROVE  TruthInv'
<1>1. /\ row \in [Orders -> Row] /\ row[o].status \in Statuses
      /\ \A q \in Orders : row[q] \in Row
  BY DEF TypeOK, Row
<1>2. UNCHANGED <<wire, client>>
  BY DEF Move, PurgeOldCards, conns
<1>3. DeliveredIssued' /\ \A q \in Orders : Stable(q)
  <2>1. CASE Move(o)
    <3>1. PICK to \in Moves(row[o].status) :
            /\ row' = [row EXCEPT ![o] = [status |-> to, version |-> NewVersion(o),
                                          card |-> @.card \/ to = "delivered"]]
            /\ issued' = IF to = "delivered" THEN issued \union {o} ELSE issued
      BY <2>1 DEF Move
    <3>2. row'[o].status = to /\ \A q \in Orders : q # o => row'[q] = row[q]
      BY <1>1, <3>1
    <3>3. issued \subseteq issued' /\ (to = "delivered" => o \in issued')
      BY <3>1
    <3>4. DeliveredIssued'
      BY <3>2, <3>3 DEF TruthInv, DeliveredIssued
    <3>5. NoCardAnyMore(o) => NoCardAnyMore(o)'
      BY <1>1, <3>1, <3>2 DEF NoCardAnyMore, Moves
    <3> QED BY <3>2, <3>3, <3>4, <3>5 DEF Stable, CardIssued, NoCardAnyMore
  <2>2. CASE PurgeOldCards(o)
    <3>1. row' = [row EXCEPT ![o] = [row[o] EXCEPT !.card = FALSE]] /\ issued' = issued
      BY <1>1, <2>2 DEF PurgeOldCards
    <3>2. [row[o] EXCEPT !.card = FALSE].status = row[o].status
      BY <1>1 DEF Row
    <3>3. \A q \in Orders : row'[q].status = row[q].status
      BY <1>1, <3>1, <3>2
    <3> QED BY <3>1, <3>3 DEF TruthInv, DeliveredIssued, Stable, CardIssued, NoCardAnyMore
  <2> QED BY <2>1, <2>2
<1>4. WiresTrue'
  <2> SUFFICES ASSUME NEW c \in Calls, NEW i \in 1 .. Len(wire[c])
               PROVE  Holds(OrderOf[c], wire[c][i])'
    BY <1>2 DEF WiresTrue
  <2>1. Holds(OrderOf[c], wire[c][i]) /\ Stable(OrderOf[c])
    BY <1>3, Constants DEF TruthInv, WiresTrue
  <2> QED BY <1>2, <2>1, HoldsStable DEF Holds, Outcome
<1>5. AnswersTrue'
  <2> SUFFICES ASSUME NEW c \in Calls PROVE Holds(OrderOf[c], client[c].answer)'
    BY DEF AnswersTrue
  <2>1. Holds(OrderOf[c], client[c].answer) /\ Stable(OrderOf[c])
    BY <1>3, Constants DEF TruthInv, AnswersTrue
  <2> QED BY <1>2, <2>1, HoldsStable DEF Holds, Outcome
<1>6. ToldTheTruth'
  <2> SUFFICES ASSUME NEW c \in Calls
               PROVE  /\ client[c].told \in {"card", "blank card"} => CardIssued(OrderOf[c])'
                      /\ client[c].told = "failed" => NoCardAnyMore(OrderOf[c])'
    BY <1>2 DEF ToldTheTruth
  <2>1. Stable(OrderOf[c])
    BY <1>3, Constants
  <2> QED BY <2>1 DEF TruthInv, ToldTheTruth, Stable
<1> QED BY <1>3, <1>4, <1>5, <1>6 DEF TruthInv

(* Everything else leaves the orders alone.  One wire is cut, read or      *)
(* written with the order as it is; one client reads what it was sent.     *)
LEMMA OrdersSame ==
  ASSUME UNCHANGED orders, DeliveredIssued
  PROVE  /\ DeliveredIssued'
         /\ \A o, payload : Holds(o, payload)' <=> Holds(o, payload)
         /\ \A o : (CardIssued(o)' <=> CardIssued(o)) /\ (NoCardAnyMore(o)' <=> NoCardAnyMore(o))
BY DEF orders, DeliveredIssued, Holds, Outcome, CardIssued, NoCardAnyMore

LEMMA WiresKept ==
  ASSUME TypeOK, TruthInv, UNCHANGED orders, NEW c \in Calls,
         \/ UNCHANGED wire
         \/ wire' = [wire EXCEPT ![c] = <<>>]
         \/ wire[c] # <<>> /\ wire' = [wire EXCEPT ![c] = Tail(wire[c])]
         \/ wire' = [wire EXCEPT ![c] = Append(wire[c], Shown(OrderOf[c]))]
  PROVE  WiresTrue'
<1> SUFFICES ASSUME NEW d \in Calls, NEW i \in 1 .. Len(wire'[d])
             PROVE  Holds(OrderOf[d], wire'[d][i])
  BY OrdersSame DEF WiresTrue, TruthInv, Holds, orders, CardIssued, NoCardAnyMore, Outcome
<1>1. c \in Streams /\ d \in Streams /\ wire \in [Streams -> Seq(Payload)] /\ OrderOf[c] \in Orders
  BY Constants DEF TypeOK
<1>2. \A j \in 1 .. Len(wire[d]) : Holds(OrderOf[d], wire[d][j])
  BY DEF TruthInv, WiresTrue
<1>3. wire[d] \in Seq(Payload)
  BY <1>1
<1>4. CASE wire'[d] = wire[d]
  BY <1>2, <1>4
<1>5. CASE d = c /\ wire'[c] = <<>>
  BY <1>5
<1>6. CASE d = c /\ wire[c] # <<>> /\ wire'[c] = Tail(wire[c])
  <2>1. i + 1 \in 1 .. Len(wire[d]) /\ wire'[d][i] = wire[d][i + 1]
    BY <1>3, <1>6
  <2> QED BY <1>2, <2>1
<1>7. CASE d = c /\ wire'[c] = Append(wire[c], Shown(OrderOf[c]))
  <2>1. Shown(OrderOf[c]) \in Payload /\ Holds(OrderOf[c], Shown(OrderOf[c]))
    BY <1>1, ShownTyped, ShownHolds DEF TruthInv
  <2>2. \/ i \in 1 .. Len(wire[d]) /\ wire'[d][i] = wire[d][i]
        \/ wire'[d][i] = Shown(OrderOf[c])
    BY <1>3, <1>7, <2>1
  <2> QED BY <1>2, <1>7, <2>1, <2>2
<1> QED BY <1>1, <1>4, <1>5, <1>6, <1>7

LEMMA ClientsKept ==
  ASSUME TypeOK, TruthInv, UNCHANGED orders, NEW c \in Calls, NEW e \in Client,
         client' = [client EXCEPT ![c] = e], Holds(OrderOf[c], e.answer),
         e.told \in {"card", "blank card"} => CardIssued(OrderOf[c]),
         e.told = "failed" => NoCardAnyMore(OrderOf[c])
  PROVE  AnswersTrue' /\ ToldTheTruth'
<1>1. client'[c] = e /\ \A d \in Calls : d # c => client'[d] = client[d]
  BY DEF TypeOK
<1>2. \A d \in Calls : Holds(OrderOf[d], client'[d].answer)
  BY <1>1 DEF TruthInv, AnswersTrue
<1>3. \A d \in Calls :
        /\ client'[d].told \in {"card", "blank card"} => CardIssued(OrderOf[d])
        /\ client'[d].told = "failed" => NoCardAnyMore(OrderOf[d])
  BY <1>1 DEF TruthInv, ToldTheTruth
<1>4. AnswersTrue'
  BY <1>2 DEF AnswersTrue, Holds, orders, CardIssued, NoCardAnyMore, Outcome
<1>5. ToldTheTruth'
  BY <1>3 DEF ToldTheTruth, orders, CardIssued, NoCardAnyMore
<1> QED BY <1>4, <1>5

LEMMA ClientsSame ==
  ASSUME TruthInv, UNCHANGED <<orders, client>>
  PROVE  AnswersTrue' /\ ToldTheTruth'
BY DEF TruthInv, AnswersTrue, ToldTheTruth, Holds, orders, CardIssued, NoCardAnyMore, Outcome

(* Telling what a true payload means tells the truth.                      *)
LEMMA ToldKept ==
  ASSUME TypeOK, TruthInv, UNCHANGED orders, NEW c \in Calls, NEW told \in Answers, Tells(c, told),
         told \in {"card", "blank card"} => CardIssued(OrderOf[c]),
         told = "failed" => NoCardAnyMore(OrderOf[c])
  PROVE  AnswersTrue' /\ ToldTheTruth'
<1> DEFINE e == [step |-> "done", told |-> told, late |-> client[c].late, answer |-> NoAnswer]
<1>1. client[c] \in Client /\ NoAnswer \in Payload
  BY ClientTyped
<1>2. e \in Client
  BY <1>1 DEF Client, Steps
<1>3. e.answer = NoAnswer /\ e.told = told
  OBVIOUS
<1>4. client' = [client EXCEPT ![c] = e]
  BY DEF Tells, TypeOK
<1> HIDE DEF e
<1> QED BY <1>2, <1>3, <1>4, ClientsKept, NothingHolds

(* A call that only moves on tells nothing new.                            *)
LEMMA MovesOn ==
  ASSUME TypeOK, TruthInv, UNCHANGED orders, NEW c \in Calls, NEW e \in Client,
         client' = [client EXCEPT ![c] = e], e.told \in {client[c].told, "timeout", "nothing"},
         e.answer \in {client[c].answer, NoAnswer, Shown(OrderOf[c])}
  PROVE  AnswersTrue' /\ ToldTheTruth'
<1>1. OrderOf[c] \in Orders
  BY Constants
<1>2. Holds(OrderOf[c], e.answer)
  BY <1>1, ShownHolds, NothingHolds DEF TruthInv, AnswersTrue
<1>3. /\ e.told \in {"card", "blank card"} => CardIssued(OrderOf[c])
      /\ e.told = "failed" => NoCardAnyMore(OrderOf[c])
  BY DEF TruthInv, ToldTheTruth
<1> QED BY <1>2, <1>3, ClientsKept

LEMMA GoesOn ==
  ASSUME TypeOK, TruthInv, UNCHANGED orders, NEW c \in Calls, NEW step \in Steps, ClientGoes(c, step)
  PROVE  AnswersTrue' /\ ToldTheTruth'
<1>1. client[c] \in Client
  BY ClientTyped
<1> DEFINE e == [client[c] EXCEPT !.step = step]
<1>2. e \in Client /\ e.told = client[c].told /\ e.answer = client[c].answer
  BY <1>1 DEF Client
<1>3. client' = [client EXCEPT ![c] = e]
  BY DEF ClientGoes, TypeOK
<1> HIDE DEF e
<1> QED BY <1>2, <1>3, MovesOn

LEMMA ServersKeepTruth ==
  ASSUME TypeOK, TruthInv, NEW c \in Calls
  PROVE  /\ StreamOpens(c) => TruthInv'
         /\ OpeningThrows(c) => TruthInv'
         /\ StreamRefused(c) => TruthInv'
         /\ Tick(c) => TruthInv'
         /\ TickThrows(c) => TruthInv'
<1>1. /\ \A step \in Steps : UNCHANGED orders /\ ClientGoes(c, step) => AnswersTrue' /\ ToldTheTruth'
      /\ {"streaming", "polling"} \subseteq Steps
  BY GoesOn DEF Steps
<1>2. UNCHANGED orders => DeliveredIssued'
  BY OrdersSame DEF TruthInv
<1>3. ASSUME Emit(c), UNCHANGED orders PROVE WiresTrue'
  <2>1. c \in Streams /\ wire \in [Streams -> Seq(Payload)]
    BY Constants DEF TypeOK
  <2>2. \/ UNCHANGED wire
        \/ wire' = [wire EXCEPT ![c] = Append(wire[c], Shown(OrderOf[c]))]
    BY <1>3, <2>1 DEF Emit
  <2> QED BY <1>3, <2>2, WiresKept
<1>4. ASSUME StreamOpens(c) PROVE TruthInv'
  <2>1. Emit(c) /\ ClientGoes(c, "streaming") /\ UNCHANGED orders
    BY <1>4 DEF StreamOpens
  <2> QED BY <1>1, <1>2, <1>3, <2>1 DEF TruthInv
<1>5. ASSUME OpeningThrows(c) PROVE TruthInv'
  <2>1. UNCHANGED wire /\ ClientGoes(c, "streaming") /\ UNCHANGED orders
    BY <1>5 DEF OpeningThrows
  <2> QED BY <1>1, <1>2, <2>1, WiresKept DEF TruthInv
<1>6. ASSUME StreamRefused(c) PROVE TruthInv'
  <2>1. UNCHANGED wire /\ ClientGoes(c, "polling") /\ UNCHANGED orders
    BY <1>6 DEF StreamRefused, conns
  <2> QED BY <1>1, <1>2, <2>1, WiresKept DEF TruthInv
<1>7. ASSUME Tick(c) PROVE TruthInv'
  <2>1. Emit(c) /\ UNCHANGED <<orders, client>>
    BY <1>7 DEF Tick
  <2> QED BY <1>2, <1>3, <2>1, ClientsSame DEF TruthInv
<1>8. ASSUME TickThrows(c) PROVE TruthInv'
  <2>1. UNCHANGED wire /\ UNCHANGED <<orders, client>>
    BY <1>8 DEF TickThrows
  <2> QED BY <1>2, <2>1, WiresKept, ClientsSame DEF TruthInv
<1> QED BY <1>4, <1>5, <1>6, <1>7, <1>8

(* Nothing else touches the orders, the wires or the clients.              *)
LEMMA TruthSame ==
  ASSUME TypeOK, TruthInv, UNCHANGED <<orders, wire, client>>
  PROVE  TruthInv'
BY OrdersSame, ClientsSame
   DEF TruthInv, WiresTrue, Holds, orders, CardIssued, NoCardAnyMore, Outcome

LEMMA CallsKeepTruth ==
  ASSUME TypeOK, TruthInv, NEW c \in Calls
  PROVE  /\ ClientStep(c) => TruthInv'
         /\ (Wait(c) \/ Abort(c) \/ DeadlinePasses(c) \/ PollFails(c)) => TruthInv'
<1>1. /\ c \in Streams /\ OrderOf[c] \in Orders /\ wire[c] \in Seq(Payload)
      /\ client[c] \in Client /\ client \in [Calls -> Client] /\ NoAnswer \in Payload
      /\ wire \in [Streams -> Seq(Payload)]
  BY Constants, ClientTyped DEF TypeOK
<1>2. UNCHANGED orders => DeliveredIssued'
  BY OrdersSame DEF TruthInv
<1>3. UNCHANGED <<orders, wire>> => WiresTrue'
  BY WiresKept
<1>4. ASSUME Read(c) PROVE TruthInv'
  <2>1. wire[c] # <<>> /\ UNCHANGED orders
    BY <1>4 DEF Read
  <2>2. Holds(OrderOf[c], Head(wire[c])) /\ Head(wire[c]) \in Payload
    BY <1>1, <2>1 DEF TruthInv, WiresTrue
  <2>3. CASE Outcome(Head(wire[c])) = "nothing"
    <3>1. wire' = [wire EXCEPT ![c] = Tail(wire[c])] /\ UNCHANGED client
      BY <1>1, <1>4, <2>3 DEF Read
    <3> QED BY <1>2, <2>1, <3>1, WiresKept, ClientsSame DEF TruthInv
  <2>4. CASE Outcome(Head(wire[c])) # "nothing"
    <3>1. wire' = [wire EXCEPT ![c] = <<>>] /\ Tells(c, Outcome(Head(wire[c])))
      BY <1>4, <2>4 DEF Read
    <3>2. Outcome(Head(wire[c])) \in Answers
      BY DEF Outcome, Answers
    <3>3. AnswersTrue' /\ ToldTheTruth'
      BY <2>1, <2>2, <3>1, <3>2, ToldKept DEF Holds
    <3> QED BY <1>2, <2>1, <3>1, <3>3, WiresKept DEF TruthInv
  <2> QED BY <2>3, <2>4
<1>5. ASSUME ReadEnd(c) PROVE TruthInv'
  <2>1. UNCHANGED <<orders, wire>> /\ Tells(c, "timeout") /\ "timeout" \in Answers
    BY <1>5 DEF ReadEnd, conns, Answers
  <2>2. AnswersTrue' /\ ToldTheTruth'
    BY <2>1, ToldKept
  <2> QED BY <1>2, <1>3, <2>1, <2>2 DEF TruthInv
<1>6. ASSUME ReadBreaks(c) PROVE TruthInv'
  <2>1. UNCHANGED orders /\ ClientGoes(c, "polling") /\ "polling" \in Steps
        /\ wire' = [wire EXCEPT ![c] = <<>>]
    BY <1>6 DEF ReadBreaks, Steps
  <2> QED BY <1>2, <2>1, WiresKept, GoesOn DEF TruthInv
<1>7. ASSUME Poll(c) PROVE TruthInv'
  <2>1. UNCHANGED <<orders, wire>>
    BY <1>7 DEF Poll, conns
  <2>2. CASE client[c].late
    <3>1. Tells(c, "timeout") /\ "timeout" \in Answers
      BY <1>7, <2>2 DEF Poll, Answers
    <3> QED BY <1>2, <1>3, <2>1, <3>1, ToldKept DEF TruthInv
  <2>3. CASE ~client[c].late
    <3> DEFINE e == [client[c] EXCEPT !.step = "asked", !.answer = Shown(OrderOf[c])]
    <3>1. client' = [client EXCEPT ![c] = e]
      BY <1>1, <1>7, <2>3 DEF Poll
    <3>2. Shown(OrderOf[c]) \in Payload
      BY <1>1, ShownTyped
    <3>3. e \in Client /\ e.told = client[c].told /\ e.answer = Shown(OrderOf[c])
      BY <1>1, <3>2 DEF Client, Steps
    <3> HIDE DEF e
    <3>4. AnswersTrue' /\ ToldTheTruth'
      BY <2>1, <3>1, <3>3, MovesOn
    <3> QED BY <1>2, <1>3, <2>1, <3>4 DEF TruthInv
  <2> QED BY <2>2, <2>3
<1>8. ASSUME PollAnswered(c) PROVE TruthInv'
  <2>1. UNCHANGED <<orders, wire>>
    BY <1>8 DEF PollAnswered, conns
  <2>2. CASE Outcome(client[c].answer) = "nothing"
    <3> DEFINE e == [client[c] EXCEPT !.step = "polling", !.answer = NoAnswer]
    <3>1. client' = [client EXCEPT ![c] = e]
      BY <1>1, <1>8, <2>2 DEF PollAnswered
    <3>2. e \in Client /\ e.told = client[c].told /\ e.answer = NoAnswer
      BY <1>1 DEF Client, Steps
    <3> HIDE DEF e
    <3>3. AnswersTrue' /\ ToldTheTruth'
      BY <2>1, <3>1, <3>2, MovesOn
    <3> QED BY <1>2, <1>3, <2>1, <3>3 DEF TruthInv
  <2>3. CASE Outcome(client[c].answer) # "nothing"
    <3>1. Tells(c, Outcome(client[c].answer))
      BY <1>8, <2>3 DEF PollAnswered
    <3>2. Outcome(client[c].answer) \in Answers
      BY DEF Outcome, Answers
    <3>3. Holds(OrderOf[c], client[c].answer)
      BY DEF TruthInv, AnswersTrue
    <3>4. AnswersTrue' /\ ToldTheTruth'
      BY <2>1, <3>1, <3>2, <3>3, ToldKept DEF Holds
    <3> QED BY <1>2, <1>3, <2>1, <3>4 DEF TruthInv
  <2> QED BY <2>2, <2>3
<1>9. ASSUME Wait(c) PROVE TruthInv'
  <2> DEFINE e == [Idle EXCEPT !.step = "connecting"]
  <2>1. UNCHANGED orders /\ client' = [client EXCEPT ![c] = e] /\ wire' = [wire EXCEPT ![c] = <<>>]
    BY <1>9 DEF Wait
  <2>2. e \in Client /\ e.told = "nothing" /\ e.answer = NoAnswer
    BY <1>1 DEF Idle, Client, Steps, Answers
  <2> HIDE DEF e
  <2>3. AnswersTrue' /\ ToldTheTruth'
    BY <2>1, <2>2, MovesOn
  <2> QED BY <1>2, <2>1, <2>3, WiresKept DEF TruthInv
<1>10. ASSUME Abort(c) PROVE TruthInv'
  <2> DEFINE e == [step |-> "done", told |-> "timeout", late |-> TRUE, answer |-> client[c].answer]
  <2>1. UNCHANGED orders /\ client' = [client EXCEPT ![c] = e] /\ wire' = [wire EXCEPT ![c] = <<>>]
    BY <1>1, <1>10 DEF Abort
  <2>2. e \in Client /\ e.told = "timeout" /\ e.answer = client[c].answer
    BY <1>1 DEF Client, Steps, Answers
  <2> HIDE DEF e
  <2>3. AnswersTrue' /\ ToldTheTruth'
    BY <2>1, <2>2, MovesOn
  <2> QED BY <1>2, <2>1, <2>3, WiresKept DEF TruthInv
<1>11. ASSUME DeadlinePasses(c) PROVE TruthInv'
  <2> DEFINE e == [client[c] EXCEPT !.late = TRUE]
  <2>1. UNCHANGED <<orders, wire>> /\ client' = [client EXCEPT ![c] = e]
    BY <1>1, <1>11 DEF DeadlinePasses, conns
  <2>2. e \in Client /\ e.told = client[c].told /\ e.answer = client[c].answer
    BY <1>1 DEF Client
  <2> HIDE DEF e
  <2>3. AnswersTrue' /\ ToldTheTruth'
    BY <2>1, <2>2, MovesOn
  <2> QED BY <1>2, <1>3, <2>1, <2>3 DEF TruthInv
<1>12. ASSUME PollFails(c) PROVE TruthInv'
  <2>1. UNCHANGED <<orders, wire>> /\ Tells(c, "error") /\ "error" \in Answers
    BY <1>12 DEF PollFails, conns, Answers
  <2>2. AnswersTrue' /\ ToldTheTruth'
    BY <2>1, ToldKept
  <2> QED BY <1>2, <1>3, <2>1, <2>2 DEF TruthInv
<1> QED BY <1>4, <1>5, <1>6, <1>7, <1>8, <1>9, <1>10, <1>11, <1>12 DEF ClientStep

(* What a call told its caller is so and stays so, although it was read    *)
(* before the order moved on (orders.js:840-857, client.ts:519-535).       *)
THEOREM TruthTold == Spec => []ToldTheTruth
<1>1. Init => TruthInv
  <2> SUFFICES ASSUME Init PROVE TruthInv
    OBVIOUS
  <2>1. DeliveredIssued
    <3>1. \A o \in Orders : row[o].status \in {"awaiting_approval", "pending_payment", "ordering"}
      BY Zenon DEF Init
    <3> QED BY <3>1 DEF DeliveredIssued
  <2>2. WiresTrue
    BY Constants DEF Init, WiresTrue
  <2>3. \A c \in Calls : client[c].answer = NoAnswer /\ client[c].told = "nothing"
    BY DEF Init, Idle
  <2> QED BY <2>1, <2>2, <2>3, NothingHolds DEF TruthInv, AnswersTrue, ToldTheTruth
<1>2. TypeOK /\ TruthInv /\ [Next]_vars => TruthInv'
  <2> SUFFICES ASSUME TypeOK, TruthInv, [Next]_vars PROVE TruthInv'
    OBVIOUS
  <2>1. CASE UNCHANGED vars
    BY <2>1, TruthSame DEF vars, conns
  <2>2. CASE Crash
    BY <2>2, TruthSame DEF Crash
  <2>3. ASSUME NEW f \in Feeds, OpenFeed(f) \/ FeedLoadFails(f) \/ FeedThrows(f)
        PROVE  TruthInv'
    BY <2>3, TruthSame DEF OpenFeed, FeedLoadFails, FeedThrows, conns
  <2>4. ASSUME NEW s \in Streams, SocketDies(s) \/ OnClose(s) PROVE TruthInv'
    BY <2>4, TruthSame DEF SocketDies, OnClose
  <2> QED BY <2>1, <2>2, <2>3, <2>4, OrdersKeepTruth, ServersKeepTruth, CallsKeepTruth
          DEF Next, ServerStep
<1>3. TruthInv => ToldTheTruth
  BY DEF TruthInv
<1> QED BY <1>1, <1>2, <1>3, TypeCorrect, PTL DEF Spec
=============================================================================
