----------------------------- MODULE SignerProofs -----------------------------
(***************************************************************************)
(* What the signer guarantees for any number of orders, nodes, kills and   *)
(* failed reads and writes.  Types are proved for any number of processes; that      *)
(* money is paid once, and never forgotten, for one process at a time: two *)
(* that share the files break it, as a run shows.                          *)
(***************************************************************************)
EXTENDS Signer, FiniteSetTheorems, TLAPS

States == {"signed", "accepted", "executed"}
Call == [step : Steps, hash : Nat, left : SUBSET Nodes]

(* A ledger stays one when an entry is added or taken away.                *)
LEMMA LedgerWith ==
  ASSUME NEW f, IsLedger(f), NEW o \in Orders, NEW n \in Nat \ {0}
  PROVE  IsLedger(With(f, o, n)) /\ DOMAIN With(f, o, n) = DOMAIN f \union {o}
  BY DEF With, IsLedger

LEMMA LedgerWithout ==
  ASSUME NEW f, IsLedger(f), NEW o
  PROVE  IsLedger(Without(f, o)) /\ DOMAIN Without(f, o) = DOMAIN f \ {o}
  BY DEF Without, IsLedger, Restrict

(* What p looks up, or finds if it reads the file now.                     *)
Held(p) == IF loaded[p] THEN mem[p] ELSE disk

LEMMA LedgersTyped ==
  ASSUME TypeOK, NEW p \in Processes
  PROVE  IsLedger(mem[p]) /\ IsLedger(disk) /\ IsLedger(Held(p)) /\ loaded[p] \in BOOLEAN
  BY DEF TypeOK, Held

(* What Persist does to the file, and to the count of faults.              *)
LEMMA PersistTyped ==
  ASSUME TypeOK, NEW ledger, IsLedger(ledger), Persist(ledger)
  PROVE  /\ IsLedger(disk') /\ faults' \in 0 .. MaxFaults
         /\ \/ disk' = ledger /\ faults' = faults
            \/ disk' = disk /\ faults' = faults + 1
<1>1. faults \in 0 .. MaxFaults /\ MaxFaults \in Nat
  BY SignerAssumption DEF TypeOK
<1> QED BY <1>1 DEF Persist, Fails, TypeOK

(* A transfer that reaches a node stays in its place.                      *)
LEMMA SameLength ==
  ASSUME NEW s \in Seq(States), NEW n, NEW v, n \in DOMAIN s => v \in States
  PROVE  /\ [s EXCEPT ![n] = v] \in Seq(States)
         /\ Len([s EXCEPT ![n] = v]) = Len(s)
<1> DEFINE t == [s EXCEPT ![n] = v]
<1>1. Len(s) \in Nat /\ s \in [1 .. Len(s) -> States]
  OBVIOUS
<1>2. DOMAIN t = 1 .. Len(s) /\ \A i \in 1 .. Len(s) : t[i] \in States
  BY <1>1
<1>3. t = [i \in 1 .. Len(s) |-> t[i]]
  BY <1>2
<1>4. t \in [1 .. Len(s) -> States]
  BY <1>2, <1>3
<1>5. t \in Seq(States)
  BY <1>1, <1>4
<1> QED BY <1>1, <1>2, <1>5

LEMMA TransferTyped ==
  ASSUME TypeOK, NEW o \in Orders
  PROVE  /\ transfer[o] \in Seq(States) /\ Len(transfer[o]) \in Nat
         /\ DOMAIN transfer[o] = 1 .. Len(transfer[o])
         /\ unwritten[o] \in Nat /\ unread[o] \in Nat /\ receipt[o] \in Nat
         /\ status[o] \in {"pending_payment", "delivered", "expired"}
  BY DEF TypeOK, States

(* Nothing was signed.                                                     *)
SameTransfers ==
    /\ transfer' \in [Orders -> Seq(States)]
    /\ \A o \in Orders : Len(transfer'[o]) = Len(transfer[o])

LEMMA Moved ==
  ASSUME TypeOK, NEW o \in Orders, NEW n, NEW v, n \in DOMAIN transfer[o] => v \in States,
         transfer' = [transfer EXCEPT ![o][n] = v]
  PROVE  SameTransfers
<1>1. transfer \in [Orders -> Seq(States)]
  BY DEF TypeOK, States
<1>2. PICK s \in Seq(States) : s = transfer[o]
  BY <1>1
<1>3. /\ [s EXCEPT ![n] = v] \in Seq(States)
      /\ Len([s EXCEPT ![n] = v]) = Len(s)
  BY <1>2, SameLength
<1>4. transfer' = [transfer EXCEPT ![o] = [s EXCEPT ![n] = v]]
  BY <1>2
<1>5. PICK t : t = [s EXCEPT ![n] = v]
  OBVIOUS
<1> QED BY <1>1, <1>2, <1>3, <1>4, <1>5 DEF SameTransfers

LEMMA AcceptedTyped ==
  ASSUME TypeOK, NEW o \in Orders, NEW n, Accepted(o, n)
  PROVE  SameTransfers
<1> DEFINE v == IF transfer[o][n] = "signed" THEN "accepted" ELSE transfer[o][n]
<1>1. n \in DOMAIN transfer[o] => transfer[o][n] \in States
  BY TransferTyped
<1>2. n \in DOMAIN transfer[o] => v \in States
  BY <1>1 DEF States
<1>3. transfer' = [transfer EXCEPT ![o][n] = v]
  BY DEF Accepted, TypeOK
<1> HIDE DEF v
<1> QED BY <1>2, <1>3, Moved

(* A call that moves on stays a call.                                      *)
LEMMA CallTyped ==
  ASSUME TypeOK, NEW p \in Processes, NEW o \in Orders
  PROVE  /\ call[p][o] \in Call /\ Idle \in Call
         /\ \A c \in Call : [call EXCEPT ![p][o] = c] \in [Processes -> [Orders -> Call]]
         /\ \A s \in Steps : Go(p, o, s) =>
              call' = [call EXCEPT ![p][o] = [call[p][o] EXCEPT !.step = s]]
         /\ \A s \in Steps : [call[p][o] EXCEPT !.step = s] \in Call
<1>1. call \in [Processes -> [Orders -> Call]]
  BY DEF TypeOK, Call
<1>2. Idle \in Call
  BY DEF Idle, Call, Steps
<1>3. \A c \in Call : [call EXCEPT ![p][o] = c] \in [Processes -> [Orders -> Call]]
  BY <1>1
<1>4. \A s \in Steps : [call[p][o] EXCEPT !.step = s] \in Call
  BY <1>1 DEF Call
<1> QED BY <1>1, <1>2, <1>3, <1>4 DEF Go

(* Types, by groups of variables.                                          *)
OrdersTyped ==
    /\ status \in [Orders -> {"pending_payment", "delivered", "expired"}]
    /\ receipt \in [Orders -> Nat]
    /\ unwritten \in [Orders -> Nat] /\ unread \in [Orders -> Nat]
    /\ transfer \in [Orders -> Seq(States)]
LedgerTyped ==
    /\ DOMAIN mem = Processes /\ \A p \in Processes : IsLedger(mem[p])
    /\ loaded \in [Processes -> BOOLEAN] /\ IsLedger(disk)
    /\ faults \in 0 .. MaxFaults
CallsTyped ==
    /\ lock \in [Orders -> Processes \union {None, Dead}]
    /\ call \in [Processes -> [Orders -> Call]]

LEMMA Groups == TypeOK <=> OrdersTyped /\ LedgerTyped /\ CallsTyped
  BY DEF TypeOK, OrdersTyped, LedgerTyped, CallsTyped, Call, States

LEMMA GroupsKept ==
  ASSUME TypeOK
  PROVE  /\ UNCHANGED <<status, receipt, transfer, unwritten, unread>> => OrdersTyped'
         /\ UNCHANGED <<mem, loaded, disk, faults>> => LedgerTyped'
         /\ UNCHANGED <<lock, call>> => CallsTyped'
         /\ SameTransfers /\ UNCHANGED <<status, receipt, unwritten, unread>> => OrdersTyped'
<1>1. OrdersTyped /\ LedgerTyped /\ CallsTyped
  BY Groups
<1>2. UNCHANGED <<status, receipt, transfer, unwritten, unread>> => OrdersTyped'
  BY <1>1 DEF OrdersTyped
<1>3. UNCHANGED <<mem, loaded, disk, faults>> => LedgerTyped'
  BY <1>1 DEF LedgerTyped, IsLedger
<1>4. UNCHANGED <<lock, call>> => CallsTyped'
  BY <1>1 DEF CallsTyped
<1>5. SameTransfers /\ UNCHANGED <<status, receipt, unwritten, unread>> => OrdersTyped'
  BY <1>1 DEF OrdersTyped, SameTransfers
<1> QED BY <1>2, <1>3, <1>4, <1>5

(* A call ends or changes its step, and the lock is taken or let go.       *)
LEMMA CallMoves ==
  ASSUME TypeOK, NEW p \in Processes, NEW o \in Orders, NEW c \in Call,
         call' = [call EXCEPT ![p][o] = c],
         \/ lock' = lock
         \/ \E l \in {p, None} : lock' = [lock EXCEPT ![o] = l]
  PROVE  CallsTyped'
<1>1. call' \in [Processes -> [Orders -> Call]]
  BY CallTyped
<1>2. lock' \in [Orders -> Processes \union {None, Dead}]
  <2> DEFINE Holders == Processes \union {None, Dead}
  <2>1. lock \in [Orders -> Holders] /\ p \in Holders /\ None \in Holders
    BY DEF TypeOK
  <2>2. PICK l \in Holders : lock' = lock \/ lock' = [lock EXCEPT ![o] = l]
    BY <2>1
  <2> HIDE DEF Holders
  <2>3. lock' \in [Orders -> Holders]
    BY <2>1, <2>2
  <2> QED BY <2>3 DEF Holders
<1> QED BY <1>1, <1>2 DEF CallsTyped

LEMMA StepMoves ==
  ASSUME TypeOK, NEW p \in Processes, NEW o \in Orders, NEW s \in Steps, Go(p, o, s),
         \/ lock' = lock
         \/ \E l \in {p, None} : lock' = [lock EXCEPT ![o] = l]
  PROVE  CallsTyped'
<1>1. [call[p][o] EXCEPT !.step = s] \in Call
      /\ call' = [call EXCEPT ![p][o] = [call[p][o] EXCEPT !.step = s]]
  BY CallTyped
<1>2. PICK c \in Call : call' = [call EXCEPT ![p][o] = c]
  BY <1>1
<1> QED BY <1>2, CallMoves

(* The call of p for o that is broadcasting, after one node.               *)
LEMMA PutEffect ==
  ASSUME TypeOK, NEW p \in Processes, NEW o \in Orders, PutToNode(p, o)
  PROVE  /\ SameTransfers
         /\ CallsTyped'
         /\ \E c \in Call : call' = [call EXCEPT ![p][o] = c]
                          /\ c.step \in {"broadcasting", "verifying"}
<1>1. PICK node \in call[p][o].left, answer \in {"accepted", "lost", "refused"} :
        LET left == call[p][o].left \ {node}
        IN  /\ IF answer = "refused" THEN UNCHANGED transfer
                                     ELSE Accepted(o, call[p][o].hash)
            /\ IF answer = "accepted" \/ left = {}
               THEN /\ Release(o)
                    /\ call' = [call EXCEPT ![p][o].step = "verifying", ![p][o].left = {}]
               ELSE call' = [call EXCEPT ![p][o].left = left] /\ UNCHANGED lock
  BY DEF PutToNode
<1> DEFINE left == call[p][o].left \ {node}
<1>2. SameTransfers
  <2>1. UNCHANGED transfer => SameTransfers
    BY DEF TypeOK, SameTransfers, States
  <2> QED BY <1>1, <2>1, AcceptedTyped
<1>3. call[p][o] \in Call /\ call \in [Processes -> [Orders -> Call]] /\ At(p, o, "broadcasting")
  BY CallTyped DEF TypeOK, Call, PutToNode
<1>4. CASE answer = "accepted" \/ left = {}
  <2>1. [call[p][o] EXCEPT !.step = "verifying", !.left = {}] \in Call
    BY <1>3 DEF Call, Steps
  <2>2. call' = [call EXCEPT ![p][o] = [call[p][o] EXCEPT !.step = "verifying", !.left = {}]]
    BY <1>1, <1>3, <1>4
  <2>3. [call[p][o] EXCEPT !.step = "verifying", !.left = {}].step = "verifying"
    BY <1>3 DEF Call
  <2>4. lock' = [lock EXCEPT ![o] = None]
    BY <1>1, <1>4 DEF Release
  <2>5. PICK c \in Call : call' = [call EXCEPT ![p][o] = c] /\ c.step = "verifying"
    BY <2>1, <2>2, <2>3
  <2>6. CallsTyped'
    BY <2>4, <2>5, CallMoves
  <2> QED BY <1>2, <2>5, <2>6
<1>5. CASE ~(answer = "accepted" \/ left = {})
  <2>1. [call[p][o] EXCEPT !.left = left] \in Call
    BY <1>3 DEF Call
  <2>2. call' = [call EXCEPT ![p][o] = [call[p][o] EXCEPT !.left = left]] /\ lock' = lock
    BY <1>1, <1>3, <1>5
  <2>3. [call[p][o] EXCEPT !.left = left].step = "broadcasting"
    BY <1>3 DEF Call, At
  <2>4. PICK c \in Call : call' = [call EXCEPT ![p][o] = c] /\ c.step = "broadcasting"
    BY <2>1, <2>2, <2>3
  <2>5. lock' = lock
    BY <2>2
  <2>6. call' = [call EXCEPT ![p][o] = c]
    BY <2>4
  <2>7. CallsTyped'
    BY <2>5, <2>6, CallMoves
  <2> QED BY <1>2, <2>4, <2>7
<1> QED BY <1>4, <1>5

(* What the steps that touch the ledger do to it.                          *)
LEMMA EnterEffect ==
  ASSUME TypeOK, NEW p \in Processes, NEW o \in Orders, Enter(p, o)
  PROVE  /\ OrdersTyped' /\ LedgerTyped' /\ CallsTyped'
         /\ loaded'[p] = TRUE /\ At(p, o, "waiting")
         /\ UNCHANGED <<status, receipt, transfer, disk, unwritten>>
         /\ \/ mem'[p] = Held(p) /\ unread' = unread
            \/ /\ ~loaded[p] /\ DOMAIN mem'[p] = {}
               /\ \A x \in Orders : unread'[x] = unread[x] + IF x \in DOMAIN disk THEN 1 ELSE 0
         /\ \E c \in Call : /\ call' = [call EXCEPT ![p][o] = c]
                          /\ c.step = IF o \in DOMAIN mem'[p] THEN "verifying" ELSE "preparing"
<1>1. DOMAIN mem = Processes /\ loaded \in [Processes -> BOOLEAN]
      /\ (\A q \in Processes : IsLedger(mem[q])) /\ IsLedger(disk)
      /\ unread \in [Orders -> Nat] /\ faults \in 0 .. MaxFaults /\ MaxFaults \in Nat
  BY SignerAssumption DEF TypeOK
<1>2. PICK f :
        /\ Hydrates(p, f)
        /\ loaded' = [loaded EXCEPT ![p] = TRUE]
        /\ mem' = [mem EXCEPT ![p] = f]
        /\ IF o \in DOMAIN f
           THEN /\ call' = [call EXCEPT ![p][o] = [step |-> "verifying", left |-> {}, hash |-> f[o]]]
                /\ UNCHANGED lock
           ELSE /\ Go(p, o, "preparing")
                /\ lock' = [lock EXCEPT ![o] = p]
  BY DEF Enter
<1>3. /\ At(p, o, "waiting")
      /\ UNCHANGED <<status, receipt, transfer, disk, unwritten>>
  BY DEF Enter
<1>4. /\ IsLedger(f) /\ faults' \in 0 .. MaxFaults /\ unread' \in [Orders -> Nat]
      /\ \/ f = Held(p) /\ unread' = unread
         \/ /\ ~loaded[p] /\ DOMAIN f = {}
            /\ \A x \in Orders : unread'[x] = unread[x] + IF x \in DOMAIN disk THEN 1 ELSE 0
  <2>1. CASE f = Held(p) /\ UNCHANGED <<unread, faults>>
    BY <1>1, <2>1, LedgersTyped
  <2>2. CASE ~(f = Held(p) /\ UNCHANGED <<unread, faults>>)
    <3>1. /\ ~loaded[p] /\ f = <<>> /\ faults < MaxFaults /\ faults' = faults + 1
          /\ unread' = [x \in Orders |-> unread[x] + IF x \in DOMAIN disk THEN 1 ELSE 0]
      BY <1>2, <2>2 DEF Hydrates, Held, Fails
    <3>2. IsLedger(f) /\ DOMAIN f = {}
      BY <3>1 DEF IsLedger
    <3>3. unread' \in [Orders -> Nat]
      BY <1>1, <3>1
    <3> QED BY <1>1, <3>1, <3>2, <3>3
  <2> QED BY <2>1, <2>2
<1>5. DOMAIN mem' = Processes /\ \A q \in Processes : mem'[q] = IF q = p THEN f ELSE mem[q]
  BY <1>1, <1>2
<1>6. \A q \in Processes : IsLedger(mem[q])'
  <2> SUFFICES ASSUME NEW q \in Processes PROVE IsLedger(mem[q])'
    OBVIOUS
  <2>1. IsLedger(mem'[q])
    BY <1>1, <1>4, <1>5
  <2> QED BY <2>1 DEF IsLedger
<1>7. loaded' \in [Processes -> BOOLEAN] /\ loaded'[p] = TRUE
  BY <1>1, <1>2
<1>8. LedgerTyped'
  BY <1>1, <1>3, <1>4, <1>5, <1>6, <1>7 DEF LedgerTyped, IsLedger
<1>9. OrdersTyped'
  BY <1>3, <1>4 DEF TypeOK, OrdersTyped, States
<1>10. mem'[p] = f
  BY <1>5
<1>11. \E c \in Call : /\ call' = [call EXCEPT ![p][o] = c] /\ CallsTyped'
                     /\ c.step = IF o \in DOMAIN f THEN "verifying" ELSE "preparing"
  <2>1. CASE o \in DOMAIN f
    <3>1. f[o] \in Nat
      BY <1>4, <2>1 DEF IsLedger
    <3>2. [step |-> "verifying", left |-> {}, hash |-> f[o]] \in Call
      BY <3>1 DEF Call, Steps
    <3>3. PICK c \in Call : call' = [call EXCEPT ![p][o] = c] /\ c.step = "verifying"
      BY <1>2, <2>1, <3>2
    <3>4. CallsTyped'
      BY <1>2, <2>1, <3>3, CallMoves
    <3> QED BY <2>1, <3>3, <3>4
  <2>2. CASE o \notin DOMAIN f
    <3>1. Go(p, o, "preparing") /\ lock' = [lock EXCEPT ![o] = p] /\ "preparing" \in Steps
      BY <1>2, <2>2 DEF Steps
    <3>2. PICK c \in Call : c = [call[p][o] EXCEPT !.step = "preparing"]
                         /\ call' = [call EXCEPT ![p][o] = c]
      BY <3>1, CallTyped
    <3>3. c.step = "preparing"
      BY <3>2, CallTyped DEF Call
    <3>4. CallsTyped'
      BY <3>1, <3>2, CallMoves
    <3> QED BY <2>2, <3>2, <3>3, <3>4
  <2> QED BY <2>1, <2>2
<1> QED BY <1>3, <1>4, <1>7, <1>8, <1>9, <1>10, <1>11

LEMMA SignEffect ==
  ASSUME TypeOK, NEW p \in Processes, NEW o \in Orders, Sign(p, o)
  PROVE  /\ OrdersTyped' /\ LedgerTyped' /\ CallsTyped'
         /\ At(p, o, "preparing") /\ UNCHANGED <<status, loaded, unread>>
         /\ DOMAIN mem'[p] = DOMAIN mem[p] \union {o}
         /\ \A x \in Orders : Len(transfer'[x]) = IF x = o THEN Len(transfer[x]) + 1 ELSE Len(transfer[x])
         /\ \/ DOMAIN disk' = DOMAIN mem[p] \union {o} /\ unwritten' = unwritten
            \/ disk' = disk /\ unwritten' = [unwritten EXCEPT ![o] = unwritten[o] + 1]
         /\ \E c \in Call : call' = [call EXCEPT ![p][o] = c] /\ c.step = "broadcasting"
<1>1. PICK s \in Seq(States) : s = transfer[o]
  BY TransferTyped
<1>2. PICK n \in Nat \ {0} : n = Len(s) + 1
  BY <1>1
<1>3. At(p, o, "preparing") /\ UNCHANGED <<status, receipt, loaded, lock, unread>>
      /\ Record(p, o, n) /\ transfer' = [transfer EXCEPT ![o] = Append(s, "signed")]
  BY <1>1, <1>2 DEF Sign, TypeOK
<1>4. /\ transfer' \in [Orders -> Seq(States)]
      /\ \A x \in Orders : Len(transfer'[x]) = IF x = o THEN Len(transfer[x]) + 1 ELSE Len(transfer[x])
  <2>1. transfer \in [Orders -> Seq(States)] /\ "signed" \in States
    BY DEF TypeOK, States
  <2>2. PICK t \in Seq(States) : t = Append(s, "signed") /\ Len(t) = Len(s) + 1
    <3>1. Append(s, "signed") \in Seq(States)
      BY <1>1, <2>1
    <3>2. Len(Append(s, "signed")) = Len(s) + 1
      BY <1>1
    <3> QED BY <3>1, <3>2
  <2>3. transfer' = [transfer EXCEPT ![o] = t]
    BY <1>3, <2>2
  <2>4. \A x \in Orders : Len(transfer[x]) \in Nat
    BY TransferTyped
  <2> QED BY <1>1, <2>1, <2>2, <2>3, <2>4
<1>5. PICK f : f = mem[p] /\ IsLedger(f)
  BY LedgersTyped
<1>6. PICK g : g = With(f, o, n) /\ IsLedger(g) /\ DOMAIN g = DOMAIN f \union {o}
  BY <1>5, LedgerWith
<1>7. /\ mem' = [mem EXCEPT ![p] = g] /\ Persist(g)
      /\ unwritten' = [unwritten EXCEPT ![o] = unwritten[o] + faults' - faults]
  BY <1>3, <1>5, <1>6 DEF Record, TypeOK
<1>8. /\ IsLedger(disk') /\ faults' \in 0 .. MaxFaults /\ faults \in Nat
      /\ \/ disk' = g /\ faults' = faults
         \/ disk' = disk /\ faults' = faults + 1
  BY <1>6, <1>7, PersistTyped DEF TypeOK
<1>9. DOMAIN mem' = Processes /\ \A q \in Processes : mem'[q] = IF q = p THEN g ELSE mem[q]
  BY <1>7 DEF TypeOK
<1>10. \A q \in Processes : IsLedger(mem[q])'
  <2> SUFFICES ASSUME NEW q \in Processes PROVE IsLedger(mem[q])'
    OBVIOUS
  <2>1. IsLedger(mem'[q])
    BY <1>6, <1>9 DEF TypeOK
  <2> QED BY <2>1 DEF IsLedger
<1>11. LedgerTyped'
  BY <1>3, <1>8, <1>9, <1>10 DEF TypeOK, LedgerTyped, IsLedger
<1>12. /\ \/ disk' = g /\ unwritten' = unwritten
          \/ disk' = disk /\ unwritten' = [unwritten EXCEPT ![o] = unwritten[o] + 1]
       /\ unwritten' \in [Orders -> Nat]
  <2>1. unwritten \in [Orders -> Nat] /\ unwritten[o] \in Nat
    BY DEF TypeOK
  <2>2. CASE disk' = g /\ faults' = faults
    <3>1. unwritten[o] + faults' - faults = unwritten[o]
      BY <1>8, <2>1, <2>2
    <3>2. unwritten' = [unwritten EXCEPT ![o] = unwritten[o]]
      BY <1>7, <3>1
    <3>3. [unwritten EXCEPT ![o] = unwritten[o]] = unwritten
      BY <2>1, Zenon
    <3> QED BY <2>1, <2>2, <3>2, <3>3
  <2>3. CASE disk' = disk /\ faults' = faults + 1
    <3>1. unwritten[o] + faults' - faults = unwritten[o] + 1
      BY <1>8, <2>1, <2>3
    <3>2. unwritten' = [unwritten EXCEPT ![o] = unwritten[o] + 1]
      BY <1>7, <3>1
    <3>3. unwritten[o] + 1 \in Nat
      BY <2>1
    <3> QED BY <2>1, <2>3, <3>2, <3>3
  <2> QED BY <1>8, <2>2, <2>3
<1>13. OrdersTyped'
  BY <1>3, <1>4, <1>12 DEF TypeOK, OrdersTyped
<1>14. PICK c \in Call : call' = [call EXCEPT ![p][o] = c] /\ c.step = "broadcasting"
  <2>1. PICK targets \in SUBSET Nodes :
          call' = [call EXCEPT ![p][o] = [step |-> "broadcasting", left |-> targets, hash |-> n]]
    BY <1>1, <1>2 DEF Sign
  <2>2. [step |-> "broadcasting", left |-> targets, hash |-> n] \in Call
    BY <1>2 DEF Call, Steps
  <2> QED BY <2>1, <2>2
<1>15. CallsTyped'
  BY <1>3, <1>14, CallMoves
<1>16. mem'[p] = g
  BY <1>9
<1>17. \/ DOMAIN disk' = DOMAIN mem[p] \union {o} /\ unwritten' = unwritten
       \/ disk' = disk /\ unwritten' = [unwritten EXCEPT ![o] = unwritten[o] + 1]
  BY <1>5, <1>6, <1>12
<1> QED BY <1>3, <1>4, <1>5, <1>6, <1>11, <1>13, <1>14, <1>15, <1>16, <1>17

LEMMA AnsweredEffect ==
  ASSUME TypeOK, NEW p \in Processes, NEW o \in Orders, VerifyAnswered(p, o)
  PROVE  /\ LedgerTyped' /\ CallsTyped'
         /\ At(p, o, "verifying") /\ status[o] = "delivered"
         /\ UNCHANGED <<status, transfer, loaded, unwritten, unread>>
         /\ DOMAIN mem'[p] = DOMAIN mem[p] \ {o}
         /\ \/ o \in DOMAIN mem[p] /\ DOMAIN disk' = DOMAIN mem[p] \ {o}
            \/ disk' = disk
         /\ call' = [call EXCEPT ![p][o] = Idle]
<1>1. /\ At(p, o, "verifying") /\ status[o] = "delivered"
      /\ UNCHANGED <<status, receipt, transfer, loaded, lock, unwritten, unread>>
      /\ call' = [call EXCEPT ![p][o] = Idle]
  BY DEF VerifyAnswered
<1>2. PICK f : f = mem[p] /\ IsLedger(f)
  BY LedgersTyped
<1>3. PICK g : g = Without(f, o) /\ IsLedger(g) /\ DOMAIN g = DOMAIN f \ {o}
  BY <1>2, LedgerWithout
<1>4. /\ mem' = [mem EXCEPT ![p] = g]
      /\ IF o \in DOMAIN f THEN Persist(g) ELSE UNCHANGED <<disk, faults>>
  BY <1>2, <1>3 DEF VerifyAnswered, TypeOK
<1>5. DOMAIN mem' = Processes /\ \A q \in Processes : mem'[q] = IF q = p THEN g ELSE mem[q]
  BY <1>4 DEF TypeOK
<1>6. \A q \in Processes : IsLedger(mem[q])'
  <2> SUFFICES ASSUME NEW q \in Processes PROVE IsLedger(mem[q])'
    OBVIOUS
  <2>1. IsLedger(mem'[q])
    BY <1>3, <1>5 DEF TypeOK
  <2> QED BY <2>1 DEF IsLedger
<1>7. /\ IsLedger(disk') /\ faults' \in 0 .. MaxFaults
      /\ \/ o \in DOMAIN f /\ disk' = g
         \/ disk' = disk
  BY <1>3, <1>4, PersistTyped DEF TypeOK
<1>8. LedgerTyped'
  BY <1>1, <1>5, <1>6, <1>7 DEF TypeOK, LedgerTyped, IsLedger
<1>9. CallsTyped'
  BY <1>1, CallTyped, CallMoves
<1>10. mem'[p] = g
  BY <1>5
<1> QED BY <1>1, <1>2, <1>3, <1>7, <1>8, <1>9, <1>10

LEMMA EndEffect ==
  ASSUME TypeOK, NEW p \in Processes, End(p)
  PROVE  /\ LedgerTyped' /\ CallsTyped'
         /\ loaded'[p] = FALSE /\ UNCHANGED <<status, transfer, disk, unwritten, unread>>
         /\ \A o \in Orders : call'[p][o].step = "idle"
<1>1. mem' = [mem EXCEPT ![p] = <<>>] /\ loaded' = [loaded EXCEPT ![p] = FALSE]
      /\ UNCHANGED <<status, receipt, transfer, disk, unwritten, unread>>
      /\ call' = [call EXCEPT ![p] = [o \in Orders |-> Idle]]
      /\ lock' = [o \in Orders |-> IF lock[o] = p THEN Dead ELSE lock[o]]
  BY DEF End
<1>2. faults' \in 0 .. MaxFaults
  BY SignerAssumption DEF End, TypeOK
<1>3. \A f : f = <<>> => IsLedger(f)
  BY DEF IsLedger
<1>4. DOMAIN mem' = Processes /\ \A q \in Processes : mem'[q] = IF q = p THEN <<>> ELSE mem[q]
  BY <1>1 DEF TypeOK
<1>5. \A q \in Processes : IsLedger(mem[q])'
  <2> SUFFICES ASSUME NEW q \in Processes PROVE IsLedger(mem[q])'
    OBVIOUS
  <2>1. IsLedger(mem'[q])
    BY <1>3, <1>4 DEF TypeOK
  <2> QED BY <2>1 DEF IsLedger
<1>6. LedgerTyped'
  BY <1>1, <1>2, <1>4, <1>5 DEF TypeOK, LedgerTyped, IsLedger
<1>7. call \in [Processes -> [Orders -> Call]] /\ Idle \in Call /\ Idle.step = "idle"
  BY DEF TypeOK, Call, Idle, Steps
<1>8. PICK idle \in [Orders -> Call] : idle = [o \in Orders |-> Idle]
  BY <1>7
<1>9. call' \in [Processes -> [Orders -> Call]] /\ call'[p] = idle
  BY <1>1, <1>7, <1>8
<1>10. lock' \in [Orders -> Processes \union {None, Dead}]
  BY <1>1 DEF TypeOK
<1>11. CallsTyped'
  BY <1>9, <1>10 DEF CallsTyped
<1>12. \A o \in Orders : call'[p][o].step = "idle"
  BY <1>7, <1>8, <1>9
<1>13. loaded'[p] = FALSE
  BY <1>1 DEF TypeOK
<1> QED BY <1>1, <1>6, <1>11, <1>12, <1>13

LEMMA TypeStep ==
  ASSUME TypeOK, [Next]_vars
  PROVE  TypeOK'
<1> SUFFICES OrdersTyped' /\ LedgerTyped' /\ CallsTyped'
  BY DEF TypeOK, OrdersTyped, LedgerTyped, CallsTyped, Call, States
<1>1. ASSUME NEW p \in Processes, End(p) PROVE OrdersTyped' /\ LedgerTyped' /\ CallsTyped'
  BY <1>1, EndEffect, GroupsKept DEF End
<1>2. ASSUME NEW o \in Orders, NEW n, Deliver(o, n) PROVE OrdersTyped' /\ LedgerTyped' /\ CallsTyped'
  <2>1. n \in Nat
    BY <1>2, TransferTyped DEF Deliver
  <2>2. OrdersTyped'
    BY <1>2, <2>1 DEF Deliver, OrdersTyped, TypeOK, States
  <2> QED BY <1>2, <2>2, GroupsKept DEF Deliver, files
<1>3. ASSUME NEW o \in Orders, Execute(o) PROVE OrdersTyped' /\ LedgerTyped' /\ CallsTyped'
  <2>1. SameTransfers
    BY <1>3, Moved DEF Execute, States
  <2> QED BY <1>3, <2>1, GroupsKept DEF Execute, files
<1>4. ASSUME NEW o \in Orders, Expire(o) PROVE OrdersTyped' /\ LedgerTyped' /\ CallsTyped'
  <2>1. OrdersTyped'
    BY <1>4 DEF Expire, OrdersTyped, TypeOK, States
  <2> QED BY <1>4, <2>1, GroupsKept DEF Expire, files
<1>5. ASSUME NEW p \in Processes, NEW o \in Orders,
             Ask(p, o) \/ SeeStale(p, o) \/ Steal(p, o) \/ LockTimeout(p, o) \/ PrepareFails(p, o)
      PROVE  OrdersTyped' /\ LedgerTyped' /\ CallsTyped'
  <2>1. UNCHANGED <<status, receipt, transfer, unwritten, unread, mem, loaded, disk, faults>>
    BY <1>5 DEF Ask, SeeStale, Steal, LockTimeout, PrepareFails, files
  <2>2. PICK s \in {"waiting", "stealing", "idle"} :
          Go(p, o, s) /\ (lock' = lock \/ lock' = [lock EXCEPT ![o] = None])
    BY <1>5 DEF Ask, SeeStale, Steal, LockTimeout, PrepareFails, Release, files
  <2>3. CallsTyped'
    BY <2>2, StepMoves DEF Steps
  <2> QED BY <2>1, <2>3, GroupsKept
<1>6. ASSUME NEW p \in Processes, NEW o \in Orders, Enter(p, o)
      PROVE  OrdersTyped' /\ LedgerTyped' /\ CallsTyped'
  BY <1>6, EnterEffect
<1>7. ASSUME NEW p \in Processes, NEW o \in Orders, Sign(p, o)
      PROVE  OrdersTyped' /\ LedgerTyped' /\ CallsTyped'
  BY <1>7, SignEffect
<1>8. ASSUME NEW p \in Processes, NEW o \in Orders, PutToNode(p, o)
      PROVE  OrdersTyped' /\ LedgerTyped' /\ CallsTyped'
  BY <1>8, PutEffect, GroupsKept DEF PutToNode
<1>9. ASSUME NEW p \in Processes, NEW o \in Orders, VerifyAnswered(p, o)
      PROVE  OrdersTyped' /\ LedgerTyped' /\ CallsTyped'
  BY <1>9, AnsweredEffect, GroupsKept DEF VerifyAnswered
<1>10. ASSUME NEW p \in Processes, NEW o \in Orders, VerifyFails(p, o)
       PROVE  OrdersTyped' /\ LedgerTyped' /\ CallsTyped'
  <2>1. CallsTyped'
    BY <1>10, CallTyped, CallMoves DEF VerifyFails
  <2> QED BY <1>10, <2>1, GroupsKept DEF VerifyFails, KeptOnFailure
<1>11. ASSUME UNCHANGED vars PROVE OrdersTyped' /\ LedgerTyped' /\ CallsTyped'
  BY <1>11, GroupsKept DEF vars, files
<1> QED BY <1>1, <1>2, <1>3, <1>4, <1>5, <1>6, <1>7, <1>8, <1>9, <1>10, <1>11
        DEF Next, CallStep, VerifyByHand, BackendVerifies

(* Orders, transfers, ledgers, locks and calls are well typed in every     *)
(* reachable state, however many processes share the files.                *)
THEOREM TypeCorrect == Spec => []TypeOK
<1>1. Init => TypeOK
  <2> SUFFICES ASSUME Init PROVE TypeOK
    OBVIOUS
  <2>1. \A f : f = <<>> => IsLedger(f)
    BY DEF IsLedger
  <2>2. LedgerTyped
    BY <2>1, SignerAssumption DEF Init, LedgerTyped
  <2>3. OrdersTyped
    BY DEF Init, OrdersTyped
  <2>4. CallsTyped
    BY DEF Init, CallsTyped, Call, Idle, Steps
  <2> QED BY <2>2, <2>3, <2>4, Groups
<1>2. TypeOK /\ [Next]_vars => TypeOK'
  BY TypeStep
<1> QED BY <1>1, <1>2, PTL DEF Spec

-----------------------------------------------------------------------------
(* The backend behind the signer.                                          *)

(* A transfer is a deploy of its own: nothing else has its hash.           *)
PhaseOf(o) ==
    IF status[o] = "pending_payment" THEN "awaiting_payment"
    ELSE IF status[o] = "delivered" THEN "ready" ELSE "expired"
CoinOf(o) == IF receipt[o] = 0 THEN <<>> ELSE <<o, receipt[o]>>

Phases == [o \in Orders |-> PhaseOf(o)]
Coins == [o \in Orders |-> CoinOf(o)]

Backend == INSTANCE OrderPromise WITH
             Coins <- Orders \X Nat, NoCoin <- <<>>,
             free <- [o \in Orders |-> FALSE], phase <- Phases, coin <- Coins

PendingUnsold == \A o \in Orders : status[o] = "pending_payment" => receipt[o] = 0

(* A pending order that is delivered, as the backend promises it.          *)
LEMMA DeliverPromised ==
  ASSUME TypeOK, PendingUnsold, NEW o \in Orders, NEW n, Deliver(o, n)
  PROVE  PendingUnsold' /\ Backend!Next
<1>1. /\ status[o] = "pending_payment" /\ receipt[o] = 0
      /\ status' = [status EXCEPT ![o] = "delivered"] /\ receipt' = [receipt EXCEPT ![o] = n]
      /\ n \in Nat \ {0}
  BY TransferTyped DEF Deliver, PendingUnsold
<1>2. /\ \A x \in Orders : status'[x] = IF x = o THEN "delivered" ELSE status[x]
      /\ \A x \in Orders : receipt'[x] = IF x = o THEN n ELSE receipt[x]
  BY <1>1 DEF TypeOK
<1>3. PendingUnsold'
  BY <1>2 DEF PendingUnsold
<1>4. Phases[o] = "awaiting_payment" /\ Phases' = [Phases EXCEPT ![o] = "ready"]
  <2>1. PhaseOf(o) = "awaiting_payment"
        /\ \A x \in Orders : PhaseOf(x)' = IF x = o THEN "ready" ELSE PhaseOf(x)
    BY <1>1, <1>2 DEF PhaseOf
  <2> QED BY <2>1 DEF Phases
<1>5. Coins' = [Coins EXCEPT ![o] = <<o, n>>]
  <2>1. \A x \in Orders : CoinOf(x)' = IF x = o THEN <<o, n>> ELSE CoinOf(x)
    BY <1>1, <1>2 DEF CoinOf
  <2> QED BY <2>1 DEF Coins
<1>6. \A x \in Orders : Coins[x] # <<o, n>>
  <2> SUFFICES ASSUME NEW x \in Orders PROVE CoinOf(x) # <<o, n>>
    BY DEF Coins
  <2>1. CASE receipt[x] = 0
    BY <2>1 DEF CoinOf
  <2>2. CASE receipt[x] # 0
    BY <1>1, <2>2 DEF CoinOf
  <2> QED BY <2>1, <2>2
<1>7. PICK d \in Orders \X Nat : d = <<o, n>>
  BY <1>1
<1>8. Backend!Deliver(o, d)
  BY <1>4, <1>5, <1>6, <1>7 DEF Backend!Deliver, Backend!Becomes
<1> QED BY <1>3, <1>7, <1>8 DEF Backend!Next

LEMMA ExpirePromised ==
  ASSUME TypeOK, PendingUnsold, NEW o \in Orders, Expire(o)
  PROVE  PendingUnsold' /\ Backend!Next
<1>1. status[o] = "pending_payment" /\ receipt' = receipt
      /\ \A x \in Orders : status'[x] = IF x = o THEN "expired" ELSE status[x]
  BY DEF Expire, TypeOK
<1>2. Phases[o] = "awaiting_payment" /\ Coins' = Coins
      /\ Phases' = [x \in Orders |-> IF x \in {o} THEN "expired" ELSE Phases[x]]
  <2>1. PhaseOf(o) = "awaiting_payment"
        /\ \A x \in Orders : PhaseOf(x)' = IF x \in {o} THEN "expired" ELSE PhaseOf(x)
    BY <1>1 DEF PhaseOf
  <2>2. \A x \in Orders : CoinOf(x)' = CoinOf(x)
    BY <1>1 DEF CoinOf
  <2> QED BY <2>1, <2>2 DEF Phases, Coins
<1>3. Backend!CloseAll({o}, "awaiting_payment", "expired")
  BY <1>2 DEF Backend!CloseAll
<1>4. PendingUnsold'
  BY <1>1 DEF PendingUnsold
<1> QED BY <1>3, <1>4 DEF Backend!Next

(* What the signer takes from the backend is what the backend promises and *)
(* Orders keeps: an order is delivered once, for a deploy of its own, while *)
(* it waits for payment, and expires at most then, however many processes  *)
(* pay and verify it (orders.js:1202-1216, jobs.js:177-181).               *)
THEOREM BackendIsThePromised == Spec => [][Backend!Next]_(Backend!vars)
<1>1. Init => PendingUnsold
  BY DEF Init, PendingUnsold
<1>2. TypeOK /\ PendingUnsold /\ [Next]_vars => PendingUnsold' /\ [Backend!Next]_(Backend!vars)
  <2> SUFFICES ASSUME TypeOK, PendingUnsold, [Next]_vars
               PROVE  PendingUnsold' /\ [Backend!Next]_(Backend!vars)
    OBVIOUS
  <2>1. CASE UNCHANGED <<status, receipt>>
    BY <2>1 DEF PendingUnsold, Backend!vars, Phases, PhaseOf, Coins, CoinOf
  <2>2. ASSUME NEW o \in Orders, NEW n, Deliver(o, n)
        PROVE  PendingUnsold' /\ [Backend!Next]_(Backend!vars)
    BY <2>2, DeliverPromised
  <2>3. ASSUME NEW o \in Orders, Expire(o)
        PROVE  PendingUnsold' /\ [Backend!Next]_(Backend!vars)
    BY <2>3, ExpirePromised
  <2>4. \/ UNCHANGED <<status, receipt>>
        \/ \E o \in Orders : Expire(o) \/ \E n : Deliver(o, n)
    <3>1. ASSUME NEW p \in Processes, End(p) PROVE UNCHANGED <<status, receipt>>
      BY <3>1 DEF End
    <3>2. ASSUME NEW o \in Orders, Execute(o) PROVE UNCHANGED <<status, receipt>>
      BY <3>2 DEF Execute
    <3>3. ASSUME NEW p \in Processes, NEW o \in Orders,
                 CallStep(p, o) \/ SeeStale(p, o) \/ LockTimeout(p, o)
          PROVE  UNCHANGED <<status, receipt>>
      BY <3>3 DEF CallStep, Ask, Enter, Steal, Sign, PrepareFails, PutToNode, VerifyAnswered,
                  VerifyFails, SeeStale, LockTimeout
    <3>4. CASE UNCHANGED vars
      BY <3>4 DEF vars
    <3> QED BY <3>1, <3>2, <3>3, <3>4 DEF Next, VerifyByHand, BackendVerifies
  <2> QED BY <2>1, <2>2, <2>3, <2>4
<1> QED BY <1>1, <1>2, TypeCorrect, PTL DEF Spec

-----------------------------------------------------------------------------
(* One process at a time.                                                  *)

(* A call that is past its order's status and before its signature.        *)
Unsigned(p, o) == call[p][o].step \in {"waiting", "stealing", "preparing"}

(* No more was signed for o than the reads and writes that failed explain: *)
(* the next transfer is one more.                                          *)
Explained(o) == Len(transfer[o]) <= unwritten[o] + unread[o]

(* A ledger that is used was read; a call that may sign has no entry in it. *)
LedgerRead(p) ==
    \A o \in Orders :
        /\ call[p][o].step \in {"preparing", "broadcasting", "verifying"} => loaded[p]
        /\ call[p][o].step = "preparing" => o \notin DOMAIN mem[p]

(* An order without an entry, that is pending or about to be paid, has     *)
(* nothing signed that a failed read or write does not explain.            *)
NoEntryUnpaid(p) ==
    \A o \in Orders :
        o \notin DOMAIN Held(p) /\ (status[o] = "pending_payment" \/ Unsigned(p, o))
            => Explained(o)

(* The same of the file, which a process to come will read.                *)
NoFileEntryUnpaid ==
    \A o \in Orders : o \notin DOMAIN disk /\ status[o] = "pending_payment" => Explained(o)

(* The process forgets only what was delivered, or what it could not read. *)
ForgottenDelivered(p) ==
    loaded[p] => \A o \in (DOMAIN disk) \ (DOMAIN mem[p]) : status[o] = "delivered" \/ unread[o] > 0

SignedOnce == \A o \in Orders : Len(transfer[o]) <= 1 + unwritten[o] + unread[o]

LedgerInv(p) ==
    /\ LedgerRead(p) /\ NoEntryUnpaid(p) /\ NoFileEntryUnpaid
    /\ ForgottenDelivered(p) /\ SignedOnce

Inv(p) == TypeOK /\ LedgerInv(p)

(* A step that leaves the ledger, and what was signed, alone: a call asks, *)
(* moves on or ends, and an order is delivered or expires.                 *)
QuietStep(p) ==
    /\ UNCHANGED <<mem, loaded, disk, unwritten, unread>>
    /\ \A o \in Orders :
        /\ Len(transfer'[o]) = Len(transfer[o])
        /\ status'[o] = "pending_payment" => status[o] = "pending_payment"
        /\ status[o] = "delivered" => status'[o] = "delivered"
        /\ \/ call'[p][o].step = call[p][o].step
           \/ call'[p][o].step = "idle"
           \/ call'[p][o].step = "waiting" /\ (Unsigned(p, o) \/ status[o] = "pending_payment")
           \/ call'[p][o].step = "stealing" /\ Unsigned(p, o)
           \/ /\ call'[p][o].step \in {"broadcasting", "verifying"}
              /\ call[p][o].step = "broadcasting"

(* What becomes of the steps of p's calls when one of them changes.        *)
LEMMA OneCallMoves ==
  ASSUME TypeOK, NEW p \in Processes, NEW o \in Orders, NEW c \in Call,
         call' = [call EXCEPT ![p][o] = c], NEW x \in Orders
  PROVE  call'[p][x].step = IF x = o THEN c.step ELSE call[p][x].step
  BY DEF TypeOK

LEMMA StepKinds ==
  ASSUME TypeOK, [Next]_vars, NEW p, Processes = {p}
  PROVE  \/ QuietStep(p)
         \/ End(p)
         \/ \E o \in Orders : Enter(p, o) \/ Sign(p, o) \/ VerifyAnswered(p, o)
<1>0. p \in Processes
  OBVIOUS
<1> DEFINE Still == \A o \in Orders : call'[p][o].step = call[p][o].step
           Ledger == UNCHANGED <<mem, loaded, disk, unwritten, unread>>
           Kept == \A o \in Orders : Len(transfer'[o]) = Len(transfer[o])
           Status == \A o \in Orders : status'[o] = status[o]
<1>1. ASSUME NEW o \in Orders, NEW n, Deliver(o, n) PROVE QuietStep(p)
  <2>1. Still /\ Ledger /\ Kept
    BY <1>1 DEF Deliver, files
  <2>2. \A x \in Orders : status'[x] = IF x = o THEN "delivered" ELSE status[x]
    BY <1>1 DEF Deliver, TypeOK
  <2>3. status[o] = "pending_payment"
    BY <1>1 DEF Deliver
  <2> QED BY <2>1, <2>2, <2>3 DEF QuietStep
<1>2. ASSUME NEW o \in Orders, Execute(o) PROVE QuietStep(p)
  <2>1. SameTransfers
    BY <1>2, Moved DEF Execute, States
  <2> QED BY <1>2, <2>1 DEF Execute, QuietStep, SameTransfers, files
<1>3. ASSUME NEW o \in Orders, Expire(o) PROVE QuietStep(p)
  <2>1. Still /\ Ledger /\ Kept
    BY <1>3 DEF Expire, files
  <2>2. \A x \in Orders : status'[x] = IF x = o THEN "expired" ELSE status[x]
    BY <1>3 DEF Expire, TypeOK
  <2>3. status[o] = "pending_payment"
    BY <1>3 DEF Expire
  <2> QED BY <2>1, <2>2, <2>3 DEF QuietStep
<1>4. ASSUME NEW o \in Orders,
             Ask(p, o) \/ SeeStale(p, o) \/ Steal(p, o) \/ LockTimeout(p, o) \/ PrepareFails(p, o)
      PROVE  QuietStep(p)
  <2>1. Ledger /\ Kept /\ Status
    BY <1>4 DEF Ask, SeeStale, Steal, LockTimeout, PrepareFails, files
  <2>2. PICK s \in {"waiting", "stealing", "idle"} :
          /\ Go(p, o, s)
          /\ s = "waiting" => Unsigned(p, o) \/ status[o] = "pending_payment"
          /\ s = "stealing" => Unsigned(p, o)
    BY <1>4 DEF Ask, SeeStale, Steal, LockTimeout, PrepareFails, At, Unsigned
  <2>3. s \in Steps
    BY DEF Steps
  <2>4. PICK c \in Call : call' = [call EXCEPT ![p][o] = c] /\ c.step = s
    <3>1. [call[p][o] EXCEPT !.step = s] \in Call
          /\ call' = [call EXCEPT ![p][o] = [call[p][o] EXCEPT !.step = s]]
      BY <1>0, <2>2, <2>3, CallTyped
    <3>2. [call[p][o] EXCEPT !.step = s].step = s
      BY <1>0, CallTyped DEF Call
    <3> QED BY <3>1, <3>2
  <2>5. \A x \in Orders : call'[p][x].step = IF x = o THEN s ELSE call[p][x].step
    <3>1. \A x \in Orders : call'[p][x].step = IF x = o THEN c.step ELSE call[p][x].step
      BY <1>0, <2>4, OneCallMoves
    <3> QED BY <2>4, <3>1
  <2> QED BY <2>1, <2>2, <2>5 DEF QuietStep
<1>5. ASSUME NEW o \in Orders, PutToNode(p, o) PROVE QuietStep(p)
  <2>1. PICK c \in Call : call' = [call EXCEPT ![p][o] = c] /\ c.step \in {"broadcasting", "verifying"}
    BY <1>0, <1>5, PutEffect
  <2>2. \A x \in Orders : call'[p][x].step = IF x = o THEN c.step ELSE call[p][x].step
    BY <1>0, <2>1, OneCallMoves
  <2>3. Ledger /\ Status /\ call[p][o].step = "broadcasting"
    BY <1>5 DEF PutToNode, At
  <2>4. Kept
    BY <1>0, <1>5, PutEffect DEF SameTransfers
  <2> QED BY <2>1, <2>2, <2>3, <2>4 DEF QuietStep
<1>6. ASSUME NEW o \in Orders, VerifyFails(p, o) PROVE QuietStep(p)
  <2>1. \A x \in Orders : call'[p][x].step = IF x = o THEN Idle.step ELSE call[p][x].step
    BY <1>0, <1>6, CallTyped, OneCallMoves DEF VerifyFails
  <2>2. Ledger /\ Kept /\ Status
    BY <1>6 DEF VerifyFails, KeptOnFailure
  <2> QED BY <2>1, <2>2 DEF QuietStep, Idle
<1>7. ASSUME UNCHANGED vars PROVE QuietStep(p)
  BY <1>7 DEF vars, files, QuietStep
<1> QED BY <1>1, <1>2, <1>3, <1>4, <1>5, <1>6, <1>7
        DEF Next, CallStep, VerifyByHand, BackendVerifies

(* The invariant, against each kind of step.                               *)
LEMMA QuietKeeps ==
  ASSUME NEW p \in Processes, Inv(p), QuietStep(p)
  PROVE  LedgerInv(p)'
<1>1. Held(p)' = Held(p)
  BY DEF QuietStep, Held
<1>2. LedgerRead(p)'
  BY DEF QuietStep, LedgerRead, Inv, LedgerInv, Unsigned
<1>3. \A o \in Orders : Explained(o)' = Explained(o)
  BY DEF QuietStep, Explained
<1>4. \A o \in Orders : Unsigned(p, o)' => Unsigned(p, o) \/ status[o] = "pending_payment"
  BY DEF QuietStep, Unsigned
<1>5. NoEntryUnpaid(p)'
  BY <1>1, <1>3, <1>4 DEF QuietStep, NoEntryUnpaid, Inv, LedgerInv
<1>6. NoFileEntryUnpaid'
  BY <1>3 DEF QuietStep, NoFileEntryUnpaid, Inv, LedgerInv
<1>7. DOMAIN disk \subseteq Orders
  BY DEF Inv, TypeOK, IsLedger
<1>8. ForgottenDelivered(p)'
  BY <1>7 DEF QuietStep, ForgottenDelivered, Inv, LedgerInv
<1>9. SignedOnce'
  BY DEF QuietStep, SignedOnce, Inv, LedgerInv
<1> QED BY <1>2, <1>5, <1>6, <1>8, <1>9 DEF LedgerInv

LEMMA EnterKeeps ==
  ASSUME NEW p \in Processes, Inv(p), NEW o \in Orders, Enter(p, o)
  PROVE  LedgerInv(p)'
<1>0. TypeOK
  BY DEF Inv, LedgerInv
<1>1. UNCHANGED <<status, transfer, disk, unwritten>>
      /\ loaded'[p] = TRUE /\ call[p][o].step = "waiting"
  BY <1>0, EnterEffect DEF At
<1>2. \/ mem'[p] = Held(p) /\ unread' = unread
      \/ /\ ~loaded[p] /\ DOMAIN mem'[p] = {}
         /\ \A x \in Orders : unread'[x] = unread[x] + IF x \in DOMAIN disk THEN 1 ELSE 0
  BY <1>0, EnterEffect
<1>3. PICK c \in Call : /\ call' = [call EXCEPT ![p][o] = c]
                     /\ c.step = IF o \in DOMAIN mem'[p] THEN "verifying" ELSE "preparing"
  BY <1>0, EnterEffect
<1>4. \A x \in Orders : call'[p][x].step = IF x = o THEN c.step ELSE call[p][x].step
  BY <1>0, <1>3, OneCallMoves
<1>5. Held(p)' = mem'[p]
  BY <1>1 DEF Held
<1>6. \A x \in Orders : Len(transfer[x]) \in Nat /\ unwritten[x] \in Nat /\ unread[x] \in Nat
  BY <1>0, TransferTyped
<1>7. \A x \in Orders : unread'[x] \in Nat /\ unread'[x] >= unread[x]
  BY <1>2, <1>6
<1>8. \A x \in Orders : Explained(x) => Explained(x)'
  BY <1>1, <1>6, <1>7 DEF Explained
<1>9. \A x \in Orders : x \notin DOMAIN mem'[p] /\ x \in DOMAIN Held(p) => Explained(x)' /\ unread'[x] > 0
  <2> SUFFICES ASSUME NEW x \in Orders, x \notin DOMAIN mem'[p], x \in DOMAIN Held(p)
               PROVE  Explained(x)' /\ unread'[x] > 0
    OBVIOUS
  <2>1. ~loaded[p] /\ unread'[x] = unread[x] + IF x \in DOMAIN disk THEN 1 ELSE 0
    BY <1>2
  <2>2. unread'[x] = unread[x] + 1
    BY <2>1 DEF Held
  <2>3. Len(transfer[x]) <= 1 + unwritten[x] + unread[x]
    BY DEF SignedOnce, Inv, LedgerInv
  <2> QED BY <1>1, <1>6, <2>2, <2>3 DEF Explained
<1>10. LedgerRead(p)'
  <2>1. \A x \in Orders : call[p][x].step = "preparing" => loaded[p] /\ x \notin DOMAIN mem[p]
    BY DEF Inv, LedgerInv, LedgerRead
  <2>2. \A x \in Orders : call[p][x].step = "preparing" => x \notin DOMAIN mem'[p]
    BY <1>2, <2>1 DEF Held
  <2> QED BY <1>1, <1>3, <1>4, <2>2 DEF LedgerRead
<1>11. \A x \in Orders : Unsigned(p, x)' => Unsigned(p, x)
  BY <1>1, <1>4 DEF Unsigned
<1>12. NoEntryUnpaid(p)'
  <2> SUFFICES ASSUME NEW x \in Orders, x \notin DOMAIN mem'[p],
                      (status[x] = "pending_payment" \/ Unsigned(p, x))'
               PROVE  Explained(x)'
    BY <1>5 DEF NoEntryUnpaid
  <2>1. status[x] = "pending_payment" \/ Unsigned(p, x)
    BY <1>1, <1>11
  <2>2. x \notin DOMAIN Held(p) => Explained(x)
    BY <2>1 DEF NoEntryUnpaid, Inv, LedgerInv
  <2> QED BY <1>8, <1>9, <2>2
<1>13. NoFileEntryUnpaid'
  BY <1>1, <1>8 DEF NoFileEntryUnpaid, Inv, LedgerInv
<1>14. ForgottenDelivered(p)'
  <2> SUFFICES ASSUME NEW x \in DOMAIN disk, x \notin DOMAIN mem'[p], unread'[x] <= 0
               PROVE  status[x] = "delivered"
    <3>1. DOMAIN disk \subseteq Orders
      BY <1>0 DEF TypeOK, IsLedger
    <3>2. \A x \in DOMAIN disk : unread'[x] > 0 \/ unread'[x] <= 0
      BY <1>7, <3>1
    <3> QED BY <1>1, <3>2 DEF ForgottenDelivered
  <2>1. x \in Orders
    BY <1>0 DEF TypeOK, IsLedger
  <2>2. x \notin DOMAIN Held(p)
    BY <1>7, <1>9, <2>1
  <2>3. loaded[p] /\ x \notin DOMAIN mem[p]
    BY <2>2 DEF Held
  <2>4. ~(unread[x] > 0)
    BY <1>6, <1>7, <2>1
  <2> QED BY <2>3, <2>4 DEF ForgottenDelivered, Inv, LedgerInv
<1>15. SignedOnce'
  <2> SUFFICES ASSUME NEW x \in Orders PROVE Len(transfer[x]) <= 1 + unwritten[x] + unread'[x]
    BY <1>1 DEF SignedOnce
  <2>1. Len(transfer[x]) <= 1 + unwritten[x] + unread[x]
    BY DEF SignedOnce, Inv, LedgerInv
  <2> QED BY <1>6, <1>7, <2>1
<1> QED BY <1>10, <1>12, <1>13, <1>14, <1>15 DEF LedgerInv

LEMMA SignKeeps ==
  ASSUME NEW p \in Processes, Inv(p), NEW o \in Orders, Sign(p, o)
  PROVE  LedgerInv(p)'
<1>0. TypeOK
  BY DEF Inv, LedgerInv
<1>1. /\ UNCHANGED <<status, loaded, unread>> /\ call[p][o].step = "preparing"
      /\ DOMAIN mem'[p] = DOMAIN mem[p] \union {o}
      /\ \A x \in Orders : Len(transfer'[x]) = IF x = o THEN Len(transfer[x]) + 1 ELSE Len(transfer[x])
      /\ \/ DOMAIN disk' = DOMAIN mem[p] \union {o} /\ unwritten' = unwritten
         \/ disk' = disk /\ unwritten' = [unwritten EXCEPT ![o] = unwritten[o] + 1]
  BY <1>0, SignEffect DEF At
<1>2. PICK c \in Call : call' = [call EXCEPT ![p][o] = c] /\ c.step = "broadcasting"
  BY <1>0, SignEffect
<1>3. \A x \in Orders : call'[p][x].step = IF x = o THEN "broadcasting" ELSE call[p][x].step
  <2>1. \A x \in Orders : call'[p][x].step = IF x = o THEN c.step ELSE call[p][x].step
    BY <1>0, <1>2, OneCallMoves
  <2> QED BY <1>2, <2>1
<1>4. \A x \in Orders : Len(transfer[x]) \in Nat /\ unwritten[x] \in Nat /\ unread[x] \in Nat
  BY <1>0, TransferTyped
<1>5. \A x \in Orders : unwritten'[x] \in Nat /\ unwritten'[x] >= unwritten[x]
  <2>1. CASE unwritten' = unwritten
    BY <1>4, <2>1
  <2>2. CASE unwritten' = [unwritten EXCEPT ![o] = unwritten[o] + 1]
    <3>1. DOMAIN unwritten = Orders
      BY <1>0 DEF TypeOK
    <3>2. \A x \in Orders : unwritten'[x] = IF x = o THEN unwritten[x] + 1 ELSE unwritten[x]
      BY <2>2, <3>1
    <3> QED BY <1>4, <3>2
  <2> QED BY <1>1, <2>1, <2>2
<1>6. loaded[p] /\ o \notin DOMAIN mem[p] /\ loaded'[p]
  BY <1>1 DEF Inv, LedgerInv, LedgerRead
<1>7. Held(p) = mem[p] /\ Held(p)' = mem'[p]
  BY <1>6 DEF Held
<1>8. Explained(o)
  <2>1. o \notin DOMAIN Held(p)
    BY <1>6, <1>7
  <2>2. Unsigned(p, o)
    BY <1>1 DEF Unsigned
  <2> QED BY <2>1, <2>2 DEF Inv, LedgerInv, NoEntryUnpaid
<1>9. \A x \in Orders : x # o /\ Explained(x) => Explained(x)'
  BY <1>1, <1>4, <1>5 DEF Explained
<1>10. LedgerRead(p)'
  BY <1>1, <1>3, <1>6 DEF LedgerRead, Inv, LedgerInv
<1>11. NoEntryUnpaid(p)'
  <2> SUFFICES ASSUME NEW x \in Orders, (x \notin DOMAIN Held(p))',
                      (status[x] = "pending_payment" \/ Unsigned(p, x))'
               PROVE  Explained(x)'
    BY DEF NoEntryUnpaid
  <2>1. x # o /\ x \notin DOMAIN Held(p)
    BY <1>1, <1>7
  <2>2. status[x] = "pending_payment" \/ Unsigned(p, x)
    BY <1>1, <1>3, <2>1 DEF Unsigned
  <2> QED BY <1>9, <2>1, <2>2 DEF Inv, LedgerInv, NoEntryUnpaid
<1>12. NoFileEntryUnpaid'
  <2> SUFFICES ASSUME NEW x \in Orders, (x \notin DOMAIN disk)', (status[x] = "pending_payment")'
               PROVE  Explained(x)'
    BY DEF NoFileEntryUnpaid
  <2>1. CASE x = o
    <3>1. unwritten'[o] = unwritten[o] + 1
      BY <1>0, <1>1, <2>1 DEF TypeOK
    <3>2. Len(transfer'[o]) = Len(transfer[o]) + 1
      BY <1>1
    <3>3. Len(transfer'[o]) <= unwritten'[o] + unread[o]
      BY <1>4, <1>8, <3>1, <3>2 DEF Explained
    <3> QED BY <1>1, <2>1, <3>3 DEF Explained
  <2>2. CASE x # o
    <3>1. x \notin DOMAIN disk \/ x \notin DOMAIN mem[p]
      BY <1>1
    <3>2. Explained(x)
      BY <1>1, <1>7, <3>1 DEF Inv, LedgerInv, NoEntryUnpaid, NoFileEntryUnpaid
    <3> QED BY <1>9, <2>2, <3>2
  <2> QED BY <2>1, <2>2
<1>13. ForgottenDelivered(p)'
  BY <1>1, <1>6 DEF ForgottenDelivered, Inv, LedgerInv
<1>14. SignedOnce'
  <2> SUFFICES ASSUME NEW x \in Orders PROVE Len(transfer'[x]) <= 1 + unwritten'[x] + unread[x]
    BY <1>1 DEF SignedOnce
  <2>1. CASE x = o
    <3>1. Len(transfer'[o]) = Len(transfer[o]) + 1 /\ unwritten'[o] >= unwritten[o]
      BY <1>1, <1>5
    <3>2. Len(transfer'[o]) <= 1 + unwritten'[o] + unread[o]
      BY <1>4, <1>5, <1>8, <3>1 DEF Explained
    <3> QED BY <2>1, <3>2
  <2>2. CASE x # o
    <3>1. Len(transfer'[x]) = Len(transfer[x]) /\ unwritten'[x] >= unwritten[x]
      BY <1>1, <1>4, <1>5, <2>2
    <3>2. Len(transfer[x]) <= 1 + unwritten[x] + unread[x]
      BY DEF SignedOnce, Inv, LedgerInv
    <3> QED BY <1>4, <1>5, <3>1, <3>2
  <2> QED BY <2>1, <2>2
<1> QED BY <1>10, <1>11, <1>12, <1>13, <1>14 DEF LedgerInv

LEMMA AnsweredKeeps ==
  ASSUME NEW p \in Processes, Inv(p), NEW o \in Orders, VerifyAnswered(p, o)
  PROVE  LedgerInv(p)'
<1>0. TypeOK
  BY DEF Inv, LedgerInv
<1>1. /\ call[p][o].step = "verifying" /\ status[o] = "delivered"
      /\ UNCHANGED <<status, transfer, loaded, unwritten, unread>>
      /\ DOMAIN mem'[p] = DOMAIN mem[p] \ {o}
      /\ \/ o \in DOMAIN mem[p] /\ DOMAIN disk' = DOMAIN mem[p] \ {o}
         \/ disk' = disk
  BY <1>0, AnsweredEffect DEF At
<1>2. \A x \in Orders : call'[p][x].step = IF x = o THEN "idle" ELSE call[p][x].step
  <2>1. call' = [call EXCEPT ![p][o] = Idle] /\ Idle \in Call /\ Idle.step = "idle"
    BY <1>0, AnsweredEffect, CallTyped DEF Idle
  <2>2. \A x \in Orders : call'[p][x].step = IF x = o THEN Idle.step ELSE call[p][x].step
    BY <1>0, <2>1, OneCallMoves
  <2> QED BY <2>1, <2>2
<1>3. loaded[p] /\ loaded'[p]
  BY <1>1 DEF Inv, LedgerInv, LedgerRead
<1>4. Held(p) = mem[p] /\ Held(p)' = mem'[p]
  BY <1>3 DEF Held
<1>5. LedgerRead(p)'
  BY <1>1, <1>2, <1>3 DEF LedgerRead, Inv, LedgerInv
<1>6. \A x \in Orders : Explained(x)' = Explained(x)
  BY <1>1 DEF Explained
<1>7. NoEntryUnpaid(p)'
  <2> SUFFICES ASSUME NEW x \in Orders, (x \notin DOMAIN Held(p))',
                      (status[x] = "pending_payment" \/ Unsigned(p, x))'
               PROVE  Explained(x)'
    BY DEF NoEntryUnpaid
  <2>1. x # o
    BY <1>1, <1>2 DEF Unsigned
  <2>2. x \notin DOMAIN Held(p) /\ (status[x] = "pending_payment" \/ Unsigned(p, x))
    BY <1>1, <1>2, <1>4, <2>1 DEF Unsigned
  <2> QED BY <1>6, <2>2 DEF Inv, LedgerInv, NoEntryUnpaid
<1>8. NoFileEntryUnpaid'
  <2> SUFFICES ASSUME NEW x \in Orders, (x \notin DOMAIN disk)', (status[x] = "pending_payment")'
               PROVE  Explained(x)'
    BY DEF NoFileEntryUnpaid
  <2>1. x # o /\ status[x] = "pending_payment"
    BY <1>1
  <2>2. x \notin DOMAIN disk \/ x \notin DOMAIN mem[p]
    BY <1>1, <2>1
  <2> QED BY <1>4, <1>6, <2>1, <2>2 DEF Inv, LedgerInv, NoEntryUnpaid, NoFileEntryUnpaid
<1>9. ForgottenDelivered(p)'
  BY <1>1, <1>3 DEF ForgottenDelivered, Inv, LedgerInv
<1>10. SignedOnce'
  BY <1>1 DEF SignedOnce, Inv, LedgerInv
<1> QED BY <1>5, <1>7, <1>8, <1>9, <1>10 DEF LedgerInv

LEMMA EndKeeps ==
  ASSUME NEW p \in Processes, Inv(p), End(p)
  PROVE  LedgerInv(p)'
<1>1. /\ loaded'[p] = FALSE /\ UNCHANGED <<status, transfer, disk, unwritten, unread>>
      /\ \A o \in Orders : call'[p][o].step = "idle"
  BY EndEffect DEF Inv, LedgerInv
<1>2. Held(p)' = disk
  BY <1>1 DEF Held
<1>3. \A o \in Orders : ~Unsigned(p, o)' /\ Explained(o)' = Explained(o)
  BY <1>1 DEF Unsigned, Explained
<1>4. NoEntryUnpaid(p)'
  BY <1>1, <1>2, <1>3 DEF NoEntryUnpaid, NoFileEntryUnpaid, Inv, LedgerInv
<1> QED BY <1>1, <1>3, <1>4 DEF LedgerRead, NoFileEntryUnpaid, ForgottenDelivered, SignedOnce, Inv, LedgerInv

(* What a lone process keeps true, through kills, failed writes and reads: *)
(* its ledger and the file, or such a failure, explain every transfer it   *)
(* signed for an order that is still pending, or about to be paid.         *)
THEOREM Invariant ==
  ASSUME NEW p, Processes = {p}
  PROVE  Spec => []Inv(p)
<1>0. p \in Processes
  OBVIOUS
<1>1. Init => LedgerInv(p)
  <2> SUFFICES ASSUME Init PROVE LedgerInv(p)
    OBVIOUS
  <2>1. \A o \in Orders : Len(transfer[o]) = 0 /\ unwritten[o] = 0 /\ unread[o] = 0 /\ call[p][o].step = "idle"
    BY <1>0 DEF Init, Idle
  <2>2. ~loaded[p]
    BY <1>0 DEF Init
  <2>3. \A o \in Orders : Explained(o)
    BY <2>1 DEF Explained
  <2> QED BY <2>1, <2>2, <2>3
          DEF LedgerInv, LedgerRead, NoEntryUnpaid, NoFileEntryUnpaid, ForgottenDelivered, SignedOnce
<1>2. Inv(p) /\ [Next]_vars => LedgerInv(p)'
  <2> SUFFICES ASSUME Inv(p), [Next]_vars PROVE LedgerInv(p)'
    OBVIOUS
  <2>1. TypeOK
    BY DEF Inv
  <2> QED BY <1>0, <2>1, StepKinds, QuietKeeps, EndKeeps, EnterKeeps, SignKeeps, AnsweredKeeps
<1>3. Inv(p) <=> TypeOK /\ LedgerInv(p)
  BY DEF Inv
<1> QED BY <1>1, <1>2, <1>3, TypeCorrect, PTL DEF Spec

(* Retries, concurrent calls for different orders, lost answers and kills  *)
(* never make a lone process pay an order twice: each further transfer     *)
(* takes a write or a read of the file that failed (casper-signer.ts:      *)
(* 22-50, 847-851, 867-871).                                               *)
THEOREM PaidOnce ==
  ASSUME NEW p, Processes = {p}
  PROVE  Spec => []PaysOnce
<1>1. Inv(p) => PaysOnce
  <2> SUFFICES ASSUME Inv(p), NEW o \in Orders PROVE Cardinality(Sent(o)) <= 1 + unwritten[o] + unread[o]
    BY DEF PaysOnce
  <2>1. PICK n \in Nat : n = Len(transfer[o]) /\ DOMAIN transfer[o] = 1 .. n
    BY TransferTyped DEF Inv
  <2>2. IsFiniteSet(1 .. n) /\ Cardinality(1 .. n) = n
    BY FS_Interval
  <2>3. Sent(o) \in SUBSET (1 .. n)
    BY <2>1 DEF Sent
  <2>4. IsFiniteSet(Sent(o)) /\ Cardinality(Sent(o)) <= n
    BY <2>2, <2>3, FS_Subset
  <2>5. Cardinality(Sent(o)) \in Nat /\ unwritten[o] \in Nat /\ unread[o] \in Nat
    BY <2>4, FS_CardinalityType, TransferTyped DEF Inv
  <2>6. n <= 1 + unwritten[o] + unread[o]
    BY <2>1 DEF Inv, LedgerInv, SignedOnce
  <2> QED BY <2>4, <2>5, <2>6
<1> QED BY <1>1, Invariant, PTL

(* A transfer that reached a node for an order still pending is in the     *)
(* file, unless it could not be written or read back                       *)
(* (casper-signer.ts:30-44).                                               *)
THEOREM PaymentRemembered ==
  ASSUME NEW p, Processes = {p}
  PROVE  Spec => []SentIsRecorded
<1>1. Inv(p) => SentIsRecorded
  <2> SUFFICES ASSUME Inv(p), NEW o \in Orders, status[o] = "pending_payment", unwritten[o] = 0,
                      unread[o] = 0, Sent(o) # {}, o \notin DOMAIN disk
               PROVE  FALSE
    BY DEF SentIsRecorded
  <2>1. PICK n \in Nat : n = Len(transfer[o]) /\ DOMAIN transfer[o] = 1 .. n
    BY TransferTyped DEF Inv
  <2>2. n >= 1
    BY <2>1 DEF Sent
  <2>3. Explained(o)
    BY DEF Inv, LedgerInv, NoFileEntryUnpaid
  <2> QED BY <2>1, <2>2, <2>3 DEF Explained
<1> QED BY <1>1, Invariant, PTL

(* An entry leaves the disk when its order was delivered, or after a read  *)
(* of the file that failed (casper-signer.ts:34-35, 847-851).              *)
THEOREM EntriesKept ==
  ASSUME NEW p, Processes = {p}
  PROVE  Spec => EntryKeptUntilDelivered
<1>0. p \in Processes
  OBVIOUS
<1>1. Inv(p) /\ [Next]_vars => [\A o \in (DOMAIN disk) \ (DOMAIN disk') :
                                        status[o] = "delivered" \/ unread[o] > 0]_vars
  <2> SUFFICES ASSUME Inv(p), [Next]_vars
               PROVE  \A o \in (DOMAIN disk) \ (DOMAIN disk') : status[o] = "delivered" \/ unread[o] > 0
    OBVIOUS
  <2>1. TypeOK
    BY DEF Inv, LedgerInv
  <2>2. QuietStep(p) \/ End(p) => disk' = disk
    BY DEF QuietStep, End
  <2>3. ASSUME NEW o \in Orders, Enter(p, o) PROVE disk' = disk
    BY <2>3 DEF Enter
  <2>4. ASSUME NEW o \in Orders, Sign(p, o)
        PROVE  \A x \in (DOMAIN disk) \ (DOMAIN disk') : status[x] = "delivered" \/ unread[x] > 0
    <3>1. loaded[p]
      BY <2>4 DEF Inv, LedgerInv, LedgerRead, Sign, At
    <3>2. DOMAIN disk' = DOMAIN mem[p] \union {o} \/ disk' = disk
      BY <1>0, <2>1, <2>4, SignEffect
    <3> QED BY <3>1, <3>2 DEF Inv, LedgerInv, ForgottenDelivered
  <2>5. ASSUME NEW o \in Orders, VerifyAnswered(p, o)
        PROVE  \A x \in (DOMAIN disk) \ (DOMAIN disk') : status[x] = "delivered" \/ unread[x] > 0
    <3>1. loaded[p]
      BY <2>5 DEF Inv, LedgerInv, LedgerRead, VerifyAnswered, At
    <3>2. (DOMAIN disk' = DOMAIN mem[p] \ {o} \/ disk' = disk) /\ status[o] = "delivered"
      BY <1>0, <2>1, <2>5, AnsweredEffect
    <3> QED BY <3>1, <3>2 DEF Inv, LedgerInv, ForgottenDelivered
  <2> QED BY <2>1, <2>2, <2>3, <2>4, <2>5, StepKinds
<1> QED BY <1>1, Invariant, PTL DEF Spec, EntryKeptUntilDelivered

(* A call for an order whose entry the process forgot, but could not take  *)
(* off the disk, is over: the order was delivered, and nobody asks again;  *)
(* or the process could not read the entry.                                *)
ForgottenUnasked(p) ==
    loaded[p] => \A o \in (DOMAIN disk) \ (DOMAIN mem[p]) : ~Unsigned(p, o) \/ unread[o] > 0

LEMMA UnaskedStep ==
  ASSUME NEW p, Processes = {p}, Inv(p), ForgottenUnasked(p), [Next]_vars
  PROVE  ForgottenUnasked(p)'
<1>0. p \in Processes /\ TypeOK /\ IsLedger(disk)
  BY DEF Inv, TypeOK
<1>1. ASSUME QuietStep(p) PROVE ForgottenUnasked(p)'
  <2> SUFFICES ASSUME loaded[p], NEW o \in (DOMAIN disk) \ (DOMAIN mem[p]), Unsigned(p, o)',
                      ~(unread[o] > 0)
               PROVE  FALSE
    BY <1>1 DEF QuietStep, ForgottenUnasked
  <2>1. o \in Orders
    BY <1>0 DEF IsLedger
  <2>2. status[o] = "delivered" /\ ~Unsigned(p, o)
    BY DEF Inv, LedgerInv, ForgottenDelivered, ForgottenUnasked
  <2> QED BY <1>1, <2>1, <2>2 DEF QuietStep, Unsigned
<1>2. ASSUME End(p) PROVE ForgottenUnasked(p)'
  BY <1>0, <1>2, EndEffect DEF ForgottenUnasked
<1>3. ASSUME NEW o \in Orders, Enter(p, o) PROVE ForgottenUnasked(p)'
  <2>1. disk' = disk /\ call[p][o].step = "waiting"
    BY <1>0, <1>3, EnterEffect DEF At
  <2>2. PICK c \in Call : call' = [call EXCEPT ![p][o] = c]
    BY <1>0, <1>3, EnterEffect
  <2>3. \A x \in Orders : call'[p][x].step = IF x = o THEN c.step ELSE call[p][x].step
    BY <1>0, <2>2, OneCallMoves
  <2>4. \A x \in Orders : Unsigned(p, x)' => Unsigned(p, x)
    BY <2>1, <2>3 DEF Unsigned
  <2>5. CASE mem'[p] = Held(p) /\ unread' = unread
    BY <1>0, <2>1, <2>4, <2>5 DEF ForgottenUnasked, Held, IsLedger
  <2>6. CASE \A x \in Orders : unread'[x] = unread[x] + IF x \in DOMAIN disk THEN 1 ELSE 0
    <3>1. \A x \in DOMAIN disk : unread'[x] > 0
      <4> SUFFICES ASSUME NEW x \in DOMAIN disk PROVE unread'[x] > 0
        OBVIOUS
      <4>1. x \in Orders
        BY <1>0 DEF IsLedger
      <4>2. unread[x] \in Nat /\ unread'[x] = unread[x] + 1
        BY <1>0, <2>6, <4>1, TransferTyped
      <4> QED BY <4>2
    <3> QED BY <2>1, <3>1 DEF ForgottenUnasked
  <2> QED BY <1>0, <1>3, <2>5, <2>6, EnterEffect
<1>4. ASSUME NEW o \in Orders, Sign(p, o) PROVE ForgottenUnasked(p)'
  <2>1. /\ loaded[p] /\ loaded' = loaded /\ unread' = unread
        /\ DOMAIN mem'[p] = DOMAIN mem[p] \union {o}
        /\ DOMAIN disk' = DOMAIN mem[p] \union {o} \/ disk' = disk
    BY <1>0, <1>4, SignEffect DEF Inv, LedgerInv, LedgerRead, Sign, At
  <2>2. PICK c \in Call : call' = [call EXCEPT ![p][o] = c] /\ c.step = "broadcasting"
    BY <1>0, <1>4, SignEffect
  <2>3. \A x \in Orders : call'[p][x].step = IF x = o THEN c.step ELSE call[p][x].step
    BY <1>0, <2>2, OneCallMoves
  <2>4. \A x \in Orders : Unsigned(p, x)' => Unsigned(p, x)
    BY <2>2, <2>3 DEF Unsigned
  <2> QED BY <1>0, <2>1, <2>4 DEF ForgottenUnasked, IsLedger
<1>5. ASSUME NEW o \in Orders, VerifyAnswered(p, o) PROVE ForgottenUnasked(p)'
  <2>1. /\ loaded[p] /\ loaded' = loaded /\ unread' = unread
        /\ DOMAIN mem'[p] = DOMAIN mem[p] \ {o}
        /\ DOMAIN disk' = DOMAIN mem[p] \ {o} \/ disk' = disk
    BY <1>0, <1>5, AnsweredEffect DEF Inv, LedgerInv, LedgerRead, VerifyAnswered, At
  <2>2. call' = [call EXCEPT ![p][o] = Idle] /\ Idle \in Call /\ Idle.step = "idle"
    BY <1>0, <1>5, AnsweredEffect, CallTyped DEF Idle
  <2>3. \A x \in Orders : call'[p][x].step = IF x = o THEN Idle.step ELSE call[p][x].step
    BY <1>0, <2>2, OneCallMoves
  <2>4. ~Unsigned(p, o)' /\ \A x \in Orders : Unsigned(p, x)' => Unsigned(p, x)
    BY <2>2, <2>3 DEF Unsigned
  <2> QED BY <1>0, <2>1, <2>4 DEF ForgottenUnasked, IsLedger
<1> QED BY <1>0, <1>1, <1>2, <1>3, <1>4, <1>5, StepKinds

(* A call that is about to sign knows of every hash on the disk, except    *)
(* one its process could not read.                                         *)
ReverifiesWhatItRead ==
    \A p \in Processes, o \in Orders :
        At(p, o, "preparing") /\ unread[o] = 0 => o \notin DOMAIN disk

(* What the comment promises of a second process holds when the second     *)
(* comes after the first: one process at a time never signs for an order   *)
(* that has a recorded hash it could read (casper-signer.ts:44-50).        *)
THEOREM OneProcessReverifies ==
  ASSUME NEW p, Processes = {p}
  PROVE  Spec => []ReverifiesWhatItRead
<1>1. Init => ForgottenUnasked(p)
  BY DEF Init, ForgottenUnasked
<1>2. Inv(p) /\ ForgottenUnasked(p) /\ [Next]_vars => ForgottenUnasked(p)'
  BY UnaskedStep
<1>3. Inv(p) /\ ForgottenUnasked(p) => ReverifiesWhatItRead
  <2> SUFFICES ASSUME Inv(p), ForgottenUnasked(p), NEW o \in Orders, call[p][o].step = "preparing",
                      unread[o] = 0, o \in DOMAIN disk
               PROVE  FALSE
    BY DEF ReverifiesWhatItRead, At
  <2>1. loaded[p] /\ o \notin DOMAIN mem[p] /\ Unsigned(p, o)
    BY DEF Inv, LedgerInv, LedgerRead, Unsigned
  <2> QED BY <2>1 DEF ForgottenUnasked
<1> QED BY <1>1, <1>2, <1>3, Invariant, PTL DEF Spec
=============================================================================
