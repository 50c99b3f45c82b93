-------------------------------- MODULE Signer --------------------------------
(***************************************************************************)
(* How an agent pays its orders from its own key: payAndVerifyOrder of     *)
(* sdk/src/casper-signer.ts, which the CLI (sdk/src/commands/purchase.ts)  *)
(* and the MCP server (sdk/src/mcp.ts) call, and the verify calls of       *)
(* sdk/src/client.ts.                                                      *)
(*                                                                         *)
(* A process keeps a ledger of the transfers it signed, one per order: a   *)
(* map in memory, read once from inflight.json and written there whole.    *)
(* From the ledger's look-up to the end of the broadcast a call holds the  *)
(* order's lockfile.  A process may stop at any await; the read of the     *)
(* file or a write may fail unseen; nodes lose answers.                    *)
(*                                                                         *)
(* Key handling, the treasury allowlist and the order's terms are left     *)
(* out, except that they may refuse a call before anything is signed.      *)
(***************************************************************************)
EXTENDS Naturals, Sequences, FiniteSets, Functions

CONSTANTS
    Processes,   \* CLI runs and MCP servers of one agent, sharing its files
    Orders,      \* its orders, created and pending payment
    Nodes,       \* Casper nodes that may answer the probe
    None, Dead,  \* no lockfile; one whose process stopped
    MaxFaults    \* bound: processes killed in a call, failed reads and writes

ASSUME SignerAssumption ==
    /\ None \notin Processes /\ Dead \notin Processes /\ None # Dead
    /\ MaxFaults \in Nat

VARIABLES
    status,     \* status[o]: of the order, at the backend
    receipt,    \* receipt[o]: the transfer it was delivered for, 0 if none
    transfer,   \* transfer[o]: state of each transfer ever signed for o
    mem,        \* mem[p]: inflightPayments, the ledger of process p
    loaded,     \* loaded[p]: ledgerHydrated
    disk,       \* inflight.json
    lock,       \* lock[o]: who made the order's lockfile
    call,       \* call[p][o]: where the one call of p for o is
    unwritten,  \* unwritten[o]: transfers of o whose entry could not be written
    unread,     \* unread[o]: reads of the file that failed when it had an entry of o
    faults      \* kills, failed reads and failed writes so far

files == <<disk, lock>>
vars == <<status, receipt, transfer, mem, loaded, files, call, unwritten, unread, faults>>

IsLedger(f) == DOMAIN f \subseteq Orders /\ f \in [DOMAIN f -> Nat \ {0}]
Steps == {"idle", "waiting", "stealing", "preparing", "broadcasting", "verifying"}
Idle == [step |-> "idle", hash |-> 0, left |-> {}]

TypeOK ==
    /\ status \in [Orders -> {"pending_payment", "delivered", "expired"}]
    /\ receipt \in [Orders -> Nat]
    /\ transfer \in [Orders -> Seq({"signed", "accepted", "executed"})]
    /\ DOMAIN mem = Processes /\ \A p \in Processes : IsLedger(mem[p])
    /\ loaded \in [Processes -> BOOLEAN] /\ IsLedger(disk)
    /\ lock \in [Orders -> Processes \union {None, Dead}]
    /\ call \in [Processes -> [Orders -> [step : Steps, hash : Nat, left : SUBSET Nodes]]]
    /\ unwritten \in [Orders -> Nat] /\ unread \in [Orders -> Nat]
    /\ faults \in 0 .. MaxFaults

Init ==
    /\ status = [o \in Orders |-> "pending_payment"]
    /\ receipt = [o \in Orders |-> 0]
    /\ transfer = [o \in Orders |-> <<>>]
    /\ mem = [p \in Processes |-> <<>>]
    /\ loaded = [p \in Processes |-> FALSE]
    /\ disk = <<>>
    /\ lock = [o \in Orders |-> None]
    /\ call = [p \in Processes |-> [o \in Orders |-> Idle]]
    /\ unwritten = [o \in Orders |-> 0]
    /\ unread = [o \in Orders |-> 0]
    /\ faults = 0

-----------------------------------------------------------------------------
(* The ledger.                                                             *)

Fails == faults < MaxFaults /\ faults' = faults + 1

(* Mutant: inflight.json is not read. *)
HydratesNothing(p, ledger) == ledger = mem[p] /\ UNCHANGED <<unread, faults>>

(* hydrateLedger reads the file once in the life of a process.  A file     *)
(* that cannot be read or parsed is taken for an empty ledger: a duplicate *)
(* is risked rather than an agent stopped.                                 *)
Hydrates(p, ledger) ==
    \/ loaded[p] /\ ledger = mem[p] /\ UNCHANGED <<unread, faults>>
    \/ ~loaded[p] /\ ledger = disk /\ UNCHANGED <<unread, faults>>
    \/ /\ ~loaded[p] /\ ledger = <<>> /\ Fails
       /\ unread' = [o \in Orders |-> unread[o] + IF o \in DOMAIN disk THEN 1 ELSE 0]

With(ledger, o, n) == [x \in DOMAIN ledger \union {o} |-> IF x = o THEN n ELSE ledger[x]]
Without(ledger, o) == Restrict(ledger, DOMAIN ledger \ {o})

(* Mutant: a write that fails leaves half a file. *)
PersistTorn(ledger) ==
    \/ disk' = ledger /\ UNCHANGED faults
    \/ Fails /\ disk' = [o \in DOMAIN ledger |-> 0]

(* persistLedger: the file becomes the process's own map, whatever another *)
(* process wrote there; a failure is swallowed.                            *)
Persist(ledger) ==
    \/ disk' = ledger /\ UNCHANGED faults
    \/ Fails /\ UNCHANGED disk

At(p, o, step) == call[p][o].step = step
Go(p, o, step) == call' = [call EXCEPT ![p][o].step = step]

-----------------------------------------------------------------------------
(* A call, from the order's status to the lock.                            *)

(* The per-order promise: one call of a process for an order at a time.    *)
Ask(p, o) ==
    /\ At(p, o, "idle") /\ status[o] = "pending_payment"
    /\ Go(p, o, "waiting")
    /\ UNCHANGED <<status, receipt, transfer, mem, loaded, files, unwritten, unread, faults>>

(* The lockfile is created and, before the process waits again, the ledger *)
(* is looked up: an entry is only verified, and the lock is released.      *)
Enter(p, o) ==
    /\ At(p, o, "waiting") /\ lock[o] = None
    /\ \E ledger \in {mem[p], disk, <<>>} :
        /\ Hydrates(p, ledger)
        /\ loaded' = [loaded EXCEPT ![p] = TRUE]
        /\ mem' = [mem EXCEPT ![p] = ledger]
        /\ IF o \in DOMAIN ledger
           THEN /\ call' = [call EXCEPT ![p][o] = [step |-> "verifying", left |-> {},
                                                   hash |-> ledger[o]]]
                /\ UNCHANGED lock
           ELSE /\ Go(p, o, "preparing")
                /\ lock' = [lock EXCEPT ![o] = p]
    /\ UNCHANGED <<status, receipt, transfer, disk, unwritten>>

(* Mutant: nobody steals a lock. *)
StaleNever(o) == FALSE

(* A lock is stale when it is older than any holder can be.                *)
Stale(o) == lock[o] = Dead

SeeStale(p, o) ==
    /\ At(p, o, "waiting") /\ Stale(o)
    /\ Go(p, o, "stealing")
    /\ UNCHANGED <<status, receipt, transfer, mem, loaded, files, unwritten, unread, faults>>

(* The file that is removed may by now be another process's.               *)
Steal(p, o) ==
    /\ At(p, o, "stealing")
    /\ lock' = [lock EXCEPT ![o] = None]
    /\ Go(p, o, "waiting")
    /\ UNCHANGED <<status, receipt, transfer, mem, loaded, disk, unwritten, unread, faults>>

LockTimeout(p, o) ==
    /\ At(p, o, "waiting") /\ lock[o] # None
    /\ Go(p, o, "idle")
    /\ UNCHANGED <<status, receipt, transfer, mem, loaded, files, unwritten, unread, faults>>

-----------------------------------------------------------------------------
(* The locked section.                                                     *)

Release(o) == lock' = [lock EXCEPT ![o] = None]

(* No key, another sender, no synced node: nothing was signed.             *)
PrepareFails(p, o) ==
    /\ At(p, o, "preparing")
    /\ Release(o) /\ Go(p, o, "idle")
    /\ UNCHANGED <<status, receipt, transfer, mem, loaded, disk, unwritten, unread, faults>>

(* Mutant: the hash is recorded only in memory before the broadcast. *)
RecordInMemory(p, o, n) ==
    mem' = [mem EXCEPT ![p] = With(@, o, n)] /\ UNCHANGED <<disk, unwritten, unread, faults>>

(* ledgerSet. *)
Record(p, o, n) ==
    /\ mem' = [mem EXCEPT ![p] = With(@, o, n)]
    /\ Persist(With(mem[p], o, n))
    /\ unwritten' = [unwritten EXCEPT ![o] = @ + faults' - faults]

(* The transfer is signed once, for all the nodes that answered the probe  *)
(* with the best one's protocol version, and recorded before any of them   *)
(* is contacted.                                                           *)
Sign(p, o) ==
    /\ At(p, o, "preparing")
    /\ transfer' = [transfer EXCEPT ![o] = Append(@, "signed")]
    /\ Record(p, o, Len(transfer[o]) + 1)
    /\ \E targets \in SUBSET Nodes \ {{}} :
         call' = [call EXCEPT ![p][o] = [step |-> "broadcasting", left |-> targets,
                                         hash |-> Len(transfer[o]) + 1]]
    /\ UNCHANGED <<status, receipt, loaded, lock, unread>>

Accepted(o, n) ==
    transfer' = [transfer EXCEPT ![o][n] = IF @ = "signed" THEN "accepted" ELSE @]

(* One node of the failover: it answers, it accepts and its answer is      *)
(* lost, or it never accepts; the last node's failure ends the loop too.   *)
PutToNode(p, o) ==
    /\ At(p, o, "broadcasting")
    /\ \E node \in call[p][o].left :
        \E answer \in {"accepted", "lost", "refused"} :
            LET left == call[p][o].left \ {node}
            IN  /\ IF answer = "refused" THEN UNCHANGED transfer
                                         ELSE Accepted(o, call[p][o].hash)
                /\ IF answer = "accepted" \/ left = {}
                   THEN /\ Release(o)
                        /\ call' = [call EXCEPT ![p][o].step = "verifying", ![p][o].left = {}]
                   ELSE call' = [call EXCEPT ![p][o].left = left] /\ UNCHANGED lock
    /\ UNCHANGED <<status, receipt, mem, loaded, disk, unwritten, unread, faults>>

-----------------------------------------------------------------------------
(* Verifying.  The backend delivers a pending order for an executed        *)
(* transfer, and says so again to whoever asks with the same one.          *)

Deliver(o, n) ==
    /\ status[o] = "pending_payment"
    /\ n \in DOMAIN transfer[o] /\ transfer[o][n] = "executed"
    /\ status' = [status EXCEPT ![o] = "delivered"]
    /\ receipt' = [receipt EXCEPT ![o] = n]
    /\ UNCHANGED <<transfer, mem, loaded, files, call, unwritten, unread, faults>>

BackendVerifies(p, o) == At(p, o, "verifying") /\ Deliver(o, call[p][o].hash)

(* purchase --order --verify, and the tool verify_payment: no ledger.      *)
VerifyByHand(o) == \E n \in DOMAIN transfer[o] : Deliver(o, n)

VerifyAnswered(p, o) ==
    /\ At(p, o, "verifying")
    /\ status[o] = "delivered" /\ receipt[o] = call[p][o].hash
    /\ mem' = [mem EXCEPT ![p] = Without(@, o)]
    /\ IF o \in DOMAIN mem[p] THEN Persist(Without(mem[p], o)) ELSE UNCHANGED <<disk, faults>>
    /\ call' = [call EXCEPT ![p][o] = Idle]
    /\ UNCHANGED <<status, receipt, transfer, loaded, lock, unwritten, unread>>

(* Mutant: a failed verify clears the entry. *)
ForgottenOnFailure(p, o) ==
    mem' = [mem EXCEPT ![p] = Without(@, o)] /\ Persist(Without(mem[p], o))

(* Any failure to verify keeps the entry. *)
KeptOnFailure(p, o) == UNCHANGED <<mem, disk, faults>>

(* A lost answer, an error, or the deadline while the backend says 425.    *)
VerifyFails(p, o) ==
    /\ At(p, o, "verifying")
    /\ KeptOnFailure(p, o)
    /\ call' = [call EXCEPT ![p][o] = Idle]
    /\ UNCHANGED <<status, receipt, transfer, loaded, lock, unwritten, unread>>

-----------------------------------------------------------------------------
(* The chain, the backend's expiry job, and processes that end.            *)

Execute(o) ==
    /\ \E n \in DOMAIN transfer[o] :
        /\ transfer[o][n] = "accepted"
        /\ transfer' = [transfer EXCEPT ![o][n] = "executed"]
    /\ UNCHANGED <<status, receipt, mem, loaded, files, call, unwritten, unread, faults>>

Expire(o) ==
    /\ status[o] = "pending_payment"
    /\ status' = [status EXCEPT ![o] = "expired"]
    /\ UNCHANGED <<receipt, transfer, mem, loaded, files, call, unwritten, unread, faults>>

(* A process ends when its calls did, or is killed: its memory is gone and *)
(* its lockfiles stay.  If a transfer under way reaches its node, its      *)
(* answer was lost before.                                                 *)
End(p) ==
    /\ IF \A o \in Orders : At(p, o, "idle")
       THEN UNCHANGED faults
       ELSE faults < MaxFaults /\ faults' = faults + 1
    /\ mem' = [mem EXCEPT ![p] = <<>>]
    /\ loaded' = [loaded EXCEPT ![p] = FALSE]
    /\ call' = [call EXCEPT ![p] = [o \in Orders |-> Idle]]
    /\ lock' = [o \in Orders |-> IF lock[o] = p THEN Dead ELSE lock[o]]
    /\ UNCHANGED <<status, receipt, transfer, disk, unwritten, unread>>

CallStep(p, o) ==
    \/ Ask(p, o) \/ Enter(p, o) \/ Steal(p, o) \/ Sign(p, o) \/ PrepareFails(p, o)
    \/ PutToNode(p, o) \/ VerifyAnswered(p, o) \/ VerifyFails(p, o)

Next ==
    \/ \E p \in Processes : End(p)
    \/ \E o \in Orders : VerifyByHand(o) \/ Execute(o) \/ Expire(o)
    \/ \E p \in Processes, o \in Orders :
        \/ CallStep(p, o) \/ SeeStale(p, o) \/ LockTimeout(p, o)
        \/ BackendVerifies(p, o)

Spec == Init /\ [][Next]_vars

(* The agent calls again while its order is pending, and every call ends   *)
(* (each await has a timeout).  It does not always stop waiting before a   *)
(* dead lock is stale (casper-signer.ts:1172-1174), nor does every verify  *)
(* call fail for ever.                                                     *)
Fairness ==
    \A p \in Processes, o \in Orders :
        /\ WF_vars(CallStep(p, o))
        /\ SF_vars(Enter(p, o)) /\ SF_vars(SeeStale(p, o)) /\ SF_vars(BackendVerifies(p, o))

FairSpec == Spec /\ Fairness

-----------------------------------------------------------------------------
(* Properties.                                                             *)

Sent(o) == {n \in DOMAIN transfer[o] : transfer[o][n] # "signed"}

(* Retries, concurrent calls, lost answers and kills never pay an order    *)
(* twice: each further transfer that reaches a node is one the file did    *)
(* not tell of, because an entry could not be written or the file with it  *)
(* could not be read (casper-signer.ts:22-50; the risk taken at 847-851    *)
(* and 867-871 stays bounded by those failures).                           *)
PaysOnce == \A o \in Orders : Cardinality(Sent(o)) <= 1 + unwritten[o] + unread[o]

(* The money of a pending order is never forgotten: a transfer that        *)
(* reached a node is in inflight.json before, through every failure to     *)
(* verify it and whatever other orders are paid, unless its entry could    *)
(* not be written or read back (casper-signer.ts:30-44).                   *)
SentIsRecorded ==
    \A o \in Orders :
        status[o] = "pending_payment" /\ unwritten[o] = 0 /\ unread[o] = 0 /\ Sent(o) # {}
            => o \in DOMAIN disk

(* An entry leaves the disk when its order was delivered, or in a file     *)
(* rewritten by a process that could not read it (casper-signer.ts:34-35,  *)
(* 847-851); no write, kill or call for another order takes it away.       *)
EntryKeptUntilDelivered ==
    [][\A o \in (DOMAIN disk) \ (DOMAIN disk') : status[o] = "delivered" \/ unread[o] > 0]_vars

(* A transfer that executed and is on record gets its order delivered or   *)
(* finds it expired, whatever lock a killed process left, unless the       *)
(* record could not be read (casper-signer.ts:918-929).                    *)
PaidIsDelivered ==
    \A o \in Orders :
        (o \in DOMAIN disk /\ transfer[o][disk[o]] = "executed")
            ~> (status[o] # "pending_payment" \/ unread[o] > 0)

(* A process that is about to sign has looked at every recorded hash: the  *)
(* second process to come sees the first one's, and verifies that instead  *)
(* of submitting a second transfer (casper-signer.ts:44-50).               *)
SecondReverifies ==
    \A p \in Processes, o \in Orders : At(p, o, "preparing") => o \notin DOMAIN disk
=============================================================================
