----------------------------- MODULE Onboarding -----------------------------
(***************************************************************************)
(* From an operator's click to a funded agent: minting a key and its claim *)
(* code (backend/src/api/dashboard.js, portal keys in api/auth.js),        *)
(* trading the code for the key and reporting progress (backend/src/app.js *)
(* and the CLI's onboard command, sdk/src/commands/onboard.ts), and the    *)
(* poller that watches the agent's wallet (backend/src/jobs.js and         *)
(* payments/casper-balance.js).  The operator acts through a session of    *)
(* module Login.                                                           *)
(*                                                                         *)
(* A step of the backend runs from one await to the next.  A crash of the  *)
(* backend forgets the requests and the poll it was working on.  Faults -  *)
(* a lost answer, a payload that cannot be sealed or opened, a failing     *)
(* node, a crash - are bounded by MaxFaults.                               *)
(***************************************************************************)
EXTENDS Login

CONSTANTS
    Keys,           \* API keys
    Agents,         \* machines that run the onboard command
    Accounts,       \* Casper accounts the agents pay from
    MaxFaults       \* bound on faults of network, sealing, node and backend

ASSUME OnboardingAssumption ==
    /\ None \notin Keys \union Accounts \union {"initializing", "awaiting_funding", "funded"}
    /\ MaxFaults \in Nat

VARIABLES
    key,            \* the api_keys row
    claim,          \* the agent_claims row of the key
    answered,       \* history: how often the key's credentials were sent out
    burnt,          \* history: keys whose claim was spent and nothing sent
    agent,          \* where each machine's onboard command is
    deposited,      \* accounts that received CSPR
    polling,        \* rows the running funding check has yet to look up
    outage,         \* _casperOutageAlerted
    touched,        \* history: see Touch
    faults

onboardingVars ==
    <<key, claim, answered, burnt, agent, deposited, polling, outage, touched>>
vars == <<loginVars, onboardingVars, faults>>

AgentStates == {"initializing", "awaiting_funding", "funded"}

KeyRow ==
    [step : {"none", "hashing", "live", "deleted"},
     portal : BOOLEAN,
     owner : Identities \union {None},
     state : AgentStates \union {None},
     wallet : Accounts \union {None}]

Init ==
    /\ LoginInit
    /\ key = [k \in Keys |-> [step |-> "none", portal |-> FALSE, owner |-> None,
                              state |-> None, wallet |-> None]]
    /\ claim = [k \in Keys |-> "none"]
    /\ answered = [k \in Keys |-> 0]
    /\ burnt = {}
    /\ agent = [a \in Agents |-> [step |-> "idle", key |-> None]]
    /\ deposited = {}
    /\ polling = {}
    /\ outage = FALSE
    /\ touched = {}
    /\ faults = 0

-----------------------------------------------------------------------------
Fault == faults < MaxFaults /\ faults' = faults + 1
Sound == UNCHANGED faults

Live(k) == key[k].step = "live"

(* A key is touched when its wallet or state is written while a funding    *)
(* check that has already read the row is under way, or is called funded   *)
(* or given another wallet by anyone but the check.                        *)
Touch(k) == touched' = touched \union {k}
InPoll(k) == \E r \in polling : r.key = k

(* POST /dashboard/api-keys, and POST /auth/portal-key: the session is     *)
(* looked up, then the key is hashed, which takes an await.                *)
RequestKey(k, i, portal) ==
    /\ SignedIn(i)
    /\ key[k].step = "none"
    /\ key' = [key EXCEPT ![k].step = "hashing", ![k].portal = portal,
                          ![k].owner = i]
    /\ Sound
    /\ UNCHANGED <<loginVars, claim, answered, burnt, agent, deposited, polling,
                   outage, touched>>

(* The row, and then the sealed claim: two statements.  If sealing throws  *)
(* or the process dies in between, the key exists and nobody can have it.  *)
(* A portal key is returned to the browser and has no claim.  Either may   *)
(* come with the wallet it will pay from.                                  *)
MintKey(k, w) ==
    /\ key[k].step = "hashing"
    /\ key' = [key EXCEPT ![k].step = "live", ![k].wallet = w]
    /\ \/ ~key[k].portal /\ Sound /\ claim' = [claim EXCEPT ![k] = "open"]
       \/ ~key[k].portal /\ Fault /\ UNCHANGED claim
       \/ key[k].portal /\ Sound /\ UNCHANGED claim
    /\ UNCHANGED <<loginVars, answered, burnt, agent, deposited, polling, outage, touched>>

(* DELETE /dashboard/api-keys/:id leaves the claim behind.                 *)
DeleteKey(k) ==
    /\ Live(k)
    /\ SignedIn(key[k].owner)
    /\ key' = [key EXCEPT ![k].step = "deleted", ![k].state = None,
                          ![k].wallet = None]
    /\ Sound
    /\ UNCHANGED <<loginVars, claim, answered, burnt, agent, deposited, polling,
                   outage, touched>>

(* PATCH /dashboard/api-keys/:id with another wallet, or none.             *)
PatchWallet(k, w) ==
    /\ Live(k)
    /\ SignedIn(key[k].owner)
    /\ key' = [key EXCEPT ![k].wallet = w]
    /\ Touch(k)
    /\ Sound
    /\ UNCHANGED <<loginVars, claim, answered, burnt, agent, deposited, polling, outage>>

ExpireClaim(k) ==
    /\ claim[k] = "open"
    /\ claim' = [claim EXCEPT ![k] = "expired"]
    /\ Sound
    /\ UNCHANGED <<loginVars, key, answered, burnt, agent, deposited, polling, outage,
                   touched>>

-----------------------------------------------------------------------------
(* onboard --claim: someone hands the code to a machine.  A run that fails *)
(* may be repeated, and the code may be given to more than one machine.    *)
StartOnboarding(a, k) ==
    /\ agent[a].step = "idle"
    /\ claim[k] # "none"
    /\ agent' = [agent EXCEPT ![a] = [step |-> "claiming", key |-> k]]
    /\ Sound
    /\ UNCHANGED <<loginVars, key, claim, answered, burnt, deposited, polling, outage,
                   touched>>

AgentGoes(a, step) == agent' = [agent EXCEPT ![a].step = step]
AgentFails(a) == agent' = [agent EXCEPT ![a] = [step |-> "idle", key |-> None]]

(* Mutant: the claim is marked used before its payload is opened.          *)
SpentBeforeOpening(k) == claim' = [claim EXCEPT ![k] = "used"]

(* A payload that does not open rolls the transaction back.                *)
PayloadDoesNotOpen(k) == UNCHANGED claim

MarkUsed(k) == claim' = [claim EXCEPT ![k] = "used"]

Initializing(k) == IF Live(k) THEN [key EXCEPT ![k].state = "initializing"] ELSE key

(* POST /v1/agent/claim: the transaction spends the claim, the key is      *)
(* marked initializing, the credentials are sent.  If the answer is lost   *)
(* the claim is spent all the same.                                        *)
RedeemClaim(a) ==
    LET k == agent[a].key IN
    /\ agent[a].step = "claiming"
    /\ claim[k] = "open"
    /\ MarkUsed(k)
    /\ answered' = [answered EXCEPT ![k] = @ + 1]
    /\ key' = Initializing(k)
    /\ \/ Sound /\ AgentGoes(a, "redeemed")
       \/ Fault /\ AgentFails(a)
    /\ UNCHANGED <<loginVars, burnt, deposited, polling, outage, touched>>

(* What a backend that died remembers: no request, no poll, no outage.     *)
Forget(rows) ==
    /\ key' = [k \in Keys |-> IF rows[k].step = "hashing"
                              THEN [rows[k] EXCEPT !.step = "none", !.owner = None,
                                                   !.portal = FALSE]
                              ELSE rows[k]]
    /\ polling' = {}
    /\ outage' = FALSE

(* After the transaction a statement throws, or the process dies, before   *)
(* the answer: the claim is spent and nothing was sent.                    *)
RedeemCut(a) ==
    LET k == agent[a].key IN
    /\ agent[a].step = "claiming"
    /\ claim[k] = "open"
    /\ MarkUsed(k)
    /\ burnt' = burnt \union {k}
    /\ \/ UNCHANGED <<key, polling, outage>>
       \/ Forget(key) \/ Forget(Initializing(k))
    /\ Fault /\ AgentFails(a)
    /\ UNCHANGED <<loginVars, answered, deposited, touched>>

OpeningFails(a) ==
    LET k == agent[a].key IN
    /\ agent[a].step = "claiming"
    /\ claim[k] = "open"
    /\ PayloadDoesNotOpen(k)
    /\ Fault
    /\ AgentFails(a)
    /\ UNCHANGED <<loginVars, key, answered, burnt, deposited, polling, outage, touched>>

(* Used, expired: the same 401 for each.                                   *)
ClaimRefused(a) ==
    /\ agent[a].step = "claiming"
    /\ claim[agent[a].key] # "open"
    /\ AgentFails(a)
    /\ Sound
    /\ UNCHANGED <<loginVars, key, claim, answered, burnt, deposited, polling, outage,
                   touched>>

(* POST /v1/agent/status writes whatever it is told, over any state.       *)
WriteStatus(k, state, w) ==
    /\ key' = IF Live(k) THEN [key EXCEPT ![k].state = state, ![k].wallet = w]
                         ELSE key
    /\ touched' = IF InPoll(k) \/ state = "funded"
                  THEN touched \union {k} ELSE touched \ {k}

(* The end of onboard: the configuration is saved and the wallet reported, *)
(* be it supplied, found on disk or new.  The report may be retried after  *)
(* it arrived, and its loss is swallowed.                                  *)
ReportWallet(a, w) ==
    /\ agent[a].step = "redeemed"
    /\ WriteStatus(agent[a].key, "awaiting_funding", w)
    /\ \/ Sound /\ AgentGoes(a, "ready")
       \/ Fault /\ UNCHANGED agent
    /\ UNCHANGED <<loginVars, claim, answered, burnt, deposited, polling, outage>>

ReportLost(a) ==
    /\ agent[a].step = "redeemed"
    /\ AgentGoes(a, "ready")
    /\ Fault
    /\ UNCHANGED <<loginVars, key, claim, answered, burnt, deposited, polling, outage,
                   touched>>

(* The route is open to any holder of the key, which may name any state.   *)
ReportState(a, state) ==
    LET k == agent[a].key IN
    /\ agent[a].step = "ready"
    /\ Live(k)
    /\ WriteStatus(k, state, key[k].wallet)
    /\ Sound
    /\ UNCHANGED <<loginVars, claim, answered, burnt, agent, deposited, polling, outage>>

Deposit(w) ==
    /\ w \notin deposited
    /\ deposited' = deposited \union {w}
    /\ Sound
    /\ UNCHANGED <<loginVars, key, claim, answered, burnt, agent, polling, outage, touched>>

-----------------------------------------------------------------------------
(* The SELECT of the funding check.                                        *)
Awaiting ==
    {[key |-> k, wallet |-> key[k].wallet] :
        k \in {l \in Keys : /\ Live(l)
                            /\ key[l].state = "awaiting_funding"
                            /\ key[l].wallet # None}}

(* Mutant: an outage that was announced stops the checks.                  *)
StartFundingCheckUnlessOut ==
    /\ ~outage
    /\ polling = {}
    /\ Awaiting # {}
    /\ polling' = Awaiting
    /\ Sound
    /\ UNCHANGED <<loginVars, key, claim, answered, burnt, agent, deposited, outage, touched>>

(* One check at a time: checkAgentFundingStatusGuarded.                    *)
StartFundingCheck ==
    /\ polling = {}
    /\ Awaiting # {}
    /\ polling' = Awaiting
    /\ Sound
    /\ UNCHANGED <<loginVars, key, claim, answered, burnt, agent, deposited, outage, touched>>

(* Mutant: an account the node does not know counts as an answer.          *)
BalanceOfAny(w) == TRUE

(* fetchCasperBalance: an account never paid is unknown to the node.       *)
HoldsCSPR(w) == w \in deposited

(* The node answers for one of the rows read at the start; the row is      *)
(* written by id, whatever it says by now.                                 *)
BalanceAnswered(r) ==
    /\ r \in polling
    /\ polling' = polling \ {r}
    /\ outage' = FALSE
    /\ key' = IF HoldsCSPR(r.wallet) /\ Live(r.key)
              THEN [key EXCEPT ![r.key].state = "funded"] ELSE key
    /\ Sound
    /\ UNCHANGED <<loginVars, claim, answered, burnt, agent, deposited, touched>>

(* The node does not answer: the other rows are still looked up.           *)
BalanceUnavailable(r) ==
    /\ r \in polling
    /\ polling' = polling \ {r}
    /\ outage' = TRUE
    /\ Fault
    /\ UNCHANGED <<loginVars, key, claim, answered, burnt, agent, deposited, touched>>

Crash ==
    /\ Fault
    /\ Forget(key)
    /\ UNCHANGED <<loginVars, claim, answered, burnt, agent, deposited, touched>>

SignIn == LoginNext /\ UNCHANGED <<onboardingVars, faults>>

OperatorStep ==
    \E k \in Keys :
        \/ \E i \in Identities, portal \in BOOLEAN : RequestKey(k, i, portal)
        \/ \E w \in Accounts \union {None} : MintKey(k, w) \/ PatchWallet(k, w)
        \/ DeleteKey(k)
        \/ ExpireClaim(k)

AgentStep ==
    \E a \in Agents :
        \/ \E k \in Keys : StartOnboarding(a, k)
        \/ RedeemClaim(a) \/ RedeemCut(a)
        \/ OpeningFails(a)
        \/ ClaimRefused(a)
        \/ \E w \in Accounts : ReportWallet(a, w)
        \/ ReportLost(a)
        \/ \E state \in AgentStates : ReportState(a, state)

CheckStep == \E r \in polling : BalanceAnswered(r) \/ BalanceUnavailable(r)

Next ==
    \/ SignIn
    \/ OperatorStep
    \/ AgentStep
    \/ \E w \in Accounts : Deposit(w)
    \/ StartFundingCheck
    \/ CheckStep
    \/ Crash

Spec == Init /\ [][Next]_vars

(* The check is started by a timer and each request to the node times out, *)
(* so both go on as long as the backend runs.                              *)
FairSpec == Spec /\ WF_vars(StartFundingCheck) /\ WF_vars(CheckStep)

-----------------------------------------------------------------------------
TypeOK ==
    /\ LoginTypeOK
    /\ key \in [Keys -> KeyRow]
    /\ claim \in [Keys -> {"none", "open", "used", "expired"}]
    /\ answered \in [Keys -> Nat]
    /\ burnt \in SUBSET Keys
    /\ agent \in [Agents ->
                    [step : {"idle", "claiming", "redeemed", "ready"},
                     key : Keys \union {None}]]
    /\ deposited \in SUBSET Accounts
    /\ polling \in SUBSET [key : Keys, wallet : Accounts]
    /\ outage \in BOOLEAN
    /\ touched \in SUBSET Keys
    /\ faults \in 0 .. MaxFaults

(* A code that would still be accepted has seen fewer wrong answers than   *)
(* the limit, whichever of the address's codes they were meant for, and    *)
(* has few siblings: asking for more codes buys no more guesses            *)
(* (auth.js:545-585).                                                      *)
ActiveCodesAreFresh ==
    \A e \in Emails :
        /\ Len(code[e]) <= MaxCodes
        /\ \A n \in DOMAIN code[e] : code[e][n].tries < FailLimit

(* However people race to log in to a new instance, by whichever of the    *)
(* three ways, it has one owner as soon as it has a user, and every        *)
(* session belongs to a user with exactly one dashboard.                   *)
OneOwner ==
    /\ ~NoUsers => \E i \in Identities :
                      /\ role[i] = "owner"
                      /\ \A j \in Identities : role[j] = "owner" => j = i
    /\ \A t \in Tokens :
          session[t] # None =>
              role[session[t]] # None /\ dashboards[session[t]] = 1

(* The credentials of a key leave the server at most once, and a claim is  *)
(* spent by sending them: a failure to open the payload, a second machine  *)
(* with the same code or a repeated run never burns it.  Only a process    *)
(* that dies, or a statement that throws, between the transaction and the  *)
(* answer does (app.js:360, 396-434, 451), and never after sending.        *)
ClaimSpentOnce ==
    \A k \in Keys :
        answered[k] + (IF k \in burnt THEN 1 ELSE 0) = IF claim[k] = "used" THEN 1 ELSE 0

(* Unless somebody touched the row behind the funding check's back, an     *)
(* agent shown as funded has a wallet that received a deposit.             *)
FundedHasDeposit ==
    \A k \in Keys :
        key[k].state = "funded" /\ k \notin touched => key[k].wallet \in deposited

Unnoticed(k) ==
    key[k].state = "awaiting_funding" /\ key[k].wallet \in deposited

(* A deposit to the reported wallet of a waiting agent is noticed, through *)
(* node outages, crashes, and reports that arrive twice or late.           *)
DepositIsSeen == \A k \in Keys : Unnoticed(k) ~> ~Unnoticed(k)

=============================================================================
