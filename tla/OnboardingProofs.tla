--------------------------- MODULE OnboardingProofs ---------------------------
(***************************************************************************)
(* What login and onboarding guarantee for any number of people, keys,     *)
(* agents and accounts.                                                    *)
(***************************************************************************)
EXTENDS Onboarding, SequenceTheorems, TLAPS

(* A code that is accepted: its row counts every wrong answer it saw.      *)
FreshCode == {c \in Code : c.fails = c.tries /\ c.tries < FailLimit}

(* Taking one code off the list.                                           *)
LEMMA RemoveAtTyped ==
  ASSUME NEW S, NEW s \in Seq(S), NEW n \in 1 .. Len(s)
  PROVE  RemoveAt(s, n) \in Seq(S) /\ Len(RemoveAt(s, n)) = Len(s) - 1
<1> DEFINE left == SubSeq(s, 1, n - 1)
           right == SubSeq(s, n + 1, Len(s))
<1>1. left \in Seq(S) /\ Len(left) = n - 1
  BY SubSeqProperties
<1>2. right \in Seq(S) /\ Len(right) = Len(s) - n
  BY SubSeqProperties
<1> HIDE DEF left, right
<1>3. left \o right \in Seq(S) /\ Len(left \o right) = Len(left) + Len(right)
  BY <1>1, <1>2, ConcatProperties
<1>4. RemoveAt(s, n) = left \o right
  BY DEF RemoveAt, left, right
<1>5. (n - 1) + (Len(s) - n) = Len(s) - 1
  OBVIOUS
<1>6. Len(left \o right) = Len(s) - 1
  BY <1>1, <1>2, <1>3, <1>5
<1> QED BY <1>3, <1>4, <1>6, Zenon

(* A wrong answer counts against every code, or spends them all.           *)
LEMMA FailureCounts ==
  ASSUME NEW codes \in Seq(FreshCode)
  PROVE  LockOut(Failed(codes)) \in Seq(FreshCode) /\ Len(LockOut(Failed(codes))) <= Len(codes)
<1>1. CASE \E n \in DOMAIN Failed(codes) : Failed(codes)[n].fails >= FailLimit
  BY <1>1 DEF LockOut
<1>2. CASE ~\E n \in DOMAIN Failed(codes) : Failed(codes)[n].fails >= FailLimit
  <2>1. DOMAIN Failed(codes) = 1 .. Len(codes)
    BY DEF Failed
  <2>2. ASSUME NEW n \in 1 .. Len(codes) PROVE Failed(codes)[n] \in FreshCode
    <3>1. codes[n] \in FreshCode
      OBVIOUS
    <3>2. codes[n].fails \in Nat /\ codes[n].tries \in Nat /\ codes[n].fails = codes[n].tries
      BY <3>1 DEF FreshCode, Code
    <3>3. Failed(codes)[n] = [codes[n] EXCEPT !.fails = @ + 1, !.tries = @ + 1]
      <4>1. n \in DOMAIN codes
        OBVIOUS
      <4> QED BY <4>1 DEF Failed
    <3>4. Failed(codes)[n] = [fails |-> codes[n].fails + 1, tries |-> codes[n].tries + 1]
      BY <3>1, <3>3 DEF FreshCode, Code
    <3>5. ~(Failed(codes)[n].fails >= FailLimit)
      BY <1>2, <2>1
    <3> QED BY <3>2, <3>4, <3>5, LoginAssumption DEF FreshCode, Code
  <2>3. Failed(codes) \in [1 .. Len(codes) -> FreshCode]
    <3>1. Failed(codes) = [n \in 1 .. Len(codes) |-> Failed(codes)[n]]
      BY <2>1 DEF Failed
    <3> QED BY <2>2, <3>1
  <2>4. Failed(codes) \in Seq(FreshCode) /\ Len(Failed(codes)) = Len(codes)
    BY <2>3
  <2> QED BY <1>2, <2>4 DEF LockOut
<1> QED BY <1>1, <1>2

-----------------------------------------------------------------------------
(* Login.                                                                  *)

CodesAreFresh == \A e \in Emails : code[e] \in Seq(FreshCode) /\ Len(code[e]) <= MaxCodes

(* Users and dashboards are created together.                              *)
UsersHaveHomes == \A i \in Identities : dashboards[i] = IF role[i] = None THEN 0 ELSE 1

SessionsAreOfUsers == \A t \in Tokens : session[t] # None => role[session[t]] # None

FirstUserOwns ==
    ~NoUsers => \E i \in Identities :
                   role[i] = "owner" /\ \A j \in Identities : role[j] = "owner" => j = i

LoginInv ==
    /\ LoginTypeOK
    /\ CodesAreFresh
    /\ UsersHaveHomes
    /\ SessionsAreOfUsers
    /\ FirstUserOwns

(* A fresh instance has no users, codes or sessions.                       *)
LEMMA LoginStarts == LoginInit => LoginInv
<1> SUFFICES ASSUME LoginInit PROVE LoginInv
  OBVIOUS
<1> USE LoginAssumption
<1>1. code = [e \in Emails |-> <<>>] /\ <<>> \in Seq(Code) /\ <<>> \in Seq(FreshCode)
  BY DEF LoginInit
<1>2. LoginTypeOK
  BY <1>1 DEF LoginInit, LoginTypeOK
<1>3. CodesAreFresh
  BY <1>1 DEF CodesAreFresh
<1>4. UsersHaveHomes /\ SessionsAreOfUsers /\ FirstUserOwns
  BY DEF LoginInit, UsersHaveHomes, SessionsAreOfUsers, FirstUserOwns, NoUsers
<1> QED BY <1>2, <1>3, <1>4 DEF LoginInv

(* Whichever way a user comes in.                                          *)
LEMMA LogInKept ==
  ASSUME LoginInv, NEW i \in Identities, LogIn(i)
  PROVE  /\ role' \in [Identities -> {None, "owner", "user"}]
         /\ dashboards' \in [Identities -> Nat]
         /\ session' \in [Tokens -> Identities \union {None}]
         /\ UsersHaveHomes' /\ SessionsAreOfUsers' /\ FirstUserOwns'
<1> USE LoginAssumption
<1>1. /\ role \in [Identities -> {None, "owner", "user"}]
      /\ dashboards \in [Identities -> Nat]
      /\ session \in [Tokens -> Identities \union {None}]
      /\ i # None
  BY DEF LoginInv, LoginTypeOK, Identities
<1>2. PICK r \in {"owner", "user"} :
        /\ role' = IF role[i] = None THEN [role EXCEPT ![i] = r] ELSE role
        /\ r = "owner" <=> NoUsers
  BY DEF LogIn, RoleOfNewUser
<1>3. PICK t \in Tokens : session[t] = None /\ session' = [session EXCEPT ![t] = i]
  BY DEF LogIn
<1>4. dashboards' = IF dashboards[i] = 0 THEN [dashboards EXCEPT ![i] = 1] ELSE dashboards
  BY DEF LogIn
<1>5. \A j \in Identities :
        role'[j] = IF j = i /\ role[i] = None THEN r ELSE role[j]
  BY <1>1, <1>2
<1>6. r # None
  OBVIOUS
<1>7. UsersHaveHomes'
  <2>1. dashboards[i] = IF role[i] = None THEN 0 ELSE 1
    BY DEF LoginInv, UsersHaveHomes
  <2>2. \A j \in Identities :
          dashboards'[j] = IF j = i /\ role[i] = None THEN 1 ELSE dashboards[j]
    BY <1>1, <1>4, <2>1
  <2> QED BY <1>5, <1>6, <2>1, <2>2 DEF LoginInv, UsersHaveHomes
<1>8. SessionsAreOfUsers'
  <2>1. \A u \in Tokens : session'[u] = IF u = t THEN i ELSE session[u]
    BY <1>1, <1>3
  <2>2. role'[i] # None
    BY <1>5, <1>6
  <2> QED BY <1>1, <1>5, <1>6, <2>1, <2>2 DEF LoginInv, SessionsAreOfUsers
<1>9. FirstUserOwns'
  <2>1. CASE role[i] # None
    BY <1>2, <2>1 DEF LoginInv, FirstUserOwns, NoUsers
  <2>2. CASE role[i] = None /\ NoUsers
    <3>1. role'[i] = "owner" /\ \A j \in Identities : j # i => role'[j] = None
      BY <1>2, <1>5, <2>2 DEF NoUsers
    <3> QED BY <3>1 DEF FirstUserOwns
  <2>3. CASE role[i] = None /\ ~NoUsers
    <3>1. PICK o \in Identities :
            role[o] = "owner" /\ \A j \in Identities : role[j] = "owner" => j = o
      BY <2>3 DEF LoginInv, FirstUserOwns
    <3>2. role'[i] = "user" /\ \A j \in Identities : j # i => role'[j] = role[j]
      BY <1>2, <1>5, <2>3
    <3>3. o # i
      BY <2>3, <3>1
    <3> QED BY <3>1, <3>2, <3>3 DEF FirstUserOwns
  <2> QED BY <2>1, <2>2, <2>3
<1> QED BY <1>1, <1>2, <1>3, <1>4, <1>7, <1>8, <1>9

(* Every way in, and every failure to get in, keeps the login tables sound.*)
LEMMA LoginKept == LoginInv /\ [LoginNext]_loginVars => LoginInv'
<1> SUFFICES ASSUME LoginInv, [LoginNext]_loginVars PROVE LoginInv'
  OBVIOUS
<1> USE LoginAssumption
<1>1. ASSUME NEW e \in Emails, NEW codes \in Seq(FreshCode),
             Len(codes) <= MaxCodes, code' = [code EXCEPT ![e] = codes]
      PROVE  code' \in [Emails -> Seq(Code)] /\ CodesAreFresh'
  <2>1. codes \in Seq(Code)
    BY DEF FreshCode
  <2> QED BY <1>1, <2>1 DEF LoginInv, LoginTypeOK, CodesAreFresh
<1>2. ASSUME UNCHANGED code PROVE code' \in [Emails -> Seq(Code)] /\ CodesAreFresh'
  BY <1>2 DEF LoginInv, LoginTypeOK, CodesAreFresh
<1>3. ASSUME UNCHANGED <<role, dashboards, session>>
      PROVE  /\ role' \in [Identities -> {None, "owner", "user"}]
             /\ dashboards' \in [Identities -> Nat]
             /\ session' \in [Tokens -> Identities \union {None}]
             /\ UsersHaveHomes' /\ SessionsAreOfUsers' /\ FirstUserOwns'
  BY <1>3 DEF LoginInv, LoginTypeOK, UsersHaveHomes, SessionsAreOfUsers, FirstUserOwns, NoUsers
<1>4. ASSUME NEW e \in Emails PROVE code[e] \in Seq(FreshCode) /\ Len(code[e]) <= MaxCodes
  BY DEF LoginInv, CodesAreFresh
<1>5. challenge \in [Challenges -> Wallets \union {None}]
  BY DEF LoginInv, LoginTypeOK
<1>6. ASSUME NEW e \in Emails, RequestCode(e) PROVE LoginInv'
  <2>1. NewCode \in FreshCode
    BY DEF NewCode, FreshCode, Code
  <2>2. Append(code[e], NewCode) \in Seq(FreshCode)
        /\ Len(Append(code[e], NewCode)) = Len(code[e]) + 1
    BY <1>4, <2>1
  <2>3. Len(code[e]) \in Nat /\ Len(code[e]) < MaxCodes
    BY <1>4, <1>6 DEF RequestCode, MaySend
  <2>4. code' = [code EXCEPT ![e] = Append(code[e], NewCode)]
    BY <1>6 DEF RequestCode
  <2>5. Len(Append(code[e], NewCode)) <= MaxCodes
    BY <2>2, <2>3
  <2>6. code' \in [Emails -> Seq(Code)] /\ CodesAreFresh'
    BY <1>1, <2>2, <2>4, <2>5
  <2> QED BY <1>3, <1>5, <1>6, <2>6 DEF RequestCode, LoginInv, LoginTypeOK
<1>7. ASSUME NEW e \in Emails, WrongCode(e) PROVE LoginInv'
  <2>1. LockOut(Failed(code[e])) \in Seq(FreshCode)
        /\ Len(LockOut(Failed(code[e]))) <= Len(code[e])
    BY <1>4, FailureCounts
  <2>2. Len(code[e]) \in Nat /\ Len(LockOut(Failed(code[e]))) \in Nat
    BY <1>4, <2>1
  <2>3. code' = [code EXCEPT ![e] = LockOut(Failed(code[e]))]
    BY <1>7 DEF WrongCode
  <2>4. Len(LockOut(Failed(code[e]))) <= MaxCodes
    BY <1>4, <2>1, <2>2
  <2>5. code' \in [Emails -> Seq(Code)] /\ CodesAreFresh'
    BY <1>1, <2>1, <2>3, <2>4
  <2> QED BY <1>3, <1>5, <1>7, <2>5 DEF WrongCode, LoginInv, LoginTypeOK
<1>8. ASSUME NEW e \in Emails, NEW n \in DOMAIN code[e], VerifyCode(e, n) \/ ExpireCode(e, n)
      PROVE  LoginInv'
  <2>1. n \in 1 .. Len(code[e]) /\ Len(code[e]) \in Nat
    BY <1>4
  <2>2. RemoveAt(code[e], n) \in Seq(FreshCode) /\ Len(RemoveAt(code[e], n)) = Len(code[e]) - 1
    BY <1>4, <2>1, RemoveAtTyped
  <2>3. code' \in [Emails -> Seq(Code)] /\ CodesAreFresh' /\ UNCHANGED challenge
    BY <1>1, <1>4, <1>8, <2>1, <2>2 DEF VerifyCode, ExpireCode, Spent
  <2>4. CASE ExpireCode(e, n)
    BY <1>3, <1>5, <2>3, <2>4 DEF ExpireCode, LoginInv, LoginTypeOK
  <2>5. CASE VerifyCode(e, n)
    <3>1. e \in Identities /\ LogIn(e)
      BY <2>5 DEF VerifyCode, Identities
    <3> QED BY <1>5, <2>3, <3>1, LogInKept DEF LoginInv, LoginTypeOK
  <2> QED BY <1>8, <2>4, <2>5
<1>9. ASSUME NEW h \in Challenges,
             ExpireChallenge(h) \/ \E w \in Wallets : IssueChallenge(h, w)
      PROVE  LoginInv'
  <2>1. challenge' \in [Challenges -> Wallets \union {None}]
    BY <1>5, <1>9 DEF ExpireChallenge, IssueChallenge
  <2>2. UNCHANGED <<code, role, dashboards, session>>
    BY <1>9 DEF ExpireChallenge, IssueChallenge
  <2> QED BY <1>2, <1>3, <2>1, <2>2 DEF LoginInv, LoginTypeOK
<1>10. ASSUME NEW h \in Challenges, SignChallenge(h) PROVE LoginInv'
  <2>1. challenge' \in [Challenges -> Wallets \union {None}] /\ UNCHANGED code
    BY <1>5, <1>10 DEF SignChallenge
  <2>2. challenge[h] \in Identities /\ LogIn(challenge[h])
    BY <1>5, <1>10 DEF SignChallenge, Identities
  <2> QED BY <1>2, <2>1, <2>2, LogInKept DEF LoginInv, LoginTypeOK
<1>11. CASE DemoLogin
  <2>1. DemoWallet \in Identities /\ LogIn(DemoWallet) /\ UNCHANGED <<code, challenge>>
    BY <1>11 DEF DemoLogin, Identities
  <2> QED BY <1>2, <1>5, <2>1, LogInKept DEF LoginInv, LoginTypeOK
<1>12. ASSUME NEW t \in Tokens, EndSession(t) PROVE LoginInv'
  <2>1. session' = [session EXCEPT ![t] = None] /\ UNCHANGED <<code, challenge, role, dashboards>>
    BY <1>12 DEF EndSession
  <2>2. session' \in [Tokens -> Identities \union {None}] /\ SessionsAreOfUsers'
    BY <2>1 DEF LoginInv, LoginTypeOK, SessionsAreOfUsers
  <2>3. UsersHaveHomes' /\ FirstUserOwns'
    BY <2>1 DEF LoginInv, UsersHaveHomes, FirstUserOwns, NoUsers
  <2> QED BY <1>2, <2>1, <2>2, <2>3 DEF LoginInv, LoginTypeOK
<1>13. CASE UNCHANGED loginVars
  BY <1>2, <1>3, <1>5, <1>13 DEF loginVars, LoginInv, LoginTypeOK
<1> QED BY <1>6, <1>7, <1>8, <1>9, <1>10, <1>11, <1>12, <1>13 DEF LoginNext

-----------------------------------------------------------------------------
(* Onboarding.                                                             *)

OnboardingTypeOK ==
    /\ key \in [Keys -> KeyRow]
    /\ claim \in [Keys -> {"none", "open", "used", "expired"}]
    /\ answered \in [Keys -> Nat]
    /\ burnt \in SUBSET Keys
    /\ agent \in [Agents ->
                    [step : {"idle", "claiming", "redeemed", "ready"},
                     key : Keys \union {None}]]
    /\ deposited \in SUBSET Accounts
    /\ polling \in SUBSET [key : Keys, wallet : Accounts]
    /\ outage \in BOOLEAN
    /\ touched \in SUBSET Keys
    /\ faults \in 0 .. MaxFaults

(* A claim is spent by sending the credentials, or burnt.                  *)
Settled(k) ==
    answered[k] + (IF k \in burnt THEN 1 ELSE 0) = IF claim[k] = "used" THEN 1 ELSE 0

(* A key still being hashed has no claim, only a live key is funded, a     *)
(* claim is spent once, and a funded key has a deposit behind it.          *)
KeyOK(k) ==
    /\ key[k].step \in {"none", "hashing"} => claim[k] = "none"
    /\ key[k].state = "funded" => Live(k)
    /\ Settled(k)
    /\ key[k].state = "funded" /\ k \notin touched => key[k].wallet \in deposited

(* What the funding check read is still so, unless the row was touched.    *)
RowOK(r) ==
    /\ key[r.key].step \in {"live", "deleted"}
    /\ Live(r.key) /\ r.key \notin touched => key[r.key].wallet = r.wallet

AgentOK(a) == agent[a].step # "idle" => agent[a].key \in Keys

OnboardingInv ==
    /\ OnboardingTypeOK
    /\ \A k \in Keys : KeyOK(k)
    /\ \A r \in polling : RowOK(r)
    /\ \A a \in Agents : AgentOK(a)

(* One row of the table is written.                                        *)
LEMMA RowWritten ==
  ASSUME NEW f \in [Keys -> KeyRow], NEW k \in Keys, NEW row \in KeyRow
  PROVE  /\ [f EXCEPT ![k] = row] \in [Keys -> KeyRow]
         /\ [f EXCEPT ![k] = row][k] = row
         /\ \A l \in Keys : l # k => [f EXCEPT ![k] = row][l] = f[l]
OBVIOUS

(* The ways the code writes a row.                                         *)
Hashing(row, i, portal) == [row EXCEPT !.step = "hashing", !.portal = portal, !.owner = i]
Minted(row, w) == [row EXCEPT !.step = "live", !.wallet = w]
Deleted(row) == [row EXCEPT !.step = "deleted", !.state = None, !.wallet = None]
Patched(row, w) == [row EXCEPT !.wallet = w]
InState(row, state) == [row EXCEPT !.state = state]
Reported(row, state, w) == [row EXCEPT !.state = state, !.wallet = w]
Forgotten(row) == [row EXCEPT !.step = "none", !.owner = None, !.portal = FALSE]

(* A requested key: its owner is recorded, its state is not touched.       *)
LEMMA HashingIsRow ==
  ASSUME NEW row \in KeyRow,
         NEW i \in Identities,
         NEW portal \in BOOLEAN
  PROVE  /\ Hashing(row, i, portal) \in KeyRow
         /\ Hashing(row, i, portal).step = "hashing"
         /\ Hashing(row, i, portal).state = row.state
BY DEF KeyRow, Hashing

(* A minted key is live and has no state yet.                              *)
LEMMA MintedIsRow ==
  ASSUME NEW row \in KeyRow,
         NEW w \in Accounts \union {None}
  PROVE  /\ Minted(row, w) \in KeyRow
         /\ Minted(row, w).step = "live"
         /\ Minted(row, w).state = row.state
BY DEF KeyRow, Minted

(* A deleted key forgets its state and wallet.                             *)
LEMMA DeletedIsRow ==
  ASSUME NEW row \in KeyRow
  PROVE  /\ Deleted(row) \in KeyRow
         /\ Deleted(row).step = "deleted"
         /\ Deleted(row).state = None
BY DEF KeyRow, Deleted

(* Another wallet changes nothing else.                                    *)
LEMMA PatchedIsRow ==
  ASSUME NEW row \in KeyRow,
         NEW w \in Accounts \union {None}
  PROVE  /\ Patched(row, w) \in KeyRow
         /\ Patched(row, w).step = row.step
         /\ Patched(row, w).state = row.state
BY DEF KeyRow, Patched

(* Another state changes nothing else.                                     *)
LEMMA InStateIsRow ==
  ASSUME NEW row \in KeyRow,
         NEW state \in AgentStates
  PROVE  /\ InState(row, state) \in KeyRow
         /\ InState(row, state).step = row.step
         /\ InState(row, state).state = state
         /\ InState(row, state).wallet = row.wallet
BY DEF KeyRow, InState, AgentStates

(* A report writes state and wallet only.                                  *)
LEMMA ReportedIsRow ==
  ASSUME NEW row \in KeyRow,
         NEW state \in AgentStates,
         NEW w \in Accounts \union {None}
  PROVE  /\ Reported(row, state, w) \in KeyRow
         /\ Reported(row, state, w).step = row.step
         /\ Reported(row, state, w).state = state
         /\ Reported(row, state, w).wallet = w
BY DEF KeyRow, Reported, AgentStates

(* A request a crash cut off leaves the row as it was.                     *)
LEMMA ForgottenIsRow ==
  ASSUME NEW row \in KeyRow
  PROVE  /\ Forgotten(row) \in KeyRow
         /\ Forgotten(row).step = "none"
         /\ Forgotten(row).state = row.state
BY DEF KeyRow, Forgotten

(* A step that writes one key, and what it owes for that key.              *)
Writes(k, row) ==
    /\ key' = [key EXCEPT ![k] = row]
    /\ \A l \in Keys : l # k => /\ claim'[l] = claim[l]
                                /\ answered'[l] = answered[l]
                                /\ l \in burnt' <=> l \in burnt
                                /\ l \in touched' <=> l \in touched
    /\ deposited' = deposited
    /\ polling' \subseteq polling
    /\ row.step \in {"none", "hashing"} => claim'[k] = "none"
    /\ row.state = "funded" => row.step = "live"
    /\ answered'[k] + (IF k \in burnt' THEN 1 ELSE 0) = IF claim'[k] = "used" THEN 1 ELSE 0
    /\ row.state = "funded" /\ k \notin touched' => row.wallet \in deposited
    /\ \A r \in polling' : r.key = k =>
          /\ row.step \in {"live", "deleted"}
          /\ row.step = "live" /\ k \notin touched' => row.wallet = r.wallet

(* It keeps what is said of all the keys and of the rows being looked up.  *)
LEMMA OneKeyWritten ==
  ASSUME OnboardingInv, NEW k \in Keys, NEW row \in KeyRow, Writes(k, row)
  PROVE  /\ key' \in [Keys -> KeyRow]
         /\ \A l \in Keys : KeyOK(l)'
         /\ \A r \in polling' : RowOK(r)'
<1>1. /\ key' \in [Keys -> KeyRow]
      /\ key'[k] = row
      /\ \A l \in Keys : l # k => key'[l] = key[l]
  BY RowWritten DEF Writes, OnboardingInv, OnboardingTypeOK
<1>2. ASSUME NEW l \in Keys PROVE KeyOK(l)'
  <2>1. KeyOK(l)
    BY DEF OnboardingInv
  <2>2. CASE l = k
    BY <1>1, <2>2 DEF Writes, KeyOK, Live, Settled
  <2>3. CASE l # k
    BY <1>1, <2>1, <2>3 DEF Writes, KeyOK, Live, Settled
  <2> QED BY <2>2, <2>3
<1>3. ASSUME NEW r \in polling' PROVE RowOK(r)'
  <2>1. RowOK(r) /\ r.key \in Keys
    BY DEF Writes, OnboardingInv, OnboardingTypeOK
  <2>2. CASE r.key = k
    BY <1>1, <2>2 DEF Writes, RowOK, Live
  <2>3. CASE r.key # k
    BY <1>1, <2>1, <2>3 DEF Writes, RowOK, Live
  <2> QED BY <2>2, <2>3
<1> QED BY <1>1, <1>2, <1>3

(* A step that leaves the table alone.                                     *)
LEMMA NoKeyWritten ==
  ASSUME OnboardingInv, UNCHANGED <<key, claim, answered, burnt, touched>>,
         deposited \subseteq deposited', polling' \subseteq polling
  PROVE  /\ key' \in [Keys -> KeyRow]
         /\ \A l \in Keys : KeyOK(l)'
         /\ \A r \in polling' : RowOK(r)'
<1>1. ASSUME NEW l \in Keys PROVE KeyOK(l)'
  <2>1. KeyOK(l)
    BY DEF OnboardingInv
  <2> QED BY <2>1 DEF KeyOK, Live, Settled
<1>2. ASSUME NEW r \in polling' PROVE RowOK(r)'
  <2>1. RowOK(r)
    BY DEF OnboardingInv
  <2> QED BY <2>1 DEF RowOK, Live
<1> QED BY <1>1, <1>2 DEF OnboardingInv, OnboardingTypeOK

(* The bound on faults holds after every step.                             *)
LEMMA FaultsCounted ==
  ASSUME OnboardingTypeOK, Sound \/ Fault
  PROVE  faults' \in 0 .. MaxFaults
BY OnboardingAssumption DEF OnboardingTypeOK, Sound, Fault

(* An instance without keys satisfies the invariant.                       *)
LEMMA OnboardingStarts == Init => OnboardingInv
<1> SUFFICES ASSUME Init PROVE OnboardingInv
  OBVIOUS
<1> USE OnboardingAssumption
<1>1. OnboardingTypeOK
  <2>1. [step |-> "none", portal |-> FALSE, owner |-> None, state |-> None, wallet |-> None]
          \in KeyRow
    BY DEF KeyRow
  <2>2. key \in [Keys -> KeyRow]
    BY <2>1 DEF Init
  <2>3. agent \in [Agents -> [step : {"idle", "claiming", "redeemed", "ready"},
                             key : Keys \union {None}]]
    BY DEF Init
  <2>4. faults \in 0 .. MaxFaults
    BY DEF Init
  <2>5. /\ claim \in [Keys -> {"none", "open", "used", "expired"}]
        /\ answered \in [Keys -> Nat]
        /\ burnt \in SUBSET Keys
        /\ deposited \in SUBSET Accounts
        /\ polling \in SUBSET [key : Keys, wallet : Accounts]
        /\ outage \in BOOLEAN
        /\ touched \in SUBSET Keys
    BY DEF Init
  <2> QED BY <2>2, <2>3, <2>4, <2>5 DEF OnboardingTypeOK
<1>2. \A k \in Keys : KeyOK(k)
  BY DEF Init, KeyOK, Live, Settled
<1>3. (\A r \in polling : RowOK(r)) /\ (\A a \in Agents : AgentOK(a))
  BY DEF Init, AgentOK
<1> QED BY <1>1, <1>2, <1>3 DEF OnboardingInv

(* The agents a step leaves alone.                                         *)
LEMMA AgentsAlone ==
  ASSUME OnboardingInv, UNCHANGED agent
  PROVE  /\ agent' \in [Agents -> [step : {"idle", "claiming", "redeemed", "ready"},
                                   key : Keys \union {None}]]
         /\ \A a \in Agents : AgentOK(a)'
BY DEF OnboardingInv, OnboardingTypeOK, AgentOK

(* What an operator does to a key (dashboard.js) keeps the invariant.      *)
LEMMA OperatorKeeps ==
  ASSUME OnboardingInv, OperatorStep
  PROVE  OnboardingInv'
<1>1. PICK k \in Keys :
        \/ \E i \in Identities, portal \in BOOLEAN : RequestKey(k, i, portal)
        \/ \E w \in Accounts \union {None} : MintKey(k, w) \/ PatchWallet(k, w)
        \/ DeleteKey(k)
        \/ ExpireClaim(k)
  BY DEF OperatorStep
<1>2. key[k] \in KeyRow /\ KeyOK(k)
  BY DEF OnboardingInv, OnboardingTypeOK
<1>3. \A r \in polling : RowOK(r)
  BY DEF OnboardingInv
<1>4. UNCHANGED <<burnt, agent, deposited, polling, outage>>
  BY <1>1 DEF RequestKey, MintKey, PatchWallet, DeleteKey, ExpireClaim
<1>5. faults' \in 0 .. MaxFaults
  <2>1. Sound \/ Fault
    BY <1>1 DEF RequestKey, MintKey, PatchWallet, DeleteKey, ExpireClaim
  <2> QED BY <2>1, FaultsCounted DEF OnboardingInv
<1>6. ASSUME key' \in [Keys -> KeyRow], claim' \in [Keys -> {"none", "open", "used", "expired"}],
             answered' \in [Keys -> Nat], touched' \in SUBSET Keys,
             \A l \in Keys : KeyOK(l)', \A r \in polling' : RowOK(r)'
      PROVE  OnboardingInv'
  BY <1>4, <1>5, <1>6, AgentsAlone DEF OnboardingInv, OnboardingTypeOK
<1>7. ASSUME NEW i \in Identities, NEW portal \in BOOLEAN, RequestKey(k, i, portal)
      PROVE  OnboardingInv'
  <2> DEFINE row == Hashing(key[k], i, portal)
  <2>1. key' = [key EXCEPT ![k] = row]
    BY <1>7 DEF Hashing, RequestKey, OnboardingInv, OnboardingTypeOK, KeyRow
  <2>2. row \in KeyRow /\ row.step = "hashing" /\ row.state = key[k].state
    BY <1>2, HashingIsRow
  <2>3. UNCHANGED <<claim, answered, touched>> /\ key[k].step = "none"
    BY <1>7 DEF RequestKey
  <2>4. \A r \in polling' : r.key # k
    BY <1>3, <1>4, <2>3 DEF RowOK
  <2>5. claim[k] = "none" /\ key[k].state # "funded" /\ Settled(k)'
    BY <1>2, <1>4, <2>3 DEF KeyOK, Live, Settled
  <2> HIDE DEF row
  <2>6. Writes(k, row)
    BY <1>4, <2>1, <2>2, <2>3, <2>4, <2>5 DEF Writes, Settled
  <2>7. /\ key' \in [Keys -> KeyRow]
        /\ \A l \in Keys : KeyOK(l)'
        /\ \A r \in polling' : RowOK(r)'
    BY <2>2, <2>6, OneKeyWritten
  <2> QED BY <1>6, <2>3, <2>7 DEF OnboardingInv, OnboardingTypeOK
<1>8. ASSUME NEW w \in Accounts \union {None}, MintKey(k, w)
      PROVE  OnboardingInv'
  <2> DEFINE row == Minted(key[k], w)
  <2>1. key' = [key EXCEPT ![k] = row]
    BY <1>8 DEF Minted, MintKey, OnboardingInv, OnboardingTypeOK, KeyRow
  <2>2. row \in KeyRow /\ row.step = "live" /\ row.state = key[k].state
    BY <1>2, MintedIsRow
  <2>3. UNCHANGED <<answered, touched>> /\ key[k].step = "hashing"
    BY <1>8 DEF MintKey
  <2>4. \A r \in polling' : r.key # k
    BY <1>3, <1>4, <2>3 DEF RowOK
  <2>5. claim[k] = "none" /\ key[k].state # "funded" /\ Settled(k)
    BY <1>2, <2>3 DEF KeyOK, Live
  <2>6. claim' = claim \/ claim' = [claim EXCEPT ![k] = "open"]
    BY <1>8 DEF MintKey
  <2>7. /\ claim' \in [Keys -> {"none", "open", "used", "expired"}]
        /\ claim'[k] # "used"
        /\ \A l \in Keys : l # k => claim'[l] = claim[l]
    BY <2>5, <2>6 DEF OnboardingInv, OnboardingTypeOK
  <2>10. Settled(k)'
    BY <1>4, <2>3, <2>5, <2>7 DEF Settled
  <2> HIDE DEF row
  <2>8. Writes(k, row)
    BY <1>4, <2>1, <2>2, <2>3, <2>4, <2>5, <2>7, <2>10 DEF Writes, Settled
  <2>9. /\ key' \in [Keys -> KeyRow]
        /\ \A l \in Keys : KeyOK(l)'
        /\ \A r \in polling' : RowOK(r)'
    BY <2>2, <2>8, OneKeyWritten
  <2> QED BY <1>6, <2>3, <2>7, <2>9 DEF OnboardingInv, OnboardingTypeOK
<1>9. ASSUME NEW w \in Accounts \union {None}, PatchWallet(k, w)
      PROVE  OnboardingInv'
  <2> DEFINE row == Patched(key[k], w)
  <2>1. key' = [key EXCEPT ![k] = row]
    BY <1>9 DEF Patched, PatchWallet, OnboardingInv, OnboardingTypeOK, KeyRow
  <2>2. row \in KeyRow /\ row.step = key[k].step /\ row.state = key[k].state
    BY <1>2, PatchedIsRow
  <2>3. UNCHANGED <<claim, answered>> /\ touched' = touched \union {k}
    BY <1>9 DEF PatchWallet, Touch
  <2>4. key[k].step = "live"
    BY <1>9 DEF PatchWallet, Live
  <2>5. Settled(k)'
    BY <1>2, <1>4, <2>3 DEF KeyOK, Settled
  <2> HIDE DEF row
  <2>6. Writes(k, row)
    BY <1>4, <2>1, <2>2, <2>3, <2>4, <2>5 DEF Writes, Settled
  <2>7. /\ key' \in [Keys -> KeyRow]
        /\ \A l \in Keys : KeyOK(l)'
        /\ \A r \in polling' : RowOK(r)'
    BY <2>2, <2>6, OneKeyWritten
  <2> QED BY <1>6, <2>3, <2>7 DEF OnboardingInv, OnboardingTypeOK
<1>10. CASE DeleteKey(k)
  <2> DEFINE row == Deleted(key[k])
  <2>1. key' = [key EXCEPT ![k] = row]
    BY <1>10 DEF Deleted, DeleteKey, OnboardingInv, OnboardingTypeOK, KeyRow
  <2>2. row \in KeyRow /\ row.step = "deleted" /\ row.state = None
    BY <1>2, DeletedIsRow
  <2>3. UNCHANGED <<claim, answered, touched>>
    BY <1>10 DEF DeleteKey
  <2>4. Settled(k)'
    BY <1>2, <1>4, <2>3 DEF KeyOK, Settled, Live
  <2> HIDE DEF row
  <2>5. Writes(k, row)
    BY <1>4, <2>1, <2>2, <2>3, <2>4, OnboardingAssumption DEF Writes, Settled
  <2>6. /\ key' \in [Keys -> KeyRow]
        /\ \A l \in Keys : KeyOK(l)'
        /\ \A r \in polling' : RowOK(r)'
    BY <2>2, <2>5, OneKeyWritten
  <2> QED BY <1>6, <2>3, <2>6 DEF OnboardingInv, OnboardingTypeOK
<1>11. CASE ExpireClaim(k)
  <2>1. UNCHANGED <<key, answered, touched>> /\ claim[k] = "open"
        /\ claim' = [claim EXCEPT ![k] = "expired"]
    BY <1>11 DEF ExpireClaim
  <2>2. key' = [key EXCEPT ![k] = key[k]]
    BY <2>1 DEF OnboardingInv, OnboardingTypeOK
  <2>3. /\ claim' \in [Keys -> {"none", "open", "used", "expired"}]
        /\ claim'[k] = "expired"
        /\ \A l \in Keys : l # k => claim'[l] = claim[l]
    BY <2>1 DEF OnboardingInv, OnboardingTypeOK
  <2>4. /\ key[k].step \notin {"none", "hashing"}
        /\ Settled(k)'
        /\ key[k].state = "funded" => key[k].step = "live"
        /\ key[k].state = "funded" /\ k \notin touched => key[k].wallet \in deposited
    BY <1>2, <1>4, <2>1, <2>3 DEF KeyOK, Live, Settled
  <2>5. \A r \in polling' : r.key = k =>
            /\ key[k].step \in {"live", "deleted"}
            /\ key[k].step = "live" /\ k \notin touched' => key[k].wallet = r.wallet
    BY <1>3, <1>4, <2>1 DEF RowOK, Live
  <2>6. Writes(k, key[k])
    BY <1>4, <2>1, <2>2, <2>3, <2>4, <2>5 DEF Writes, Settled
  <2>7. /\ key' \in [Keys -> KeyRow]
        /\ \A l \in Keys : KeyOK(l)'
        /\ \A r \in polling' : RowOK(r)'
    BY <1>2, <2>6, OneKeyWritten
  <2> QED BY <1>6, <2>1, <2>3, <2>7 DEF OnboardingInv, OnboardingTypeOK
<1> QED BY <1>1, <1>7, <1>8, <1>9, <1>10, <1>11

(* The table is read and written by the agents' routes.                    *)
LEMMA AgentKeeps ==
  ASSUME OnboardingInv, NEW a \in Agents,
         \/ \E k \in Keys : StartOnboarding(a, k)
         \/ RedeemClaim(a)
         \/ OpeningFails(a)
         \/ ClaimRefused(a)
         \/ \E w \in Accounts : ReportWallet(a, w)
         \/ ReportLost(a)
         \/ \E state \in AgentStates : ReportState(a, state)
  PROVE  OnboardingInv'
<1> DEFINE k == agent[a].key
<1>2. agent[a].step # "idle" => k \in Keys
  BY DEF OnboardingInv, AgentOK
<1>3. \A r \in polling : RowOK(r)
  BY DEF OnboardingInv
<1>4. UNCHANGED <<burnt, deposited, polling, outage>>
  BY DEF StartOnboarding, RedeemClaim, OpeningFails, ClaimRefused, ReportWallet,
              ReportLost, ReportState
<1>5. faults' \in 0 .. MaxFaults
  <2>1. Sound \/ Fault
    BY DEF StartOnboarding, RedeemClaim, OpeningFails, ClaimRefused, ReportWallet,
                ReportLost, ReportState
  <2> QED BY <2>1, FaultsCounted DEF OnboardingInv
<1>6. ASSUME NEW step \in {"claiming", "redeemed", "ready"}, agent[a].step # "idle" \/ k \in Keys,
             AgentGoes(a, step) \/ AgentFails(a) \/ UNCHANGED agent
      PROVE  /\ agent' \in [Agents -> [step : {"idle", "claiming", "redeemed", "ready"},
                                       key : Keys \union {None}]]
             /\ \A b \in Agents : AgentOK(b)'
  <2>1. /\ agent \in [Agents -> [step : {"idle", "claiming", "redeemed", "ready"},
                                 key : Keys \union {None}]]
        /\ \A b \in Agents : AgentOK(b)
    BY DEF OnboardingInv, OnboardingTypeOK
  <2>2. CASE AgentFails(a)
    BY <2>1, <2>2 DEF AgentFails, AgentOK
  <2>3. CASE AgentGoes(a, step)
    <3>1. k \in Keys
      BY <1>2, <1>6
    <3>2. agent' \in [Agents -> [step : {"idle", "claiming", "redeemed", "ready"},
                                 key : Keys \union {None}]]
      BY <2>1, <2>3 DEF AgentGoes
    <3>3. \A b \in Agents : agent'[b].key = agent[b].key /\ (b # a => agent'[b] = agent[b])
      BY <2>1, <2>3 DEF AgentGoes
    <3> QED BY <2>1, <3>1, <3>2, <3>3 DEF AgentOK
  <2> QED BY <1>6, <2>1, <2>2, <2>3, AgentsAlone
<1>7. ASSUME key' \in [Keys -> KeyRow], claim' \in [Keys -> {"none", "open", "used", "expired"}],
             answered' \in [Keys -> Nat], touched' \in SUBSET Keys,
             agent' \in [Agents -> [step : {"idle", "claiming", "redeemed", "ready"},
                                    key : Keys \union {None}]],
             \A l \in Keys : KeyOK(l)', \A r \in polling' : RowOK(r)',
             \A b \in Agents : AgentOK(b)'
      PROVE  OnboardingInv'
  BY <1>4, <1>5, <1>7 DEF OnboardingInv, OnboardingTypeOK
<1>8. ASSUME UNCHANGED <<key, claim, answered, burnt, touched>>,
             agent' \in [Agents -> [step : {"idle", "claiming", "redeemed", "ready"},
                                    key : Keys \union {None}]],
             \A b \in Agents : AgentOK(b)'
      PROVE  OnboardingInv'
  BY <1>4, <1>7, <1>8, NoKeyWritten DEF OnboardingInv, OnboardingTypeOK
<1>9. ASSUME NEW l \in Keys, StartOnboarding(a, l) PROVE OnboardingInv'
  <2>1. agent' = [agent EXCEPT ![a] = [step |-> "claiming", key |-> l]]
        /\ UNCHANGED <<key, claim, answered, burnt, touched>>
    BY <1>9 DEF StartOnboarding
  <2>2. /\ agent' \in [Agents -> [step : {"idle", "claiming", "redeemed", "ready"},
                                  key : Keys \union {None}]]
        /\ \A b \in Agents : AgentOK(b)'
    BY <2>1 DEF OnboardingInv, OnboardingTypeOK, AgentOK
  <2> QED BY <1>8, <2>1, <2>2
<1>10. CASE OpeningFails(a) \/ ClaimRefused(a) \/ ReportLost(a)
  <2>1. /\ UNCHANGED <<key, claim, answered, burnt, touched>>
        /\ agent[a].step # "idle"
        /\ AgentGoes(a, "ready") \/ AgentFails(a)
    BY <1>10 DEF OpeningFails, ClaimRefused, ReportLost, PayloadDoesNotOpen
  <2> QED BY <1>6, <1>8, <2>1
<1>11. CASE RedeemClaim(a)
  <2> DEFINE row == IF Live(k) THEN InState(key[k], "initializing") ELSE key[k]
  <2>1. k \in Keys /\ claim[k] = "open"
    BY <1>2, <1>11 DEF RedeemClaim
  <2>2. key[k] \in KeyRow /\ KeyOK(k)
    BY <2>1 DEF OnboardingInv, OnboardingTypeOK
  <2>3. "initializing" \in AgentStates
    BY DEF AgentStates
  <2>4. /\ row \in KeyRow /\ row.step = key[k].step
        /\ row.state # "funded" \/ (row.state = key[k].state /\ row.wallet = key[k].wallet)
        /\ row.step = "live" => row.wallet = key[k].wallet
    <3>1. CASE Live(k)
      BY <2>2, <2>3, <3>1, InStateIsRow
    <3>2. CASE ~Live(k)
      BY <2>2, <3>2
    <3> QED BY <3>1, <3>2
  <2>5. key' = [key EXCEPT ![k] = row]
    BY <1>11, <2>1 DEF RedeemClaim, Initializing, InState, OnboardingInv, OnboardingTypeOK, KeyRow
  <2>6. /\ UNCHANGED touched
        /\ claim' = [claim EXCEPT ![k] = "used"]
        /\ answered' = [answered EXCEPT ![k] = @ + 1]
    BY <1>11 DEF RedeemClaim, MarkUsed
  <2>7. /\ key[k].step \notin {"none", "hashing"} /\ answered[k] = 0 /\ k \notin burnt
        /\ key[k].state = "funded" => key[k].step = "live"
        /\ key[k].state = "funded" /\ k \notin touched => key[k].wallet \in deposited
    <3>1. answered[k] \in Nat
      BY <2>1 DEF OnboardingInv, OnboardingTypeOK
    <3> QED BY <2>1, <2>2, <3>1 DEF KeyOK, Live, Settled
  <2>8. /\ claim' \in [Keys -> {"none", "open", "used", "expired"}] /\ claim'[k] = "used"
        /\ answered' \in [Keys -> Nat] /\ answered'[k] = 1
        /\ \A l \in Keys : l # k => claim'[l] = claim[l] /\ answered'[l] = answered[l]
    BY <2>1, <2>6, <2>7 DEF OnboardingInv, OnboardingTypeOK
  <2>14. answered'[k] + (IF k \in burnt' THEN 1 ELSE 0) = IF claim'[k] = "used" THEN 1 ELSE 0
    BY <1>4, <2>7, <2>8
  <2>9. \A r \in polling' : r.key = k =>
            /\ key[k].step \in {"live", "deleted"}
            /\ key[k].step = "live" /\ k \notin touched' => key[k].wallet = r.wallet
    BY <1>3, <1>4, <2>6 DEF RowOK, Live
  <2> HIDE DEF row
  <2>10. Writes(k, row)
    BY <1>4, <2>4, <2>5, <2>6, <2>7, <2>8, <2>9, <2>14 DEF Writes
  <2>11. /\ key' \in [Keys -> KeyRow]
         /\ \A l \in Keys : KeyOK(l)'
         /\ \A r \in polling' : RowOK(r)'
    BY <2>1, <2>4, <2>10, OneKeyWritten
  <2>12. AgentGoes(a, "redeemed") \/ AgentFails(a)
    BY <1>11 DEF RedeemClaim
  <2>13. touched' \in SUBSET Keys
    BY <2>6 DEF OnboardingInv, OnboardingTypeOK
  <2> QED BY <1>6, <1>7, <2>1, <2>8, <2>11, <2>12, <2>13
<1>12. ASSUME NEW state \in AgentStates, NEW w \in Accounts \union {None},
              WriteStatus(k, state, w), UNCHANGED <<claim, answered>>,
              agent[a].step # "idle", AgentGoes(a, "ready") \/ UNCHANGED agent
       PROVE  OnboardingInv'
  <2> DEFINE row == IF Live(k) THEN Reported(key[k], state, w) ELSE key[k]
  <2>1. k \in Keys
    BY <1>2, <1>12
  <2>2. key[k] \in KeyRow /\ KeyOK(k) /\ key \in [Keys -> KeyRow]
    BY <2>1 DEF OnboardingInv, OnboardingTypeOK
  <2>3. /\ row \in KeyRow /\ row.step = key[k].step
        /\ IF Live(k) THEN row.state = state ELSE row = key[k]
    <3>1. CASE Live(k)
      BY <1>12, <2>2, <3>1, ReportedIsRow
    <3>2. CASE ~Live(k)
      BY <2>2, <3>2
    <3> QED BY <3>1, <3>2
  <2>4. key' = [key EXCEPT ![k] = row]
    BY <1>12, <2>1, <2>2 DEF WriteStatus, Reported, KeyRow
  <2>5. touched' = IF InPoll(k) \/ state = "funded" THEN touched \union {k} ELSE touched \ {k}
    BY <1>12 DEF WriteStatus
  <2>6. touched' \in SUBSET Keys /\ \A l \in Keys : l # k => (l \in touched' <=> l \in touched)
    BY <2>1, <2>5 DEF OnboardingInv, OnboardingTypeOK
  <2> HIDE DEF row
  <2>7. \A r \in polling' : r.key = k => k \in touched' /\ key[k].step \in {"live", "deleted"}
    BY <1>3, <1>4, <2>5 DEF InPoll, RowOK
  <2>8. row.state = "funded" /\ k \notin touched' => row.wallet \in deposited
    <3>1. CASE Live(k)
      BY <2>3, <2>5, <3>1
    <3>2. CASE ~Live(k)
      BY <2>2, <2>3, <3>2 DEF KeyOK
    <3> QED BY <3>1, <3>2
  <2>9. Writes(k, row)
    BY <1>4, <1>12, <2>2, <2>3, <2>4, <2>6, <2>7, <2>8 DEF Writes, KeyOK, Live, Settled
  <2>10. /\ key' \in [Keys -> KeyRow]
         /\ \A l \in Keys : KeyOK(l)'
         /\ \A r \in polling' : RowOK(r)'
    BY <2>1, <2>3, <2>9, OneKeyWritten
  <2>11. claim' \in [Keys -> {"none", "open", "used", "expired"}] /\ answered' \in [Keys -> Nat]
    BY <1>12 DEF OnboardingInv, OnboardingTypeOK
  <2> QED BY <1>6, <1>7, <1>12, <2>1, <2>6, <2>10, <2>11
<1>13. ASSUME NEW w \in Accounts, ReportWallet(a, w) PROVE OnboardingInv'
  <2>1. "awaiting_funding" \in AgentStates
    BY DEF AgentStates
  <2> QED BY <1>12, <1>13, <2>1 DEF ReportWallet
<1>14. ASSUME NEW state \in AgentStates, ReportState(a, state) PROVE OnboardingInv'
  <2>1. k \in Keys
    BY <1>2, <1>14 DEF ReportState
  <2>2. key[k].wallet \in Accounts \union {None}
    BY <2>1 DEF OnboardingInv, OnboardingTypeOK, KeyRow
  <2> QED BY <1>12, <1>14, <2>2 DEF ReportState
<1> QED BY <1>9, <1>10, <1>11, <1>13, <1>14

(* A request that is cut off is a fault, and its machine may start again.  *)
LEMMA CutIsCounted ==
  ASSUME OnboardingInv, NEW a \in Agents, RedeemCut(a)
  PROVE  /\ faults' \in 0 .. MaxFaults /\ answered' \in [Keys -> Nat]
         /\ agent' \in [Agents -> [step : {"idle", "claiming", "redeemed", "ready"},
                                   key : Keys \union {None}]]
         /\ \A b \in Agents : AgentOK(b)'
<1>1. Fault /\ AgentFails(a) /\ UNCHANGED answered
  BY DEF RedeemCut
<1>2. /\ answered' \in [Keys -> Nat]
      /\ agent' \in [Agents -> [step : {"idle", "claiming", "redeemed", "ready"},
                                key : Keys \union {None}]]
      /\ \A b \in Agents : AgentOK(b)'
  BY <1>1 DEF AgentFails, AgentOK, OnboardingInv, OnboardingTypeOK
<1>3. faults' \in 0 .. MaxFaults
  BY <1>1, FaultsCounted DEF OnboardingInv
<1> QED BY <1>2, <1>3

(* A claim that is cut off after its transaction is spent, once.           *)
LEMMA CutKeeps ==
  ASSUME OnboardingInv, NEW a \in Agents, RedeemCut(a)
  PROVE  OnboardingInv'
<1> DEFINE k == agent[a].key
<1>1. /\ k \in Keys /\ claim[k] = "open"
      /\ claim' = [claim EXCEPT ![k] = "used"] /\ burnt' = burnt \union {k}
      /\ UNCHANGED <<answered, deposited, touched>>
  BY DEF RedeemCut, MarkUsed, OnboardingInv, AgentOK
<1>2. /\ claim \in [Keys -> {"none", "open", "used", "expired"}] /\ answered \in [Keys -> Nat]
      /\ key \in [Keys -> KeyRow] /\ polling \in SUBSET [key : Keys, wallet : Accounts]
      /\ outage \in BOOLEAN /\ deposited \in SUBSET Accounts
      /\ touched \in SUBSET Keys /\ burnt \in SUBSET Keys
  BY DEF OnboardingInv, OnboardingTypeOK
<1>3. /\ claim' \in [Keys -> {"none", "open", "used", "expired"}] /\ claim'[k] = "used"
      /\ \A l \in Keys : l # k => claim'[l] = claim[l] /\ (l \in burnt' <=> l \in burnt)
      /\ burnt' \in SUBSET Keys /\ k \in burnt'
  BY <1>1, <1>2
<1>4. \A l \in Keys : KeyOK(l)
  BY DEF OnboardingInv
<1>5. ASSUME NEW l \in Keys PROVE Settled(l)'
  <2>1. Settled(l) /\ answered[l] \in Nat
    BY <1>2, <1>4 DEF KeyOK
  <2> QED BY <1>1, <1>3, <2>1 DEF Settled
<1>6. PICK rows \in [Keys -> KeyRow] :
        /\ \A l \in Keys :
            /\ rows[l].step = key[l].step
            /\ rows[l] = key[l] \/ (l = k /\ rows[l].state # "funded")
        /\ \/ rows = key /\ UNCHANGED <<key, polling, outage>>
           \/ Forget(rows)
  <2>1. CASE UNCHANGED <<key, polling, outage>> \/ Forget(key)
    BY <1>2, <2>1
  <2>2. CASE Forget(Initializing(k))
    <3> DEFINE row == IF Live(k) THEN InState(key[k], "initializing") ELSE key[k]
    <3>1. /\ row \in KeyRow /\ row.step = key[k].step
          /\ row = key[k] \/ row.state # "funded"
      <4>1. "initializing" \in AgentStates /\ key[k] \in KeyRow
        BY <1>1, <1>2 DEF AgentStates
      <4>2. CASE Live(k)
        BY <4>1, <4>2, InStateIsRow
      <4>3. CASE ~Live(k)
        BY <4>1, <4>3
      <4> QED BY <4>2, <4>3
    <3>2. Initializing(k) = [key EXCEPT ![k] = row]
      BY <1>1, <1>2 DEF Initializing, InState, KeyRow
    <3> HIDE DEF row
    <3>3. /\ Initializing(k) \in [Keys -> KeyRow]
          /\ \A l \in Keys : Initializing(k)[l] = IF l = k THEN row ELSE key[l]
      BY <1>1, <1>2, <3>1, <3>2
    <3> QED BY <2>2, <3>1, <3>3
  <2> QED BY <2>1, <2>2 DEF RedeemCut
<1>7. CASE rows = key /\ UNCHANGED <<key, polling, outage>>
  <2>1. ASSUME NEW l \in Keys PROVE KeyOK(l)'
    <3>1. claim[l] = "open" => key[l].step \notin {"none", "hashing"}
      BY <1>4 DEF KeyOK
    <3>2. key[l].step \in {"none", "hashing"} => claim'[l] = "none"
      BY <1>1, <1>3, <1>4, <3>1 DEF KeyOK
    <3> QED BY <1>1, <1>4, <1>5, <1>7, <3>2 DEF KeyOK, Live
  <2>2. \A r \in polling' : RowOK(r)'
    BY <1>1, <1>7 DEF OnboardingInv, RowOK, Live
  <2>3. key' \in [Keys -> KeyRow] /\ polling' = polling /\ outage' \in BOOLEAN
    BY <1>2, <1>7
  <2> QED BY <1>1, <1>2, <1>3, <2>1, <2>2, <2>3, CutIsCounted DEF OnboardingInv, OnboardingTypeOK
<1>8. CASE Forget(rows)
  <2>1. key' = [l \in Keys |-> IF rows[l].step = "hashing" THEN Forgotten(rows[l]) ELSE rows[l]]
        /\ polling' = {} /\ outage' = FALSE
    BY <1>8 DEF Forget, Forgotten
  <2>2. ASSUME NEW l \in Keys PROVE key'[l] \in KeyRow /\ KeyOK(l)'
    <3>1. /\ rows[l] \in KeyRow /\ rows[l].step = key[l].step /\ KeyOK(l)
          /\ rows[l] = key[l] \/ (l = k /\ rows[l].state # "funded")
      BY <1>4, <1>6
    <3>2. CASE rows[l].step = "hashing"
      <4>1. key'[l] = Forgotten(rows[l]) /\ l # k
        BY <1>1, <2>1, <3>1, <3>2 DEF KeyOK
      <4>2. key'[l] \in KeyRow /\ key'[l].step = "none" /\ key'[l].state = key[l].state
        BY <3>1, <4>1, ForgottenIsRow
      <4>3. key[l].state # "funded" /\ claim'[l] = "none"
        BY <1>3, <3>1, <3>2, <4>1 DEF KeyOK, Live
      <4> QED BY <1>5, <4>2, <4>3 DEF KeyOK
    <3>3. CASE rows[l].step # "hashing"
      <4>1. key'[l] = rows[l]
        BY <2>1, <3>3
      <4>2. key'[l].step \in {"none", "hashing"} => claim'[l] = "none"
        BY <1>1, <1>3, <3>1, <4>1 DEF KeyOK
      <4>3. key'[l].state = "funded" => rows[l] = key[l]
        BY <3>1, <4>1
      <4> QED BY <1>1, <1>5, <3>1, <4>1, <4>2, <4>3 DEF KeyOK, Live
    <3> QED BY <3>2, <3>3
  <2>3. key' \in [Keys -> KeyRow]
    BY <2>1, <2>2
  <2> QED BY <1>1, <1>2, <1>3, <2>1, <2>2, <2>3, CutIsCounted DEF OnboardingInv, OnboardingTypeOK
<1> QED BY <1>6, <1>7, <1>8

(* The deposit and the funding check.                                      *)
LEMMA FundingKeeps ==
  ASSUME OnboardingInv,
         (\E w \in Accounts : Deposit(w)) \/ StartFundingCheck \/ CheckStep
  PROVE  OnboardingInv'
<1>1. /\ UNCHANGED <<claim, answered, burnt, agent, touched>>
      /\ faults' \in 0 .. MaxFaults
      /\ outage' \in BOOLEAN
  <2>1. Sound \/ Fault
    BY DEF Deposit, StartFundingCheck, CheckStep, BalanceAnswered, BalanceUnavailable
  <2>2. outage' \in {outage, TRUE, FALSE}
    BY DEF Deposit, StartFundingCheck, CheckStep, BalanceAnswered, BalanceUnavailable
  <2>3. outage \in BOOLEAN
    BY DEF OnboardingInv, OnboardingTypeOK
  <2>4. UNCHANGED <<claim, answered, burnt, agent, touched>>
    BY DEF Deposit, StartFundingCheck, CheckStep, BalanceAnswered, BalanceUnavailable
  <2> QED BY <2>1, <2>2, <2>3, <2>4, FaultsCounted DEF OnboardingInv
<1>2. ASSUME key' \in [Keys -> KeyRow], deposited' \in SUBSET Accounts,
             polling' \in SUBSET [key : Keys, wallet : Accounts],
             \A l \in Keys : KeyOK(l)', \A r \in polling' : RowOK(r)'
      PROVE  OnboardingInv'
  BY <1>1, <1>2, AgentsAlone DEF OnboardingInv, OnboardingTypeOK
<1>3. ASSUME NEW w \in Accounts, Deposit(w) PROVE OnboardingInv'
  <2>1. UNCHANGED <<key, polling>> /\ deposited' = deposited \union {w}
    BY <1>3 DEF Deposit
  <2> QED BY <1>1, <1>2, <2>1, NoKeyWritten DEF OnboardingInv, OnboardingTypeOK
<1>4. CASE StartFundingCheck
  <2>1. UNCHANGED <<key, deposited>> /\ polling' = Awaiting
    BY <1>4 DEF StartFundingCheck
  <2>2. \A l \in Keys : KeyOK(l)'
    <3> SUFFICES ASSUME NEW l \in Keys PROVE KeyOK(l)'
      OBVIOUS
    <3>1. KeyOK(l)
      BY DEF OnboardingInv
    <3> QED BY <1>1, <2>1, <3>1 DEF KeyOK, Live, Settled
  <2>3. ASSUME NEW r \in polling'
        PROVE  r \in [key : Keys, wallet : Accounts] /\ RowOK(r)'
    <3>1. PICK l \in Keys : /\ Live(l) /\ key[l].wallet # None
                            /\ r = [key |-> l, wallet |-> key[l].wallet]
      BY <2>1 DEF Awaiting
    <3>2. key[l] \in KeyRow
      BY DEF OnboardingInv, OnboardingTypeOK
    <3>3. key[l].wallet \in Accounts
      BY <3>1, <3>2 DEF KeyRow
    <3>4. r.key = l /\ r.wallet = key[l].wallet
      BY <3>1
    <3>5. r \in [key : Keys, wallet : Accounts]
      BY <3>1, <3>3
    <3> QED BY <2>1, <3>1, <3>4, <3>5 DEF RowOK, Live
  <2> QED BY <1>2, <2>1, <2>2, <2>3 DEF OnboardingInv, OnboardingTypeOK
<1>5. ASSUME NEW r \in polling, BalanceUnavailable(r) PROVE OnboardingInv'
  <2>1. UNCHANGED <<key, deposited>> /\ polling' = polling \ {r}
    BY <1>5 DEF BalanceUnavailable
  <2> QED BY <1>1, <1>2, <2>1, NoKeyWritten DEF OnboardingInv, OnboardingTypeOK
<1>6. ASSUME NEW r \in polling, BalanceAnswered(r) PROVE OnboardingInv'
  <2> DEFINE k == r.key
             row == InState(key[k], "funded")
  <2>1. deposited' = deposited /\ polling' = polling \ {r}
    BY <1>6 DEF BalanceAnswered
  <2>2. CASE ~(HoldsCSPR(r.wallet) /\ Live(k))
    <3>1. key' = key
      BY <1>6, <2>2 DEF BalanceAnswered
    <3> QED BY <1>1, <1>2, <2>1, <3>1, NoKeyWritten DEF OnboardingInv, OnboardingTypeOK
  <2>3. CASE HoldsCSPR(r.wallet) /\ Live(k)
    <3>1. k \in Keys /\ RowOK(r) /\ "funded" \in AgentStates
      BY DEF OnboardingInv, OnboardingTypeOK, AgentStates
    <3>2. key[k] \in KeyRow /\ KeyOK(k)
      BY <3>1 DEF OnboardingInv, OnboardingTypeOK
    <3>3. /\ row \in KeyRow /\ row.step = key[k].step
          /\ row.state = "funded" /\ row.wallet = key[k].wallet
      BY <3>1, <3>2, InStateIsRow
    <3>4. key' = [key EXCEPT ![k] = row]
      BY <1>6, <2>3, <3>1 DEF BalanceAnswered, InState, OnboardingInv, OnboardingTypeOK, KeyRow
    <3> HIDE DEF row
    <3>5. row.step = "live" /\ (k \notin touched => row.wallet \in deposited)
      BY <2>3, <3>1, <3>3 DEF RowOK, HoldsCSPR, Live
    <3>6. \A q \in polling' : q.key = k => (k \notin touched' => row.wallet = q.wallet)
      BY <1>1, <2>1, <2>3, <3>3 DEF OnboardingInv, RowOK
    <3>7. answered'[k] + (IF k \in burnt' THEN 1 ELSE 0) = IF claim'[k] = "used" THEN 1 ELSE 0
      BY <1>1, <3>2 DEF KeyOK, Settled
    <3>8. Writes(k, row)
      BY <1>1, <2>1, <3>4, <3>5, <3>6, <3>7 DEF Writes
    <3>9. /\ key' \in [Keys -> KeyRow]
          /\ \A l \in Keys : KeyOK(l)'
          /\ \A q \in polling' : RowOK(q)'
      BY <3>1, <3>3, <3>8, OneKeyWritten
    <3> QED BY <1>2, <2>1, <3>9 DEF OnboardingInv, OnboardingTypeOK
  <2> QED BY <2>2, <2>3
<1> QED BY <1>3, <1>4, <1>5, <1>6 DEF CheckStep

(* A crash forgets the requests under way and the rows being looked up.    *)
LEMMA CrashKeeps ==
  ASSUME OnboardingInv, Crash
  PROVE  OnboardingInv'
<1>1. /\ UNCHANGED <<claim, answered, burnt, agent, deposited, touched>>
      /\ polling' = {} /\ outage' = FALSE
  BY DEF Crash, Forget
<1>2. faults' \in 0 .. MaxFaults
  BY FaultsCounted DEF Crash, OnboardingInv
<1>3. key' = [k \in Keys |-> IF key[k].step = "hashing" THEN Forgotten(key[k]) ELSE key[k]]
  BY DEF Crash, Forget, Forgotten
<1>4. ASSUME NEW k \in Keys PROVE key'[k] \in KeyRow /\ KeyOK(k)'
  <2>1. key[k] \in KeyRow /\ KeyOK(k)
    BY DEF OnboardingInv, OnboardingTypeOK
  <2>2. CASE key[k].step = "hashing"
    <3>1. key'[k] = Forgotten(key[k])
      BY <1>3, <2>2
    <3>2. key'[k] \in KeyRow /\ key'[k].step = "none" /\ key'[k].state = key[k].state
      BY <2>1, <3>1, ForgottenIsRow
    <3>3. key[k].state # "funded"
      BY <2>1, <2>2 DEF KeyOK, Live
    <3> QED BY <1>1, <2>1, <2>2, <3>2, <3>3 DEF KeyOK, Live, Settled
  <2>3. CASE key[k].step # "hashing"
    <3>1. key'[k] = key[k]
      BY <1>3, <2>3
    <3> QED BY <1>1, <2>1, <3>1 DEF KeyOK, Live, Settled
  <2> QED BY <2>2, <2>3
<1>5. key' \in [Keys -> KeyRow]
  BY <1>3, <1>4
<1> QED BY <1>1, <1>2, <1>4, <1>5, AgentsAlone DEF OnboardingInv, OnboardingTypeOK

-----------------------------------------------------------------------------
Inv == LoginInv /\ OnboardingInv

(* The invariant is inductive.                                             *)
LEMMA Inductive == Inv /\ [Next]_vars => Inv'
<1> SUFFICES ASSUME Inv, [Next]_vars PROVE Inv'
  OBVIOUS
<1>1. CASE SignIn
  <2>1. UNCHANGED onboardingVars /\ UNCHANGED faults /\ LoginNext
    BY <1>1 DEF SignIn
  <2>2. OnboardingInv'
    <3>1. UNCHANGED <<key, claim, answered, burnt, agent, deposited, polling, outage, touched>>
      BY <2>1 DEF onboardingVars
    <3> QED BY <2>1, <3>1, NoKeyWritten, AgentsAlone DEF Inv, OnboardingInv, OnboardingTypeOK
  <2> QED BY <2>1, <2>2, LoginKept DEF Inv
<1>2. ASSUME OnboardingInv', UNCHANGED loginVars PROVE Inv'
  BY <1>2, LoginKept DEF Inv
<1>3. CASE OperatorStep
  <2>1. UNCHANGED loginVars
    BY <1>3 DEF OperatorStep, RequestKey, MintKey, PatchWallet, DeleteKey, ExpireClaim, loginVars
  <2> QED BY <1>2, <1>3, <2>1, OperatorKeeps DEF Inv
<1>4. CASE AgentStep
  <2>1. UNCHANGED loginVars
    BY <1>4 DEF AgentStep, StartOnboarding, RedeemClaim, RedeemCut, OpeningFails, ClaimRefused,
                ReportWallet, ReportLost, ReportState, loginVars
  <2> QED BY <1>2, <1>4, <2>1, AgentKeeps, CutKeeps DEF Inv, AgentStep
<1>5. CASE (\E w \in Accounts : Deposit(w)) \/ StartFundingCheck \/ CheckStep
  <2>1. UNCHANGED loginVars
    BY <1>5 DEF Deposit, StartFundingCheck, CheckStep, BalanceAnswered, BalanceUnavailable, loginVars
  <2> QED BY <1>2, <1>5, <2>1, FundingKeeps DEF Inv
<1>6. CASE Crash
  <2>1. UNCHANGED loginVars
    BY <1>6 DEF Crash, loginVars
  <2> QED BY <1>2, <1>6, <2>1, CrashKeeps DEF Inv
<1>7. CASE UNCHANGED vars
  <2>1. UNCHANGED loginVars /\ UNCHANGED <<key, claim, answered, burnt, agent, deposited,
                                           polling, outage, touched, faults>>
    BY <1>7 DEF vars, onboardingVars
  <2> QED BY <1>2, <2>1, NoKeyWritten, AgentsAlone DEF Inv, OnboardingInv, OnboardingTypeOK
<1> QED BY <1>1, <1>3, <1>4, <1>5, <1>6, <1>7 DEF Next

(* The reachable states satisfy the inductive invariant.                   *)
THEOREM Invariant == Spec => []Inv
<1>1. Init => Inv
  BY LoginStarts, OnboardingStarts DEF Init, Inv
<1> QED BY <1>1, Inductive, PTL DEF Spec

(* Every variable keeps its type: no answer, retry or crash writes a       *)
(* malformed row (app.js, auth.js, jobs.js).                               *)
THEOREM TypeCorrect == Spec => []TypeOK
<1>1. Inv => TypeOK
  BY DEF Inv, LoginInv, OnboardingInv, OnboardingTypeOK, TypeOK
<1> QED BY <1>1, Invariant, PTL

(* Wrong answers are counted against every active code of the address, so  *)
(* asking for more codes never buys more guesses (auth.js:545-585).        *)
THEOREM GuessesAreBounded == Spec => []ActiveCodesAreFresh
<1>1. ASSUME Inv, NEW e \in Emails, NEW n \in DOMAIN code[e]
      PROVE  code[e][n].tries < FailLimit
  <2>1. code[e] \in Seq(FreshCode)
    BY <1>1 DEF Inv, LoginInv, CodesAreFresh
  <2>2. code[e][n] \in FreshCode
    BY <2>1
  <2> QED BY <2>2 DEF FreshCode
<1>2. Inv => ActiveCodesAreFresh
  BY <1>1 DEF Inv, LoginInv, CodesAreFresh, ActiveCodesAreFresh
<1> QED BY <1>2, Invariant, PTL

(* A new instance gets exactly one owner, whichever of the three ways in   *)
(* is first, and every session is of a user with one dashboard             *)
(* (auth.js:587-660).                                                      *)
THEOREM OneOwnerOnly == Spec => []OneOwner
<1>1. ASSUME Inv, NEW t \in Tokens, session[t] # None
      PROVE  role[session[t]] # None /\ dashboards[session[t]] = 1
  <2>1. session[t] \in Identities
    BY <1>1 DEF Inv, LoginInv, LoginTypeOK
  <2>2. role[session[t]] # None
    BY <1>1 DEF Inv, LoginInv, SessionsAreOfUsers
  <2> QED BY <1>1, <2>1, <2>2 DEF Inv, LoginInv, UsersHaveHomes
<1>2. Inv => OneOwner
  BY <1>1 DEF Inv, LoginInv, FirstUserOwns, OneOwner
<1> QED BY <1>2, Invariant, PTL

(* The credentials of a key are sent at most once, and a claim is spent by *)
(* sending them, unless the process dies or a statement throws between its *)
(* transaction and the answer (app.js:360, 396-434, 451).                  *)
THEOREM CredentialsSentOnce == Spec => []ClaimSpentOnce
<1>1. Inv => ClaimSpentOnce
  BY DEF Inv, OnboardingInv, KeyOK, ClaimSpentOnce, Settled
<1> QED BY <1>1, Invariant, PTL

(* An agent the funding check calls funded has a wallet with a deposit,    *)
(* unless its row was written behind the check's back (jobs.js).           *)
THEOREM FundedIsTrue == Spec => []FundedHasDeposit
<1>1. Inv => FundedHasDeposit
  BY DEF Inv, OnboardingInv, KeyOK, FundedHasDeposit
<1> QED BY <1>1, Invariant, PTL

=============================================================================
