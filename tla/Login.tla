------------------------------- MODULE Login -------------------------------
(***************************************************************************)
(* How a person enters the dashboard: backend/src/api/auth.js, the session *)
(* look-up of backend/src/middleware/requireAuth.js and the pruning of     *)
(* backend/src/jobs.js.                                                    *)
(*                                                                         *)
(* There are three ways in: a six-digit code sent by e-mail, a challenge   *)
(* signed by a Casper wallet, and the demo login of a deployment that      *)
(* switches it on.  Each ends in the same place: the user and the user's   *)
(* dashboard are found or created, and a session token is issued.          *)
(*                                                                         *)
(* A code or challenge that was used, locked out or has expired is never   *)
(* read again, so it leaves the table at once; pruning deletes such rows   *)
(* later and changes nothing that can be observed.  Clocks are left out: a *)
(* row may expire at any moment, so every order of the code's 15 minutes,  *)
(* the challenge's 5 and the session's 7 days is covered.  The per-address *)
(* rate limiters are not modelled: they only refuse more.                  *)
(***************************************************************************)
EXTENDS Naturals, Sequences, SequencesExt

CONSTANTS
    None,           \* the absent value (SQL NULL)
    Emails,         \* addresses people log in with
    OwnerEmail,     \* OWNER_EMAIL, or None
    Wallets,        \* public keys people log in with
    DemoWallet,     \* the wallet of the demo login, or None when it is off
    Challenges,     \* slots of wallet_auth_challenges
    Tokens,         \* session tokens
    MaxCodes,       \* CODE_MAX_PER_WINDOW
    FailLimit       \* VERIFY_FAILED_ATTEMPT_LIMIT

ASSUME LoginAssumption ==
    /\ None \notin Emails \union Wallets \union {"owner", "user"}
    /\ Emails \intersect Wallets = {}
    /\ OwnerEmail \in Emails \union {None}
    /\ DemoWallet \in Wallets \union {None}
    /\ MaxCodes \in Nat \ {0}
    /\ FailLimit \in Nat \ {0}

VARIABLES
    code,           \* the unused, unexpired codes of each address, oldest first
    challenge,      \* the unused, unexpired challenges: the wallet asked
    role,           \* users.role, or None where there is no user
    dashboards,     \* how many dashboards each user owns
    session         \* whose session a live token stands for

loginVars == <<code, challenge, role, dashboards, session>>

Identities == Emails \union Wallets

(* fails is the column failed_attempts.  tries is history: the wrong       *)
(* answers given for the address while the code was active.                *)
Code == [fails : Nat, tries : Nat]
NewCode == [fails |-> 0, tries |-> 0]

LoginInit ==
    /\ code = [e \in Emails |-> <<>>]
    /\ challenge = [h \in Challenges |-> None]
    /\ role = [i \in Identities |-> None]
    /\ dashboards = [i \in Identities |-> 0]
    /\ session = [t \in Tokens |-> None]

-----------------------------------------------------------------------------
NoUsers == \A i \in Identities : role[i] = None

(* A fresh instance with a configured owner takes no other address.        *)
Reserved(e) == OwnerEmail # None /\ NoUsers /\ e # OwnerEmail

MaySend(e) == Len(code[e]) < MaxCodes

(* POST /auth/login.  A code whose e-mail cannot be sent stays in the      *)
(* table, so sending is not a case of its own.                             *)
RequestCode(e) ==
    /\ ~Reserved(e)
    /\ MaySend(e)
    /\ code' = [code EXCEPT ![e] = Append(@, NewCode)]
    /\ UNCHANGED <<challenge, role, dashboards, session>>

(* Mutant: whether the instance is empty is read before an await.          *)
RoleOfNewUserAwaited(i) == "owner"

(* The first user of the instance owns it.                                 *)
RoleOfNewUser(i) == IF NoUsers THEN "owner" ELSE "user"

(* The find-or-create transaction and the session that follows it.         *)
LogIn(i) ==
    /\ role' = IF role[i] = None
               THEN [role EXCEPT ![i] = RoleOfNewUser(i)] ELSE role
    /\ dashboards' = IF dashboards[i] = 0
                     THEN [dashboards EXCEPT ![i] = 1] ELSE dashboards
    /\ \E t \in Tokens : session[t] = None /\ session' = [session EXCEPT ![t] = i]

Spent(codes, n) == RemoveAt(codes, n)

(* POST /auth/verify with the right code: marking it used and reading it   *)
(* are one UPDATE.                                                         *)
VerifyCode(e, n) ==
    /\ code' = [code EXCEPT ![e] = Spent(@, n)]
    /\ LogIn(e)
    /\ UNCHANGED challenge

(* Mutant: only the latest code counts the failure.                        *)
FailedLatest(codes) ==
    [n \in DOMAIN codes |->
        [codes[n] EXCEPT !.fails = IF n = Len(codes) THEN @ + 1 ELSE @,
                         !.tries = @ + 1]]

(* Every active code of the address has one more failure against it.       *)
Failed(codes) ==
    [n \in DOMAIN codes |-> [codes[n] EXCEPT !.fails = @ + 1, !.tries = @ + 1]]

(* Once one of them reaches the limit, all of them are spent.              *)
LockOut(codes) ==
    IF \E n \in DOMAIN codes : codes[n].fails >= FailLimit THEN <<>> ELSE codes

(* POST /auth/verify with a code that matches no active row.               *)
WrongCode(e) ==
    /\ code[e] # <<>>
    /\ code' = [code EXCEPT ![e] = LockOut(Failed(@))]
    /\ UNCHANGED <<challenge, role, dashboards, session>>

ExpireCode(e, n) ==
    /\ code' = [code EXCEPT ![e] = RemoveAt(@, n)]
    /\ UNCHANGED <<challenge, role, dashboards, session>>

(* POST /auth/wallet/challenge                                             *)
IssueChallenge(h, w) ==
    /\ challenge[h] = None
    /\ challenge' = [challenge EXCEPT ![h] = w]
    /\ UNCHANGED <<code, role, dashboards, session>>

(* POST /auth/wallet/verify with a good signature; a bad one changes       *)
(* nothing.                                                                *)
SignChallenge(h) ==
    /\ challenge[h] # None
    /\ challenge' = [challenge EXCEPT ![h] = None]
    /\ LogIn(challenge[h])
    /\ UNCHANGED code

ExpireChallenge(h) ==
    /\ challenge[h] # None
    /\ challenge' = [challenge EXCEPT ![h] = None]
    /\ UNCHANGED <<code, role, dashboards, session>>

(* POST /auth/demo-login                                                   *)
DemoLogin ==
    /\ DemoWallet # None
    /\ LogIn(DemoWallet)
    /\ UNCHANGED <<code, challenge>>

(* POST /auth/logout, and the seven days of a session running out: neither *)
(* findSession nor requireAuth reads the row afterwards.                   *)
EndSession(t) ==
    /\ session[t] # None
    /\ session' = [session EXCEPT ![t] = None]
    /\ UNCHANGED <<code, challenge, role, dashboards>>

LoginNext ==
    \/ \E e \in Emails :
          \/ RequestCode(e)
          \/ WrongCode(e)
          \/ \E n \in DOMAIN code[e] : VerifyCode(e, n) \/ ExpireCode(e, n)
    \/ \E h \in Challenges :
          \/ \E w \in Wallets : IssueChallenge(h, w)
          \/ SignChallenge(h)
          \/ ExpireChallenge(h)
    \/ DemoLogin
    \/ \E t \in Tokens : EndSession(t)

(* requireAuth and requireDashboard: who may act on the dashboard of i.    *)
(* Every role a login can create is normalised to owner, so no permission  *)
(* check refuses.                                                          *)
SignedIn(i) == \E t \in Tokens : session[t] = i

LoginTypeOK ==
    /\ code \in [Emails -> Seq(Code)]
    /\ challenge \in [Challenges -> Wallets \union {None}]
    /\ role \in [Identities -> {None, "owner", "user"}]
    /\ dashboards \in [Identities -> Nat]
    /\ session \in [Tokens -> Identities \union {None}]

=============================================================================
