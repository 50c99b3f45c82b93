------------------------------ MODULE MCPolicy ------------------------------
(***************************************************************************)
(* Checks the policy engine against what a policy promises, over every     *)
(* policy row and every request of a small domain.  One behaviour asks one *)
(* question: the request is chosen, then answered by CheckPolicy.          *)
(***************************************************************************)
EXTENDS Policy

CONSTANTS
    Amounts,    \* amounts of the domain
    Limits,     \* limits and thresholds an owner may set
    Spents      \* totals of the day

ASSUME MCPolicyAssumption ==
    /\ Amounts \subseteq Int /\ Limits \subseteq Int /\ Spents \subseteq Int
    /\ None \notin {"approved", "pending_approval", "blocked"}

VARIABLES row, suspended, ask, answer

vars == <<row, suspended, ask, answer>>

Asks == [amount : Amounts, spent : Spents, minute : Minutes, day : Days]

Init ==
    /\ row \in PolicyRow(Limits)
    /\ suspended \in BOOLEAN
    /\ ask \in Asks
    /\ answer = None

Answer ==
    /\ answer = None
    /\ answer' = CheckPolicy(row, suspended, ask.amount, ask.spent,
                             ask.minute, ask.day)
    /\ UNCHANGED <<row, suspended, ask>>

Next == Answer

Spec == Init /\ [][Next]_vars

-----------------------------------------------------------------------------
(* The minutes a window admits, read off the clock: start at from and walk *)
(* forward, around midnight if need be, until to.                          *)
Admitted(hours) ==
    LET length == (hours.to - hours.from) % DayMinutes
    IN  {(hours.from + i) % DayMinutes : i \in 0 .. length - 1}

HasCorruptColumn == \E c \in DOMAIN row : row[c] = Corrupt

(* A request is let through, to payment or to the owner, only if it keeps  *)
(* every limit the owner configured and no column fails to parse (policy.js *)
(* fails closed); the window is the set of minutes a clock passes from its *)
(* start to its end.                                                       *)
LetThroughOnlyWithinPolicy ==
    answer \in {"approved", "pending_approval"} =>
        /\ ~suspended
        /\ ~HasCorruptColumn
        /\ ask.amount > 0
        /\ row.single # None => ask.amount <= row.single
        /\ row.hours # None => ask.minute \in Admitted(row.hours)
        /\ row.days # None => ask.day \in row.days
        /\ row.daily # None => ask.spent + ask.amount <= row.daily

(* Spending above the owner's threshold without asking the owner never     *)
(* happens, and the owner is asked only when no hard rule is broken.       *)
OwnerAskedExactlyAboveThreshold ==
    answer # "blocked" /\ answer # None =>
        (answer = "pending_approval")
            <=> (row.approve # None /\ ask.amount > row.approve)

(* The policy never blocks a request that breaks none of its rules.        *)
BlocksOnlyForACause ==
    answer = "blocked" =>
        \/ suspended
        \/ ask.amount <= 0
        \/ HasCorruptColumn
        \/ row.single # None /\ ask.amount > row.single
        \/ row.hours # None /\ ask.minute \notin Admitted(row.hours)
        \/ row.days # None /\ ask.day \notin row.days
        \/ row.daily # None /\ ask.spent + ask.amount > row.daily

=============================================================================
