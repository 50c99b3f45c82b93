------------------------------- MODULE Policy -------------------------------
(***************************************************************************)
(* The spend policy of an agent key: src/backend/src/policy.js.            *)
(*                                                                         *)
(* checkPolicy walks a fixed list of rules and answers with the first that *)
(* fires.  A policy record holds the columns of the api_keys row that the  *)
(* rules read; a column is None when it is null, and Corrupt when what is  *)
(* stored there does not parse (every such column fails closed).           *)
(***************************************************************************)
EXTENDS Integers, FiniteSetsExt

CONSTANTS
    None,        \* a column that is null
    Corrupt,     \* a column whose stored text does not parse
    DayMinutes,  \* minutes in a day (1440 in the code)
    WeekDays     \* days in a week (7 in the code)

ASSUME CalendarAssumption ==
    /\ DayMinutes \in Nat \ {0}
    /\ WeekDays \in Nat \ {0}

Minutes == 0 .. DayMinutes - 1
Days == 0 .. WeekDays - 1

(* The policy columns of an api_keys row, suspension apart. *)
PolicyRow(Limits) ==
    [single  : Limits \union {None, Corrupt},
     hours   : [from : Minutes, to : Minutes] \union {None, Corrupt},
     days    : SUBSET Days \union {None, Corrupt},
     daily   : Limits \union {None, Corrupt},
     approve : Limits \union {None, Corrupt}]

(* Mutant: a window does not wrap around midnight. *)
InWindowSameDay(hours, minute) ==
    hours.from <= minute /\ minute < hours.to

(* Overnight windows wrap around midnight; from = to is an empty window. *)
InWindow(hours, minute) ==
    IF hours.from <= hours.to
    THEN hours.from <= minute /\ minute < hours.to
    ELSE hours.from <= minute \/ minute < hours.to

IsSet(column) == column # None /\ column # Corrupt

(* Mutant: the threshold itself needs approval. *)
AtThreshold(row, amount) == IsSet(row.approve) /\ amount >= row.approve

AboveThreshold(row, amount) == IsSet(row.approve) /\ amount > row.approve

(* The rules in the order the code tries them. *)
Rules(row, suspended, amount, spentToday, minute, day) ==
    << [rule |-> "invalid_amount",
        fires |-> amount <= 0],
       [rule |-> "suspended",
        fires |-> suspended],
       [rule |-> "policy_corrupt_single_tx",
        fires |-> row.single = Corrupt],
       [rule |-> "single_tx_hard_cap",
        fires |-> IsSet(row.single) /\ amount > row.single],
       [rule |-> "policy_corrupt_hours",
        fires |-> row.hours = Corrupt],
       [rule |-> "after_hours",
        fires |-> IsSet(row.hours) /\ ~InWindow(row.hours, minute)],
       [rule |-> "policy_corrupt_days",
        fires |-> row.days = Corrupt],
       [rule |-> "blocked_day",
        fires |-> IsSet(row.days) /\ day \notin row.days],
       [rule |-> "policy_corrupt_daily",
        fires |-> row.daily = Corrupt],
       [rule |-> "daily_limit_exceeded",
        fires |-> IsSet(row.daily) /\ spentToday + amount > row.daily],
       [rule |-> "policy_corrupt_approval",
        fires |-> row.approve = Corrupt],
       [rule |-> "approval_threshold",
        fires |-> AboveThreshold(row, amount)] >>

(* The rule that decides: the first that fires, or none of them. *)
DecidingRule(row, suspended, amount, spentToday, minute, day) ==
    LET rules == Rules(row, suspended, amount, spentToday, minute, day)
        fired == {i \in DOMAIN rules : rules[i].fires}
    IN  IF fired = {} THEN "all_checks_passed" ELSE rules[Min(fired)].rule

(* Mutant: a corrupt threshold is no threshold. *)
VerdictFailOpen(rule) ==
    CASE rule \in {"all_checks_passed", "policy_corrupt_approval"} -> "approved"
      [] rule = "approval_threshold" -> "pending_approval"
      [] OTHER                       -> "blocked"

(* What the caller is told to do. *)
Verdict(rule) ==
    CASE rule = "all_checks_passed"  -> "approved"
      [] rule = "approval_threshold" -> "pending_approval"
      [] OTHER                       -> "blocked"

CheckPolicy(row, suspended, amount, spentToday, minute, day) ==
    Verdict(DecidingRule(row, suspended, amount, spentToday, minute, day))
=============================================================================
