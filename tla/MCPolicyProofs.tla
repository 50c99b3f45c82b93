---------------------------- MODULE MCPolicyProofs ----------------------------
(***************************************************************************)
(* The properties of the policy engine, for every calendar, every set of   *)
(* amounts, limits and totals, and every row and request over them.        *)
(***************************************************************************)
EXTENDS MCPolicy, CalculationProofs

(* A minute counted past midnight, or before it, is one of the next day.   *)
LEMMA AroundMidnight ==
  ASSUME NEW x \in Int
  PROVE  /\ x \in Minutes => x % DayMinutes = x
         /\ x - DayMinutes \in Minutes => x % DayMinutes = x - DayMinutes
         /\ x + DayMinutes \in Minutes => x % DayMinutes = x + DayMinutes
<1>1. DayMinutes \in Nat \ {0}
  BY CalendarAssumption
<1>2. x \in Minutes => x % DayMinutes = x
  BY <1>1 DEF Minutes
<1>3. x - DayMinutes \in Minutes => x % DayMinutes = x - DayMinutes
  BY <1>1 DEF Minutes
<1>4. x + DayMinutes \in Minutes => x % DayMinutes = x + DayMinutes
  BY <1>1 DEF Minutes
<1> QED BY <1>2, <1>3, <1>4

(* The comparisons of inAllowedHours admit the minutes a clock passes from *)
(* the start of the window to its end, overnight too.                      *)
THEOREM WindowsAreRightOverMidnight ==
  ASSUME NEW hours \in [from : Minutes, to : Minutes], NEW minute \in Minutes
  PROVE  InWindow(hours, minute) <=> minute \in Admitted(hours)
<1> DEFINE from == hours.from
           to == hours.to
           length == (to - from) % DayMinutes
<1>1. /\ DayMinutes \in Nat \ {0} /\ from \in Minutes /\ to \in Minutes
      /\ from \in Nat /\ to \in Nat /\ minute \in Nat
      /\ from < DayMinutes /\ to < DayMinutes /\ minute < DayMinutes
  BY CalendarAssumption DEF Minutes
<1>2. minute \in Admitted(hours) <=> \E i \in 0 .. length - 1 : (from + i) % DayMinutes = minute
  BY DEF Admitted
<1>3. InWindow(hours, minute) <=>
        IF from <= to THEN from <= minute /\ minute < to ELSE from <= minute \/ minute < to
  BY DEF InWindow
<1>4. /\ from <= to => length = to - from
      /\ from > to => length = to - from + DayMinutes
  <2>1. from <= to => to - from \in Minutes
    BY <1>1 DEF Minutes
  <2>2. from > to => to - from + DayMinutes \in Minutes
    BY <1>1 DEF Minutes
  <2> QED BY <1>1, <2>1, <2>2, AroundMidnight
<1>5. ASSUME NEW i \in 0 .. DayMinutes - 1
      PROVE  /\ from + i < DayMinutes => (from + i) % DayMinutes = from + i
             /\ from + i >= DayMinutes => (from + i) % DayMinutes = from + i - DayMinutes
  <2>1. from + i < DayMinutes => from + i \in Minutes
    BY <1>1 DEF Minutes
  <2>2. from + i >= DayMinutes => from + i - DayMinutes \in Minutes
    BY <1>1 DEF Minutes
  <2> QED BY <1>1, <2>1, <2>2, AroundMidnight
<1> HIDE DEF from, to, length
<1>6. length \in Nat /\ length < DayMinutes
  BY <1>1, <1>4
<1>7. ASSUME InWindow(hours, minute) PROVE minute \in Admitted(hours)
  <2>1. CASE from <= minute
    <3>1. minute - from \in 0 .. length - 1 /\ minute - from \in 0 .. DayMinutes - 1
      BY <1>1, <1>3, <1>4, <1>7, <2>1
    <3>2. (from + (minute - from)) % DayMinutes = minute
      BY <1>1, <1>5, <3>1
    <3> QED BY <1>2, <3>1, <3>2
  <2>2. CASE minute < from
    <3> DEFINE i == minute - from + DayMinutes
    <3>1. i \in 0 .. length - 1 /\ i \in 0 .. DayMinutes - 1
      BY <1>1, <1>3, <1>4, <1>7, <2>2
    <3>2. from + i = minute + DayMinutes
      BY <1>1
    <3>3. (from + i) % DayMinutes = minute
      BY <1>1, <1>5, <3>1, <3>2
    <3> QED BY <1>2, <3>1, <3>3
  <2> QED BY <1>1, <2>1, <2>2
<1>8. ASSUME minute \in Admitted(hours) PROVE InWindow(hours, minute)
  <2>1. PICK i \in 0 .. length - 1 : (from + i) % DayMinutes = minute
    BY <1>2, <1>8
  <2>2. i \in 0 .. DayMinutes - 1
    BY <1>1, <1>6, <2>1
  <2>3. \/ from + i < DayMinutes /\ minute = from + i
        \/ from + i >= DayMinutes /\ minute = from + i - DayMinutes
    BY <1>1, <1>5, <2>1, <2>2
  <2> QED BY <1>1, <1>3, <1>4, <1>6, <2>1, <2>2, <2>3
<1> QED BY <1>7, <1>8

-----------------------------------------------------------------------------
(* A question is one the domain allows, and its answer is the engine's.    *)
Inv ==
    /\ row \in PolicyRow(Limits) /\ suspended \in BOOLEAN
    /\ ask \in Asks
    /\ answer \in {None, CheckPolicy(row, suspended, ask.amount, ask.spent, ask.minute, ask.day)}

LEMMA AskTyped ==
  ASSUME Inv
  PROVE  /\ ask.amount \in Int /\ ask.spent \in Int /\ ask.minute \in Minutes /\ ask.day \in Days
         /\ row.single \in Int \union {None, Corrupt}
         /\ row.hours \in [from : Minutes, to : Minutes] \union {None, Corrupt}
         /\ row.days \in SUBSET Days \union {None, Corrupt}
         /\ row.daily \in Int \union {None, Corrupt}
         /\ row.approve \in Int \union {None, Corrupt}
         /\ DOMAIN row = {"single", "hours", "days", "daily", "approve"}
<1>1. row \in [single  : Limits \union {None, Corrupt},
               hours   : [from : Minutes, to : Minutes] \union {None, Corrupt},
               days    : SUBSET Days \union {None, Corrupt},
               daily   : Limits \union {None, Corrupt},
               approve : Limits \union {None, Corrupt}]
  BY DEF Inv, PolicyRow
<1>2. ask \in [amount : Amounts, spent : Spents, minute : Minutes, day : Days]
  BY DEF Inv, Asks
<1> QED BY <1>1, <1>2, MCPolicyAssumption

THEOREM AnswersAreTheEngines == Spec => []Inv
<1>1. Init => Inv
  BY DEF Init, Inv
<1>2. Inv /\ [Next]_vars => Inv'
  BY DEF Inv, Next, Answer, vars
<1> QED BY <1>1, <1>2, PTL DEF Spec

(* What an answer that was given says of the question.                     *)
LEMMA AnswerMeans ==
  ASSUME Inv, answer # None
  PROVE  answer = IF Broken(row, suspended, ask.amount, ask.spent, ask.minute, ask.day)
                  THEN "blocked"
                  ELSE IF AboveThreshold(row, ask.amount) THEN "pending_approval" ELSE "approved"
<1>1. answer = CheckPolicy(row, suspended, ask.amount, ask.spent, ask.minute, ask.day)
  BY DEF Inv
<1>2. row \in PolicyRow(Limits) /\ suspended \in BOOLEAN
  BY DEF Inv
<1> QED BY <1>1, <1>2, AskTyped, VerdictOf

(* Whatever is set and not corrupt has a value.                            *)
LEMMA ColumnsTyped ==
  ASSUME Inv
  PROVE  /\ HasCorruptColumn <=>
              \E c \in {"single", "hours", "days", "daily", "approve"} : row[c] = Corrupt
         /\ row.hours \notin {None, Corrupt} =>
              (InWindow(row.hours, ask.minute) <=> ask.minute \in Admitted(row.hours))
<1>1. row.hours \notin {None, Corrupt} => row.hours \in [from : Minutes, to : Minutes]
  BY AskTyped
<1>2. row.hours \notin {None, Corrupt} =>
        (InWindow(row.hours, ask.minute) <=> ask.minute \in Admitted(row.hours))
  BY <1>1, AskTyped, WindowsAreRightOverMidnight
<1> QED BY <1>2, AskTyped DEF HasCorruptColumn

(* A request is let through only if it keeps every limit the owner set and *)
(* no column fails to parse (policy.js fails closed).                      *)
THEOREM LetThroughWithinPolicy == Spec => []LetThroughOnlyWithinPolicy
<1>1. Inv => LetThroughOnlyWithinPolicy
  <2> SUFFICES ASSUME Inv, answer \in {"approved", "pending_approval"}
               PROVE  /\ ~suspended
                      /\ ~HasCorruptColumn
                      /\ ask.amount > 0
                      /\ row.single # None => ask.amount <= row.single
                      /\ row.hours # None => ask.minute \in Admitted(row.hours)
                      /\ row.days # None => ask.day \in row.days
                      /\ row.daily # None => ask.spent + ask.amount <= row.daily
    BY DEF LetThroughOnlyWithinPolicy
  <2>1. answer # None
    BY MCPolicyAssumption
  <2>2. ~Broken(row, suspended, ask.amount, ask.spent, ask.minute, ask.day)
    BY <2>1, AnswerMeans
  <2>3. ~suspended /\ ~HasCorruptColumn /\ ask.amount > 0
    BY <2>2, AskTyped, ColumnsTyped DEF Broken
  <2>4. \A c \in {"single", "hours", "days", "daily", "approve"} : row[c] # Corrupt
    BY <2>2 DEF Broken
  <2>5. row.single # None => ask.amount <= row.single
    BY <2>2, <2>4, AskTyped DEF Broken, IsSet
  <2>6. row.hours # None => ask.minute \in Admitted(row.hours)
    BY <2>2, <2>4, ColumnsTyped DEF Broken, IsSet
  <2>7. row.days # None => ask.day \in row.days
    BY <2>2, <2>4 DEF Broken, IsSet
  <2>8. row.daily # None => ask.spent + ask.amount <= row.daily
    BY <2>2, <2>4, AskTyped DEF Broken, IsSet
  <2> QED BY <2>3, <2>5, <2>6, <2>7, <2>8
<1> QED BY <1>1, AnswersAreTheEngines, PTL

(* Spending above the owner's threshold is never let through without the   *)
(* owner, who is asked only when no hard rule is broken.                   *)
THEOREM OwnerAskedAboveThreshold == Spec => []OwnerAskedExactlyAboveThreshold
<1>1. Inv => OwnerAskedExactlyAboveThreshold
  <2> SUFFICES ASSUME Inv, answer # "blocked", answer # None
               PROVE  (answer = "pending_approval")
                         <=> (row.approve # None /\ ask.amount > row.approve)
    BY DEF OwnerAskedExactlyAboveThreshold
  <2>1. ~Broken(row, suspended, ask.amount, ask.spent, ask.minute, ask.day)
    BY AnswerMeans
  <2>2. row.approve # Corrupt
    BY <2>1 DEF Broken
  <2>3. AboveThreshold(row, ask.amount) <=> (row.approve # None /\ ask.amount > row.approve)
    BY <2>2 DEF AboveThreshold, IsSet
  <2>4. answer = IF AboveThreshold(row, ask.amount) THEN "pending_approval" ELSE "approved"
    BY <2>1, AnswerMeans
  <2> QED BY <2>3, <2>4
<1> QED BY <1>1, AnswersAreTheEngines, PTL

(* A request that breaks none of the owner's rules is not blocked.         *)
THEOREM BlockedForACause == Spec => []BlocksOnlyForACause
<1>1. Inv => BlocksOnlyForACause
  <2> SUFFICES ASSUME Inv, answer = "blocked"
               PROVE  \/ suspended
                      \/ ask.amount <= 0
                      \/ HasCorruptColumn
                      \/ row.single # None /\ ask.amount > row.single
                      \/ row.hours # None /\ ask.minute \notin Admitted(row.hours)
                      \/ row.days # None /\ ask.day \notin row.days
                      \/ row.daily # None /\ ask.spent + ask.amount > row.daily
    BY DEF BlocksOnlyForACause
  <2>1. answer # None
    BY MCPolicyAssumption
  <2>2. Broken(row, suspended, ask.amount, ask.spent, ask.minute, ask.day)
    BY <2>1, AnswerMeans
  <2>3. IsSet(row.hours) /\ ~InWindow(row.hours, ask.minute)
           => row.hours # None /\ ask.minute \notin Admitted(row.hours)
    BY ColumnsTyped DEF IsSet
  <2> QED BY <2>2, <2>3, ColumnsTyped DEF Broken, IsSet
<1> QED BY <1>1, AnswersAreTheEngines, PTL
=============================================================================
