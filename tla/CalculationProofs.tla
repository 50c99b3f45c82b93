---------------------------- MODULE CalculationProofs ----------------------------
(***************************************************************************)
(* The pure parts of the live path: what the policy engine answers for     *)
(* every row, request and calendar, and what the arithmetic of a payment   *)
(* instruction guarantees for every amount, rate and number of decimals.   *)
(* And what a sum over a finite set obeys, whichever order it is taken in. *)
(***************************************************************************)
EXTENDS Policy, Money, FiniteSetTheorems, TLAPS

(* A set of rule numbers that is not empty has a least member.             *)
LEMMA LeastRule ==
  ASSUME NEW S \in SUBSET (1 .. 12), S # {}
  PROVE  Min(S) \in S /\ \A i \in S : Min(S) <= i
<1>1. \E x \in S : \A y \in S : x =< y
  <2> SUFFICES ASSUME \A x \in S : \E y \in S : y < x PROVE FALSE
    OBVIOUS
  <2>1. 1 \notin S
    OBVIOUS
  <2>2. 2 \notin S
    BY <2>1
  <2>3. 3 \notin S
    BY <2>1, <2>2
  <2>4. 4 \notin S
    BY <2>1, <2>2, <2>3
  <2>5. 5 \notin S
    BY <2>1, <2>2, <2>3, <2>4
  <2>6. 6 \notin S
    BY <2>1, <2>2, <2>3, <2>4, <2>5
  <2>7. 7 \notin S
    BY <2>1, <2>2, <2>3, <2>4, <2>5, <2>6
  <2>8. 8 \notin S
    BY <2>1, <2>2, <2>3, <2>4, <2>5, <2>6, <2>7
  <2>9. 9 \notin S
    BY <2>1, <2>2, <2>3, <2>4, <2>5, <2>6, <2>7, <2>8
  <2>10. 10 \notin S
    BY <2>1, <2>2, <2>3, <2>4, <2>5, <2>6, <2>7, <2>8, <2>9
  <2>11. 11 \notin S
    BY <2>1, <2>2, <2>3, <2>4, <2>5, <2>6, <2>7, <2>8, <2>9, <2>10
  <2>12. \A i \in S : i = 12
    BY <2>1, <2>2, <2>3, <2>4, <2>5, <2>6, <2>7, <2>8, <2>9, <2>10, <2>11
  <2>13. PICK x : x \in S
    OBVIOUS
  <2> QED BY <2>12, <2>13
<1>2. Min(S) = CHOOSE x \in S : \A y \in S : x =< y
  BY DEF Min
<1> QED BY <1>1, <1>2, Zenon

(* What breaks a hard rule: any but the owner's threshold.                 *)
Broken(row, suspended, amount, spentToday, minute, day) ==
    \/ amount <= 0
    \/ suspended
    \/ \E c \in {"single", "hours", "days", "daily", "approve"} : row[c] = Corrupt
    \/ IsSet(row.single) /\ amount > row.single
    \/ IsSet(row.hours) /\ ~InWindow(row.hours, minute)
    \/ IsSet(row.days) /\ day \notin row.days
    \/ IsSet(row.daily) /\ spentToday + amount > row.daily

(* The first rule to fire decides, and the threshold is the last: what     *)
(* breaks a hard rule is blocked, and the rest is a question of the        *)
(* threshold alone (checkPolicy).                                          *)
THEOREM VerdictOf ==
  ASSUME NEW row, NEW suspended \in BOOLEAN, NEW amount, NEW spentToday, NEW minute, NEW day
  PROVE  CheckPolicy(row, suspended, amount, spentToday, minute, day) =
           IF Broken(row, suspended, amount, spentToday, minute, day) THEN "blocked"
           ELSE IF AboveThreshold(row, amount) THEN "pending_approval" ELSE "approved"
<1> DEFINE rules == Rules(row, suspended, amount, spentToday, minute, day)
           fired == {i \in DOMAIN rules : rules[i].fires}
           rule == DecidingRule(row, suspended, amount, spentToday, minute, day)
           broken == Broken(row, suspended, amount, spentToday, minute, day)
<1>1. DOMAIN rules = 1 .. 12
  BY DEF Rules
<1>2. \A i \in 1 .. 11 : rules[i].rule \notin {"all_checks_passed", "approval_threshold"}
  BY DEF Rules
<1>3. rules[12].rule = "approval_threshold" /\ (rules[12].fires <=> AboveThreshold(row, amount))
  BY DEF Rules
<1>4. broken <=> \E i \in 1 .. 11 : rules[i].fires
  <2>1. /\ rules[1].fires = (amount <= 0)
        /\ rules[2].fires = suspended
        /\ rules[3].fires = (row.single = Corrupt)
        /\ rules[4].fires = (IsSet(row.single) /\ amount > row.single)
        /\ rules[5].fires = (row.hours = Corrupt)
        /\ rules[6].fires = (IsSet(row.hours) /\ ~InWindow(row.hours, minute))
        /\ rules[7].fires = (row.days = Corrupt)
        /\ rules[8].fires = (IsSet(row.days) /\ day \notin row.days)
        /\ rules[9].fires = (row.daily = Corrupt)
        /\ rules[10].fires = (IsSet(row.daily) /\ spentToday + amount > row.daily)
        /\ rules[11].fires = (row.approve = Corrupt)
    BY DEF Rules
  <2>2. (\E i \in 1 .. 11 : rules[i].fires) <=>
           \/ rules[1].fires \/ rules[2].fires \/ rules[3].fires \/ rules[4].fires
           \/ rules[5].fires \/ rules[6].fires \/ rules[7].fires \/ rules[8].fires
           \/ rules[9].fires \/ rules[10].fires \/ rules[11].fires
    <3> HIDE DEF rules
    <3>1. \A i \in 1 .. 11 : \/ i = 1 \/ i = 2 \/ i = 3 \/ i = 4 \/ i = 5 \/ i = 6
                             \/ i = 7 \/ i = 8 \/ i = 9 \/ i = 10 \/ i = 11
      OBVIOUS
    <3>2. {1, 2, 3, 4, 5, 6, 7, 8, 9, 10, 11} \subseteq 1 .. 11
      OBVIOUS
    <3> QED BY <3>1, <3>2
  <2> HIDE DEF rules
  <2> QED BY <2>1, <2>2 DEF Broken
<1>5. rule = IF fired = {} THEN "all_checks_passed" ELSE rules[Min(fired)].rule
  BY DEF DecidingRule
<1>6. \A i : i \in fired <=> i \in 1 .. 12 /\ rules[i].fires
  BY <1>1
<1> HIDE DEF rules, fired, rule, broken
<1>7. CASE broken
  <2>1. PICK i \in 1 .. 11 : i \in fired
    BY <1>4, <1>6, <1>7
  <2>2. fired \in SUBSET (1 .. 12) /\ fired # {}
    <3>1. \A j \in fired : j \in 1 .. 12
      BY <1>6
    <3> QED BY <2>1, <3>1, Zenon
  <2>3. Min(fired) \in 1 .. 11
    <3>1. Min(fired) \in fired /\ Min(fired) <= i
      BY <2>1, <2>2, LeastRule
    <3> QED BY <1>6, <3>1
  <2>4. rule = rules[Min(fired)].rule
    BY <1>5, <2>2
  <2>5. Verdict(rule) = "blocked"
    BY <1>2, <2>3, <2>4 DEF Verdict
  <2> QED BY <1>7, <2>5 DEF CheckPolicy, rule, broken
<1>8. CASE ~broken /\ AboveThreshold(row, amount)
  <2>1. 12 \in fired /\ \A i \in fired : i = 12
    BY <1>3, <1>4, <1>6, <1>8
  <2>2. fired \in SUBSET (1 .. 12) /\ fired # {}
    <3>1. \A j \in fired : j \in 1 .. 12
      BY <1>6
    <3> QED BY <2>1, <3>1, Zenon
  <2>3. Min(fired) = 12
    BY <2>1, <2>2, LeastRule
  <2>4. rule = "approval_threshold"
    BY <1>3, <1>5, <2>2, <2>3
  <2>5. Verdict(rule) = "pending_approval"
    BY <2>4 DEF Verdict
  <2> QED BY <1>8, <2>5 DEF CheckPolicy, rule, broken
<1>9. CASE ~broken /\ ~AboveThreshold(row, amount)
  <2>1. fired = {}
    BY <1>3, <1>4, <1>6, <1>9
  <2>2. Verdict(rule) = "approved"
    BY <1>5, <2>1 DEF Verdict
  <2> QED BY <1>9, <2>2 DEF CheckPolicy, rule, broken
<1> QED BY <1>7, <1>8, <1>9

-----------------------------------------------------------------------------

(* A natural number divided, and a product, stay natural.                  *)
LEMMA ProductNat == \A a, b \in Nat : a * b \in Nat
  BY SMT

LEMMA ProductPositive == \A a, b \in Nat \ {0} : a * b \in Nat \ {0}
  BY SMT

(* divCeil rounds up, and by less than one: q is the least number of       *)
(* units whose worth covers the numerator.                                 *)
THEOREM DivCeilIsCeiling ==
  ASSUME NEW n \in Nat, NEW d \in Nat \ {0}
  PROVE  /\ DivCeil(n, d) \in Nat
         /\ DivCeil(n, d) * d >= n
         /\ \A q \in Nat : q * d >= n => q >= DivCeil(n, d)
<1> DEFINE m == n + d - 1
           q0 == m \div d
           r0 == m % d
<1>1. m \in Nat
  BY SMT
<1>2. /\ q0 \in Int /\ r0 \in 0 .. d - 1
      /\ m = d * q0 + r0
  BY <1>1, SMT
<1>3. q0 \in Nat
  BY <1>1, <1>2, SMT
<1>4. q0 * d >= n
  BY <1>2, <1>3, SMT
<1>5. ASSUME NEW q \in Nat, q * d >= n, q < q0
      PROVE  FALSE
  <2>1. (q + 1) * d <= q0 * d
    BY <1>5, <1>3, SMT
  <2>2. (q + 1) * d = q * d + d
    BY SMT
  <2>3. q * d + d <= m
    BY <2>1, <2>2, <1>2, <1>3, SMT
  <2> QED BY <2>3, <1>5, SMT
<1> QED BY <1>3, <1>4, <1>5, SMT DEF DivCeil

(* The two factors of UsdToMotes are what divCeil needs.                   *)
LEMMA MotesFactors ==
  ASSUME NEW amount \in Decimal, NEW rate \in Decimal
  PROVE  /\ amount.units * rate.scale * MotesPerCspr \in Nat \ {0}
         /\ amount.scale * rate.units \in Nat \ {0}
<1>1. /\ amount.units \in Nat \ {0} /\ amount.scale \in Nat \ {0}
      /\ rate.units \in Nat \ {0} /\ rate.scale \in Nat \ {0}
      /\ MotesPerCspr \in Nat \ {0}
  BY ScaleAssumption DEF Decimal
<1>2. amount.units * rate.scale \in Nat \ {0}
  BY <1>1, ProductPositive
<1> QED BY <1>1, <1>2, ProductPositive

(* usdToMotes asks for at least what the order is worth, whatever the      *)
(* number of decimals of amount and rate, and one mote less would not do.  *)
THEOREM MotesCoverAmount ==
  ASSUME NEW amount \in Decimal, NEW rate \in Decimal
  PROVE  LET owed == amount.units * rate.scale * MotesPerCspr
             unit == amount.scale * rate.units
             m    == UsdToMotes(amount, rate)
         IN  /\ m \in Nat
             /\ m * unit >= owed
             /\ \A less \in Nat : less < m => less * unit < owed
<1> DEFINE owed == amount.units * rate.scale * MotesPerCspr
           unit == amount.scale * rate.units
<1>1. owed \in Nat \ {0} /\ unit \in Nat \ {0}
  BY MotesFactors
<1>2. UsdToMotes(amount, rate) = DivCeil(owed, unit)
  BY DEF UsdToMotes
<1> HIDE DEF owed, unit
<1>3. /\ DivCeil(owed, unit) \in Nat
      /\ DivCeil(owed, unit) * unit >= owed
      /\ \A q \in Nat : q * unit >= owed => q >= DivCeil(owed, unit)
  BY <1>1, DivCeilIsCeiling
<1>4. ASSUME NEW less \in Nat, less < DivCeil(owed, unit)
      PROVE  less * unit < owed
  <2>1. less * unit \in Nat
    BY <1>1, ProductNat
  <2>2. ~(less * unit >= owed)
    BY <1>3, <1>4
  <2> QED BY <1>1, <2>1, <2>2
<1> QED BY <1>2, <1>3, <1>4 DEF owed, unit

(* usdToMockUsdcBaseUnits is exact whenever the amount fits the token's    *)
(* decimals: nothing is rounded off.                                       *)
THEOREM MockUsdcIsExact ==
  ASSUME NEW amount \in Decimal, FitsMockUsdc(amount)
  PROVE  UsdToMockUsdc(amount) * amount.scale = amount.units * TokenScale
<1>1. amount.units \in Nat \ {0} /\ amount.scale \in Nat \ {0}
  BY DEF Decimal
<1>2. TokenScale = amount.scale * (TokenScale \div amount.scale)
  BY <1>1, ScaleAssumption, SMT DEF FitsMockUsdc
<1>3. TokenScale \div amount.scale \in Nat
  BY <1>1, ScaleAssumption, SMT
<1> DEFINE k == TokenScale \div amount.scale
<1> HIDE DEF k
<1>4. amount.units * k * amount.scale = amount.units * (amount.scale * k)
  BY <1>1, <1>3, SMT DEF k
<1> QED BY <1>2, <1>4 DEF UsdToMockUsdc, k

(* Prices are natural numbers, whatever the rate.                          *)
LEMMA PricesAreNatural ==
  ASSUME NEW amount \in Decimal, NEW rate \in Decimal
  PROVE  /\ UsdToMotes(amount, rate) \in Nat
         /\ amount.scale = 1 => UsdToMockUsdc(amount) \in Nat
<1>1. UsdToMotes(amount, rate) \in Nat
  BY MotesCoverAmount
<1>2. ASSUME amount.scale = 1
      PROVE  UsdToMockUsdc(amount) \in Nat
  <2>1. TokenScale \div 1 \in Nat /\ amount.units \in Nat
    BY ScaleAssumption DEF Decimal
  <2> QED BY <1>2, <2>1, ProductNat DEF UsdToMockUsdc
<1> QED BY <1>1, <1>2
-----------------------------------------------------------------------------
(* Sums over finite sets: what the SUM of a query (MapThenSumSet) obeys.   *)

(* Among some subsets of a finite set one has no other of them inside it:  *)
(* the induction of the lemmas below.                                      *)
LEMMA MinimalSubset ==
  ASSUME NEW S, IsFiniteSet(S), NEW T \in SUBSET (SUBSET S), T # {}
  PROVE  \E t \in T : \A u \in T : u \subseteq t => u = t
<1>1. IsWellFoundedOn(StrictSubsetOrdering(S), SUBSET S)
  BY FS_StrictSubsetOrderingWellFounded, FS_FiniteSubsetsOfFinite
<1>2. PICK t \in T : \A u \in T : ~ (<<u, t>> \in StrictSubsetOrdering(S))
  BY <1>1, WFMin
<1>3. ASSUME NEW u \in T, u \subseteq t PROVE u = t
  BY <1>2, <1>3 DEF StrictSubsetOrdering
<1> QED BY <1>3

(* The recursion MapThenSumSet unfolds, for the summands a.                *)
Chosen(s) == CHOOSE x \in s : TRUE
Sums(g, a, S) ==
    g = [s \in SUBSET S |-> IF s = {} THEN 0 ELSE a[Chosen(s)] + g[s \ {Chosen(s)}]]
SumOf(a, S) == (CHOOSE g : Sums(g, a, S))[S]

(* A function that sums the subsets of one set agrees with one that sums   *)
(* the subsets of another on what both cover.                              *)
LEMMA SumsAgree ==
  ASSUME NEW a, NEW S, NEW T, IsFiniteSet(S), NEW g, Sums(g, a, S), NEW h, Sums(h, a, T),
         NEW r, r \subseteq S, r \subseteq T
  PROVE  g[r] = h[r]
<1> DEFINE bad == {s \in SUBSET S : s \subseteq T /\ g[s] # h[s]}
<1> SUFFICES ASSUME bad # {} PROVE FALSE
  OBVIOUS
<1>1. PICK s \in bad : \A u \in bad : u \subseteq s => u = s
  <2>1. bad \in SUBSET (SUBSET S)
    OBVIOUS
  <2> HIDE DEF bad
  <2> QED BY <2>1, MinimalSubset
<1>2. /\ g[s] = IF s = {} THEN 0 ELSE a[Chosen(s)] + g[s \ {Chosen(s)}]
      /\ h[s] = IF s = {} THEN 0 ELSE a[Chosen(s)] + h[s \ {Chosen(s)}]
  <2>1. s \in SUBSET S /\ s \in SUBSET T
    OBVIOUS
  <2> HIDE DEF bad
  <2> QED BY <2>1 DEF Sums
<1>3. CASE s = {}
  BY <1>2, <1>3
<1>4. CASE s # {}
  <2>1. Chosen(s) \in s
    BY <1>4 DEF Chosen
  <2>2. g[s \ {Chosen(s)}] = h[s \ {Chosen(s)}]
    BY <1>1, <2>1
  <2> QED BY <1>2, <1>4, <2>2
<1> QED BY <1>3, <1>4

(* The recursion has a solution.                                           *)
LEMMA SumsExist ==
  ASSUME NEW a, NEW S, IsFiniteSet(S)
  PROVE  \E g : Sums(g, a, S)
<1> DEFINE bad == {s \in SUBSET S : \A g : ~Sums(g, a, s)}
<1> SUFFICES ASSUME bad # {} PROVE FALSE
  OBVIOUS
<1>1. PICK t \in bad : \A u \in bad : u \subseteq t => u = t
  <2>1. bad \in SUBSET (SUBSET S)
    OBVIOUS
  <2> HIDE DEF bad
  <2> QED BY <2>1, MinimalSubset
<1>2. t \subseteq S /\ \A g : ~Sums(g, a, t)
  OBVIOUS
<1> DEFINE part(u) == CHOOSE g : Sums(g, a, u)
<1>3. ASSUME NEW u, u \subseteq t, u # t PROVE Sums(part(u), a, u)
  BY <1>1, <1>2, <1>3
<1> HIDE DEF bad
<1> DEFINE h == [u \in SUBSET t |-> IF u = {} THEN 0
                                    ELSE a[Chosen(u)] + SumOf(a, u \ {Chosen(u)})]
<1>4. ASSUME NEW u, u \subseteq t, u # t PROVE h[u] = SumOf(a, u)
  <2>1. part(u)[u] = IF u = {} THEN 0 ELSE a[Chosen(u)] + part(u)[u \ {Chosen(u)}]
    <3>1. Sums(part(u), a, u)
      BY <1>3, <1>4
    <3> HIDE DEF part
    <3> QED BY <3>1 DEF Sums
  <2>2. SumOf(a, u) = part(u)[u]
    BY DEF SumOf
  <2>3. CASE u = {}
    BY <2>1, <2>2, <2>3
  <2>4. CASE u # {}
    <3> DEFINE v == u \ {Chosen(u)}
    <3>1. Chosen(u) \in u
      BY <2>4 DEF Chosen
    <3>2. v \subseteq t /\ v # t /\ v \subseteq u
      BY <1>4, <3>1
    <3>3. Sums(part(v), a, v) /\ Sums(part(u), a, u)
      BY <1>3, <1>4, <3>2
    <3>4. IsFiniteSet(v)
      BY <1>2, <3>2, FS_Subset
    <3> HIDE DEF v, part
    <3>5. part(v)[v] = part(u)[v]
      BY <3>2, <3>3, <3>4, SumsAgree
    <3>6. SumOf(a, v) = part(v)[v]
      BY DEF SumOf, part
    <3>7. h[u] = a[Chosen(u)] + SumOf(a, v)
      BY <1>4, <2>4 DEF v
    <3> QED BY <2>1, <2>2, <2>4, <3>5, <3>6, <3>7 DEF v
  <2> QED BY <2>3, <2>4
<1>5. Sums(h, a, t)
  <2>1. ASSUME NEW u \in SUBSET t
        PROVE  h[u] = IF u = {} THEN 0 ELSE a[Chosen(u)] + h[u \ {Chosen(u)}]
    <3>1. CASE u = {}
      BY <3>1
    <3>2. CASE u # {}
      <4>1. Chosen(u) \in u
        BY <3>2 DEF Chosen
      <4>2. h[u \ {Chosen(u)}] = SumOf(a, u \ {Chosen(u)})
        <5>1. u \ {Chosen(u)} \subseteq t /\ u \ {Chosen(u)} # t
          BY <2>1, <4>1
        <5> HIDE DEF h
        <5> QED BY <1>4, <5>1
      <4> QED BY <2>1, <3>2, <4>2
    <3> QED BY <3>1, <3>2
  <2>2. h = [u \in SUBSET t |-> h[u]]
    OBVIOUS
  <2>3. [u \in SUBSET t |-> h[u]] =
        [u \in SUBSET t |-> IF u = {} THEN 0 ELSE a[Chosen(u)] + h[u \ {Chosen(u)}]]
    <3> HIDE DEF h
    <3> QED BY <2>1
  <2> HIDE DEF h
  <2> QED BY <2>2, <2>3 DEF Sums
<1> QED BY <1>2, <1>5

(* The defining equation of a sum.                                         *)
LEMMA SumUnfolds ==
  ASSUME NEW a, NEW S, IsFiniteSet(S)
  PROVE  SumOf(a, S) = IF S = {} THEN 0 ELSE a[Chosen(S)] + SumOf(a, S \ {Chosen(S)})
<1> DEFINE part(u) == CHOOSE g : Sums(g, a, u)
<1>1. ASSUME NEW u, u \subseteq S PROVE Sums(part(u), a, u) /\ SumOf(a, u) = part(u)[u]
  <2>1. IsFiniteSet(u)
    BY <1>1, FS_Subset
  <2>2. \E g : Sums(g, a, u)
    BY <2>1, SumsExist
  <2> QED BY <2>2 DEF SumOf
<1> HIDE DEF part
<1>2. part(S)[S] = IF S = {} THEN 0 ELSE a[Chosen(S)] + part(S)[S \ {Chosen(S)}]
  BY <1>1 DEF Sums
<1>3. part(S)[S \ {Chosen(S)}] = part(S \ {Chosen(S)})[S \ {Chosen(S)}]
  BY <1>1, SumsAgree
<1> QED BY <1>1, <1>2, <1>3

(* A sum of natural numbers is one, the sum over nothing is nothing.       *)
LEMMA SumTyped ==
  ASSUME NEW S, IsFiniteSet(S), NEW a, \A x \in S : a[x] \in Nat
  PROVE  SumOf(a, S) \in Nat /\ SumOf(a, {}) = 0
<1>1. SumOf(a, {}) = 0
  BY SumUnfolds, FS_EmptySet
<1> DEFINE bad == {s \in SUBSET S : SumOf(a, s) \notin Nat}
<1> SUFFICES ASSUME bad # {} PROVE FALSE
  BY <1>1
<1>2. PICK s \in bad : \A u \in bad : u \subseteq s => u = s
  <2>1. bad \in SUBSET (SUBSET S)
    OBVIOUS
  <2> HIDE DEF bad
  <2> QED BY <2>1, MinimalSubset
<1>3. s # {} /\ IsFiniteSet(s)
  <2>1. s \subseteq S
    OBVIOUS
  <2>2. s # {}
    BY <1>1, SumUnfolds, FS_EmptySet
  <2> QED BY <2>1, <2>2, FS_Subset
<1>4. Chosen(s) \in s
  BY <1>3 DEF Chosen
<1>5. SumOf(a, s \ {Chosen(s)}) \in Nat
  BY <1>2, <1>4
<1>6. SumOf(a, s) = a[Chosen(s)] + SumOf(a, s \ {Chosen(s)})
  BY <1>3, SumUnfolds
<1> QED BY <1>4, <1>5, <1>6

(* Any summand can be taken out of a sum, whichever the recursion takes.   *)
LEMMA SumRemoves ==
  ASSUME NEW S, IsFiniteSet(S), NEW a, \A x \in S : a[x] \in Nat, NEW e \in S
  PROVE  SumOf(a, S) = a[e] + SumOf(a, S \ {e})
<1> DEFINE bad == {s \in SUBSET S : \E x \in s : SumOf(a, s) # a[x] + SumOf(a, s \ {x})}
<1> SUFFICES ASSUME bad # {} PROVE FALSE
  OBVIOUS
<1>1. PICK s \in bad : \A u \in bad : u \subseteq s => u = s
  <2>1. bad \in SUBSET (SUBSET S)
    OBVIOUS
  <2> HIDE DEF bad
  <2> QED BY <2>1, MinimalSubset
<1>2. PICK x \in s : SumOf(a, s) # a[x] + SumOf(a, s \ {x})
  OBVIOUS
<1>3. ASSUME NEW u, u \subseteq S PROVE IsFiniteSet(u) /\ SumOf(a, u) \in Nat
  <2>1. IsFiniteSet(u)
    BY <1>3, FS_Subset
  <2> QED BY <1>3, <2>1, SumTyped
<1> DEFINE y == Chosen(s)
<1>4. y \in s
  BY <1>2 DEF Chosen
<1>5. SumOf(a, s) = a[y] + SumOf(a, s \ {y})
  BY <1>2, <1>3, SumUnfolds
<1>6. y # x
  BY <1>2, <1>5
<1>7. ASSUME NEW u \in SUBSET S, u \subseteq s, u # s, NEW z \in u
       PROVE  SumOf(a, u) = a[z] + SumOf(a, u \ {z})
  <2>1. u \notin bad
    BY <1>1, <1>7
  <2> QED BY <2>1
<1>8. s \ {y} \in SUBSET S /\ s \ {y} # s /\ x \in s \ {y}
       /\ s \ {x} \in SUBSET S /\ s \ {x} # s /\ y \in s \ {x}
  BY <1>2, <1>4, <1>6
<1>9. a[x] \in Nat /\ a[y] \in Nat /\ SumOf(a, (s \ {y}) \ {x}) \in Nat
  BY <1>2, <1>3, <1>4
<1> HIDE DEF bad, y
<1>10. SumOf(a, s \ {y}) = a[x] + SumOf(a, (s \ {y}) \ {x})
  BY <1>7, <1>8
<1>11. SumOf(a, s \ {x}) = a[y] + SumOf(a, (s \ {x}) \ {y})
  BY <1>7, <1>8
<1>12. (s \ {y}) \ {x} = (s \ {x}) \ {y}
  OBVIOUS
<1> QED BY <1>2, <1>5, <1>10, <1>11, <1>12, <1>9

(* More summands, more of a sum.                                           *)
LEMMA SumGrows ==
  ASSUME NEW S, IsFiniteSet(S), NEW a, \A x \in S : a[x] \in Nat, NEW T \in SUBSET S
  PROVE  SumOf(a, T) <= SumOf(a, S)
<1> DEFINE bad == {s \in SUBSET S : T \subseteq s /\ ~(SumOf(a, T) <= SumOf(a, s))}
<1> SUFFICES ASSUME bad # {} PROVE FALSE
  OBVIOUS
<1>1. PICK s \in bad : \A u \in bad : u \subseteq s => u = s
  <2>1. bad \in SUBSET (SUBSET S)
    OBVIOUS
  <2> HIDE DEF bad
  <2> QED BY <2>1, MinimalSubset
<1>2. ASSUME NEW u, u \subseteq S PROVE IsFiniteSet(u) /\ SumOf(a, u) \in Nat
  <2>1. IsFiniteSet(u)
    BY <1>2, FS_Subset
  <2> QED BY <1>2, <2>1, SumTyped
<1>3. PICK x \in s : x \notin T
  BY <1>2
<1>4. SumOf(a, T) <= SumOf(a, s \ {x})
  BY <1>1, <1>3
<1>5. SumOf(a, s) = a[x] + SumOf(a, s \ {x})
  BY <1>2, SumRemoves
<1>6. a[x] \in Nat /\ SumOf(a, s \ {x}) \in Nat /\ SumOf(a, T) \in Nat
  BY <1>2
<1>7. ~(SumOf(a, T) <= SumOf(a, s))
  OBVIOUS
<1> HIDE DEF bad
<1> QED BY <1>4, <1>5, <1>6, <1>7
=============================================================================
