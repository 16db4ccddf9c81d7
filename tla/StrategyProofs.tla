---------------------------- MODULE StrategyProofs ----------------------------
(***************************************************************************)
(* The indicators and the setup rule for every period, threshold, price    *)
(* and length of the series.                                               *)
(***************************************************************************)
EXTENDS Strategy, SequenceTheorems, WellFoundedInduction, TLAPS

-------------------------------------------------------------------------------
(* Induction and recursion over an interval, stated about sets and         *)
(* functions: the indicators are recursive functions of the index.         *)

LEMMA LeastOfNat ==
  ASSUME NEW T, T \subseteq Nat, T # {}
  PROVE  \E m \in T : \A k \in T : m <= k
<1> DEFINE R == OpToRel(<, Nat)
<1>1. IsWellFoundedOn(R, Nat)
  BY NatLessThanWellFounded
<1>2. \A m, k \in Nat : k < m => <<k, m>> \in R
  BY DEF OpToRel
<1> HIDE DEF R
<1>3. PICK m \in T : \A k \in T : ~(<<k, m>> \in R)
  BY <1>1, WFMin
<1>4. ASSUME NEW k \in T PROVE m <= k
  <2>1. m \in Nat /\ k \in Nat
    OBVIOUS
  <2>2. ~(k < m)
    BY <1>2, <1>3, <2>1, Zenon
  <2>3. QED
    BY <2>1, <2>2
<1>5. QED
  BY <1>3, <1>4

(* What holds at a and is handed on holds up to b.                         *)
LEMMA Climb ==
  ASSUME NEW a \in Nat, NEW b \in Nat, NEW S,
         a <= b => a \in S,
         \A k \in a + 1 .. b : k - 1 \in S => k \in S
  PROVE  a .. b \subseteq S
<1>1. SUFFICES ASSUME (a .. b) \ S # {} PROVE FALSE
  OBVIOUS
<1>2. PICK m \in (a .. b) \ S : \A k \in (a .. b) \ S : m <= k
  <2> DEFINE T == (a .. b) \ S
  <2>1. T \subseteq Nat /\ T # {}
    BY <1>1
  <2> HIDE DEF T
  <2>2. \E m \in T : \A k \in T : m <= k
    BY <2>1, LeastOfNat
  <2>3. QED
    BY <2>2 DEF T
<1>3. m # a
  BY <1>2
<1>4. m \in a + 1 .. b /\ m - 1 \in a .. b /\ ~(m <= m - 1)
  BY <1>2, <1>3
<1>5. m - 1 \in S
  BY <1>2, <1>4
<1>6. QED
  BY <1>2, <1>4, <1>5

(* A function may be defined by its value at a and a step.                 *)
Steps(step, a, b, D) == \A k \in a + 1 .. b : \A d \in D : step[k][d] \in D

Runs(f, base, step, a, b, D) ==
  /\ f \in [a .. b -> D]
  /\ \A k \in a .. b : f[k] = IF k = a THEN base ELSE step[k][f[k - 1]]

LEMMA Unfolds ==
  ASSUME NEW a \in Nat, NEW b \in Nat, NEW D, NEW base \in D,
         NEW step, Steps(step, a, b, D)
  PROVE  \E f : Runs(f, base, step, a, b, D)
<1> USE DEF Steps
<1> DEFINE Built(n, f) == Runs(f, base, step, a, n, D)
           S == {n \in a .. b : \E f : Built(n, f)}
<1> USE DEF Runs
<1>1. a <= b => a \in S
  <2> SUFFICES ASSUME a <= b PROVE a \in S
    OBVIOUS
  <2> DEFINE f == [k \in a .. a |-> base]
  <2>1. Built(a, f)
    OBVIOUS
  <2> HIDE DEF Built, f
  <2>2. QED
    BY <2>1
<1>2. ASSUME NEW n \in a + 1 .. b, n - 1 \in S PROVE n \in S
  <2>1. PICK f : Built(n - 1, f)
    BY <1>2
  <2> DEFINE g == [k \in a .. n |-> IF k = n THEN step[n][f[n - 1]] ELSE f[k]]
  <2>2. n - 1 \in a .. n - 1 /\ f[n - 1] \in D
    BY <2>1
  <2>3. g \in [a .. n -> D]
    <3>1. \A k \in a .. n : k # n => k \in a .. n - 1
      OBVIOUS
    <3>2. step[n][f[n - 1]] \in D
      BY <2>2
    <3>3. \A k \in a .. n : k # n => f[k] \in D
      BY <2>1, <3>1
    <3>4. QED
      BY <3>2, <3>3
  <2>4. ASSUME NEW k \in a .. n
        PROVE  g[k] = IF k = a THEN base ELSE step[k][g[k - 1]]
    <3>1. CASE k = n
      <4>1. n # a /\ g[n] = step[n][f[n - 1]]
        OBVIOUS
      <4>2. n - 1 \in a .. n /\ n - 1 # n
        OBVIOUS
      <4>3. g[n - 1] = f[n - 1]
        BY <4>2
      <4> HIDE DEF g
      <4>4. QED
        BY <3>1, <4>1, <4>3
    <3>2. CASE k # n
      <4>1. k \in a .. n - 1 /\ g[k] = f[k]
        BY <3>2
      <4>2. k # a => k - 1 \in a .. n /\ k - 1 # n
        BY <3>2
      <4>3. k # a => g[k - 1] = f[k - 1]
        BY <4>2
      <4> HIDE DEF g
      <4>4. QED
        BY <2>1, <4>1, <4>3
    <3>3. QED
      BY <3>1, <3>2
  <2> HIDE DEF g
  <2>5. Built(n, g)
    BY <2>3, <2>4
  <2> HIDE DEF Built
  <2>6. QED
    BY <2>5
<1>3. a .. b \subseteq S
  <2> HIDE DEF S
  <2>1. QED
    BY <1>1, <1>2, Climb
<1>4. CASE a <= b
  <2>1. b \in S
    BY <1>3, <1>4
  <2>2. QED
    BY <2>1
<1>5. CASE ~(a <= b)
  <2>1. a .. b = {}
    BY <1>5
  <2> DEFINE f == [k \in a .. b |-> base]
  <2>2. f \in [a .. b -> D]
    OBVIOUS
  <2> HIDE DEF f
  <2>3. QED
    BY <2>1, <2>2
<1>6. QED
  BY <1>4, <1>5

-------------------------------------------------------------------------------
(* Sums.                                                                   *)

LEMMA TotalRuns ==
  ASSUME NEW n \in Nat, NEW values, \A k \in 1 .. n : values[k] \in Int
  PROVE  \E s \in [0 .. n -> Int] :
           /\ s[0] = 0
           /\ \A k \in 1 .. n : s[k] = s[k - 1] + values[k]
           /\ Total(values, n) = s[n]
<1> DEFINE Rule(s) == [k \in 0 .. n |-> IF k = 0 THEN 0 ELSE s[k - 1] + values[k]]
           step == [k \in 1 .. n |-> [d \in Int |-> d + values[k]]]
           sum == CHOOSE s : s = Rule(s)
<1>1. \E s : s = Rule(s)
  <2> DEFINE zero == 0
             D == Int
  <2>1. zero \in Nat /\ zero \in D /\ Steps(step, zero, n, D)
    BY DEF Steps
  <2>2. \A k \in 1 .. n : \A d \in Int : step[k][d] = d + values[k]
    OBVIOUS
  <2> HIDE DEF step, zero, D, Rule
  <2>3. PICK f : Runs(f, zero, step, zero, n, D)
    BY <2>1, Unfolds
  <2> USE DEF zero, D
  <2>4. ASSUME NEW k \in 0 .. n
        PROVE  f[k] = IF k = 0 THEN 0 ELSE f[k - 1] + values[k]
    <3>1. k # 0 => k \in 1 .. n /\ k - 1 \in 0 .. n
      OBVIOUS
    <3>2. k # 0 => f[k - 1] \in Int
      BY <2>3, <3>1 DEF Runs
    <3>3. QED
      BY <2>2, <2>3, <3>1, <3>2 DEF Runs
  <2>5. f = Rule(f)
    BY <2>3, <2>4 DEF Rule, Runs
  <2>6. QED
    BY <2>5
<1>2. Total(values, n) = sum[n]
  BY DEF Total
<1>3. sum = Rule(sum)
  <2> HIDE DEF Rule
  <2>1. QED
    BY <1>1
<1> HIDE DEF sum
<1>4. \A k \in 0 .. n : sum[k] = IF k = 0 THEN 0 ELSE sum[k - 1] + values[k]
  BY <1>3
<1>5. \A k \in 0 .. n : sum[k] \in Int
  <2> DEFINE S == {k \in 0 .. n : sum[k] \in Int}
  <2>1. 0 \in S
    BY <1>4
  <2>2. \A k \in 0 + 1 .. n : k - 1 \in S => k \in S
    BY <1>4
  <2> HIDE DEF S
  <2>3. 0 .. n \subseteq S
    BY <2>1, <2>2, Climb
  <2>4. QED
    BY <2>3 DEF S
<1>6. sum \in [0 .. n -> Int]
  BY <1>3, <1>5
<1>7. QED
  BY <1>2, <1>4, <1>6

Fraction == [num : Int, den : Int]

-------------------------------------------------------------------------------
(* Averages of closes.                                                     *)

LEMMA EmaRuns ==
  ASSUME NEW values \in Seq(Int), NEW period \in Nat, 2 <= period
  PROVE  /\ Ema(values, period) \in [1 .. Len(values) -> Fraction]
         /\ \A k \in 1 .. Len(values) :
              Ema(values, period)[k] =
                IF k < period THEN None
                ELSE IF k = period THEN EmaSeed(values, period)
                ELSE EmaStep(values[k], period, Ema(values, period)[k - 1])
<1> DEFINE n == Len(values)
           Value(k, d) == IF k < period THEN None
                          ELSE IF k = period THEN EmaSeed(values, period)
                          ELSE EmaStep(values[k], period, d)
           Rule(e) == [k \in 1 .. n |-> Value(k, e[k - 1])]
           step == [k \in 1 .. n |-> [d \in Fraction |-> Value(k, d)]]
           ema == CHOOSE e : e = Rule(e)
<1>1. n \in Nat /\ \A k \in 1 .. n : values[k] \in Int
  OBVIOUS
<1>2. None \in Fraction
  BY DEF None, Fraction
<1>3. period <= n => EmaSeed(values, period) \in Fraction
  <2> SUFFICES ASSUME period <= n PROVE EmaSeed(values, period) \in Fraction
    OBVIOUS
  <2>1. \A k \in 1 .. period : values[k] \in Int
    BY <1>1
  <2>2. Total(values, period) \in Int
    BY <2>1, TotalRuns
  <2>3. QED
    BY <2>2 DEF EmaSeed, Fraction
<1>4. ASSUME NEW k \in 1 .. n, NEW d \in Fraction
      PROVE  Value(k, d) \in Fraction
  <2>1. EmaStep(values[k], period, d) \in Fraction
    <3>1. values[k] \in Int /\ d.num \in Int /\ d.den \in Int
      BY <1>1 DEF Fraction
    <3>2. QED
      BY <3>1 DEF EmaStep, Fraction
  <2>2. QED
    BY <1>1, <1>2, <1>3, <2>1
<1>5. \A k \in 1 .. n : \A d \in Fraction : step[k][d] = Value(k, d)
  OBVIOUS
<1>6. \A e : Value(1, e) = None
  OBVIOUS
<1>7. Ema(values, period) = ema
  BY DEF Ema
<1> HIDE DEF Value, step, n
<1>8. \E e : e = Rule(e)
  <2> DEFINE one == 1
  <2>1. one \in Nat /\ Steps(step, one, n, Fraction)
    BY <1>4, <1>5 DEF Steps
  <2> HIDE DEF one
  <2>2. PICK e : Runs(e, None, step, one, n, Fraction)
    BY <1>1, <1>2, <2>1, Unfolds
  <2> USE DEF one
  <2>3. e \in [1 .. n -> Fraction]
    BY <2>2 DEF Runs
  <2>4. ASSUME NEW k \in 1 .. n PROVE e[k] = Value(k, e[k - 1])
    <3>1. CASE k = 1
      BY <2>2, <1>6, <3>1 DEF Runs
    <3>2. CASE k # 1
      <4>1. k - 1 \in 1 .. n
        BY <1>1, <3>2
      <4>2. e[k - 1] \in Fraction
        BY <2>3, <4>1
      <4>3. e[k] = step[k][e[k - 1]]
        BY <2>2, <3>2 DEF Runs
      <4>4. QED
        BY <1>5, <4>2, <4>3
    <3>3. QED
      BY <3>1, <3>2
  <2>5. e = Rule(e)
    BY <2>3, <2>4
  <2>6. QED
    BY <2>5
<1>9. ema = Rule(ema)
  <2> HIDE DEF Rule
  <2>1. QED
    BY <1>8
<1> HIDE DEF ema
<1>10. \A k \in 1 .. n : ema[k] = Value(k, ema[k - 1])
  BY <1>9
<1>11. \A k \in 1 .. n : ema[k] \in Fraction
  <2> DEFINE S == {k \in 1 .. n : ema[k] \in Fraction}
             one == 1
  <2>1. one <= n => one \in S
    BY <1>1, <1>2, <1>6, <1>10
  <2>2. \A k \in one + 1 .. n : k - 1 \in S => k \in S
    BY <1>1, <1>4, <1>10
  <2>3. one \in Nat
    OBVIOUS
  <2> HIDE DEF S, one
  <2>4. one .. n \subseteq S
    BY <1>1, <2>1, <2>2, <2>3, Climb
  <2>5. QED
    BY <2>4 DEF S, one
<1>12. ema \in [1 .. n -> Fraction]
  BY <1>9, <1>11
<1>13. QED
  BY <1>7, <1>10, <1>12 DEF n, Value

-------------------------------------------------------------------------------
(* Averages of changes.                                                    *)

LEMMA TotalNatural ==
  ASSUME NEW n \in Nat, NEW values, \A k \in 1 .. n : values[k] \in Nat
  PROVE  Total(values, n) \in Nat
<1>1. PICK s \in [0 .. n -> Int] :
        /\ s[0] = 0
        /\ \A k \in 1 .. n : s[k] = s[k - 1] + values[k]
        /\ Total(values, n) = s[n]
  <2>1. \A k \in 1 .. n : values[k] \in Int
    OBVIOUS
  <2>2. QED
    BY <2>1, TotalRuns
<1> DEFINE S == {k \in 0 .. n : s[k] \in Nat}
           zero == 0
<1>2. zero <= n => zero \in S
  BY <1>1
<1>3. ASSUME NEW k \in zero + 1 .. n, k - 1 \in S PROVE k \in S
  <2>1. k \in 1 .. n /\ k \in 0 .. n
    OBVIOUS
  <2>2. s[k - 1] \in Nat /\ values[k] \in Nat
    BY <1>3, <2>1
  <2>3. QED
    BY <1>1, <2>1, <2>2
<1>4. zero \in Nat
  OBVIOUS
<1> HIDE DEF S, zero
<1>5. zero .. n \subseteq S
  BY <1>2, <1>3, <1>4, Climb
<1>6. n \in S
  BY <1>5 DEF zero
<1>7. QED
  BY <1>1, <1>6 DEF S

LEMMA ProductsNatural ==
  /\ \A x, y \in Nat : x * y \in Nat
  /\ \A x, y \in Nat \ {0} : x * y \in Nat \ {0}
OBVIOUS

LEMMA ChangesNatural ==
  ASSUME NEW values \in Seq(Int), NEW k \in 2 .. Len(values)
  PROVE  /\ Gain(values, k) \in Nat /\ Loss(values, k) \in Nat
         /\ Gain(values, k) > 0 => values[k] > values[k - 1]
         /\ Loss(values, k) > 0 => values[k] < values[k - 1]
<1>1. values[k] \in Int /\ values[k - 1] \in Int
  OBVIOUS
<1>2. QED
  BY <1>1 DEF Gain, Loss, Larger

Change == [gain : Nat, loss : Nat, unit : Nat \ {0}]

FirstChange(values, period) ==
  [gain |-> Total([m \in 1 .. period |-> Gain(values, m + 1)], period),
   loss |-> Total([m \in 1 .. period |-> Loss(values, m + 1)], period),
   unit |-> period]

NextChange(values, period, k, before) ==
  [gain |-> before.gain * (period - 1) + Gain(values, k) * before.unit,
   loss |-> before.loss * (period - 1) + Loss(values, k) * before.unit,
   unit |-> before.unit * period]

LEMMA AveragesRun ==
  ASSUME NEW values \in Seq(Int), NEW period \in Nat, 2 <= period
  PROVE  /\ Averages(values, period) \in [period + 1 .. Len(values) -> Change]
         /\ \A k \in period + 1 .. Len(values) :
              Averages(values, period)[k] =
                IF k = period + 1 THEN FirstChange(values, period)
                ELSE NextChange(values, period, k, Averages(values, period)[k - 1])
<1> DEFINE n == Len(values)
           one == period + 1
           Value(k, d) == IF k = one THEN FirstChange(values, period)
                          ELSE NextChange(values, period, k, d)
           Rule(e) == [k \in one .. n |-> Value(k, e[k - 1])]
           step == [k \in one .. n |-> [d \in Change |-> Value(k, d)]]
           run == CHOOSE e : e = Rule(e)
<1>1. n \in Nat /\ one \in Nat /\ 3 <= one
  OBVIOUS
<1>2. one <= n => FirstChange(values, period) \in Change
  <2> SUFFICES ASSUME one <= n PROVE FirstChange(values, period) \in Change
    OBVIOUS
  <2> DEFINE gains == [m \in 1 .. period |-> Gain(values, m + 1)]
             losses == [m \in 1 .. period |-> Loss(values, m + 1)]
  <2>1. \A m \in 1 .. period : m + 1 \in 2 .. Len(values)
    BY <1>1
  <2>2. \A m \in 1 .. period : gains[m] \in Nat /\ losses[m] \in Nat
    BY <2>1, ChangesNatural
  <2> HIDE DEF gains, losses
  <2>3. Total(gains, period) \in Nat /\ Total(losses, period) \in Nat
    BY <2>2, TotalNatural
  <2>4. QED
    BY <2>3 DEF FirstChange, Change, gains, losses
<1>3. ASSUME NEW k \in one .. n, NEW d \in Change
      PROVE  Value(k, d) \in Change
  <2>1. NextChange(values, period, k, d) \in Change
    <3>1. d.gain \in Nat /\ d.loss \in Nat /\ d.unit \in Nat \ {0}
      BY DEF Change
    <3>2. k \in 2 .. Len(values)
      BY <1>1
    <3>3. Gain(values, k) \in Nat /\ Loss(values, k) \in Nat
      BY <3>2, ChangesNatural
    <3>4. \A x, y, u \in Nat : x * (period - 1) + y * u \in Nat
      BY ProductsNatural
    <3>5. /\ d.gain * (period - 1) + Gain(values, k) * d.unit \in Nat
          /\ d.loss * (period - 1) + Loss(values, k) * d.unit \in Nat
      BY <3>1, <3>3, <3>4
    <3>6. \A u \in Nat \ {0} : u * period \in Nat \ {0}
      BY ProductsNatural
    <3>7. d.unit * period \in Nat \ {0}
      BY <3>1, <3>6
    <3>8. QED
      BY <3>5, <3>7 DEF NextChange, Change
  <2>2. QED
    BY <1>1, <1>2, <2>1
<1>4. \A k \in one .. n : \A d \in Change : step[k][d] = Value(k, d)
  OBVIOUS
<1>5. \A e : Value(one, e) = FirstChange(values, period)
  OBVIOUS
<1>6. Averages(values, period) = run
  BY DEF Averages, FirstChange, NextChange
<1> HIDE DEF Value, step, n
<1>7. CASE one <= n
  <2> HIDE DEF one
  <2>1. Steps(step, one, n, Change)
    BY <1>1, <1>3, <1>4 DEF Steps
  <2>2. PICK e : Runs(e, FirstChange(values, period), step, one, n, Change)
    BY <1>1, <1>2, <1>7, <2>1, Unfolds
  <2>3. e \in [one .. n -> Change]
    BY <2>2 DEF Runs
  <2>4. ASSUME NEW k \in one .. n PROVE e[k] = Value(k, e[k - 1])
    <3>1. CASE k = one
      BY <2>2, <1>5, <3>1 DEF Runs
    <3>2. CASE k # one
      <4>1. k - 1 \in one .. n
        BY <1>1, <3>2
      <4>2. e[k - 1] \in Change
        BY <2>3, <4>1
      <4>3. e[k] = step[k][e[k - 1]]
        BY <2>2, <3>2 DEF Runs
      <4>4. QED
        BY <1>4, <4>2, <4>3
    <3>3. QED
      BY <3>1, <3>2
  <2>5. e = Rule(e)
    BY <2>3, <2>4
  <2>6. run = Rule(run)
    <3> HIDE DEF Rule
    <3>1. QED
      BY <2>5
  <2> HIDE DEF run
  <2>7. \A k \in one .. n : run[k] = Value(k, run[k - 1])
    BY <2>6
  <2>8. \A k \in one .. n : run[k] \in Change
    <3> DEFINE S == {k \in one .. n : run[k] \in Change}
    <3>1. one <= n => one \in S
      BY <1>1, <1>2, <1>5, <2>7
    <3>2. \A k \in one + 1 .. n : k - 1 \in S => k \in S
      BY <1>1, <1>3, <2>7
    <3> HIDE DEF S
    <3>3. one .. n \subseteq S
      BY <1>1, <3>1, <3>2, Climb
    <3>4. QED
      BY <3>3 DEF S
  <2>9. run \in [one .. n -> Change]
    BY <2>6, <2>8
  <2>10. QED
    BY <1>6, <2>7, <2>9 DEF n, Value, one
<1>8. CASE ~(one <= n)
  <2>1. one .. n = {}
    BY <1>1, <1>8
  <2>2. \A e, d : Rule(e) = Rule(d)
    BY <2>1
  <2>3. run = Rule(run)
    <3> HIDE DEF Rule
    <3>1. PICK e : e = Rule(0)
      OBVIOUS
    <3>2. e = Rule(e)
      BY <2>2, <3>1
    <3>3. QED
      BY <3>2
  <2> HIDE DEF run
  <2>4. run \in [one .. n -> Change]
    BY <2>1, <2>3
  <2>5. QED
    BY <1>6, <2>1, <2>4 DEF n, one
<1>9. QED
  BY <1>7, <1>8

-------------------------------------------------------------------------------
(* No indicator looks ahead: an entry depends on the closes up to it.      *)

LEMMA TotalLocal ==
  ASSUME NEW n \in Nat, NEW values, \A k \in 1 .. n : values[k] \in Int,
         NEW others, \A k \in 1 .. n : others[k] = values[k]
  PROVE  Total(others, n) = Total(values, n)
<1>1. PICK s \in [0 .. n -> Int] :
        /\ s[0] = 0
        /\ \A k \in 1 .. n : s[k] = s[k - 1] + values[k]
        /\ Total(values, n) = s[n]
  BY TotalRuns
<1>2. PICK t \in [0 .. n -> Int] :
        /\ t[0] = 0
        /\ \A k \in 1 .. n : t[k] = t[k - 1] + others[k]
        /\ Total(others, n) = t[n]
  <2>1. \A k \in 1 .. n : others[k] \in Int
    OBVIOUS
  <2>2. QED
    BY <2>1, TotalRuns
<1> DEFINE S == {k \in 0 .. n : s[k] = t[k]}
           zero == 0
<1>3. zero <= n => zero \in S
  BY <1>1, <1>2
<1>4. ASSUME NEW k \in zero + 1 .. n, k - 1 \in S PROVE k \in S
  <2>1. k \in 1 .. n /\ k \in 0 .. n
    OBVIOUS
  <2>2. s[k - 1] = t[k - 1] /\ values[k] = others[k]
    BY <1>4, <2>1
  <2>3. QED
    BY <1>1, <1>2, <2>1, <2>2
<1>5. zero \in Nat
  OBVIOUS
<1> HIDE DEF S, zero
<1>6. zero .. n \subseteq S
  BY <1>3, <1>4, <1>5, Climb
<1>7. n \in S
  BY <1>6 DEF zero
<1>8. QED
  BY <1>1, <1>2, <1>7 DEF S

LEMMA EmaLocal ==
  ASSUME NEW values \in Seq(Int), NEW others \in Seq(Int),
         NEW n \in Nat, n <= Len(values), n <= Len(others),
         \A k \in 1 .. n : others[k] = values[k],
         NEW period \in Nat, 2 <= period
  PROVE  \A k \in 1 .. n : Ema(others, period)[k] = Ema(values, period)[k]
<1> DEFINE one == 1
           e == Ema(values, period)
           d == Ema(others, period)
           S == {k \in 1 .. n : d[k] = e[k]}
<1>1. \A k \in 1 .. n : /\ k \in 1 .. Len(values) /\ k \in 1 .. Len(others)
                        /\ values[k] \in Int
  OBVIOUS
<1>2. \A k \in 1 .. n :
        e[k] = IF k < period THEN None
               ELSE IF k = period THEN EmaSeed(values, period)
               ELSE EmaStep(values[k], period, e[k - 1])
  BY <1>1, EmaRuns
<1>3. \A k \in 1 .. n :
        d[k] = IF k < period THEN None
               ELSE IF k = period THEN EmaSeed(others, period)
               ELSE EmaStep(others[k], period, d[k - 1])
  BY <1>1, EmaRuns
<1>4. period <= n => EmaSeed(others, period) = EmaSeed(values, period)
  <2> SUFFICES ASSUME period <= n
               PROVE  EmaSeed(others, period) = EmaSeed(values, period)
    OBVIOUS
  <2>1. \A k \in 1 .. period : values[k] \in Int /\ others[k] = values[k]
    BY <1>1
  <2>2. Total(others, period) = Total(values, period)
    BY <2>1, TotalLocal
  <2>3. QED
    BY <2>2 DEF EmaSeed
<1> HIDE DEF e, d
<1>5. one <= n => one \in S
  BY <1>2, <1>3
<1>6. ASSUME NEW k \in one + 1 .. n, k - 1 \in S PROVE k \in S
  <2>1. k \in 1 .. n
    OBVIOUS
  <2>2. d[k - 1] = e[k - 1] /\ others[k] = values[k]
    BY <1>6, <2>1
  <2>3. k = period => period <= n
    OBVIOUS
  <2>4. d[k] = e[k]
    BY <1>2, <1>3, <1>4, <2>1, <2>2, <2>3
  <2>5. QED
    BY <2>1, <2>4
<1>7. one \in Nat
  OBVIOUS
<1> HIDE DEF S, one
<1>8. one .. n \subseteq S
  BY <1>5, <1>6, <1>7, Climb
<1>9. QED
  BY <1>8 DEF S, one, d, e

LEMMA AveragesLocal ==
  ASSUME NEW values \in Seq(Int), NEW others \in Seq(Int),
         NEW n \in Nat, n <= Len(values), n <= Len(others),
         \A k \in 1 .. n : others[k] = values[k],
         NEW period \in Nat, 2 <= period
  PROVE  \A k \in period + 1 .. n :
           Averages(others, period)[k] = Averages(values, period)[k]
<1> DEFINE one == period + 1
           e == Averages(values, period)
           d == Averages(others, period)
           S == {k \in one .. n : d[k] = e[k]}
<1>1. \A k \in one .. n : /\ k \in period + 1 .. Len(values)
                          /\ k \in period + 1 .. Len(others)
  OBVIOUS
<1>2. \A k \in one .. n :
        e[k] = IF k = one THEN FirstChange(values, period)
               ELSE NextChange(values, period, k, e[k - 1])
  BY <1>1, AveragesRun
<1>3. \A k \in one .. n :
        d[k] = IF k = one THEN FirstChange(others, period)
               ELSE NextChange(others, period, k, d[k - 1])
  BY <1>1, AveragesRun
<1>4. \A k \in 2 .. n : /\ Gain(others, k) = Gain(values, k)
                        /\ Loss(others, k) = Loss(values, k)
                        /\ Gain(values, k) \in Nat /\ Loss(values, k) \in Nat
  <2> SUFFICES ASSUME NEW k \in 2 .. n
               PROVE  /\ Gain(others, k) = Gain(values, k)
                      /\ Loss(others, k) = Loss(values, k)
                      /\ Gain(values, k) \in Nat /\ Loss(values, k) \in Nat
    OBVIOUS
  <2>1. others[k] = values[k] /\ others[k - 1] = values[k - 1]
    OBVIOUS
  <2>2. k \in 2 .. Len(values)
    OBVIOUS
  <2>3. QED
    BY <2>1, <2>2, ChangesNatural DEF Gain, Loss
<1>5. one <= n => FirstChange(others, period) = FirstChange(values, period)
  <2> SUFFICES ASSUME one <= n
               PROVE  FirstChange(others, period) = FirstChange(values, period)
    OBVIOUS
  <2>1. \A m \in 1 .. period : m + 1 \in 2 .. n
    OBVIOUS
  <2>2. /\ [m \in 1 .. period |-> Gain(others, m + 1)]
             = [m \in 1 .. period |-> Gain(values, m + 1)]
        /\ [m \in 1 .. period |-> Loss(others, m + 1)]
             = [m \in 1 .. period |-> Loss(values, m + 1)]
    BY <1>4, <2>1
  <2>3. QED
    BY <2>2, Zenon DEF FirstChange
<1> HIDE DEF e, d
<1>6. one <= n => one \in S
  BY <1>2, <1>3, <1>5
<1>7. ASSUME NEW k \in one + 1 .. n, k - 1 \in S PROVE k \in S
  <2>1. k \in one .. n /\ k \in 2 .. n /\ k # one
    OBVIOUS
  <2>2. d[k - 1] = e[k - 1]
    BY <1>7, <2>1
  <2>3. NextChange(others, period, k, e[k - 1]) = NextChange(values, period, k, e[k - 1])
    BY <1>4, <2>1 DEF NextChange
  <2>4. d[k] = NextChange(others, period, k, d[k - 1])
    BY <1>3, <2>1
  <2>5. e[k] = NextChange(values, period, k, e[k - 1])
    BY <1>2, <2>1
  <2>6. d[k] = e[k]
    BY <2>2, <2>3, <2>4, <2>5
  <2>7. QED
    BY <2>1, <2>6
<1>8. one \in Nat
  OBVIOUS
<1> HIDE DEF S, one
<1>9. one .. n \subseteq S
  BY <1>6, <1>7, <1>8, Climb
<1>10. QED
  BY <1>9 DEF S, one, d, e

LEMMA RsiLocal ==
  ASSUME NEW values \in Seq(Int), NEW others \in Seq(Int),
         NEW n \in Nat, n <= Len(values), n <= Len(others),
         \A k \in 1 .. n : others[k] = values[k],
         NEW period \in Nat, 2 <= period
  PROVE  \A k \in 1 .. n : Rsi(others, period)[k] = Rsi(values, period)[k]
<1> SUFFICES ASSUME NEW k \in 1 .. n
             PROVE  Rsi(others, period)[k] = Rsi(values, period)[k]
  OBVIOUS
<1>1. k \in 1 .. Len(values) /\ k \in 1 .. Len(others)
  OBVIOUS
<1>2. ~(k <= period) => Averages(others, period)[k] = Averages(values, period)[k]
  <2>1. ~(k <= period) => k \in period + 1 .. n
    OBVIOUS
  <2>2. QED
    BY <2>1, AveragesLocal
<1>3. QED
  BY <1>1, <1>2 DEF Rsi

-------------------------------------------------------------------------------
(* The two texts of the rule.                                              *)

Directions == {"LONG", "SHORT", "NONE"}

LEMMA DirectionType ==
  ASSUME NEW price, NEW fast, NEW mid, NEW slow, NEW now, NEW before
  PROVE  Direction(price, fast, mid, slow, now, before) \in Directions
<1> DEFINE long == /\ Rising(price, fast, mid, slow)
                   /\ ~Above(Whole(Upper), now) /\ Above(now, before)
           short == /\ Falling(price, fast, mid, slow)
                    /\ ~Above(now, Whole(Lower)) /\ Above(before, now)
           found == CASE long -> "LONG" [] short -> "SHORT" [] OTHER -> "NONE"
<1>1. Direction(price, fast, mid, slow, now, before)
        = IF None \in {fast, mid, slow, now, before} THEN "NONE" ELSE found
  BY Zenon DEF Direction
<1> HIDE DEF long, short
<1>2. found \in Directions
  BY DEF Directions
<1> HIDE DEF found
<1>3. QED
  BY <1>1, <1>2 DEF Directions

LEMMA SameText ==
  ASSUME NEW price, NEW fast, NEW mid, NEW slow, NEW now, NEW before
  PROVE  DirectionAt(price, fast, mid, slow, now, before)
           = Direction(price, fast, mid, slow, now, before)
<1> DEFINE long == /\ Rising(price, fast, mid, slow)
                   /\ ~Above(Whole(Upper), now) /\ Above(now, before)
           short == /\ Falling(price, fast, mid, slow)
                    /\ ~Above(now, Whole(Lower)) /\ Above(before, now)
           longAt == /\ Above(fast, mid) /\ Above(mid, slow)
                     /\ Above(price, fast) /\ Above(price, mid) /\ Above(price, slow)
                     /\ ~Above(Whole(Upper), now) /\ Above(now, before)
           shortAt == /\ Above(mid, fast) /\ Above(slow, mid)
                      /\ Above(fast, price) /\ Above(mid, price) /\ Above(slow, price)
                      /\ ~Above(now, Whole(Lower)) /\ Above(before, now)
           found == CASE long -> "LONG" [] short -> "SHORT" [] OTHER -> "NONE"
           foundAt == CASE longAt -> "LONG" [] shortAt -> "SHORT" [] OTHER -> "NONE"
           gap == None \in {fast, mid, slow, now, before}
<1>1. (longAt <=> long) /\ (shortAt <=> short)
  BY DEF Rising, Falling
<1>2. Direction(price, fast, mid, slow, now, before) = IF gap THEN "NONE" ELSE found
  BY Zenon DEF Direction
<1>3. DirectionAt(price, fast, mid, slow, now, before) = IF gap THEN "NONE" ELSE foundAt
  BY Zenon DEF DirectionAt
<1> HIDE DEF long, short, longAt, shortAt, gap
<1>4. found = foundAt
  BY <1>1
<1> HIDE DEF found, foundAt
<1>5. QED
  BY <1>2, <1>3, <1>4

LEMMA EvaluateType ==
  ASSUME NEW values
  PROVE  Evaluate(values) \in Directions
BY DirectionType DEF Evaluate, Directions

(* Before the slowest average and the second RSI are there, signal_at      *)
(* finds a gap where evaluate returns early.                               *)
LEMMA TooShort ==
  ASSUME NEW values \in Seq(Int), NEW k \in 2 .. Len(values),
         k < Larger(Slow, RsiPeriod + 2)
  PROVE  \/ Ema(values, Slow)[k] = None
         \/ Rsi(values, RsiPeriod)[k - 1] = None
<1>1. /\ Slow \in Nat /\ 2 <= Slow /\ RsiPeriod \in Nat /\ 2 <= RsiPeriod
  BY StrategyAssumption DEF StrategyAssumption
<1>2. k < Slow \/ k < RsiPeriod + 2
  BY <1>1 DEF Larger
<1>3. CASE k < Slow
  <2>1. k \in 1 .. Len(values)
    OBVIOUS
  <2>2. QED
    BY <1>1, <1>3, <2>1, EmaRuns
<1>4. CASE k < RsiPeriod + 2
  <2>1. k - 1 \in 1 .. Len(values) /\ k - 1 <= RsiPeriod
    BY <1>1, <1>4
  <2>2. QED
    BY <2>1 DEF Rsi
<1>5. QED
  BY <1>2, <1>3, <1>4

LEMMA SameVerdict ==
  ASSUME NEW values \in Seq(Int), NEW k \in 1 .. Len(values)
  PROVE  SignalAt(values, k) = Evaluate(SubSeq(values, 1, k))
<1> DEFINE past == SubSeq(values, 1, k)
<1>1. past \in Seq(Int) /\ Len(past) = k /\ \A m \in 1 .. k : past[m] = values[m]
  OBVIOUS
<1>2. /\ Fast \in Nat /\ 2 <= Fast /\ Mid \in Nat /\ 2 <= Mid
      /\ Slow \in Nat /\ 4 <= Slow /\ RsiPeriod \in Nat /\ 2 <= RsiPeriod
  BY StrategyAssumption DEF StrategyAssumption
<1> HIDE DEF past
<1>3. k \in Nat /\ k <= Len(values) /\ k <= Len(past) /\ k \in 1 .. k
  BY <1>1
<1>4. /\ Ema(past, Fast)[k] = Ema(values, Fast)[k]
      /\ Ema(past, Mid)[k] = Ema(values, Mid)[k]
      /\ Ema(past, Slow)[k] = Ema(values, Slow)[k]
      /\ Rsi(past, RsiPeriod)[k] = Rsi(values, RsiPeriod)[k]
  <2>1. \A period \in {Fast, Mid, Slow} : Ema(past, period)[k] = Ema(values, period)[k]
    <3> SUFFICES ASSUME NEW period \in {Fast, Mid, Slow}
                 PROVE  Ema(past, period)[k] = Ema(values, period)[k]
      OBVIOUS
    <3>1. period \in Nat /\ 2 <= period
      BY <1>2
    <3>2. QED
      BY <1>1, <1>3, <3>1, EmaLocal
  <2>2. Rsi(past, RsiPeriod)[k] = Rsi(values, RsiPeriod)[k]
    BY <1>1, <1>2, <1>3, RsiLocal
  <2>3. QED
    BY <2>1, <2>2
<1>5. CASE k < Larger(Slow, RsiPeriod + 2)
  <2>1. Evaluate(past) = "NONE"
    BY <1>1, <1>5, Zenon DEF Evaluate
  <2>2. k # 1 => SignalAt(values, k) = "NONE"
    <3> SUFFICES ASSUME k # 1 PROVE SignalAt(values, k) = "NONE"
      OBVIOUS
    <3>1. k \in 2 .. Len(values)
      OBVIOUS
    <3>2. Ema(values, Slow)[k] = None \/ Rsi(values, RsiPeriod)[k - 1] = None
      BY <1>5, <3>1, TooShort
    <3>3. QED
      BY <3>2, Zenon DEF SignalAt, DirectionAt
  <2>3. k = 1 => SignalAt(values, k) = "NONE"
    BY DEF SignalAt
  <2>4. QED
    BY <2>1, <2>2, <2>3 DEF past
<1>6. CASE ~(k < Larger(Slow, RsiPeriod + 2))
  <2>1. k # 1 /\ k - 1 \in 1 .. k
    BY <1>2, <1>6 DEF Larger
  <2>2. Rsi(past, RsiPeriod)[k - 1] = Rsi(values, RsiPeriod)[k - 1]
    BY <1>1, <1>2, <1>3, <2>1, RsiLocal
  <2>3. past[k] = values[k]
    BY <1>1, <1>3
  <2>4. Evaluate(past)
          = Direction(Whole(past[k]), Ema(past, Fast)[k], Ema(past, Mid)[k],
                      Ema(past, Slow)[k], Rsi(past, RsiPeriod)[k],
                      Rsi(past, RsiPeriod)[k - 1])
    BY <1>1, <1>6, Zenon DEF Evaluate
  <2>5. SignalAt(values, k)
          = Direction(Whole(values[k]), Ema(values, Fast)[k], Ema(values, Mid)[k],
                      Ema(values, Slow)[k], Rsi(values, RsiPeriod)[k],
                      Rsi(values, RsiPeriod)[k - 1])
    BY <2>1, SameText, Zenon DEF SignalAt
  <2>6. QED
    BY <1>4, <2>2, <2>3, <2>4, <2>5 DEF past
<1>7. QED
  BY <1>5, <1>6

-------------------------------------------------------------------------------
(* Every verdict is what evaluate says of the window that ended there.     *)
VerdictsRecorded ==
  \A k \in 1 .. Len(closes) :
    verdicts[k] = Evaluate(LastOf(SubSeq(closes, 1, k), Window))

StrategyInv == TypeOK /\ VerdictsRecorded

LEMMA StrategyInvInit == Init => StrategyInv
BY DEF Init, StrategyInv, TypeOK, VerdictsRecorded

LEMMA StrategyInvStep == StrategyInv /\ [Next]_vars => StrategyInv'
<1> SUFFICES ASSUME StrategyInv, [Next]_vars PROVE StrategyInv'
  OBVIOUS
<1>1. TypeOK /\ VerdictsRecorded
  BY DEF StrategyInv
<1>2. ASSUME NEW price \in 1 .. Top, Close(price) PROVE StrategyInv'
  <2> DEFINE n == Len(closes)
             verdict == Evaluate(LastOf(closes', Window))
  <2>1. /\ n \in Nat /\ n = Len(verdicts)
        /\ closes \in Seq(1 .. Top) /\ verdicts \in Seq(Directions)
    BY <1>1 DEF TypeOK, Directions
  <2>2. closes' = Append(closes, price) /\ verdicts' = Append(verdicts, verdict)
    BY <1>2 DEF Close
  <2>3. verdict \in Directions
    BY EvaluateType
  <2> HIDE DEF verdict
  <2>4. closes' \in Seq(1 .. Top) /\ verdicts' \in Seq(Directions)
    BY <2>1, <2>2, <2>3
  <2>5. Len(closes') = n + 1 /\ Len(verdicts') = n + 1
    BY <2>1, <2>2
  <2>6. /\ \A k \in 1 .. n : closes'[k] = closes[k] /\ verdicts'[k] = verdicts[k]
        /\ verdicts'[n + 1] = verdict
    BY <2>1, <2>2
  <2>7. ASSUME NEW k \in 1 .. n + 1
        PROVE  verdicts'[k] = Evaluate(LastOf(SubSeq(closes', 1, k), Window))
    <3>1. CASE k = n + 1
      <4>1. SubSeq(closes', 1, k) = closes'
        BY <2>1, <2>4, <2>5, <3>1
      <4>2. QED
        BY <2>6, <3>1, <4>1 DEF verdict
    <3>2. CASE k # n + 1
      <4>1. k \in 1 .. n
        BY <2>1, <3>2
      <4>2. SubSeq(closes', 1, k) = SubSeq(closes, 1, k)
        BY <2>1, <2>4, <2>5, <2>6, <4>1
      <4>3. QED
        BY <1>1, <2>6, <4>1, <4>2 DEF VerdictsRecorded
    <3>3. QED
      BY <3>1, <3>2
  <2>8. QED
    BY <2>4, <2>5, <2>7 DEF StrategyInv, TypeOK, VerdictsRecorded, Directions
<1>3. CASE UNCHANGED vars
  BY <1>1, <1>3 DEF vars, StrategyInv, TypeOK, VerdictsRecorded
<1>4. QED
  BY <1>2, <1>3 DEF Next

LEMMA StrategyInvAlways == Spec => []StrategyInv
<1>1. QED
  BY StrategyInvInit, StrategyInvStep, PTL DEF Spec

(* Closes are prices, every close has one verdict, and a verdict is a      *)
(* direction or none (strategy.py:21-58).                                  *)
THEOREM TypeCorrect == Spec => []TypeOK
<1>1. StrategyInv => TypeOK
  BY DEF StrategyInv
<1>2. QED
  BY <1>1, StrategyInvAlways, PTL

LEMMA PricesAreNumbers ==
  ASSUME NEW s \in Seq(1 .. Top)
  PROVE  s \in Seq(Int) /\ \A k \in 1 .. Len(s) : s[k] \in 1 .. Top
<1>1. 1 .. Top \subseteq Int
  OBVIOUS
<1>2. s \in Seq(Int)
  BY <1>1, SeqMonotonic, Zenon
<1>3. QED
  BY <1>2, ElementOfSeq, Zenon

(* While the window reaches back to the first close, a verdict is that of  *)
(* evaluate over everything so far.                                        *)
LEMMA WindowReachesBack ==
  ASSUME StrategyInv, NEW k \in 1 .. Len(closes), k <= Window
  PROVE  /\ closes \in Seq(Int)
         /\ verdicts[k] = Evaluate(SubSeq(closes, 1, k))
<1>1. closes \in Seq(1 .. Top) /\ closes \in Seq(Int)
  BY PricesAreNumbers DEF StrategyInv, TypeOK
<1> DEFINE past == SubSeq(closes, 1, k)
<1>2. past \in Seq(Int) /\ Len(past) = k
  BY <1>1
<1>3. k - Window + 1 <= 1 /\ Window \in Nat
  BY StrategyAssumption, <1>1 DEF StrategyAssumption
<1>4. verdicts[k] = Evaluate(LastOf(past, Window))
  BY DEF StrategyInv, VerdictsRecorded
<1> HIDE DEF past
<1>5. Larger(1, Len(past) - Window + 1) = 1
  BY <1>1, <1>2, <1>3 DEF Larger
<1>6. LastOf(past, Window) = past
  <2>1. SubSeq(past, 1, Len(past)) = past
    BY <1>2
  <2>2. QED
    BY <1>5, <2>1 DEF LastOf
<1>7. QED
  BY <1>1, <1>4, <1>6 DEF past

(* For every series and every candle of it, signal_at finds from the       *)
(* indicators of the whole series what evaluate finds from that candle and *)
(* those before it: there is no look-ahead, and the two texts of the rule  *)
(* agree (strategy.py:21-47, 66-82).                                       *)
THEOREM SameRuleAlways == Spec => []SameRule
<1>1. StrategyInv => closes \in Seq(Int)
  BY PricesAreNumbers DEF StrategyInv, TypeOK
<1>2. StrategyInv => SameRule
  BY <1>1, SameVerdict DEF SameRule
<1>3. QED
  BY <1>2, StrategyInvAlways, PTL

-------------------------------------------------------------------------------
(* Momentum.  The RSI grows only on a gain and falls only on a loss.       *)

Ratio == [num : Nat, den : Nat \ {0}]

LEMMA RsiValueType ==
  ASSUME NEW c \in Change
  PROVE  RsiValue(c) \in Ratio
<1>1. c.gain \in Nat /\ c.loss \in Nat
  BY DEF Change
<1>2. 100 * c.gain \in Nat
  BY <1>1
<1>3. c.loss # 0 => c.gain + c.loss \in Nat \ {0}
  BY <1>1
<1>4. QED
  BY <1>2, <1>3 DEF RsiValue, Whole, Ratio

(* Gains fade by p while losses fade by p and grow by x.                   *)
LEMMA FadingGains ==
  ASSUME NEW g \in Nat, NEW l \in Nat, NEW p \in Nat, NEW x \in Nat
  PROVE  (100 * (g * p)) * (g + l) <= (100 * g) * (g * p + (l * p + x))
<1>1. g * x \in Nat /\ g * p \in Nat /\ (g * p) * (g + l) \in Nat
  BY ProductsNatural
<1>2. g * (g * p + (l * p + x)) = (g * p) * (g + l) + g * x
  OBVIOUS
<1>3. g * (g * p + (l * p + x)) \in Nat
  BY <1>1, <1>2
<1>4. (100 * (g * p)) * (g + l) = 100 * ((g * p) * (g + l))
  OBVIOUS
<1>5. (100 * g) * (g * p + (l * p + x)) = 100 * (g * (g * p + (l * p + x)))
  OBVIOUS
<1>6. QED
  BY <1>1, <1>2, <1>3, <1>4, <1>5

LEMMA FadingLosses ==
  ASSUME NEW g \in Nat, NEW l \in Nat, NEW p \in Nat, NEW x \in Nat
  PROVE  (100 * g) * ((g * p + x) + l * p) <= (100 * (g * p + x)) * (g + l)
<1>1. x * l \in Nat /\ g * ((g * p + x) + l * p) \in Nat
  BY ProductsNatural
<1>2. (g * p + x) * (g + l) = g * ((g * p + x) + l * p) + x * l
  OBVIOUS
<1>3. (100 * g) * ((g * p + x) + l * p) = 100 * (g * ((g * p + x) + l * p))
  OBVIOUS
<1>4. (100 * (g * p + x)) * (g + l) = 100 * ((g * p + x) * (g + l))
  OBVIOUS
<1>5. QED
  BY <1>1, <1>2, <1>3, <1>4

LEMMA NoGrowthWithoutGain ==
  ASSUME NEW c \in Change, NEW d \in Change, NEW p \in Nat \ {0}, NEW x \in Nat,
         d.gain = c.gain * p, d.loss = c.loss * p + x
  PROVE  ~Above(RsiValue(d), RsiValue(c))
<1> DEFINE g == c.gain
           l == c.loss
<1>1. g \in Nat /\ l \in Nat
  BY DEF Change
<1>2. d.gain = g * p /\ d.loss = l * p + x
  OBVIOUS
<1> HIDE DEF g, l
<1>3. /\ g * p \in Nat /\ l * p \in Nat
      /\ g > 0 <=> g * p > 0
      /\ l > 0 <=> l * p > 0
  <2>1. g * p \in Nat /\ l * p \in Nat
    BY <1>1, ProductsNatural
  <2>2. g # 0 => g * p # 0
    BY <1>1, ProductsNatural
  <2>3. l # 0 => l * p # 0
    BY <1>1, ProductsNatural
  <2>4. (g = 0 => g * p = 0) /\ (l = 0 => l * p = 0)
    OBVIOUS
  <2>5. QED
    BY <1>1, <2>1, <2>2, <2>3, <2>4
<1> DEFINE G == g * p
           L == l * p + x
<1>4. G \in Nat /\ L \in Nat /\ (L = 0 => l = 0) /\ (G > 0 <=> g > 0)
  BY <1>1, <1>3
<1>5. (100 * G) * (g + l) <= (100 * g) * (G + L)
  BY <1>1, FadingGains
<1>6. RsiValue(c) = IF l = 0 THEN [num |-> IF g > 0 THEN 100 ELSE 50, den |-> 1]
                    ELSE [num |-> 100 * g, den |-> g + l]
  BY DEF RsiValue, Whole, g, l
<1>7. RsiValue(d) = IF L = 0 THEN [num |-> IF G > 0 THEN 100 ELSE 50, den |-> 1]
                    ELSE [num |-> 100 * G, den |-> G + L]
  BY <1>2 DEF RsiValue, Whole
<1> HIDE DEF G, L
<1>8. CASE L = 0
  BY <1>1, <1>4, <1>6, <1>7, <1>8 DEF Above
<1>9. CASE L # 0 /\ l # 0
  BY <1>1, <1>4, <1>5, <1>6, <1>7, <1>9 DEF Above
<1>10. CASE L # 0 /\ l = 0 /\ g > 0
  BY <1>1, <1>4, <1>6, <1>7, <1>10 DEF Above
<1>11. CASE L # 0 /\ l = 0 /\ ~(g > 0)
  <2>1. G = 0 /\ 100 * G = 0
    BY <1>1, <1>4, <1>11
  <2>2. QED
    BY <1>1, <1>4, <1>6, <1>7, <1>11, <2>1 DEF Above
<1>12. QED
  BY <1>8, <1>9, <1>10, <1>11

LEMMA NoFallWithoutLoss ==
  ASSUME NEW c \in Change, NEW d \in Change, NEW p \in Nat \ {0}, NEW x \in Nat,
         d.gain = c.gain * p + x, d.loss = c.loss * p
  PROVE  ~Above(RsiValue(c), RsiValue(d))
<1> DEFINE g == c.gain
           l == c.loss
<1>1. g \in Nat /\ l \in Nat
  BY DEF Change
<1>2. d.gain = g * p + x /\ d.loss = l * p
  OBVIOUS
<1> HIDE DEF g, l
<1>3. /\ g * p \in Nat /\ l * p \in Nat
      /\ g > 0 => g * p > 0
      /\ l > 0 <=> l * p > 0
  <2>1. g * p \in Nat /\ l * p \in Nat
    BY <1>1, ProductsNatural
  <2>2. g # 0 => g * p # 0
    BY <1>1, ProductsNatural
  <2>3. l # 0 => l * p # 0
    BY <1>1, ProductsNatural
  <2>4. l = 0 => l * p = 0
    OBVIOUS
  <2>5. QED
    BY <1>1, <2>1, <2>2, <2>3, <2>4
<1> DEFINE G == g * p + x
           L == l * p
<1>4. G \in Nat /\ L \in Nat /\ (L = 0 <=> l = 0) /\ (g > 0 => G > 0)
  BY <1>1, <1>3
<1>5. (100 * g) * (G + L) <= (100 * G) * (g + l)
  BY <1>1, FadingLosses
<1>6. RsiValue(c) = IF l = 0 THEN [num |-> IF g > 0 THEN 100 ELSE 50, den |-> 1]
                    ELSE [num |-> 100 * g, den |-> g + l]
  BY DEF RsiValue, Whole, g, l
<1>7. RsiValue(d) = IF L = 0 THEN [num |-> IF G > 0 THEN 100 ELSE 50, den |-> 1]
                    ELSE [num |-> 100 * G, den |-> G + L]
  BY <1>2 DEF RsiValue, Whole
<1> HIDE DEF G, L
<1>8. CASE L = 0
  BY <1>1, <1>4, <1>6, <1>7, <1>8 DEF Above
<1>9. CASE L # 0
  BY <1>1, <1>4, <1>5, <1>6, <1>7, <1>9 DEF Above
<1>10. QED
  BY <1>8, <1>9

(* What evaluate finds, it finds in the last two closes.                   *)
LEMMA SetupFollowsTheClose ==
  ASSUME NEW values \in Seq(Int)
  PROVE  LET n == Len(values) IN
         /\ Evaluate(values) = "LONG"  => n \in Nat \ {0, 1} /\ values[n] > values[n - 1]
         /\ Evaluate(values) = "SHORT" => n \in Nat \ {0, 1} /\ values[n] < values[n - 1]
<1> DEFINE n == Len(values)
           run == Averages(values, RsiPeriod)
           now == RsiValue(run[n])
           before == RsiValue(run[n - 1])
           momentum == RsiPeriod - 1
<1>1. SUFFICES ASSUME Evaluate(values) # "NONE"
               PROVE  /\ n \in Nat \ {0, 1}
                      /\ Evaluate(values) = "LONG"  => values[n] > values[n - 1]
                      /\ Evaluate(values) = "SHORT" => values[n] < values[n - 1]
  OBVIOUS
<1>2. /\ RsiPeriod \in Nat /\ 2 <= RsiPeriod /\ Slow \in Nat
      /\ momentum \in Nat \ {0}
  BY StrategyAssumption DEF StrategyAssumption
<1>3. n \in Nat /\ ~(n < Larger(Slow, RsiPeriod + 2))
  BY <1>1 DEF Evaluate
<1>4. /\ n \in RsiPeriod + 1 .. Len(values) /\ n - 1 \in RsiPeriod + 1 .. Len(values)
      /\ n \in 2 .. Len(values) /\ n # RsiPeriod + 1
  BY <1>2, <1>3 DEF Larger
<1>5. /\ Rsi(values, RsiPeriod)[n] = now
      /\ Rsi(values, RsiPeriod)[n - 1] = before
  <2>1. /\ n \in 1 .. Len(values) /\ ~(n <= RsiPeriod)
        /\ n - 1 \in 1 .. Len(values) /\ ~(n - 1 <= RsiPeriod)
    BY <1>2, <1>4
  <2>2. QED
    BY <2>1 DEF Rsi
<1>6. run[n] \in Change /\ run[n - 1] \in Change
  BY <1>2, <1>4, AveragesRun
<1>7. run[n] = NextChange(values, RsiPeriod, n, run[n - 1])
  BY <1>2, <1>4, AveragesRun
<1> DEFINE g == Gain(values, n)
           l == Loss(values, n)
           u == run[n - 1].unit
<1>8. /\ g \in Nat /\ l \in Nat /\ u \in Nat
      /\ g > 0 => values[n] > values[n - 1]
      /\ l > 0 => values[n] < values[n - 1]
  BY <1>4, <1>6, ChangesNatural DEF Change
<1>9. /\ run[n].gain = run[n - 1].gain * momentum + g * u
      /\ run[n].loss = run[n - 1].loss * momentum + l * u
  BY <1>7 DEF NextChange
<1>10. /\ Evaluate(values) = "LONG"  => Above(now, before)
       /\ Evaluate(values) = "SHORT" => Above(before, now)
  <2> DEFINE fast == Ema(values, Fast)[n]
             mid == Ema(values, Mid)[n]
             slow == Ema(values, Slow)[n]
             price == Whole(values[n])
  <2>1. Evaluate(values) = Direction(price, fast, mid, slow, now, before)
    BY <1>3, <1>5, Zenon DEF Evaluate
  <2> HIDE DEF price, fast, mid, slow, now, before
  <2>2. QED
    BY <2>1 DEF Direction
<1> HIDE DEF g, l, u, momentum, n
<1>11. g * u \in Nat /\ l * u \in Nat
  BY <1>8, ProductsNatural
<1>12. Above(now, before) => g > 0
  <2> SUFFICES ASSUME g = 0 PROVE ~Above(now, before)
    BY <1>8
  <2>1. run[n].gain = run[n - 1].gain * momentum
    <3>1. run[n - 1].gain \in Nat /\ run[n - 1].gain * momentum \in Nat
      BY <1>2, <1>6, ProductsNatural DEF Change
    <3>2. g * u = 0
      BY <1>8
    <3>3. QED
      BY <1>9, <3>1, <3>2
  <2> HIDE DEF run
  <2>2. QED
    BY <1>2, <1>6, <1>9, <1>11, <2>1, NoGrowthWithoutGain
<1>13. Above(before, now) => l > 0
  <2> SUFFICES ASSUME l = 0 PROVE ~Above(before, now)
    BY <1>8
  <2>1. run[n].loss = run[n - 1].loss * momentum
    <3>1. run[n - 1].loss \in Nat /\ run[n - 1].loss * momentum \in Nat
      BY <1>2, <1>6, ProductsNatural DEF Change
    <3>2. l * u = 0
      BY <1>8
    <3>3. QED
      BY <1>9, <3>1, <3>2
  <2> HIDE DEF run
  <2>2. QED
    BY <1>2, <1>6, <1>9, <1>11, <2>1, NoFallWithoutLoss
<1>14. n \in Nat \ {0, 1}
  BY <1>3, <1>4
<1>15. QED
  BY <1>8, <1>10, <1>12, <1>13, <1>14

(* A long setup is never found on a candle that closed lower than the one  *)
(* before, a short one never on one that closed higher                     *)
(* (strategy.py:39-43).                                                    *)
THEOREM SetupsFollowTheCloseAlways == Spec => []SetupsFollowTheClose
<1>1. ASSUME StrategyInv PROVE SetupsFollowTheClose
  <2> SUFFICES ASSUME NEW k \in 1 .. Len(closes)
               PROVE  /\ verdicts[k] = "LONG"  => closes[k] >= closes[k - 1]
                      /\ verdicts[k] = "SHORT" => closes[k] <= closes[k - 1]
    BY DEF SetupsFollowTheClose
  <2> DEFINE past == SubSeq(closes, 1, k)
             from == Larger(1, Len(past) - Window + 1)
             window == LastOf(past, Window)
             n == Len(window)
  <2>1. closes \in Seq(Int) /\ Window \in Nat \ {0}
    BY <1>1, StrategyAssumption, PricesAreNumbers
       DEF StrategyInv, TypeOK, StrategyAssumption
  <2>2. past \in Seq(Int) /\ Len(past) = k /\ \A m \in 1 .. k : past[m] = closes[m]
    BY <2>1
  <2> HIDE DEF past
  <2>3. from \in 1 .. k
    BY <2>1, <2>2 DEF Larger
  <2> HIDE DEF from
  <2>4. window = SubSeq(past, from, Len(past))
    BY DEF LastOf, from
  <2>5. /\ window \in Seq(Int) /\ n = k - from + 1
        /\ \A m \in 1 .. n : window[m] = past[from + m - 1]
    BY <2>2, <2>3, <2>4
  <2>6. verdicts[k] = Evaluate(window)
    BY <1>1 DEF StrategyInv, VerdictsRecorded, past
  <2> HIDE DEF window
  <2>7. n \in Nat \ {0, 1} => window[n] = closes[k] /\ window[n - 1] = closes[k - 1]
    <3> SUFFICES ASSUME n \in Nat \ {0, 1}
                 PROVE  window[n] = closes[k] /\ window[n - 1] = closes[k - 1]
      OBVIOUS
    <3>1. /\ n \in 1 .. n /\ n - 1 \in 1 .. n
          /\ from + n - 1 = k /\ from + (n - 1) - 1 = k - 1
          /\ k \in 1 .. k /\ k - 1 \in 1 .. k
      BY <2>3, <2>5
    <3>2. window[n] = past[from + n - 1] /\ window[n - 1] = past[from + (n - 1) - 1]
      BY <2>5, <3>1
    <3>3. QED
      BY <2>2, <3>1, <3>2
  <2>8. /\ Evaluate(window) = "LONG"  => n \in Nat \ {0, 1} /\ window[n] > window[n - 1]
        /\ Evaluate(window) = "SHORT" => n \in Nat \ {0, 1} /\ window[n] < window[n - 1]
    BY <2>5, SetupFollowsTheClose
  <2>9. /\ verdicts[k] = "LONG"  => k # 1 /\ closes[k] > closes[k - 1]
        /\ verdicts[k] = "SHORT" => k # 1 /\ closes[k] < closes[k - 1]
    BY <2>3, <2>5, <2>6, <2>7, <2>8
  <2>10. k # 1 => closes[k] \in Int /\ closes[k - 1] \in Int
    BY <2>1
  <2>11. QED
    BY <2>9, <2>10
<1>2. QED
  BY <1>1, StrategyInvAlways, PTL

-------------------------------------------------------------------------------
(* Ranges.                                                                 *)

LEMMA Scaling ==
  \A a, b \in Int : \A c \in Nat : a <= b => a * c <= b * c
<1> SUFFICES ASSUME NEW a \in Int, NEW b \in Int, NEW c \in Nat, a <= b
             PROVE  a * c <= b * c
  OBVIOUS
<1>1. (b - a) * c \in Nat
  <2>1. b - a \in Nat
    OBVIOUS
  <2>2. QED
    BY <2>1, ProductsNatural
<1>2. (b - a) * c = b * c - a * c /\ b * c \in Int /\ a * c \in Int
  OBVIOUS
<1>3. QED
  BY <1>1, <1>2

LEMMA Extremes ==
  ASSUME NEW S, S \subseteq 1 .. Top, S # {}
  PROVE  /\ Min(S) \in S /\ Max(S) \in S
         /\ \A x \in S : Min(S) <= x /\ x <= Max(S)
<1>1. Top \in Nat
  BY StrategyAssumption DEF StrategyAssumption
<1>2. \E x \in S : \A y \in S : x <= y
  <2>1. S \subseteq Nat
    BY <1>1
  <2>2. QED
    BY <2>1, LeastOfNat
<1>3. \E x \in S : \A y \in S : x >= y
  <2> DEFINE T == {Top - x : x \in S}
  <2>0. \A x \in 1 .. Top : x \in Int /\ Top - x \in Nat
    BY <1>1
  <2>1. T \subseteq Nat /\ T # {}
    BY <2>0
  <2>2. PICK m \in T : \A k \in T : m <= k
    <3> HIDE DEF T
    <3>1. QED
      BY <2>1, LeastOfNat
  <2>3. PICK x \in S : m = Top - x
    BY <2>2
  <2>4. \A y \in S : Top - x <= Top - y
    BY <2>2, <2>3
  <2>5. \A y \in S : y \in Int /\ x \in Int
    BY <2>0
  <2>6. \A y \in S : x >= y
    BY <1>1, <2>4, <2>5
  <2>7. QED
    BY <2>6
<1>4. Min(S) \in S /\ \A y \in S : Min(S) <= y
  BY <1>2 DEF Min
<1>5. Max(S) \in S /\ \A y \in S : Max(S) >= y
  BY <1>3 DEF Max
<1>6. \A y \in S : y \in Int
  OBVIOUS
<1>7. QED
  BY <1>4, <1>5, <1>6

LEMMA TotalBounded ==
  ASSUME NEW n \in Nat, NEW values, NEW low \in Int, NEW high \in Int,
         \A k \in 1 .. n : values[k] \in Int /\ low <= values[k] /\ values[k] <= high
  PROVE  /\ Total(values, n) \in Int
         /\ low * n <= Total(values, n) /\ Total(values, n) <= high * n
<1>1. PICK s \in [0 .. n -> Int] :
        /\ s[0] = 0
        /\ \A k \in 1 .. n : s[k] = s[k - 1] + values[k]
        /\ Total(values, n) = s[n]
  <2>1. \A k \in 1 .. n : values[k] \in Int
    OBVIOUS
  <2>2. QED
    BY <2>1, TotalRuns
<1> DEFINE S == {k \in 0 .. n : low * k <= s[k] /\ s[k] <= high * k}
           zero == 0
<1>2. zero <= n => zero \in S
  BY <1>1
<1>3. ASSUME NEW k \in zero + 1 .. n, k - 1 \in S PROVE k \in S
  <2>1. k \in 1 .. n /\ k \in 0 .. n /\ k - 1 \in 0 .. n
    OBVIOUS
  <2>2. low * (k - 1) <= s[k - 1] /\ s[k - 1] <= high * (k - 1) /\ s[k - 1] \in Int
    BY <1>3, <2>1
  <2>3. low * k = low * (k - 1) + low /\ high * k = high * (k - 1) + high
    BY <2>1
  <2>4. low * (k - 1) \in Int /\ high * (k - 1) \in Int
    BY <2>1
  <2>5. s[k] = s[k - 1] + values[k] /\ values[k] \in Int
        /\ low <= values[k] /\ values[k] <= high
    BY <1>1, <2>1
  <2>6. low * k <= s[k] /\ s[k] <= high * k
    BY <2>2, <2>3, <2>4, <2>5
  <2>7. QED
    BY <2>1, <2>6
<1>4. zero \in Nat
  OBVIOUS
<1> HIDE DEF S, zero
<1>5. zero .. n \subseteq S
  BY <1>2, <1>3, <1>4, Climb
<1>6. n \in S
  BY <1>5 DEF zero
<1>7. QED
  BY <1>1, <1>6 DEF S

(* A fraction between two whole numbers.                                   *)
Bounded(x, low, high) ==
  /\ x \in Fraction /\ x.den > 0
  /\ low * x.den <= x.num /\ x.num <= high * x.den

LEMMA BoundedIsBetween ==
  ASSUME NEW low \in Int, NEW high \in Int, NEW x, Bounded(x, low, high)
  PROVE  x # None /\ Between(x, low, high)
<1>1. x.num \in Int /\ x.den \in Int /\ low * x.den \in Int /\ high * x.den \in Int
  BY DEF Bounded, Fraction
<1>2. x.den # None.den
  BY <1>1 DEF Bounded, None
<1>3. QED
  BY <1>1, <1>2 DEF Bounded, Between, Above, Whole

LEMMA EmaStepBounded ==
  ASSUME NEW low \in Int, NEW high \in Int, NEW value \in Int,
         low <= value, value <= high,
         NEW x, Bounded(x, low, high), NEW period \in Nat \ {0}
  PROVE  Bounded(EmaStep(value, period, x), low, high)
<1> DEFINE a == x.num
           d == x.den
           p == period - 1
           num == 2 * value * d + p * a
           den == (period + 1) * d
<1>1. /\ a \in Int /\ d \in Nat \ {0} /\ p \in Nat /\ period = p + 1
      /\ low * d <= a /\ a <= high * d
  BY DEF Bounded, Fraction
<1>2. EmaStep(value, period, x) = [num |-> num, den |-> den]
  BY DEF EmaStep
<1>3. num = (value * d) * 2 + a * p /\ den = d * 2 + d * p
  BY <1>1
<1> HIDE DEF a, d, p, num, den
<1>4. d * p \in Nat /\ d * 2 \in Nat \ {0} /\ den \in Nat \ {0}
  BY <1>1, <1>3, ProductsNatural
<1>5. /\ low * d \in Int /\ high * d \in Int /\ value * d \in Int /\ a * p \in Int
      /\ (low * d) * p \in Int /\ (high * d) * p \in Int
  BY <1>1
<1>6. low * d <= value * d /\ value * d <= high * d
  BY <1>1, Scaling
<1>7. (low * d) * p <= a * p /\ a * p <= (high * d) * p
  BY <1>1, <1>5, Scaling
<1>8. /\ low * den = (low * d) * 2 + (low * d) * p
      /\ high * den = (high * d) * 2 + (high * d) * p
  BY <1>1, <1>3
<1>9. num \in Int /\ low * den <= num /\ num <= high * den
  BY <1>3, <1>5, <1>6, <1>7, <1>8
<1>10. QED
  BY <1>2, <1>4, <1>9 DEF Bounded, Fraction

LEMMA EmaBounded ==
  ASSUME NEW values \in Seq(Int), NEW n \in Nat, n <= Len(values),
         NEW low \in Int, NEW high \in Int,
         \A k \in 1 .. n : low <= values[k] /\ values[k] <= high,
         NEW period \in Nat, 2 <= period
  PROVE  \A k \in period .. n : Bounded(Ema(values, period)[k], low, high)
<1> DEFINE e == Ema(values, period)
           S == {k \in period .. n : Bounded(e[k], low, high)}
<1>1. \A k \in 1 .. n : /\ k \in 1 .. Len(values) /\ values[k] \in Int
                        /\ low <= values[k] /\ values[k] <= high
  OBVIOUS
<1>2. \A k \in period .. n :
        e[k] = IF k = period THEN EmaSeed(values, period)
               ELSE EmaStep(values[k], period, e[k - 1])
  <2>1. \A k \in period .. n : k \in 1 .. Len(values) /\ ~(k < period)
    OBVIOUS
  <2>2. QED
    BY <2>1, EmaRuns
<1> HIDE DEF e
<1>3. period <= n => period \in S
  <2> SUFFICES ASSUME period <= n PROVE period \in S
    OBVIOUS
  <2>1. \A k \in 1 .. period :
          values[k] \in Int /\ low <= values[k] /\ values[k] <= high
    BY <1>1
  <2>2. /\ Total(values, period) \in Int
        /\ low * period <= Total(values, period)
        /\ Total(values, period) <= high * period
    BY <2>1, TotalBounded
  <2>3. Bounded(EmaSeed(values, period), low, high)
    BY <2>2 DEF Bounded, Fraction, EmaSeed
  <2>4. QED
    BY <1>2, <2>3
<1>4. ASSUME NEW k \in period + 1 .. n, k - 1 \in S PROVE k \in S
  <2>1. k \in period .. n /\ k \in 1 .. n /\ k # period
    OBVIOUS
  <2>2. Bounded(e[k - 1], low, high)
    BY <1>4
  <2>3. Bounded(EmaStep(values[k], period, e[k - 1]), low, high)
    BY <1>1, <2>1, <2>2, EmaStepBounded
  <2>4. QED
    BY <1>2, <2>1, <2>3
<1> HIDE DEF S
<1>5. period .. n \subseteq S
  BY <1>3, <1>4, Climb
<1>6. QED
  BY <1>5 DEF S, e

LEMMA RsiBounded ==
  ASSUME NEW c \in Change
  PROVE  RsiValue(c) # None /\ Between(RsiValue(c), 0, 100)
<1> DEFINE low == 0
           high == 100
           r == RsiValue(c)
<1>1. c.gain \in Nat /\ c.loss \in Nat
  BY DEF Change
<1>2. r = IF c.loss = 0 THEN [num |-> IF c.gain > 0 THEN 100 ELSE 50, den |-> 1]
          ELSE [num |-> 100 * c.gain, den |-> c.gain + c.loss]
  BY DEF RsiValue, Whole
<1>3. r \in Ratio
  BY RsiValueType
<1>4. 0 <= r.num /\ r.num <= 100 * r.den
  BY <1>1, <1>2
<1>5. Bounded(r, low, high)
  <2>1. r.num \in Int /\ r.den \in Int /\ r.den > 0 /\ r \in Fraction
    BY <1>3 DEF Ratio, Fraction
  <2>2. QED
    BY <1>4, <2>1 DEF Bounded
<1>6. low \in Int /\ high \in Int
  OBVIOUS
<1> HIDE DEF low, high, r
<1>7. r # None /\ Between(r, low, high)
  BY <1>5, <1>6, BoundedIsBetween
<1>8. QED
  BY <1>7 DEF low, high, r

(* An average is there from its period on and lies between the lowest and  *)
(* the highest close so far; the RSI is there one later and lies between 0 *)
(* and 100 (indicators.py:6-54).                                           *)
THEOREM IndicatorsInRangeAlways == Spec => []IndicatorsInRange
<1>1. ASSUME StrategyInv PROVE IndicatorsInRange
  <2>1. closes \in Seq(1 .. Top) /\ closes \in Seq(Int)
    BY <1>1, PricesAreNumbers DEF StrategyInv, TypeOK
  <2>2. /\ Fast \in Nat /\ 2 <= Fast /\ Mid \in Nat /\ 2 <= Mid
        /\ Slow \in Nat /\ 2 <= Slow /\ RsiPeriod \in Nat /\ 2 <= RsiPeriod
    BY StrategyAssumption DEF StrategyAssumption
  <2>3. ASSUME NEW k \in 1 .. Len(closes), NEW period \in {Fast, Mid, Slow}
        PROVE  LET past == {closes[m] : m \in 1 .. k}
                   e == Ema(closes, period)[k]
               IN  /\ e # None <=> k >= period
                   /\ e # None => Between(e, Min(past), Max(past))
    <3> DEFINE past == {closes[m] : m \in 1 .. k}
               low == Min(past)
               high == Max(past)
               e == Ema(closes, period)[k]
    <3>1. period \in Nat /\ 2 <= period
      BY <2>2
    <3>2. k \in Nat /\ k <= Len(closes) /\ k \in 1 .. k
      BY <2>1
    <3>3. \A m \in 1 .. k : m \in 1 .. Len(closes) /\ closes[m] \in 1 .. Top
      BY <2>1, PricesAreNumbers
    <3>4. past \subseteq 1 .. Top /\ past # {}
      BY <3>2, <3>3
    <3> HIDE DEF past
    <3>5. low \in past /\ high \in past /\ \A x \in past : low <= x /\ x <= high
      BY <3>4, Extremes
    <3>6. low \in Int /\ high \in Int
      <4>1. \A x \in 1 .. Top : x \in Int
        OBVIOUS
      <4> HIDE DEF low, high
      <4>2. QED
        BY <3>4, <3>5, <4>1
    <3> HIDE DEF low, high
    <3>7. \A m \in 1 .. k : low <= closes[m] /\ closes[m] <= high
      BY <3>5 DEF past
    <3>8. CASE k >= period
      <4>1. Bounded(e, low, high)
        <5>1. \A j \in period .. k : Bounded(Ema(closes, period)[j], low, high)
          BY <2>1, <3>1, <3>2, <3>6, <3>7, EmaBounded
        <5>2. k \in period .. k
          BY <3>1, <3>2, <3>8
        <5>3. QED
          BY <5>1, <5>2
      <4> HIDE DEF e
      <4>2. e # None /\ Between(e, low, high)
        BY <3>6, <4>1, BoundedIsBetween
      <4>3. QED
        BY <3>8, <4>2 DEF e, low, high, past
    <3>9. CASE ~(k >= period)
      <4>1. k < period
        BY <3>1, <3>2, <3>9
      <4>2. e = None
        BY <2>1, <3>1, <4>1, EmaRuns
      <4>3. QED
        BY <3>9, <4>2
    <3>10. QED
      BY <3>8, <3>9
  <2>4. ASSUME NEW k \in 1 .. Len(closes)
        PROVE  LET r == Rsi(closes, RsiPeriod)[k]
               IN  /\ r # None <=> k > RsiPeriod
                   /\ r # None => Between(r, 0, 100)
    <3> DEFINE r == Rsi(closes, RsiPeriod)[k]
               c == Averages(closes, RsiPeriod)[k]
    <3>1. k \in Nat
      BY <2>1
    <3>2. r = IF k <= RsiPeriod THEN None ELSE RsiValue(c)
      BY DEF Rsi
    <3>3. k > RsiPeriod => c \in Change
      <4>1. k > RsiPeriod => k \in RsiPeriod + 1 .. Len(closes)
        BY <2>2, <3>1
      <4>2. QED
        BY <2>1, <2>2, <4>1, AveragesRun
    <3> HIDE DEF c, r
    <3>4. k > RsiPeriod => r # None /\ Between(r, 0, 100)
      BY <2>2, <3>1, <3>2, <3>3, RsiBounded
    <3>5. ~(k > RsiPeriod) => r = None
      BY <2>2, <3>1, <3>2
    <3>6. QED
      BY <3>4, <3>5 DEF r
  <2>5. QED
    BY <2>3, <2>4, Zenon DEF IndicatorsInRange
<1>2. QED
  BY <1>1, StrategyInvAlways, PTL

-------------------------------------------------------------------------------
(* The mirror image of a series about the middle of the prices.            *)

Mirror(values) == [m \in 1 .. Len(values) |-> Top + 1 - values[m]]

Flip(x) == [num |-> (Top + 1) * x.den - x.num, den |-> x.den]

Swap(c) == [gain |-> c.loss, loss |-> c.gain, unit |-> c.unit]

LEMMA MirrorType ==
  ASSUME NEW values \in Seq(Int)
  PROVE  /\ Mirror(values) \in Seq(Int) /\ Len(Mirror(values)) = Len(values)
         /\ \A m \in 1 .. Len(values) :
              values[m] \in Int /\ Mirror(values)[m] = Top + 1 - values[m]
<1> DEFINE n == Len(values)
           mirror == [m \in 1 .. n |-> Top + 1 - values[m]]
<1>1. n \in Nat /\ Top \in Nat /\ \A m \in 1 .. n : values[m] \in Int
  BY StrategyAssumption DEF StrategyAssumption
<1>2. Mirror(values) = mirror
  BY DEF Mirror
<1> HIDE DEF n
<1>3. \A m \in 1 .. n : Top + 1 - values[m] \in Int
  BY <1>1
<1>4. mirror \in [1 .. n -> Int]
  BY <1>3
<1>5. mirror \in Seq(Int) /\ Len(mirror) = n
  BY <1>1, <1>3, <1>4
<1>6. \A m \in 1 .. n : mirror[m] = Top + 1 - values[m]
  OBVIOUS
<1> HIDE DEF mirror
<1>7. QED
  BY <1>1, <1>2, <1>5, <1>6 DEF n

LEMMA TotalMirrored ==
  ASSUME NEW n \in Nat, NEW values, NEW mirror,
         \A k \in 1 .. n : values[k] \in Int /\ mirror[k] = Top + 1 - values[k]
  PROVE  Total(values, n) \in Int /\ Total(mirror, n) = (Top + 1) * n - Total(values, n)
<1>1. Top \in Nat
  BY StrategyAssumption DEF StrategyAssumption
<1> DEFINE h == Top + 1
<1>2. PICK s \in [0 .. n -> Int] :
        /\ s[0] = 0
        /\ \A k \in 1 .. n : s[k] = s[k - 1] + values[k]
        /\ Total(values, n) = s[n]
  <2>1. \A k \in 1 .. n : values[k] \in Int
    OBVIOUS
  <2>2. QED
    BY <2>1, TotalRuns
<1>3. PICK t \in [0 .. n -> Int] :
        /\ t[0] = 0
        /\ \A k \in 1 .. n : t[k] = t[k - 1] + mirror[k]
        /\ Total(mirror, n) = t[n]
  <2>1. \A k \in 1 .. n : mirror[k] \in Int
    BY <1>1
  <2>2. QED
    BY <2>1, TotalRuns
<1>4. h \in Nat /\ \A k \in 1 .. n : mirror[k] = h - values[k]
  <2>1. \A v \in Int : Top + 1 - v = h - v
    BY <1>1
  <2>2. h \in Nat
    BY <1>1
  <2> HIDE DEF h
  <2>3. ASSUME NEW k \in 1 .. n PROVE mirror[k] = h - values[k]
    <3>1. values[k] \in Int /\ mirror[k] = Top + 1 - values[k]
      OBVIOUS
    <3>2. QED
      BY <2>1, <3>1
  <2>4. QED
    BY <2>2, <2>3
<1> HIDE DEF h
<1> DEFINE S == {k \in 0 .. n : t[k] = h * k - s[k]}
           zero == 0
<1>5. zero <= n => zero \in S
  BY <1>2, <1>3, <1>4
<1>6. ASSUME NEW k \in zero + 1 .. n, k - 1 \in S PROVE k \in S
  <2>1. k \in 1 .. n /\ k \in 0 .. n /\ k - 1 \in 0 .. n
    OBVIOUS
  <2>2. t[k - 1] = h * (k - 1) - s[k - 1] /\ s[k - 1] \in Int
    BY <1>6, <2>1
  <2>3. h * k = h * (k - 1) + h /\ h * (k - 1) \in Int
    BY <1>4, <2>1
  <2>4. s[k] = s[k - 1] + values[k] /\ t[k] = t[k - 1] + (h - values[k])
        /\ values[k] \in Int
    BY <1>2, <1>3, <1>4, <2>1
  <2>5. t[k] = h * k - s[k]
    BY <1>4, <2>2, <2>3, <2>4
  <2>6. QED
    BY <2>1, <2>5
<1>7. zero \in Nat
  OBVIOUS
<1> HIDE DEF S, zero
<1>8. zero .. n \subseteq S
  BY <1>5, <1>6, <1>7, Climb
<1>9. n \in S
  BY <1>8 DEF zero
<1>10. t[n] = h * n - s[n] /\ s[n] \in Int
  BY <1>9 DEF S
<1>11. QED
  BY <1>2, <1>3, <1>10 DEF h

LEMMA EmaStepMirrored ==
  ASSUME NEW value \in Int, NEW x \in Fraction, NEW period \in Nat
  PROVE  EmaStep(Top + 1 - value, period, Flip(x)) = Flip(EmaStep(value, period, x))
<1> DEFINE h == Top + 1
           a == x.num
           d == x.den
<1>1. h \in Int /\ a \in Int /\ d \in Int
  BY StrategyAssumption DEF StrategyAssumption, Fraction
<1>2. EmaStep(h - value, period, Flip(x))
        = [num |-> 2 * (h - value) * d + (period - 1) * (h * d - a),
           den |-> (period + 1) * d]
  BY DEF EmaStep, Flip
<1>3. Flip(EmaStep(value, period, x))
        = [num |-> h * ((period + 1) * d) - (2 * value * d + (period - 1) * a),
           den |-> (period + 1) * d]
  BY DEF EmaStep, Flip
<1> HIDE DEF h, a, d
<1>4. 2 * (h - value) * d + (period - 1) * (h * d - a)
        = h * ((period + 1) * d) - (2 * value * d + (period - 1) * a)
  BY <1>1
<1>5. Top + 1 - value = h - value
  BY StrategyAssumption DEF h, StrategyAssumption
<1>6. QED
  BY <1>2, <1>3, <1>4, <1>5

LEMMA EmaMirrored ==
  ASSUME NEW values \in Seq(Int), NEW period \in Nat, 2 <= period
  PROVE  \A k \in 1 .. Len(values) :
           Ema(Mirror(values), period)[k] = Flip(Ema(values, period)[k])
<1> DEFINE n == Len(values)
           mirror == Mirror(values)
           one == 1
           e == Ema(values, period)
           d == Ema(mirror, period)
           S == {k \in 1 .. n : d[k] = Flip(e[k])}
<1>1. /\ n \in Nat /\ mirror \in Seq(Int) /\ Len(mirror) = n
      /\ \A k \in 1 .. n : values[k] \in Int /\ mirror[k] = Top + 1 - values[k]
  BY MirrorType
<1>2. /\ e \in [1 .. n -> Fraction]
      /\ \A k \in 1 .. n :
           e[k] = IF k < period THEN None
                  ELSE IF k = period THEN EmaSeed(values, period)
                  ELSE EmaStep(values[k], period, e[k - 1])
  BY EmaRuns
<1> HIDE DEF mirror
<1>3. \A k \in 1 .. n :
        d[k] = IF k < period THEN None
               ELSE IF k = period THEN EmaSeed(mirror, period)
               ELSE EmaStep(mirror[k], period, d[k - 1])
  BY <1>1, EmaRuns
<1>4. period <= n => EmaSeed(mirror, period) = Flip(EmaSeed(values, period))
  <2> SUFFICES ASSUME period <= n
               PROVE  EmaSeed(mirror, period) = Flip(EmaSeed(values, period))
    OBVIOUS
  <2>1. \A k \in 1 .. period : values[k] \in Int /\ mirror[k] = Top + 1 - values[k]
    BY <1>1
  <2>2. Total(mirror, period) = (Top + 1) * period - Total(values, period)
    BY <2>1, TotalMirrored
  <2>3. QED
    BY <2>2 DEF EmaSeed, Flip
<1>5. Flip(None) = None
  BY StrategyAssumption DEF Flip, None, StrategyAssumption
<1> HIDE DEF e, d, n
<1>6. one <= n => one \in S
  BY <1>1, <1>2, <1>3, <1>5
<1>7. ASSUME NEW k \in one + 1 .. n, k - 1 \in S PROVE k \in S
  <2>1. k \in 1 .. n /\ k - 1 \in 1 .. n
    BY <1>1
  <2>2. d[k - 1] = Flip(e[k - 1]) /\ e[k - 1] \in Fraction
    BY <1>2, <1>7, <2>1
  <2>3. EmaStep(mirror[k], period, d[k - 1]) = Flip(EmaStep(values[k], period, e[k - 1]))
    <3>1. EmaStep(Top + 1 - values[k], period, Flip(e[k - 1]))
            = Flip(EmaStep(values[k], period, e[k - 1]))
      BY <1>1, <2>1, <2>2, EmaStepMirrored
    <3>2. QED
      BY <1>1, <2>1, <2>2, <3>1
  <2>4. k = period => period <= n
    BY <1>1
  <2>5. d[k] = Flip(e[k])
    BY <1>2, <1>3, <1>4, <1>5, <2>1, <2>3, <2>4
  <2>6. QED
    BY <2>1, <2>5
<1>8. one \in Nat
  OBVIOUS
<1> HIDE DEF S, one
<1>9. one .. n \subseteq S
  BY <1>1, <1>6, <1>7, <1>8, Climb
<1>10. QED
  BY <1>9 DEF S, one, d, e, n, mirror

LEMMA ChangesMirrored ==
  ASSUME NEW values \in Seq(Int), NEW k \in 2 .. Len(values)
  PROVE  /\ Gain(Mirror(values), k) = Loss(values, k)
         /\ Loss(Mirror(values), k) = Gain(values, k)
<1> DEFINE a == values[k - 1]
           b == values[k]
<1>1. /\ k \in 1 .. Len(values) /\ k - 1 \in 1 .. Len(values) /\ Top \in Nat
      /\ a \in Int /\ b \in Int
  BY StrategyAssumption DEF StrategyAssumption
<1>2. Mirror(values)[k - 1] = Top + 1 - a /\ Mirror(values)[k] = Top + 1 - b
  BY <1>1, MirrorType
<1> HIDE DEF a, b
<1>3. /\ (Top + 1 - b) - (Top + 1 - a) = a - b
      /\ (Top + 1 - a) - (Top + 1 - b) = b - a
  BY <1>1
<1>4. QED
  BY <1>2, <1>3 DEF Gain, Loss, a, b

LEMMA AveragesMirrored ==
  ASSUME NEW values \in Seq(Int), NEW period \in Nat, 2 <= period
  PROVE  \A k \in period + 1 .. Len(values) :
           Averages(Mirror(values), period)[k] = Swap(Averages(values, period)[k])
<1> DEFINE n == Len(values)
           mirror == Mirror(values)
           one == period + 1
           e == Averages(values, period)
           d == Averages(mirror, period)
           S == {k \in one .. n : d[k] = Swap(e[k])}
<1>1. n \in Nat /\ mirror \in Seq(Int) /\ Len(mirror) = n
  BY MirrorType
<1>2. \A k \in one .. n :
        e[k] = IF k = one THEN FirstChange(values, period)
               ELSE NextChange(values, period, k, e[k - 1])
  BY AveragesRun
<1>3. \A k \in 2 .. n : /\ Gain(mirror, k) = Loss(values, k)
                        /\ Loss(mirror, k) = Gain(values, k)
  BY ChangesMirrored
<1> HIDE DEF mirror
<1>4. \A k \in one .. n :
        d[k] = IF k = one THEN FirstChange(mirror, period)
               ELSE NextChange(mirror, period, k, d[k - 1])
  BY <1>1, AveragesRun
<1>5. one <= n => FirstChange(mirror, period) = Swap(FirstChange(values, period))
  <2> SUFFICES ASSUME one <= n
               PROVE  FirstChange(mirror, period) = Swap(FirstChange(values, period))
    OBVIOUS
  <2>1. \A m \in 1 .. period : m + 1 \in 2 .. n
    BY <1>1
  <2>2. /\ [m \in 1 .. period |-> Gain(mirror, m + 1)]
             = [m \in 1 .. period |-> Loss(values, m + 1)]
        /\ [m \in 1 .. period |-> Loss(mirror, m + 1)]
             = [m \in 1 .. period |-> Gain(values, m + 1)]
    BY <1>3, <2>1
  <2>3. /\ Total([m \in 1 .. period |-> Gain(mirror, m + 1)], period)
             = Total([m \in 1 .. period |-> Loss(values, m + 1)], period)
        /\ Total([m \in 1 .. period |-> Loss(mirror, m + 1)], period)
             = Total([m \in 1 .. period |-> Gain(values, m + 1)], period)
    BY <2>2, Zenon
  <2>4. QED
    BY <2>3 DEF FirstChange, Swap
<1> HIDE DEF e, d, n
<1>6. one <= n => one \in S
  BY <1>1, <1>2, <1>4, <1>5
<1>7. ASSUME NEW k \in one + 1 .. n, k - 1 \in S PROVE k \in S
  <2>1. k \in one .. n /\ k \in 2 .. n /\ k # one
    BY <1>1
  <2>2. d[k - 1] = Swap(e[k - 1])
    BY <1>7, <2>1
  <2>3. NextChange(mirror, period, k, Swap(e[k - 1]))
          = Swap(NextChange(values, period, k, e[k - 1]))
    BY <1>3, <2>1 DEF NextChange, Swap
  <2>4. d[k] = Swap(e[k])
    BY <1>2, <1>4, <2>1, <2>2, <2>3
  <2>5. QED
    BY <2>1, <2>4
<1>8. one \in Nat
  OBVIOUS
<1> HIDE DEF S, one
<1>9. one .. n \subseteq S
  BY <1>1, <1>6, <1>7, <1>8, Climb
<1>10. QED
  BY <1>9 DEF S, one, d, e, n, mirror

(* Two values that add up to 100.                                          *)
Complement(x, y) ==
  /\ x \in Ratio /\ y \in Ratio
  /\ x.num * y.den + y.num * x.den = 100 * (x.den * y.den)

LEMMA RsiMirrored ==
  ASSUME NEW c \in Change
  PROVE  Complement(RsiValue(c), RsiValue(Swap(c)))
<1> DEFINE g == c.gain
           l == c.loss
           x == RsiValue(c)
           y == RsiValue(Swap(c))
<1>1. g \in Nat /\ l \in Nat
  BY DEF Change
<1>2. Swap(c) \in Change
  BY DEF Swap, Change
<1>3. x \in Ratio /\ y \in Ratio
  BY <1>2, RsiValueType
<1>4. /\ x = IF l = 0 THEN [num |-> IF g > 0 THEN 100 ELSE 50, den |-> 1]
             ELSE [num |-> 100 * g, den |-> g + l]
      /\ y = IF g = 0 THEN [num |-> IF l > 0 THEN 100 ELSE 50, den |-> 1]
             ELSE [num |-> 100 * l, den |-> l + g]
  BY DEF RsiValue, Swap, Whole
<1> SUFFICES Complement(x, y)
  OBVIOUS
<1> HIDE DEF g, l, x, y
<1>5. CASE l = 0
  BY <1>1, <1>3, <1>4, <1>5 DEF Complement
<1>6. CASE l # 0 /\ g = 0
  BY <1>1, <1>3, <1>4, <1>6 DEF Complement
<1>7. CASE l # 0 /\ g # 0
  <2>1. (100 * g) * (l + g) + (100 * l) * (g + l) = 100 * ((g + l) * (l + g))
    BY <1>1
  <2>2. QED
    BY <1>3, <1>4, <1>7, <2>1 DEF Complement
<1>8. QED
  BY <1>1, <1>5, <1>6, <1>7

LEMMA SameSign ==
  ASSUME NEW p \in Int, NEW q \in Int, NEW m \in Nat \ {0}, NEW n \in Nat \ {0},
         p * m = q * n
  PROVE  p > 0 <=> q > 0
<1>1. ASSUME NEW a \in Int, NEW b \in Nat \ {0} PROVE a > 0 <=> a * b > 0
  <2>1. a > 0 => a * b > 0
    <3>1. a > 0 => a \in Nat \ {0}
      OBVIOUS
    <3>2. QED
      BY <3>1, ProductsNatural
  <2>2. ~(a > 0) => ~(a * b > 0)
    <3>1. ~(a > 0) => (0 - a) \in Nat /\ b \in Nat
      OBVIOUS
    <3>2. ~(a > 0) => (0 - a) * b \in Nat
      BY <3>1, ProductsNatural
    <3>3. (0 - a) * b = 0 - a * b /\ a * b \in Int
      OBVIOUS
    <3>4. QED
      BY <3>2, <3>3
  <2>3. QED
    BY <2>1, <2>2
<1>2. QED
  BY <1>1

LEMMA ComplementReverses ==
  ASSUME NEW x, NEW u, Complement(x, u), NEW y, NEW v, Complement(y, v)
  PROVE  Above(x, y) <=> Above(v, u)
<1> DEFINE a == x.num  d == x.den  aa == u.num  dd == u.den
           b == y.num  e == y.den  bb == v.num  ee == v.den
<1>1. /\ a \in Nat /\ aa \in Nat /\ b \in Nat /\ bb \in Nat
      /\ d \in Nat \ {0} /\ dd \in Nat \ {0} /\ e \in Nat \ {0} /\ ee \in Nat \ {0}
  BY DEF Complement, Ratio
<1>2. a * dd + aa * d = 100 * (d * dd) /\ b * ee + bb * e = 100 * (e * ee)
  BY DEF Complement
<1> DEFINE p == a * e - b * d
           q == bb * dd - aa * ee
           m == dd * ee
           n == d * e
<1>3. (Above(x, y) <=> a * e > b * d) /\ (Above(v, u) <=> bb * dd > aa * ee)
  BY DEF Above
<1> HIDE DEF a, d, aa, dd, b, e, bb, ee
<1>4. /\ a * e \in Int /\ b * d \in Int /\ bb * dd \in Int /\ aa * ee \in Int
      /\ p \in Int /\ q \in Int
  BY <1>1
<1>5. m \in Nat \ {0} /\ n \in Nat \ {0}
  BY <1>1, ProductsNatural
<1>6. p * m = q * n
  <2>1. p * m = (a * dd) * (e * ee) - (b * ee) * (d * dd)
    BY <1>1
  <2>2. a * dd = 100 * (d * dd) - aa * d /\ b * ee = 100 * (e * ee) - bb * e
    BY <1>1, <1>2
  <2>3. (100 * (d * dd) - aa * d) * (e * ee) - (100 * (e * ee) - bb * e) * (d * dd)
          = q * n
    BY <1>1
  <2>4. QED
    BY <2>1, <2>2, <2>3
<1>7. (p > 0 <=> a * e > b * d) /\ (q > 0 <=> bb * dd > aa * ee)
  BY <1>4
<1> HIDE DEF p, q, m, n
<1>8. p > 0 <=> q > 0
  BY <1>4, <1>5, <1>6, SameSign
<1>9. QED
  BY <1>3, <1>7, <1>8

LEMMA FlipReverses ==
  ASSUME NEW x \in Fraction, NEW y \in Fraction
  PROVE  /\ Flip(x) \in Fraction
         /\ Flip(x) = None <=> x = None
         /\ Above(Flip(x), Flip(y)) <=> Above(y, x)
<1> DEFINE h == Top + 1
           a == x.num  d == x.den
           b == y.num  e == y.den
<1>1. /\ h \in Int /\ a \in Int /\ d \in Int /\ b \in Int /\ e \in Int
      /\ x = [num |-> a, den |-> d] /\ y = [num |-> b, den |-> e]
  BY StrategyAssumption DEF Fraction, StrategyAssumption
<1>2. /\ Flip(x) = [num |-> h * d - a, den |-> d]
      /\ Flip(y) = [num |-> h * e - b, den |-> e]
  BY DEF Flip
<1>3. Above(y, x) <=> b * d > a * e
  BY DEF Above
<1> HIDE DEF h, a, b, d, e
<1>4. Above(Flip(x), Flip(y)) <=> (h * d - a) * e > (h * e - b) * d
  BY <1>2 DEF Above
<1>5. (h * d - a) * e > (h * e - b) * d <=> b * d > a * e
  <2>1. /\ (h * d - a) * e = (h * d) * e - a * e
        /\ (h * e - b) * d = (h * d) * e - b * d
    BY <1>1
  <2>2. (h * d) * e \in Int /\ a * e \in Int /\ b * d \in Int
    BY <1>1
  <2>3. QED
    BY <2>1, <2>2
<1>6. h * d - a \in Int
  BY <1>1
<1>7. d = 0 => (h * d - a = 0 <=> a = 0)
  BY <1>1
<1>8. x = None <=> a = 0 /\ d = 0
  BY <1>1 DEF None
<1>9. Flip(x) = None <=> h * d - a = 0 /\ d = 0
  BY <1>2 DEF None
<1>10. Flip(x) \in Fraction
  BY <1>1, <1>2, <1>6 DEF Fraction
<1>11. QED
  BY <1>3, <1>4, <1>5, <1>7, <1>8, <1>9, <1>10

LEMMA NotBothOrders ==
  ASSUME NEW x \in Fraction, NEW y \in Fraction, Above(x, y)
  PROVE  ~Above(y, x)
<1>1. /\ x.num \in Int /\ x.den \in Int /\ y.num \in Int /\ y.den \in Int
  BY DEF Fraction
<1>2. x.num * y.den \in Int /\ y.num * x.den \in Int
  BY <1>1
<1>3. QED
  BY <1>2 DEF Above

LongSetup(price, fast, mid, slow, now, before) ==
  /\ Rising(price, fast, mid, slow)
  /\ ~Above(Whole(Upper), now) /\ Above(now, before)

ShortSetup(price, fast, mid, slow, now, before) ==
  /\ Falling(price, fast, mid, slow)
  /\ ~Above(now, Whole(Lower)) /\ Above(before, now)

LEMMA DirectionCases ==
  ASSUME NEW price, NEW fast, NEW mid, NEW slow, NEW now, NEW before
  PROVE  LET direction == Direction(price, fast, mid, slow, now, before)
             long == LongSetup(price, fast, mid, slow, now, before)
             short == ShortSetup(price, fast, mid, slow, now, before)
         IN  IF None \in {fast, mid, slow, now, before} THEN direction = "NONE"
             ELSE /\ long /\ ~short => direction = "LONG"
                  /\ short /\ ~long => direction = "SHORT"
                  /\ ~long /\ ~short => direction = "NONE"
<1> DEFINE long == LongSetup(price, fast, mid, slow, now, before)
           short == ShortSetup(price, fast, mid, slow, now, before)
           found == CASE long -> "LONG" [] short -> "SHORT" [] OTHER -> "NONE"
<1>1. Direction(price, fast, mid, slow, now, before)
        = IF None \in {fast, mid, slow, now, before} THEN "NONE" ELSE found
  BY Zenon DEF Direction, LongSetup, ShortSetup
<1> HIDE DEF long, short
<1>2. /\ long /\ ~short => found = "LONG"
      /\ short /\ ~long => found = "SHORT"
      /\ ~long /\ ~short => found = "NONE"
  OBVIOUS
<1> HIDE DEF found
<1>3. QED
  BY <1>1, <1>2 DEF long, short

(* With the order of the averages and of the RSI turned round, and         *)
(* thresholds that mirror each other, the rule finds the opposite.         *)
LEMMA DirectionMirrored ==
  ASSUME Upper + Lower = 100,
         NEW price \in Fraction, NEW fast \in Fraction,
         NEW mid \in Fraction, NEW slow \in Fraction,
         NEW now, NEW nowM, Complement(now, nowM),
         NEW before, NEW beforeM, Complement(before, beforeM)
  PROVE  Direction(Flip(price), Flip(fast), Flip(mid), Flip(slow), nowM, beforeM)
           = Opposite(Direction(price, fast, mid, slow, now, before))
<1> DEFINE rising == Rising(price, fast, mid, slow)
           falling == Falling(price, fast, mid, slow)
           long == LongSetup(price, fast, mid, slow, now, before)
           short == ShortSetup(price, fast, mid, slow, now, before)
           risingM == Rising(Flip(price), Flip(fast), Flip(mid), Flip(slow))
           fallingM == Falling(Flip(price), Flip(fast), Flip(mid), Flip(slow))
           longM == LongSetup(Flip(price), Flip(fast), Flip(mid), Flip(slow), nowM, beforeM)
           shortM == ShortSetup(Flip(price), Flip(fast), Flip(mid), Flip(slow), nowM, beforeM)
           found == Direction(price, fast, mid, slow, now, before)
           foundM == Direction(Flip(price), Flip(fast), Flip(mid), Flip(slow), nowM, beforeM)
           gap == None \in {fast, mid, slow, now, before}
           gapM == None \in {Flip(fast), Flip(mid), Flip(slow), nowM, beforeM}
<1>1. risingM <=> falling
  BY FlipReverses DEF Rising, Falling
<1>2. fallingM <=> rising
  BY FlipReverses DEF Rising, Falling
<1>3. Complement(nowM, now) /\ Complement(beforeM, before)
  <2>1. ASSUME NEW x, NEW y, Complement(x, y) PROVE Complement(y, x)
    <3>1. x.num \in Nat /\ x.den \in Nat /\ y.num \in Nat /\ y.den \in Nat
      BY <2>1 DEF Complement, Ratio
    <3>2. /\ x.num * y.den + y.num * x.den = y.num * x.den + x.num * y.den
          /\ 100 * (x.den * y.den) = 100 * (y.den * x.den)
      BY <3>1
    <3>3. QED
      BY <2>1, <3>2 DEF Complement
  <2>2. QED
    BY <2>1
<1>4. Complement(Whole(Upper), Whole(Lower)) /\ Complement(Whole(Lower), Whole(Upper))
  BY StrategyAssumption DEF StrategyAssumption, Complement, Whole, Ratio
<1>5. Above(nowM, beforeM) <=> Above(before, now)
  BY <1>3, ComplementReverses
<1>6. Above(beforeM, nowM) <=> Above(now, before)
  BY <1>3, ComplementReverses
<1>7. Above(Whole(Upper), nowM) <=> Above(now, Whole(Lower))
  BY <1>3, <1>4, ComplementReverses
<1>8. Above(nowM, Whole(Lower)) <=> Above(Whole(Upper), now)
  BY <1>3, <1>4, ComplementReverses
<1>9. (longM <=> short) /\ (shortM <=> long)
  BY <1>1, <1>2, <1>5, <1>6, <1>7, <1>8 DEF LongSetup, ShortSetup
<1>10. ~(rising /\ falling)
  BY NotBothOrders DEF Rising, Falling
<1>11. ~(long /\ short)
  BY <1>10 DEF LongSetup, ShortSetup
<1>12. gapM <=> gap
  <2>1. now # None /\ before # None /\ nowM # None /\ beforeM # None
    BY DEF Complement, Ratio, None
  <2>2. QED
    BY <2>1, FlipReverses
<1>13. IF gap THEN found = "NONE"
       ELSE /\ long /\ ~short => found = "LONG"
            /\ short /\ ~long => found = "SHORT"
            /\ ~long /\ ~short => found = "NONE"
  BY DirectionCases, Zenon
<1>14. IF gapM THEN foundM = "NONE"
       ELSE /\ longM /\ ~shortM => foundM = "LONG"
            /\ shortM /\ ~longM => foundM = "SHORT"
            /\ ~longM /\ ~shortM => foundM = "NONE"
  BY DirectionCases, Zenon
<1> SUFFICES foundM = Opposite(found)
  OBVIOUS
<1> HIDE DEF long, short, longM, shortM, gap, gapM, found, foundM
<1>15. QED
  BY <1>9, <1>11, <1>12, <1>13, <1>14 DEF Opposite

LEMMA EvaluateMirrored ==
  ASSUME Upper + Lower = 100, NEW values \in Seq(Int)
  PROVE  Evaluate(Mirror(values)) = Opposite(Evaluate(values))
<1> DEFINE n == Len(values)
           mirror == Mirror(values)
           run == Averages(values, RsiPeriod)
           runM == Averages(mirror, RsiPeriod)
           fast == Ema(values, Fast)[n]
           mid == Ema(values, Mid)[n]
           slow == Ema(values, Slow)[n]
           price == Whole(values[n])
           now == RsiValue(run[n])
           before == RsiValue(run[n - 1])
           nowM == RsiValue(runM[n])
           beforeM == RsiValue(runM[n - 1])
<1>1. /\ n \in Nat /\ mirror \in Seq(Int) /\ Len(mirror) = n
      /\ \A m \in 1 .. n : values[m] \in Int /\ mirror[m] = Top + 1 - values[m]
  BY MirrorType
<1>2. /\ RsiPeriod \in Nat /\ 2 <= RsiPeriod /\ Top \in Nat /\ Slow \in Nat
  BY StrategyAssumption DEF StrategyAssumption
<1>3. CASE n < Larger(Slow, RsiPeriod + 2)
  <2> HIDE DEF mirror
  <2>1. Evaluate(mirror) = "NONE" /\ Evaluate(values) = "NONE"
    BY <1>1, <1>3, Zenon DEF Evaluate
  <2>2. QED
    BY <2>1 DEF Opposite, mirror
<1>4. CASE ~(n < Larger(Slow, RsiPeriod + 2))
  <2>1. /\ n \in RsiPeriod + 1 .. n /\ n - 1 \in RsiPeriod + 1 .. n
        /\ n \in 1 .. n /\ n - 1 \in 1 .. n
        /\ ~(n <= RsiPeriod) /\ ~(n - 1 <= RsiPeriod)
    <3>1. n >= RsiPeriod + 2
      BY <1>1, <1>2, <1>4 DEF Larger
    <3> HIDE DEF n
    <3>2. QED
      BY <1>1, <1>2, <3>1
  <2>2. /\ run[n] \in Change /\ run[n - 1] \in Change
        /\ runM[n] = Swap(run[n]) /\ runM[n - 1] = Swap(run[n - 1])
    <3>1. run \in [RsiPeriod + 1 .. n -> Change]
      BY <1>2, AveragesRun
    <3>2. \A k \in RsiPeriod + 1 .. n : runM[k] = Swap(run[k])
      BY <1>2, AveragesMirrored
    <3>3. QED
      BY <2>1, <3>1, <3>2
  <2>3. Complement(now, nowM) /\ Complement(before, beforeM)
    BY <2>2, RsiMirrored
  <2>4. /\ Rsi(values, RsiPeriod)[n] = now /\ Rsi(values, RsiPeriod)[n - 1] = before
        /\ Rsi(mirror, RsiPeriod)[n] = nowM /\ Rsi(mirror, RsiPeriod)[n - 1] = beforeM
    <3> HIDE DEF mirror
    <3>1. QED
      BY <1>1, <2>1 DEF Rsi
  <2>5. ASSUME NEW period \in {Fast, Mid, Slow}
        PROVE  /\ Ema(values, period)[n] \in Fraction
               /\ Ema(mirror, period)[n] = Flip(Ema(values, period)[n])
    <3>1. period \in Nat /\ 2 <= period
      BY StrategyAssumption DEF StrategyAssumption
    <3>2. Ema(values, period) \in [1 .. n -> Fraction]
      BY <3>1, EmaRuns
    <3>3. \A k \in 1 .. n : Ema(mirror, period)[k] = Flip(Ema(values, period)[k])
      BY <3>1, EmaMirrored
    <3>4. QED
      BY <2>1, <3>2, <3>3
  <2>6. fast \in Fraction /\ mid \in Fraction /\ slow \in Fraction
    BY <2>5
  <2>7. price \in Fraction /\ Whole(mirror[n]) = Flip(price)
    <3>1. values[n] \in Int /\ mirror[n] = Top + 1 - values[n]
      BY <1>1, <2>1
    <3>2. \A v \in Int : Top + 1 - v = (Top + 1) * 1 - v
      BY <1>2
    <3>3. QED
      BY <3>1, <3>2 DEF Whole, Flip, Fraction
  <2>8. Evaluate(values) = Direction(price, fast, mid, slow, now, before)
    BY <1>4, <2>4, Zenon DEF Evaluate
  <2>9. Evaluate(mirror) = Direction(Flip(price), Flip(fast), Flip(mid), Flip(slow),
                                     nowM, beforeM)
    <3>1. Evaluate(mirror)
            = Direction(Whole(mirror[n]), Ema(mirror, Fast)[n], Ema(mirror, Mid)[n],
                        Ema(mirror, Slow)[n], nowM, beforeM)
      <4> HIDE DEF mirror
      <4>1. QED
        BY <1>1, <1>4, <2>4, Zenon DEF Evaluate
    <3>2. /\ Ema(mirror, Fast)[n] = Flip(fast) /\ Ema(mirror, Mid)[n] = Flip(mid)
          /\ Ema(mirror, Slow)[n] = Flip(slow)
      BY <2>5
    <3>3. QED
      BY <2>7, <3>1, <3>2
  <2> HIDE DEF price, fast, mid, slow, now, before, nowM, beforeM
  <2>10. QED
    BY <2>3, <2>6, <2>7, <2>8, <2>9, DirectionMirrored
<1>5. QED
  BY <1>3, <1>4

(* "SHORT is the inverse" (README.md:32): with thresholds that mirror each *)
(* other, the mirror image of a series has the inverse setups.             *)
THEOREM ShortIsInverseAlways == Spec => []ShortIsInverse
<1>1. ASSUME StrategyInv PROVE ShortIsInverse
  <2> SUFFICES ASSUME Upper + Lower = 100, NEW k \in 1 .. Len(closes), k <= Window
               PROVE  Evaluate([m \in 1 .. k |-> Top + 1 - closes[m]])
                        = Opposite(verdicts[k])
    BY DEF ShortIsInverse
  <2> DEFINE past == SubSeq(closes, 1, k)
  <2>1. closes \in Seq(Int) /\ verdicts[k] = Evaluate(past)
    BY <1>1, WindowReachesBack
  <2>2. past \in Seq(Int) /\ Len(past) = k /\ \A m \in 1 .. k : past[m] = closes[m]
    BY <2>1
  <2> HIDE DEF past
  <2>3. Mirror(past) = [m \in 1 .. k |-> Top + 1 - closes[m]]
    BY <2>2 DEF Mirror
  <2>4. Evaluate(Mirror(past)) = Opposite(Evaluate(past))
    BY <2>2, EvaluateMirrored
  <2>5. QED
    BY <2>1, <2>3, <2>4
<1>2. QED
  BY <1>1, StrategyInvAlways, PTL

-------------------------------------------------------------------------------
(* Seeds.  What two averages of the same closes differ by shrinks at every *)
(* close.                                                                  *)

Shrunk(b, period) == [num |-> (period - 1) * b.num, den |-> (period + 1) * b.den]

LEMMA FadedRuns ==
  ASSUME NEW distance \in Int, NEW period \in Nat, NEW n \in Nat
  PROVE  \E d \in [0 .. n -> Fraction] :
           /\ d[0] = Whole(distance)
           /\ \A k \in 1 .. n : d[k] = Shrunk(d[k - 1], period)
           /\ Faded(distance, period, n) = d[n]
<1> DEFINE Rule(d) == [k \in 0 .. n |->
                         IF k = 0 THEN Whole(distance)
                         ELSE [num |-> (period - 1) * d[k - 1].num,
                               den |-> (period + 1) * d[k - 1].den]]
           step == [k \in 1 .. n |-> [b \in Fraction |-> Shrunk(b, period)]]
           faded == CHOOSE d : d = Rule(d)
<1>1. \A b \in Fraction : Shrunk(b, period) \in Fraction
  BY DEF Shrunk, Fraction
<1>2. Whole(distance) \in Fraction
  BY DEF Whole, Fraction
<1>3. \E d : d = Rule(d)
  <2> DEFINE zero == 0
             base == Whole(distance)
  <2>1. \A k \in 1 .. n : \A b \in Fraction : step[k][b] = Shrunk(b, period)
    OBVIOUS
  <2> HIDE DEF step
  <2>2. zero \in Nat /\ base \in Fraction /\ Steps(step, zero, n, Fraction)
    BY <1>1, <1>2, <2>1 DEF Steps
  <2> HIDE DEF zero, base, Rule
  <2>3. PICK f : Runs(f, base, step, zero, n, Fraction)
    BY <2>2, Unfolds
  <2> USE DEF zero, base
  <2>4. ASSUME NEW k \in 0 .. n
        PROVE  f[k] = IF k = 0 THEN Whole(distance)
                      ELSE [num |-> (period - 1) * f[k - 1].num,
                            den |-> (period + 1) * f[k - 1].den]
    <3>1. k # 0 => k \in 1 .. n /\ k - 1 \in 0 .. n
      OBVIOUS
    <3>2. k # 0 => f[k - 1] \in Fraction
      BY <2>3, <3>1 DEF Runs
    <3>3. k # 0 => f[k] = Shrunk(f[k - 1], period)
      BY <2>1, <2>3, <3>1, <3>2 DEF Runs
    <3>4. k = 0 => f[k] = Whole(distance)
      BY <2>3 DEF Runs
    <3>5. QED
      BY <3>3, <3>4 DEF Shrunk
  <2>5. f = Rule(f)
    BY <2>3, <2>4 DEF Rule, Runs
  <2>6. QED
    BY <2>5
<1>4. Faded(distance, period, n) = faded[n]
  BY DEF Faded
<1>5. faded = Rule(faded)
  <2> HIDE DEF Rule
  <2>1. QED
    BY <1>3
<1> HIDE DEF faded
<1>6. /\ faded[0] = Whole(distance)
      /\ \A k \in 1 .. n : faded[k] = Shrunk(faded[k - 1], period)
  BY <1>5 DEF Shrunk
<1>7. \A k \in 0 .. n : faded[k] \in Fraction
  <2> DEFINE S == {k \in 0 .. n : faded[k] \in Fraction}
             zero == 0
  <2>1. zero <= n => zero \in S
    BY <1>2, <1>6
  <2>2. \A k \in zero + 1 .. n : k - 1 \in S => k \in S
    BY <1>1, <1>6
  <2>3. zero \in Nat
    OBVIOUS
  <2> HIDE DEF S, zero
  <2>4. zero .. n \subseteq S
    BY <2>1, <2>2, <2>3, Climb
  <2>5. QED
    BY <2>4 DEF S, zero
<1>8. faded \in [0 .. n -> Fraction]
  BY <1>5, <1>7
<1>9. QED
  BY <1>4, <1>6, <1>8

LEMMA ApartShrinks ==
  ASSUME NEW x \in Fraction, NEW y \in Fraction, NEW b \in Fraction,
         NEW value \in Int, NEW period \in Nat, 2 <= period,
         ~Above(Apart(x, y), b)
  PROVE  ~Above(Apart(EmaStep(value, period, x), EmaStep(value, period, y)),
                Shrunk(b, period))
<1> DEFINE xn == x.num
           xd == x.den
           yn == y.num
           yd == y.den
           bn == b.num
           bd == b.den
           q == period - 1
           r == period + 1
           delta == xn * yd - yn * xd
           deltaNext == (2 * value * xd + q * xn) * (r * yd) - (2 * value * yd + q * yn) * (r * xd)
<1>1. /\ xn \in Int /\ xd \in Int /\ yn \in Int /\ yd \in Int /\ bn \in Int /\ bd \in Int
      /\ q \in Nat /\ r \in Nat
  BY DEF Fraction
<1>2. ~(delta * bd > bn * (xd * yd))
  BY DEF Above, Apart
<1>3. /\ Apart(EmaStep(value, period, x), EmaStep(value, period, y))
           = [num |-> deltaNext, den |-> (r * xd) * (r * yd)]
      /\ Shrunk(b, period) = [num |-> q * bn, den |-> r * bd]
  BY DEF Apart, EmaStep, Shrunk
<1> HIDE DEF xn, xd, yn, yd, bn, bd, q, r
<1>4. deltaNext = (r * q) * delta
  BY <1>1
<1>5. delta \in Int /\ xd * yd \in Int
  BY <1>1
<1> DEFINE scale == (r * q) * r
<1>6. scale \in Nat
  BY <1>1, ProductsNatural
<1> HIDE DEF delta
<1>7. delta * bd \in Int /\ bn * (xd * yd) \in Int
  BY <1>1, <1>5
<1>8. (delta * bd) * scale <= (bn * (xd * yd)) * scale
  <2> HIDE DEF scale
  <2>1. delta * bd <= bn * (xd * yd)
    BY <1>2, <1>7
  <2>2. QED
    BY <1>6, <1>7, <2>1, Scaling
<1>9. (delta * bd) * scale = ((r * q) * delta) * (r * bd)
  BY <1>1, <1>5
<1>10. (bn * (xd * yd)) * scale = (q * bn) * ((r * xd) * (r * yd))
  BY <1>1
<1> HIDE DEF scale, deltaNext
<1>11. deltaNext * (r * bd) <= (q * bn) * ((r * xd) * (r * yd))
  BY <1>4, <1>8, <1>9, <1>10
<1>12. deltaNext * (r * bd) \in Int /\ (q * bn) * ((r * xd) * (r * yd)) \in Int
  BY <1>1, <1>4, <1>5
<1>13. ~(deltaNext * (r * bd) > (q * bn) * ((r * xd) * (r * yd)))
  BY <1>11, <1>12
<1>14. QED
  BY <1>3, <1>13 DEF Above

LEMMA ApartInRange ==
  ASSUME NEW x, NEW y, Bounded(x, 1, Top), Bounded(y, 1, Top)
  PROVE  ~Above(Apart(x, y), Whole(Top - 1))
<1> DEFINE xn == x.num
           xd == x.den
           yn == y.num
           yd == y.den
<1>1. /\ xn \in Int /\ xd \in Nat \ {0} /\ yn \in Int /\ yd \in Nat \ {0}
      /\ xn <= Top * xd /\ yd <= yn /\ Top \in Nat
  BY StrategyAssumption DEF StrategyAssumption, Bounded, Fraction
<1>2. Apart(x, y) = [num |-> xn * yd - yn * xd, den |-> xd * yd]
  BY DEF Apart
<1> HIDE DEF xn, xd, yn, yd
<1>3. xn * yd <= (Top * xd) * yd
  BY <1>1, Scaling
<1>4. yd * xd <= yn * xd
  BY <1>1, Scaling
<1>5. (Top - 1) * (xd * yd) = (Top * xd) * yd - yd * xd
  BY <1>1
<1>6. /\ xn * yd \in Int /\ yn * xd \in Int /\ yd * xd \in Int /\ (Top * xd) * yd \in Int
  BY <1>1
<1>7. (xn * yd - yn * xd) * 1 <= (Top - 1) * (xd * yd)
  BY <1>3, <1>4, <1>5, <1>6
<1>8. ~((xn * yd - yn * xd) * 1 > (Top - 1) * (xd * yd))
  BY <1>5, <1>6, <1>7
<1>9. QED
  BY <1>2, <1>8 DEF Above, Whole

Near(x, y, b) == ~Above(Apart(x, y), b) /\ ~Above(Apart(y, x), b)

LEMMA EmaNear ==
  ASSUME NEW values \in Seq(Int), NEW window \in Seq(Int), NEW s \in Nat,
         Len(values) = s + Len(window),
         \A k \in 1 .. Len(values) : values[k] \in 1 .. Top,
         \A k \in 1 .. Len(window) : window[k] = values[s + k],
         NEW period \in Nat, 2 <= period, period <= Len(window)
  PROVE  Near(Ema(window, period)[Len(window)], Ema(values, period)[Len(values)],
              Faded(Top - 1, period, Len(window) - period))
<1> DEFINE n == Len(window)
           e == Ema(window, period)
           d == Ema(values, period)
           low == 1
<1>1. n \in Nat /\ Top \in Nat /\ n - period \in Nat
  BY StrategyAssumption DEF StrategyAssumption
<1>2. \A k \in 1 .. n : /\ s + k \in 1 .. Len(values) /\ window[k] = values[s + k]
                        /\ values[s + k] \in Int
  BY <1>1
<1>3. \A k \in 1 .. Len(values) : low <= values[k] /\ values[k] <= Top
  BY <1>1
<1>4. \A k \in 1 .. n : low <= window[k] /\ window[k] <= Top
  BY <1>2, <1>3
<1>5. \A k \in period .. n : Bounded(e[k], 1, Top)
  <2>1. low \in Int /\ n <= Len(window) /\ n \in Nat /\ Top \in Int
    BY <1>1
  <2> HIDE DEF low, n
  <2>2. \A k \in period .. n : Bounded(Ema(window, period)[k], low, Top)
    BY <1>4, <2>1, EmaBounded
  <2>3. QED
    BY <2>2 DEF low
<1>6. \A k \in period .. n : Bounded(d[s + k], 1, Top)
  <2> DEFINE length == Len(values)
  <2>1. low \in Int /\ length <= Len(values) /\ length \in Nat /\ Top \in Int
    BY <1>1
  <2>2. \A k \in 1 .. length : low <= values[k] /\ values[k] <= Top
    BY <1>3
  <2> HIDE DEF low, length
  <2>3. \A k \in period .. length : Bounded(Ema(values, period)[k], low, Top)
    BY <2>2, <2>1, EmaBounded
  <2>4. \A k \in period .. n : s + k \in period .. Len(values)
    BY <1>1
  <2>5. QED
    BY <2>3, <2>4 DEF low, length
<1>7. \A k \in period + 1 .. n :
        /\ e[k] = EmaStep(values[s + k], period, e[k - 1])
        /\ d[s + k] = EmaStep(values[s + k], period, d[s + (k - 1)])
        /\ values[s + k] \in Int
  <2> SUFFICES ASSUME NEW k \in period + 1 .. n
               PROVE  /\ e[k] = EmaStep(values[s + k], period, e[k - 1])
                      /\ d[s + k] = EmaStep(values[s + k], period, d[s + (k - 1)])
                      /\ values[s + k] \in Int
    OBVIOUS
  <2>1. /\ k \in 1 .. Len(window) /\ ~(k < period) /\ k # period
        /\ s + k \in 1 .. Len(values) /\ ~(s + k < period) /\ s + k # period
        /\ (s + k) - 1 = s + (k - 1)
    BY <1>1
  <2>2. e[k] = EmaStep(window[k], period, e[k - 1])
    BY <2>1, EmaRuns
  <2>3. d[s + k] = EmaStep(values[s + k], period, d[(s + k) - 1])
    BY <2>1, EmaRuns
  <2>4. QED
    BY <1>2, <2>1, <2>2, <2>3
<1>8. PICK f \in [0 .. n - period -> Fraction] :
        /\ f[0] = Whole(Top - 1)
        /\ \A k \in 1 .. n - period : f[k] = Shrunk(f[k - 1], period)
        /\ Faded(Top - 1, period, n - period) = f[n - period]
  <2>1. Top - 1 \in Int
    BY <1>1
  <2> HIDE DEF n
  <2>2. QED
    BY <1>1, <2>1, FadedRuns
<1> DEFINE S == {k \in period .. n : Near(e[k], d[s + k], f[k - period])}
<1> HIDE DEF e, d, n
<1>9. period <= n => period \in S
  <2> SUFFICES ASSUME period <= n PROVE period \in S
    OBVIOUS
  <2>1. period \in period .. n /\ period - period = 0
    BY <1>1
  <2>2. Bounded(e[period], 1, Top) /\ Bounded(d[s + period], 1, Top)
    BY <1>5, <1>6, <2>1
  <2>3. Near(e[period], d[s + period], Whole(Top - 1))
    BY <2>2, ApartInRange DEF Near
  <2>4. QED
    BY <1>8, <2>1, <2>3
<1>10. ASSUME NEW k \in period + 1 .. n, k - 1 \in S PROVE k \in S
  <2>1. /\ k \in period .. n /\ k - 1 \in period .. n
        /\ k - period \in 1 .. n - period /\ (k - 1) - period = (k - period) - 1
        /\ (k - 1) - period \in 0 .. n - period
    BY <1>1
  <2> DEFINE x == e[k - 1]
             y == d[s + (k - 1)]
             b == f[(k - 1) - period]
  <2>2. Near(x, y, b)
    BY <1>10
  <2>3. x \in Fraction /\ y \in Fraction /\ b \in Fraction
    BY <1>5, <1>6, <1>8, <2>1 DEF Bounded
  <2>4. f[k - period] = Shrunk(b, period)
    BY <1>8, <2>1
  <2>5. /\ e[k] = EmaStep(values[s + k], period, x)
        /\ d[s + k] = EmaStep(values[s + k], period, y)
        /\ values[s + k] \in Int
    BY <1>7
  <2> HIDE DEF x, y, b
  <2>6. Near(e[k], d[s + k], f[k - period])
    BY <2>2, <2>3, <2>4, <2>5, ApartShrinks DEF Near
  <2>7. QED
    BY <2>1, <2>6
<1> HIDE DEF S
<1>11. period .. n \subseteq S
  BY <1>1, <1>9, <1>10, Climb
<1>12. n \in S
  BY <1>1, <1>11 DEF n
<1>13. Near(e[n], d[s + n], f[n - period])
  BY <1>12 DEF S
<1>14. QED
  BY <1>8, <1>13 DEF e, d, n

(* For every series, window, period and price range: beyond the window the *)
(* live monitor's averages and a backtest's differ by no more than the     *)
(* spread of the prices, shrunk once for every candle of the window after  *)
(* the seed (indicators.py:13-19).                                         *)
THEOREM SeedsFadeAlways == Spec => []SeedsFade
<1>1. ASSUME StrategyInv PROVE SeedsFade
  <2> DEFINE from == Larger(1, Len(closes) - Window + 1)
             window == LastOf(closes, Window)
             n == Len(window)
             s == from - 1
  <2>1. /\ closes \in Seq(Int) /\ \A k \in 1 .. Len(closes) : closes[k] \in 1 .. Top
        /\ Window \in Nat \ {0}
    BY <1>1, StrategyAssumption, PricesAreNumbers
       DEF StrategyInv, TypeOK, StrategyAssumption
  <2>2. from \in Nat /\ 1 <= from /\ from <= Len(closes) + 1
    BY <2>1 DEF Larger
  <2>3. window = SubSeq(closes, from, Len(closes))
    BY DEF LastOf
  <2> HIDE DEF from
  <2>4. /\ window \in Seq(Int) /\ n = Len(closes) - from + 1
        /\ \A k \in 1 .. n : window[k] = closes[from + k - 1]
    BY <2>1, <2>2, <2>3
  <2> HIDE DEF window
  <2>5. /\ s \in Nat /\ n \in Nat /\ Len(closes) = s + Len(window)
        /\ \A k \in 1 .. Len(window) : window[k] = closes[s + k]
    <3>1. s \in Nat /\ n \in Nat /\ Len(closes) = s + Len(window)
      BY <2>1, <2>2, <2>4
    <3>2. \A k \in 1 .. Len(window) : from + k - 1 = s + k
      BY <2>2
    <3>3. QED
      BY <2>4, <3>1, <3>2
  <2>6. ASSUME NEW period \in {Fast, Mid, Slow}, n >= period
        PROVE  Near(Ema(window, period)[n], Ema(closes, period)[Len(closes)],
                    Faded(Top - 1, period, n - period))
    <3>1. period \in Nat /\ 2 <= period
      BY StrategyAssumption DEF StrategyAssumption
    <3>2. period <= Len(window)
      BY <2>5, <2>6, <3>1
    <3> HIDE DEF s
    <3>3. QED
      BY <2>1, <2>4, <2>5, <3>1, <3>2, EmaNear
  <2>7. QED
    BY <2>6, Zenon DEF SeedsFade, Near, window
<1>2. QED
  BY <1>1, StrategyInvAlways, PTL

-------------------------------------------------------------------------------
(* validate() does not compare WARMUP_CANDLES with EMA_SLOW and the period *)
(* of the RSI (config.py:98-101): a download shorter than the slowest      *)
(* indicator needs makes every verdict of the live monitor NONE            *)
(* (strategy.py:23-24).                                                    *)
THEOREM ShortWarmUpIsSilent ==
  ASSUME Window < Larger(Slow, RsiPeriod + 2)
  PROVE  Spec => [](\A k \in 1 .. Len(closes) : verdicts[k] = "NONE")
<1> DEFINE Silent == \A k \in 1 .. Len(closes) : verdicts[k] = "NONE"
<1>1. ASSUME StrategyInv PROVE Silent
  <2> SUFFICES ASSUME NEW k \in 1 .. Len(closes)
               PROVE  verdicts[k] = "NONE"
    OBVIOUS
  <2> DEFINE past == SubSeq(closes, 1, k)
             window == LastOf(past, Window)
  <2>1. closes \in Seq(Int)
    BY <1>1, PricesAreNumbers DEF StrategyInv, TypeOK
  <2>2. past \in Seq(Int) /\ Len(past) = k /\ k \in Nat \ {0}
    BY <2>1
  <2>3. Window \in Nat \ {0} /\ Slow \in Nat /\ RsiPeriod \in Nat
    BY StrategyAssumption DEF StrategyAssumption
  <2>4. verdicts[k] = Evaluate(window)
    BY <1>1 DEF StrategyInv, VerdictsRecorded
  <2> HIDE DEF past
  <2>5. Len(window) <= Window
    <3> DEFINE from == Larger(1, k - Window + 1)
    <3>1. from \in Nat /\ 1 <= from /\ from <= k /\ k - from + 1 <= Window
      BY <2>1, <2>3 DEF Larger
    <3> HIDE DEF from
    <3>2. Len(SubSeq(past, from, k)) = k - from + 1
      BY <2>2, <3>1
    <3>3. window = SubSeq(past, from, k)
      BY <2>2 DEF LastOf, from
    <3>4. QED
      BY <3>1, <3>2, <3>3
  <2>6. Len(window) \in Nat
    <3> DEFINE from == Larger(1, Len(past) - Window + 1)
    <3>1. from \in 1 .. Len(past)
      BY <2>2, <2>3 DEF Larger
    <3> HIDE DEF from
    <3>2. SubSeq(past, from, Len(past)) \in Seq(Int)
      BY <2>2, <3>1
    <3>3. window = SubSeq(past, from, Len(past))
      BY DEF LastOf, from
    <3>4. QED
      BY <3>2, <3>3
  <2> HIDE DEF window
  <2>7. Len(window) < Larger(Slow, RsiPeriod + 2)
    BY <2>3, <2>5, <2>6 DEF Larger
  <2>8. QED
    BY <2>4, <2>7 DEF Evaluate
<1>2. QED
  BY <1>1, StrategyInvAlways, PTL
===============================================================================
