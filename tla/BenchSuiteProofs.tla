-------------------------- MODULE BenchSuiteProofs --------------------------
(***************************************************************************)
(* What holds of the sweep and of the chaos suite for any rates, any       *)
(* scenarios, any number of repeats and of failures to stop after.         *)
(***************************************************************************)
EXTENDS BenchSuite, FiniteSetTheorems, WellFoundedInduction, TLAPS

-----------------------------------------------------------------------------
(* The plan *)

LEMMA Division ==
  ASSUME NEW j \in Nat, NEW r \in Nat \ {0}
  PROVE  j \div r \in Nat /\ j % r \in 0 .. r - 1 /\ j = r * (j \div r) + (j % r)
  <1>1. j \div r \in Nat
    OBVIOUS
  <1>2. j % r \in 0 .. r - 1
    OBVIOUS
  <1>3. j = r * (j \div r) + (j % r)
    OBVIOUS
  <1> QED BY <1>1, <1>2, <1>3

LEMMA Rows ==
  ASSUME NEW j \in Nat, NEW r \in Nat \ {0}, NEW n \in Nat, j < n * r
  PROVE  j \div r < n
  <1> DEFINE q == j \div r
  <1>1. q \in Nat /\ r * q <= j
    BY Division
  <1> HIDE DEF q
  <1>2. SUFFICES ASSUME q >= n PROVE FALSE
    BY <1>1 DEF q
  <1>3. r * q >= r * n
    BY <1>1, <1>2
  <1> QED BY <1>1, <1>3

LEMMA TwoParts ==
  ASSUME NEW X, NEW s \in Seq(X), NEW t \in Seq(X), NEW u, u = s \o t
  PROVE  /\ u \in Seq(X) /\ Len(u) = Len(s) + Len(t)
         /\ DOMAIN u = 1 .. Len(s) + Len(t)
         /\ \A i \in 1 .. Len(s) : u[i] = s[i]
         /\ \A i \in Len(s) + 1 .. Len(s) + Len(t) : u[i] = t[i - Len(s)]
  <1>1. u \in Seq(X) /\ Len(u) = Len(s) + Len(t) /\ Len(s) \in Nat /\ Len(t) \in Nat
    OBVIOUS
  <1>2. \A i \in 1 .. Len(s) + Len(t) : u[i] = IF i <= Len(s) THEN s[i] ELSE t[i - Len(s)]
    OBVIOUS
  <1> QED BY <1>1, <1>2

(* The runs of the scenarios, and after them those of the arms. *)
ScenarioRuns == Len(Scenarios) * Repeats
Id(k) ==
  IF k <= ScenarioRuns
  THEN <<Scenarios[((k - 1) \div Repeats) + 1], ((k - 1) % Repeats) + 1>>
  ELSE <<Arms[((k - ScenarioRuns - 1) % 2) + 1], ((k - ScenarioRuns - 1) \div 2) + 1>>

LEMMA Parameters ==
  /\ Len(Scenarios) \in Nat /\ Repeats \in Nat \ {0} /\ ScenarioRuns \in Nat
  /\ Scenarios \in Seq(STRING) /\ DOMAIN Scenarios = 1 .. Len(Scenarios)
  /\ Rates \in Seq(Nat) /\ Len(Rates) \in Nat \ {0} /\ DOMAIN Rates = 1 .. Len(Rates)
  <1>1. Len(Scenarios) \in Nat /\ Repeats \in Nat \ {0} /\ Rates \in Seq(Nat) /\ Rates # <<>>
        /\ Scenarios \in Seq(STRING) /\ DOMAIN Scenarios = 1 .. Len(Scenarios)
    BY SuiteAssumption
  <1>2. \A m, n \in Nat : m * n \in Nat
    OBVIOUS
  <1>3. ScenarioRuns \in Nat
    BY <1>1, <1>2 DEF ScenarioRuns
  <1>4. Len(Rates) \in Nat \ {0} /\ DOMAIN Rates = 1 .. Len(Rates)
    BY <1>1
  <1> QED BY <1>1, <1>3, <1>4

LEMMA ScenarioAt ==
  ASSUME NEW k \in 1 .. ScenarioRuns
  PROVE  /\ (k - 1) \div Repeats \in Nat
         /\ ((k - 1) \div Repeats) + 1 \in 1 .. Len(Scenarios)
         /\ (k - 1) % Repeats \in 0 .. Repeats - 1
         /\ k - 1 = Repeats * ((k - 1) \div Repeats) + ((k - 1) % Repeats)
  <1>1. k - 1 \in Nat /\ k - 1 < Len(Scenarios) * Repeats
    BY Parameters DEF ScenarioRuns
  <1>2. (k - 1) \div Repeats < Len(Scenarios)
    BY <1>1, Rows, Parameters
  <1>3. /\ (k - 1) \div Repeats \in Nat /\ (k - 1) % Repeats \in 0 .. Repeats - 1
        /\ k - 1 = Repeats * ((k - 1) \div Repeats) + ((k - 1) % Repeats)
    BY <1>1, Division, Parameters
  <1> QED BY <1>2, <1>3, Parameters

LEMMA ArmAt ==
  ASSUME NEW j \in Nat
  PROVE  /\ (j % 2) + 1 \in {1, 2} /\ (j \div 2) + 1 \in Nat
         /\ Arms[(j % 2) + 1] \in {"with_backoff", "no_backoff"}
         /\ Arms[(j % 2) + 1] = "with_backoff" <=> j % 2 = 0
         /\ j = 2 * (j \div 2) + (j % 2)
  <1>1. j % 2 \in 0 .. 1 /\ j \div 2 \in Nat /\ j = 2 * (j \div 2) + (j % 2)
    OBVIOUS
  <1>2. Arms[1] = "with_backoff" /\ Arms[2] = "no_backoff"
    BY DEF Arms
  <1>3. CASE j % 2 = 0
    BY <1>1, <1>2, <1>3
  <1>4. CASE j % 2 = 1
    BY <1>1, <1>2, <1>4
  <1> QED BY <1>1, <1>3, <1>4

Names == ToSet(Scenarios) \cup {"with_backoff", "no_backoff"}

LEMMA ChaosPlanIs ==
  /\ ChaosPlan \in Seq(Names \X Nat)
  /\ Len(ChaosPlan) = ScenarioRuns + 2 * Repeats
  /\ \A k \in 1 .. ScenarioRuns + 2 * Repeats : ChaosPlan[k] = Id(k)
  <1> DEFINE s == [k \in 1 .. Len(Scenarios) * Repeats |->
                     <<Scenarios[((k - 1) \div Repeats) + 1], ((k - 1) % Repeats) + 1>>]
             t == [k \in 1 .. 2 * Repeats |-> <<Arms[((k - 1) % 2) + 1], ((k - 1) \div 2) + 1>>]
  <1>1. s \in Seq(Names \X Nat) /\ Len(s) = ScenarioRuns
    <2>1. ASSUME NEW k \in 1 .. ScenarioRuns PROVE s[k] \in Names \X Nat
      <3>1. /\ Scenarios[((k - 1) \div Repeats) + 1] \in Names
            /\ ((k - 1) % Repeats) + 1 \in Nat
        <4>1. \A i \in 1 .. Len(Scenarios) : Scenarios[i] \in Names
          BY Parameters DEF Names, ToSet
        <4>2. /\ ((k - 1) \div Repeats) + 1 \in 1 .. Len(Scenarios)
              /\ (k - 1) % Repeats \in 0 .. Repeats - 1
          BY ScenarioAt
        <4>3. ((k - 1) % Repeats) + 1 \in Nat
          BY <4>2, Parameters
        <4> QED BY <4>1, <4>2, <4>3
      <3>2. s[k] = <<Scenarios[((k - 1) \div Repeats) + 1], ((k - 1) % Repeats) + 1>>
        BY DEF ScenarioRuns
      <3> QED BY <3>1, <3>2
    <2>2. s = [k \in 1 .. ScenarioRuns |-> s[k]] /\ ScenarioRuns \in Nat
      BY Parameters DEF ScenarioRuns
    <2> HIDE DEF s
    <2>3. s \in [1 .. ScenarioRuns -> Names \X Nat]
      BY <2>1, <2>2
    <2> QED BY <2>2, <2>3
  <1>2. t \in Seq(Names \X Nat) /\ Len(t) = 2 * Repeats
    <2>1. ASSUME NEW k \in 1 .. 2 * Repeats PROVE t[k] \in Names \X Nat
      <3>1. k - 1 \in Nat
        BY Parameters
      <3>2. Arms[((k - 1) % 2) + 1] \in Names /\ ((k - 1) \div 2) + 1 \in Nat
        BY <3>1, ArmAt DEF Names
      <3> QED BY <3>2
    <2>2. t = [k \in 1 .. 2 * Repeats |-> t[k]]
      OBVIOUS
    <2>3. 2 * Repeats \in Nat
      BY Parameters
    <2> HIDE DEF t
    <2> QED BY <2>1, <2>2, <2>3
  <1>3. ChaosPlan = s \o t
    BY DEF ChaosPlan
  <1>4. \A k \in 1 .. ScenarioRuns : s[k] = Id(k)
    BY DEF Id, ScenarioRuns
  <1>5. \A k \in ScenarioRuns + 1 .. ScenarioRuns + 2 * Repeats : t[k - ScenarioRuns] = Id(k)
    <2> SUFFICES ASSUME NEW k \in ScenarioRuns + 1 .. ScenarioRuns + 2 * Repeats
                 PROVE  t[k - ScenarioRuns] = Id(k)
      OBVIOUS
    <2>1. k - ScenarioRuns \in 1 .. 2 * Repeats /\ ~(k <= ScenarioRuns)
      BY Parameters
    <2>2. t[k - ScenarioRuns] = <<Arms[((k - ScenarioRuns - 1) % 2) + 1],
                                  ((k - ScenarioRuns - 1) \div 2) + 1>>
      BY <2>1
    <2> QED BY <2>1, <2>2 DEF Id
  <1> DEFINE X == Names \X Nat
  <1> HIDE DEF s, t, X
  <1>6. /\ ChaosPlan \in Seq(X) /\ Len(ChaosPlan) = ScenarioRuns + 2 * Repeats
        /\ \A i \in 1 .. ScenarioRuns : ChaosPlan[i] = s[i]
        /\ \A i \in ScenarioRuns + 1 .. ScenarioRuns + 2 * Repeats :
             ChaosPlan[i] = t[i - ScenarioRuns]
    <2>1. s \in Seq(X) /\ t \in Seq(X)
      BY <1>1, <1>2 DEF X
    <2>2. /\ ChaosPlan \in Seq(X) /\ Len(ChaosPlan) = Len(s) + Len(t)
          /\ \A i \in 1 .. Len(s) : ChaosPlan[i] = s[i]
          /\ \A i \in Len(s) + 1 .. Len(s) + Len(t) : ChaosPlan[i] = t[i - Len(s)]
      BY <1>3, <2>1, TwoParts
    <2> QED BY <1>1, <1>2, <2>2
  <1>7. \A k \in 1 .. ScenarioRuns + 2 * Repeats :
          k \in 1 .. ScenarioRuns \/ k \in ScenarioRuns + 1 .. ScenarioRuns + 2 * Repeats
    BY Parameters
  <1> QED BY <1>4, <1>5, <1>6, <1>7 DEF X

LEMMA ArmNames == ToSet(Arms) = {"with_backoff", "no_backoff"}
  <1>1. Arms = <<"with_backoff", "no_backoff">> /\ DOMAIN Arms = {1, 2}
    BY DEF Arms
  <1> QED BY <1>1 DEF ToSet

LEMMA ScenarioId ==
  ASSUME NEW k \in 1 .. ScenarioRuns
  PROVE  /\ Id(k)[1] \in ToSet(Scenarios)
         /\ Id(k)[1] = Scenarios[((k - 1) \div Repeats) + 1]
         /\ Id(k)[2] = ((k - 1) % Repeats) + 1
  <1>1. Id(k) = <<Scenarios[((k - 1) \div Repeats) + 1], ((k - 1) % Repeats) + 1>>
    BY Parameters DEF Id
  <1>2. ((k - 1) \div Repeats) + 1 \in DOMAIN Scenarios
    BY ScenarioAt, Parameters
  <1> QED BY <1>1, <1>2 DEF ToSet

LEMMA ArmId ==
  ASSUME NEW k \in ScenarioRuns + 1 .. ScenarioRuns + 2 * Repeats
  PROVE  /\ k - ScenarioRuns - 1 \in Nat
         /\ Id(k)[1] \in {"with_backoff", "no_backoff"}
         /\ Id(k)[1] = "with_backoff" <=> (k - ScenarioRuns - 1) % 2 = 0
         /\ Id(k)[2] = ((k - ScenarioRuns - 1) \div 2) + 1
  <1>1. k - ScenarioRuns - 1 \in Nat /\ ~(k <= ScenarioRuns)
    BY Parameters
  <1>2. Id(k) = <<Arms[((k - ScenarioRuns - 1) % 2) + 1], ((k - ScenarioRuns - 1) \div 2) + 1>>
    BY <1>1 DEF Id
  <1> DEFINE j == k - ScenarioRuns - 1
  <1>3. Id(k)[1] = Arms[(j % 2) + 1] /\ Id(k)[2] = (j \div 2) + 1
    BY <1>2
  <1>4. j \in Nat
    BY <1>1
  <1> HIDE DEF j
  <1>5. /\ Arms[(j % 2) + 1] \in {"with_backoff", "no_backoff"}
        /\ Arms[(j % 2) + 1] = "with_backoff" <=> j % 2 = 0
    BY <1>4, ArmAt
  <1> QED BY <1>1, <1>3, <1>5 DEF j

(* No two runs have the same id. *)
LEMMA IdsDiffer ==
  ASSUME NEW k \in 1 .. ScenarioRuns + 2 * Repeats,
         NEW n \in 1 .. ScenarioRuns + 2 * Repeats, k # n
  PROVE  Id(k) # Id(n)
  <1> DEFINE Early(m) == m \in 1 .. ScenarioRuns
             Late(m) == m \in ScenarioRuns + 1 .. ScenarioRuns + 2 * Repeats
  <1>1. (Early(k) \/ Late(k)) /\ (Early(n) \/ Late(n))
    BY Parameters
  <1>2. ToSet(Scenarios) \cap {"with_backoff", "no_backoff"} = {}
    BY SuiteAssumption
  <1>3. CASE Early(k) /\ Early(n)
    <2> DEFINE a == (k - 1) \div Repeats
               b == (n - 1) \div Repeats
               c == (k - 1) % Repeats
               d == (n - 1) % Repeats
    <2>1. /\ a \in Nat /\ a + 1 \in 1 .. Len(Scenarios) /\ c \in 0 .. Repeats - 1
          /\ k - 1 = Repeats * a + c
      BY <1>3, ScenarioAt
    <2>2. /\ b \in Nat /\ b + 1 \in 1 .. Len(Scenarios) /\ d \in 0 .. Repeats - 1
          /\ n - 1 = Repeats * b + d
      BY <1>3, ScenarioAt
    <2>3. /\ Id(k)[1] = Scenarios[a + 1] /\ Id(k)[2] = c + 1
          /\ Id(n)[1] = Scenarios[b + 1] /\ Id(n)[2] = d + 1
      BY <1>3, ScenarioId
    <2> HIDE DEF a, b, c, d
    <2>4. CASE a = b
      <3>1. c # d
        BY <2>1, <2>2, <2>4, Parameters
      <3> QED BY <2>1, <2>2, <2>3, <3>1, Parameters
    <2>5. CASE a # b
      <3>1. a + 1 # b + 1 /\ a + 1 \in DOMAIN Scenarios /\ b + 1 \in DOMAIN Scenarios
        BY <2>1, <2>2, <2>5, Parameters
      <3>2. Scenarios[a + 1] # Scenarios[b + 1]
        BY <3>1, SuiteAssumption
      <3> QED BY <2>3, <3>2
    <2> QED BY <2>4, <2>5
  <1>4. CASE Early(k) /\ Late(n)
    BY <1>2, <1>4, ScenarioId, ArmId
  <1>5. CASE Late(k) /\ Early(n)
    BY <1>2, <1>5, ScenarioId, ArmId
  <1>6. CASE Late(k) /\ Late(n)
    <2> DEFINE i == k - ScenarioRuns - 1
               j == n - ScenarioRuns - 1
    <2>1. /\ i \in Nat /\ Id(k)[2] = (i \div 2) + 1
          /\ Id(k)[1] = "with_backoff" <=> i % 2 = 0
      BY <1>6, ArmId
    <2>2. /\ j \in Nat /\ Id(n)[2] = (j \div 2) + 1
          /\ Id(n)[1] = "with_backoff" <=> j % 2 = 0
      BY <1>6, ArmId
    <2>3. i # j
      BY Parameters
    <2> HIDE DEF i, j
    <2>4. \A m \in Nat : m % 2 \in 0 .. 1 /\ m \div 2 \in Nat /\ m = 2 * (m \div 2) + (m % 2)
      OBVIOUS
    <2>5. i % 2 # j % 2 \/ i \div 2 # j \div 2
      BY <2>1, <2>2, <2>3, <2>4
    <2>6. SUFFICES ASSUME Id(k) = Id(n) PROVE FALSE
      OBVIOUS
    <2>7. i \div 2 = j \div 2
      BY <2>1, <2>2, <2>4, <2>6
    <2>8. i % 2 = 0 <=> j % 2 = 0
      BY <2>1, <2>2, <2>6
    <2> QED BY <2>1, <2>2, <2>4, <2>5, <2>7, <2>8
  <1> QED BY <1>1, <1>3, <1>4, <1>5, <1>6

(* The plan of either program. *)
LEMMA PlanIs ==
  ASSUME suite \in {"sweep", "chaos"}
  PROVE  /\ Len(Plan) \in Nat \ {0} /\ DOMAIN Plan = 1 .. Len(Plan)
         /\ \A k, n \in 1 .. Len(Plan) : k # n => Plan[k] # Plan[n]
         /\ suite = "sweep" => Len(Plan) = Len(Rates)
         /\ suite = "chaos" => /\ Len(Plan) = ScenarioRuns + 2 * Repeats
                               /\ \A k \in 1 .. Len(Plan) : Plan[k] = Id(k)
                               /\ \A k \in 1 .. Len(Plan) : Plan[k][1] \in Names
  <1>1. CASE suite = "sweep"
    <2>1. Plan = [k \in 1 .. Len(Rates) |-> Rates[k] \div 10]
      BY <1>1, Parameters DEF Plan, RunOf
    <2>2. Len(Plan) = Len(Rates) /\ DOMAIN Plan = 1 .. Len(Rates)
      BY <2>1, Parameters
    <2>3. \A k \in 1 .. Len(Rates) : Plan[k] = Rates[k] \div 10
      BY <2>1
    <2>4. \A k, n \in 1 .. Len(Rates) : k # n => Rates[k] \div 10 # Rates[n] \div 10
      BY SuiteAssumption, Parameters
    <2> QED BY <1>1, <2>2, <2>3, <2>4, Parameters
  <1>2. CASE suite = "chaos"
    <2>1. /\ Plan \in Seq(Names \X Nat) /\ Len(Plan) = ScenarioRuns + 2 * Repeats
          /\ \A k \in 1 .. ScenarioRuns + 2 * Repeats : Plan[k] = Id(k)
      BY <1>2, ChaosPlanIs DEF Plan
    <2>2. DOMAIN Plan = 1 .. Len(Plan) /\ \A k \in 1 .. Len(Plan) : Plan[k] \in Names \X Nat
      BY <2>1
    <2>3. \A k, n \in 1 .. Len(Plan) : k # n => Plan[k] # Plan[n]
      BY <2>1, IdsDiffer
    <2>4. Len(Plan) \in Nat \ {0}
      BY <2>1, Parameters
    <2> QED BY <1>2, <2>1, <2>2, <2>3, <2>4
  <1> QED BY <1>1, <1>2

-----------------------------------------------------------------------------
(* The steps of a sweep by rate *)

LEMMA LeastElement ==
  ASSUME NEW M, M \subseteq Nat, M # {}
  PROVE  \E m \in M : \A k \in M : ~(k < m)
  <1>1. \E m \in M : \A k \in M : <<k, m>> \notin OpToRel(<, Nat)
    BY WFMin, NatLessThanWellFounded, Zenon
  <1> QED BY <1>1 DEF OpToRel

(* What a sweep has run: the first of its rates. *)
SweepRan ==
  /\ suite = "sweep"
  /\ results \in Seq(Steps) /\ Len(results) <= Len(Rates)
  /\ \A k \in DOMAIN results : results[k].rate = Rates[k]

LEMMA RatesApart ==
  ASSUME SweepRan
  PROVE  /\ Len(results) \in Nat /\ DOMAIN results = 1 .. Len(results)
         /\ \A k \in 1 .. Len(results) :
              /\ results[k].rate \in Nat /\ results[k].rate \in ToSet(Rates)
              /\ results[k].sustained \in BOOLEAN
         /\ \A k, n \in 1 .. Len(results) : k # n => results[k].rate # results[n].rate
  <1>1. Len(results) \in Nat /\ DOMAIN results = 1 .. Len(results)
    BY DEF SweepRan
  <1>2. \A k \in 1 .. Len(results) : results[k] \in Steps
    BY <1>1 DEF SweepRan
  <1>3. \A k \in 1 .. Len(results) : k \in 1 .. Len(Rates) /\ results[k].rate = Rates[k]
    <2>1. \A k \in 1 .. Len(results) : results[k].rate = Rates[k]
      BY <1>1 DEF SweepRan
    <2>2. Len(results) <= Len(Rates) /\ Len(Rates) \in Nat
      BY Parameters DEF SweepRan
    <2> QED BY <1>1, <2>1, <2>2
  <1>4. \A k \in 1 .. Len(Rates) : Rates[k] \in Nat
    BY Parameters
  <1>5. \A k \in 1 .. Len(results) :
          results[k].rate \in ToSet(Rates) /\ results[k].sustained \in BOOLEAN
    BY <1>2 DEF Steps
  <1>6. \A k, n \in 1 .. Len(Rates) : k # n => Rates[k] # Rates[n]
    BY SuiteAssumption, Parameters
  <1> QED BY <1>1, <1>3, <1>4, <1>5, <1>6

LEMMA SlowerFew ==
  ASSUME SweepRan, NEW k \in 1 .. Len(results)
  PROVE  IsFiniteSet(Slower(k)) /\ Cardinality(Slower(k)) \in 0 .. Len(results) - 1
  <1> DEFINE N == Len(results)
             others == (1 .. N) \ {k}
  <1>1. N \in Nat /\ DOMAIN results = 1 .. N /\ results[k].rate \in Nat
    BY RatesApart
  <1>2. Slower(k) \subseteq others
    BY <1>1 DEF Slower
  <1>3. IsFiniteSet(1 .. N) /\ Cardinality(1 .. N) = N
    <2> HIDE DEF N
    <2> QED BY <1>1, FS_Interval
  <1>4. IsFiniteSet(others) /\ Cardinality(others) = N - 1
    BY <1>3, FS_RemoveElement
  <1> HIDE DEF others
  <1>5. IsFiniteSet(Slower(k)) /\ Cardinality(Slower(k)) <= N - 1
    BY <1>2, <1>4, FS_Subset
  <1>6. Cardinality(Slower(k)) \in Nat
    BY <1>5, FS_CardinalityType
  <1> QED BY <1>1, <1>5, <1>6

(* The ranks are in the order of the rates. *)
LEMMA SlowerOrder ==
  ASSUME SweepRan, NEW k \in 1 .. Len(results), NEW n \in 1 .. Len(results)
  PROVE  results[k].rate < results[n].rate <=> Cardinality(Slower(k)) < Cardinality(Slower(n))
  <1>1. ASSUME NEW i \in 1 .. Len(results), NEW j \in 1 .. Len(results),
               results[i].rate < results[j].rate
        PROVE  Cardinality(Slower(i)) < Cardinality(Slower(j))
    <2>1. Slower(i) \subseteq Slower(j) /\ i \in Slower(j) /\ i \notin Slower(i)
      BY <1>1, RatesApart DEF Slower
    <2>2. IsFiniteSet(Slower(j))
      BY SlowerFew
    <2>3. Cardinality(Slower(i)) <= Cardinality(Slower(j))
          /\ Cardinality(Slower(i)) # Cardinality(Slower(j))
      BY <2>1, <2>2, FS_Subset
    <2>4. Cardinality(Slower(i)) \in Nat /\ Cardinality(Slower(j)) \in Nat
      BY SlowerFew, RatesApart
    <2> QED BY <2>3, <2>4
  <1>2. Cardinality(Slower(k)) \in Nat /\ Cardinality(Slower(n)) \in Nat
    BY SlowerFew, RatesApart
  <1>3. results[k].rate \in Nat /\ results[n].rate \in Nat
        /\ (results[k].rate = results[n].rate => k = n)
    BY RatesApart
  <1>4. results[n].rate < results[k].rate => Cardinality(Slower(n)) < Cardinality(Slower(k))
    BY <1>1
  <1>5. results[k].rate < results[n].rate => Cardinality(Slower(k)) < Cardinality(Slower(n))
    BY <1>1
  <1> QED BY <1>2, <1>3, <1>4, <1>5

(* Every rank is taken, and by one step only. *)
LEMMA RankTaken ==
  ASSUME SweepRan
  PROVE  /\ \A i \in 1 .. Len(results) :
              \E k \in 1 .. Len(results) : Cardinality(Slower(k)) = i - 1
         /\ \A k, n \in 1 .. Len(results) :
              Cardinality(Slower(k)) = Cardinality(Slower(n)) => k = n
  <1> DEFINE N == Len(results)
             f == [k \in 1 .. N |-> Cardinality(Slower(k)) + 1]
  <1>1. N \in Nat
    BY RatesApart
  <1>2. \A k \in 1 .. N : Cardinality(Slower(k)) \in 0 .. N - 1
    BY SlowerFew
  <1>3. ASSUME NEW k \in 1 .. N, NEW n \in 1 .. N,
               Cardinality(Slower(k)) = Cardinality(Slower(n))
        PROVE  k = n
    <2>1. ~(results[k].rate < results[n].rate) /\ ~(results[n].rate < results[k].rate)
      BY <1>1, <1>2, <1>3, SlowerOrder
    <2>2. results[k].rate = results[n].rate
      BY <2>1, RatesApart
    <2> QED BY <2>2, RatesApart
  <1>4. f \in [1 .. N -> 1 .. N]
    BY <1>1, <1>2
  <1>5. \A k, n \in 1 .. N : f[k] = f[n] => k = n
    <2> SUFFICES ASSUME NEW k \in 1 .. N, NEW n \in 1 .. N, f[k] = f[n] PROVE k = n
      OBVIOUS
    <2>1. Cardinality(Slower(k)) = Cardinality(Slower(n))
      BY <1>2
    <2> QED BY <1>3, <2>1
  <1>6. \A k \in 1 .. N : f[k] = Cardinality(Slower(k)) + 1
    OBVIOUS
  <1>7. IsFiniteSet(1 .. N)
    <2> HIDE DEF N, f
    <2> QED BY <1>1, FS_Interval
  <1> HIDE DEF f
  <1>8. f \in Injection(1 .. N, 1 .. N)
    BY <1>4, <1>5 DEF Injection, IsInjective
  <1>9. f \in Surjection(1 .. N, 1 .. N)
    BY <1>7, <1>8, FS_Injection
  <1>10. \A i \in 1 .. N : \E k \in 1 .. N : f[k] = i
    BY <1>9 DEF Surjection
  <1>11. ASSUME NEW i \in 1 .. N PROVE \E k \in 1 .. N : Cardinality(Slower(k)) = i - 1
    <2>1. PICK k \in 1 .. N : f[k] = i
      BY <1>10
    <2>2. Cardinality(Slower(k)) \in Int /\ Cardinality(Slower(k)) + 1 = i
      BY <1>2, <1>6, <2>1
    <2>3. Cardinality(Slower(k)) = i - 1
      BY <2>2
    <2> QED BY <2>3
  <1> QED BY <1>3, <1>11

LEMMA ByRateIs ==
  ASSUME SweepRan
  PROVE  /\ DOMAIN ByRate = 1 .. Len(results)
         /\ \A i \in 1 .. Len(results) :
              \E k \in 1 .. Len(results) :
                ByRate[i] = results[k] /\ Cardinality(Slower(k)) = i - 1
         /\ \A k \in 1 .. Len(results) :
              \E i \in 1 .. Len(results) :
                ByRate[i] = results[k] /\ Cardinality(Slower(k)) = i - 1
  <1> DEFINE N == Len(results)
  <1>1. N \in Nat /\ DOMAIN results = 1 .. N
    BY RatesApart
  <1>2. DOMAIN ByRate = 1 .. N
    BY <1>1 DEF ByRate
  <1>3. ASSUME NEW i \in 1 .. N
        PROVE  \E k \in 1 .. N : ByRate[i] = results[k] /\ Cardinality(Slower(k)) = i - 1
    <2> DEFINE k == CHOOSE n \in 1 .. N : Cardinality(Slower(n)) = i - 1
    <2>1. ByRate[i] = results[k]
      BY <1>1 DEF ByRate
    <2>2. \E n \in 1 .. N : Cardinality(Slower(n)) = i - 1
      BY RankTaken
    <2>3. k \in 1 .. N /\ Cardinality(Slower(k)) = i - 1
      BY <2>2
    <2> QED BY <2>1, <2>3
  <1>4. ASSUME NEW k \in 1 .. N
        PROVE  \E i \in 1 .. N : ByRate[i] = results[k] /\ Cardinality(Slower(k)) = i - 1
    <2> DEFINE c == Cardinality(Slower(k))
    <2>1. c \in 0 .. N - 1
      BY SlowerFew
    <2>2. c + 1 \in 1 .. N /\ c = (c + 1) - 1
      BY <1>1, <2>1
    <2>3. PICK n \in 1 .. N : ByRate[c + 1] = results[n] /\ Cardinality(Slower(n)) = (c + 1) - 1
      BY <1>3, <2>2
    <2>4. n = k
      BY <2>2, <2>3, RankTaken
    <2> QED BY <2>2, <2>3, <2>4
  <1> QED BY <1>2, <1>3, <1>4

(* The steps up to the i-th slowest were sustained. *)
Good(i) == i \in 1 .. Len(results) /\ \A k \in 1 .. i : ByRate[k].sustained

LEMMA SustainableIs ==
  ASSUME SweepRan
  PROVE  \/ Sustainable = None /\ \A i \in 1 .. Len(results) : ~Good(i)
         \/ \E m \in 1 .. Len(results) : /\ Good(m) /\ Sustainable = ByRate[m].rate
                                         /\ \A i \in 1 .. Len(results) : Good(i) => i <= m
  <1> DEFINE N == Len(results)
             good == {n \in DOMAIN ByRate : \A k \in 1 .. n : ByRate[k].sustained}
  <1>1. N \in Nat /\ DOMAIN ByRate = 1 .. N
    BY RatesApart, ByRateIs
  <1>2. \A i : i \in good <=> Good(i)
    BY <1>1 DEF Good
  <1>3. Sustainable = IF good = {} THEN None ELSE ByRate[Max(good)].rate
    BY DEF Sustainable
  <1>4. good \subseteq 1 .. N
    BY <1>1
  <1> HIDE DEF good
  <1>5. CASE good = {}
    BY <1>2, <1>3, <1>5
  <1>6. CASE good # {}
    <2> DEFINE M == {j \in Nat : N - j \in good}
    <2>1. M # {}
      <3>1. PICK i : i \in good
        BY <1>6
      <3>2. N - i \in Nat /\ N - (N - i) = i
        BY <1>1, <1>4, <3>1
      <3> QED BY <3>1, <3>2
    <2>2. M \subseteq Nat
      OBVIOUS
    <2>3. PICK j \in M : \A k \in M : ~(k < j)
      <3> HIDE DEF M
      <3> QED BY <2>1, <2>2, LeastElement
    <2>4. N - j \in good /\ \A i \in good : N - j >= i
      <3>1. j \in Nat /\ N - j \in good
        BY <2>3
      <3>2. ASSUME NEW i \in good PROVE N - j >= i
        <4>1. N - i \in Nat /\ N - (N - i) = i /\ i \in Int
          BY <1>1, <1>4
        <4>2. N - i \in M
          BY <4>1
        <4>3. ~(N - i < j)
          BY <2>3, <4>2
        <4> QED BY <1>1, <3>1, <4>1, <4>3
      <3> QED BY <3>1, <3>2
    <2>5. Max(good) \in good /\ \A i \in good : Max(good) >= i
      BY <2>4 DEF Max
    <2>6. Sustainable = ByRate[Max(good)].rate
      BY <1>3, <1>6
    <2> DEFINE m == Max(good)
    <2> HIDE DEF m
    <2>7. m \in 1 .. N /\ Good(m) /\ Sustainable = ByRate[m].rate
      BY <1>2, <1>4, <2>5, <2>6 DEF m
    <2>8. \A i \in 1 .. N : Good(i) => i <= m
      BY <1>2, <2>5, <2>7 DEF m
    <2> QED BY <2>7, <2>8
  <1> QED BY <1>5, <1>6

-----------------------------------------------------------------------------
(* Sums over a finite set *)

(* The recursion that FoldSet stands for when it adds up q. *)
SumBody(q, it, S) ==
  [s \in SUBSET S |->
     IF s = {} THEN 0
     ELSE it[s \ {CHOOSE x \in s : TRUE}] + q[CHOOSE x \in s : TRUE]]

LEMMA OneOut ==
  ASSUME NEW S, IsFiniteSet(S), NEW s \in SUBSET S, s # {}
  PROVE  LET x == CHOOSE y \in s : TRUE
         IN  /\ x \in S /\ x \in s /\ s \ {x} \in SUBSET S
             /\ Cardinality(s) \in Nat \ {0}
             /\ Cardinality(s \ {x}) = Cardinality(s) - 1
  <1> DEFINE x == CHOOSE y \in s : TRUE
  <1>1. x \in s
    OBVIOUS
  <1> HIDE DEF x
  <1>2. IsFiniteSet(s)
    BY FS_Subset
  <1>3. Cardinality(s) \in Nat /\ Cardinality(s) # 0
    BY <1>2, FS_CardinalityType, FS_EmptySet
  <1>4. Cardinality(s \ {x}) = Cardinality(s) - 1
    BY <1>1, <1>2, FS_RemoveElement
  <1>5. x \in S /\ s \ {x} \in SUBSET S
    BY <1>1
  <1> QED BY <1>1, <1>3, <1>4, <1>5 DEF x

(* it adds up q over the subsets of S of at most n elements. *)
SumsUpTo(n, q, it, S) ==
  /\ it \in [SUBSET S -> Nat]
  /\ \A s \in SUBSET S : Cardinality(s) <= n => it[s] = SumBody(q, it, S)[s]

LEMMA SumsUpToExist ==
  ASSUME NEW S, IsFiniteSet(S), NEW q \in [S -> Nat]
  PROVE  \A n \in Nat : \E it : SumsUpTo(n, q, it, S)
  <1> DEFINE M == {n \in Nat : ~\E it : SumsUpTo(n, q, it, S)}
  <1> SUFFICES ASSUME M # {} PROVE FALSE
    OBVIOUS
  <1>1. PICK m \in M : \A k \in M : ~(k < m)
    <2>1. M \subseteq Nat
      OBVIOUS
    <2> HIDE DEF M
    <2> QED BY <2>1, LeastElement
  <1>2. \A s \in SUBSET S : Cardinality(s) \in Nat
    BY FS_Subset, FS_CardinalityType
  <1>3. m # 0
    <2> DEFINE it == [s \in SUBSET S |-> 0]
    <2>1. it \in [SUBSET S -> Nat]
      OBVIOUS
    <2>2. ASSUME NEW s \in SUBSET S, Cardinality(s) <= 0 PROVE s = {}
      <3>1. Cardinality(s) = 0 /\ IsFiniteSet(s)
        BY <1>2, <2>2, FS_Subset
      <3> QED BY <3>1, FS_EmptySet
    <2>3. \A s \in SUBSET S : s = {} => it[s] = SumBody(q, it, S)[s]
      BY DEF SumBody
    <2>4. SumsUpTo(0, q, it, S)
      BY <2>1, <2>2, <2>3 DEF SumsUpTo
    <2> QED BY <2>4
  <1>4. m - 1 \in Nat /\ m - 1 < m
    BY <1>3
  <1>5. PICK g : SumsUpTo(m - 1, q, g, S)
    BY <1>1, <1>4
  <1> DEFINE h == [s \in SUBSET S |-> IF Cardinality(s) = m THEN SumBody(q, g, S)[s] ELSE g[s]]
  <1>6. ASSUME NEW s \in SUBSET S PROVE SumBody(q, g, S)[s] \in Nat
    <2>1. CASE s = {}
      BY <2>1 DEF SumBody
    <2>2. CASE s # {}
      <3> DEFINE x == CHOOSE y \in s : TRUE
      <3>1. x \in S /\ s \ {x} \in SUBSET S
        BY <2>2, OneOut
      <3>2. SumBody(q, g, S)[s] = g[s \ {x}] + q[x]
        BY <2>2 DEF SumBody
      <3> HIDE DEF x
      <3>3. g[s \ {x}] \in Nat /\ q[x] \in Nat
        BY <1>5, <3>1 DEF SumsUpTo
      <3> QED BY <3>2, <3>3
    <2> QED BY <2>1, <2>2
  <1>7. h \in [SUBSET S -> Nat]
    BY <1>5, <1>6 DEF SumsUpTo
  <1>8. ASSUME NEW s \in SUBSET S, Cardinality(s) <= m
        PROVE  h[s] = SumBody(q, h, S)[s]
    <2>1. h[s] = SumBody(q, g, S)[s]
      <3>1. CASE Cardinality(s) = m
        BY <3>1
      <3>2. CASE Cardinality(s) # m
        <4>1. Cardinality(s) <= m - 1
          BY <1>2, <1>8, <3>2
        <4> QED BY <1>5, <3>2, <4>1 DEF SumsUpTo
      <3> QED BY <3>1, <3>2
    <2>2. CASE s = {}
      BY <2>1, <2>2 DEF SumBody
    <2>3. CASE s # {}
      <3> DEFINE x == CHOOSE y \in s : TRUE
      <3>1. s \ {x} \in SUBSET S /\ Cardinality(s \ {x}) = Cardinality(s) - 1
        BY <2>3, OneOut
      <3>2. Cardinality(s \ {x}) # m
        BY <1>2, <1>8, <3>1
      <3>3. h[s \ {x}] = g[s \ {x}]
        BY <3>1, <3>2
      <3>4. SumBody(q, g, S)[s] = g[s \ {x}] + q[x] /\ SumBody(q, h, S)[s] = h[s \ {x}] + q[x]
        BY <2>3 DEF SumBody
      <3> QED BY <2>1, <3>3, <3>4
    <2> QED BY <2>2, <2>3
  <1> HIDE DEF h
  <1>9. SumsUpTo(m, q, h, S)
    BY <1>7, <1>8 DEF SumsUpTo
  <1> QED BY <1>9

LEMMA SumSolvable ==
  ASSUME NEW S, IsFiniteSet(S), NEW q \in [S -> Nat]
  PROVE  \E it : it = SumBody(q, it, S)
  <1>1. Cardinality(S) \in Nat
    BY FS_CardinalityType
  <1>2. PICK it : SumsUpTo(Cardinality(S), q, it, S)
    BY <1>1, SumsUpToExist
  <1>3. \A s \in SUBSET S : Cardinality(s) <= Cardinality(S)
    BY FS_Subset
  <1>4. \A s \in SUBSET S : it[s] = SumBody(q, it, S)[s]
    BY <1>2, <1>3 DEF SumsUpTo
  <1>5. it = [s \in SUBSET S |-> it[s]]
    BY <1>2 DEF SumsUpTo
  <1>6. SumBody(q, it, S) = [s \in SUBSET S |-> SumBody(q, it, S)[s]]
    BY DEF SumBody
  <1>7. it = SumBody(q, it, S)
    BY <1>4, <1>5, <1>6
  <1> QED BY <1>7

LEMMA OneMore ==
  ASSUME NEW b \in Nat, NEW c \in Nat \ {0}, NEW t \in Nat, NEW v \in Nat
  PROVE  /\ t <= b * (c - 1) /\ v <= b => t + v <= b * c
         /\ t >= b * (c - 1) /\ v >= b => t + v >= b * c
         /\ b * c \in Nat
  <1>1. b * c = b * (c - 1) + b /\ b * (c - 1) \in Int /\ b * c \in Nat
    OBVIOUS
  <1> QED BY <1>1

(* A sum is at most, and at least, the number of terms times a bound.      *)
LEMMA SumBounds ==
  ASSUME NEW S, IsFiniteSet(S), NEW q \in [S -> Nat], NEW b \in Nat,
         NEW it, it = SumBody(q, it, S)
  PROVE  /\ it[S] \in Nat
         /\ (\A k \in S : q[k] <= b) => it[S] <= b * Cardinality(S)
         /\ (\A k \in S : q[k] >= b) => it[S] >= b * Cardinality(S)
  <1> DEFINE Ok(s) == /\ it[s] \in Nat
                      /\ (\A k \in S : q[k] <= b) => it[s] <= b * Cardinality(s)
                      /\ (\A k \in S : q[k] >= b) => it[s] >= b * Cardinality(s)
             M == {n \in Nat : \E s \in SUBSET S : Cardinality(s) = n /\ ~Ok(s)}
  <1>1. M = {}
    <2> SUFFICES ASSUME M # {} PROVE FALSE
      OBVIOUS
    <2>1. PICK m \in M : \A k \in M : ~(k < m)
      <3>1. M \subseteq Nat
        OBVIOUS
      <3> HIDE DEF M
      <3> QED BY <3>1, LeastElement
    <2>2. PICK s \in SUBSET S : Cardinality(s) = m /\ ~Ok(s)
      BY <2>1
    <2>3. it[s] = SumBody(q, it, S)[s]
      OBVIOUS
    <2>4. CASE s = {}
      <3>1. it[s] = 0 /\ Cardinality(s) = 0 /\ b * 0 = 0
        BY <2>3, <2>4, FS_EmptySet DEF SumBody
      <3> QED BY <2>2, <3>1
    <2>5. CASE s # {}
      <3> DEFINE x == CHOOSE y \in s : TRUE
                 t == s \ {x}
      <3>1. /\ x \in S /\ t \in SUBSET S
            /\ Cardinality(s) \in Nat \ {0} /\ Cardinality(t) = Cardinality(s) - 1
        BY <2>5, OneOut
      <3>2. it[s] = it[t] + q[x]
        BY <2>3, <2>5 DEF SumBody
      <3> HIDE DEF x, t, Ok
      <3>3. Cardinality(t) \in Nat /\ Cardinality(t) < m
        BY <2>2, <3>1
      <3>4. Ok(t)
        BY <2>1, <3>1, <3>3
      <3>5. it[t] \in Nat /\ q[x] \in Nat
        BY <3>1, <3>4 DEF Ok
      <3>6. /\ it[t] <= b * (Cardinality(s) - 1) /\ q[x] <= b => it[t] + q[x] <= b * Cardinality(s)
            /\ it[t] >= b * (Cardinality(s) - 1) /\ q[x] >= b => it[t] + q[x] >= b * Cardinality(s)
        BY <3>1, <3>5, OneMore
      <3>7. it[s] \in Nat
        BY <3>2, <3>5
      <3>8. (\A k \in S : q[k] <= b) => it[s] <= b * Cardinality(s)
        BY <3>1, <3>2, <3>4, <3>6 DEF Ok
      <3>9. (\A k \in S : q[k] >= b) => it[s] >= b * Cardinality(s)
        BY <3>1, <3>2, <3>4, <3>6 DEF Ok
      <3> QED BY <2>2, <3>7, <3>8, <3>9 DEF Ok
    <2> QED BY <2>4, <2>5
  <1>2. S \in SUBSET S /\ Cardinality(S) \in Nat
    BY FS_CardinalityType
  <1>3. Ok(S)
    BY <1>1, <1>2
  <1> QED BY <1>3

-----------------------------------------------------------------------------
(* The reduction of a chaos suite *)

(* The runs of an arm that agg does not leave out. *)
Known(name) == {k \in RunsOf(name) : Quarantined(k) # None}

LEMMA ExtractIs ==
  ASSUME results \in Seq(Extracts)
  PROVE  /\ Len(results) \in Nat /\ DOMAIN results = 1 .. Len(results)
         /\ \A k \in 1 .. Len(results) :
              results[k] \in Extracts /\ Quarantined(k) \in Nat \cup {None}
  <1>1. Len(results) \in Nat /\ DOMAIN results = 1 .. Len(results)
    OBVIOUS
  <1>2. \A k \in 1 .. Len(results) : results[k] \in Extracts
    BY <1>1
  <1>3. ASSUME NEW e \in Extracts PROVE e.report.quarantined \in Nat \cup {None}
    <2>1. e.report \in ScenarioExtracts \cup ArmExtracts \cup {NoRun}
      BY DEF Extracts
    <2>2. MaxCount \in Nat
      BY SuiteAssumption
    <2> QED BY <2>1, <2>2 DEF ScenarioExtracts, ArmExtracts, NoRun
  <1> QED BY <1>1, <1>2, <1>3 DEF Quarantined

LEMMA AggIs ==
  ASSUME results \in Seq(Extracts), NEW name
  PROVE  /\ Agg(name).n = Cardinality(Known(name))
         /\ Agg(name).n \in Nat /\ Agg(name).sum \in Nat
         /\ Agg(name).n = 0 <=> Known(name) = {}
         /\ \A b \in Nat :
              /\ (\A k \in Known(name) : Quarantined(k) <= b) => Agg(name).sum <= b * Agg(name).n
              /\ (\A k \in Known(name) : Quarantined(k) >= b) => Agg(name).sum >= b * Agg(name).n
  <1> DEFINE S == Known(name)
             Body(it) == [s \in SUBSET S |->
                            IF s = {} THEN 0
                            ELSE it[s \ {CHOOSE x \in s : TRUE}]
                                   + Quarantined(CHOOSE x \in s : TRUE)]
             q == [k \in S |-> Quarantined(k)]
             it == CHOOSE g : g = Body(g)
  <1>1. Agg(name).n = Cardinality(S) /\ Agg(name).sum = it[S]
    BY DEF Agg, FoldSet, MapThenFoldSet, Known
  <1>2. IsFiniteSet(S)
    <2>1. S \subseteq 1 .. Len(results) /\ Len(results) \in Nat
      BY ExtractIs DEF Known, RunsOf
    <2>2. IsFiniteSet(1 .. Len(results))
      BY <2>1, FS_Interval
    <2> HIDE DEF S
    <2> QED BY <2>1, <2>2, FS_Subset
  <1>3. q \in [S -> Nat]
    <2>1. \A k \in S : Quarantined(k) \in Nat
      BY ExtractIs DEF Known, RunsOf
    <2> QED BY <2>1
  <1>4. ASSUME NEW g PROVE Body(g) = SumBody(q, g, S)
    <2>1. \A s \in SUBSET S : s # {} => (CHOOSE x \in s : TRUE) \in S
      OBVIOUS
    <2>2. \A s \in SUBSET S : s # {} => Quarantined(CHOOSE x \in s : TRUE) = q[CHOOSE x \in s : TRUE]
      BY <2>1
    <2> HIDE DEF S, q
    <2> QED BY <2>2 DEF SumBody
  <1>5. \A k \in S : q[k] = Quarantined(k)
    OBVIOUS
  <1> HIDE DEF S, q
  <1>6. \E g : g = Body(g)
    BY <1>2, <1>3, <1>4, SumSolvable
  <1>7. it = Body(it)
    BY <1>6
  <1> HIDE DEF it
  <1>8. it = SumBody(q, it, S)
    BY <1>4, <1>7
  <1>9. \A b \in Nat : /\ it[S] \in Nat
                       /\ (\A k \in S : q[k] <= b) => it[S] <= b * Cardinality(S)
                       /\ (\A k \in S : q[k] >= b) => it[S] >= b * Cardinality(S)
    BY <1>2, <1>3, <1>8, SumBounds
  <1>10. it[S] \in Nat
    <2>1. 0 \in Nat
      OBVIOUS
    <2> QED BY <1>9, <2>1
  <1>11. Cardinality(S) \in Nat /\ (Cardinality(S) = 0 <=> S = {})
    BY <1>2, FS_CardinalityType, FS_EmptySet
  <1> QED BY <1>1, <1>5, <1>9, <1>10, <1>11 DEF S

LEMMA Percent ==
  ASSUME NEW d \in Nat \ {0}, NEW e \in Nat
  PROVE  LET p == (100 * (d - e)) \div d
         IN  p \in Int /\ p <= 100 /\ (d <= e => p <= 0)
  <1> DEFINE x == 100 * (d - e)
             p == x \div d
  <1>1. x \in Int /\ x <= 100 * d /\ (d <= e => x <= 0)
    OBVIOUS
  <1> HIDE DEF x
  <1>2. p \in Int /\ d * p <= x
    BY <1>1
  <1> HIDE DEF p
  <1>3. p <= 100
    <2> SUFFICES ASSUME p >= 101 PROVE FALSE
      BY <1>2
    <2>1. d * p >= d * 101
      BY <1>2
    <2> QED BY <1>1, <1>2, <2>1
  <1>4. d <= e => p <= 0
    <2> SUFFICES ASSUME d <= e, p >= 1 PROVE FALSE
      BY <1>2
    <2>1. d * p >= d * 1
      BY <1>2
    <2> QED BY <1>1, <1>2, <2>1
  <1> QED BY <1>2, <1>3, <1>4 DEF p, x

(* Means do not turn the order of the terms around. *)
LEMMA MeansOrdered ==
  ASSUME NEW b \in Nat, NEW m \in Nat, NEW n \in Nat, NEW s \in Nat, NEW t \in Nat,
         s >= b * m, t <= b * n
  PROVE  t * m <= s * n
  <1>1. b * m \in Nat /\ b * n \in Nat
    OBVIOUS
  <1>2. t * m <= (b * n) * m
    BY <1>1
  <1>3. (b * m) * n <= s * n
    BY <1>1
  <1>4. (b * n) * m = (b * m) * n /\ (b * n) * m \in Nat /\ t * m \in Nat /\ s * n \in Nat
    OBVIOUS
  <1> QED BY <1>2, <1>3, <1>4

LEMMA ReductionIs ==
  ASSUME results \in Seq(Extracts)
  PROVE  /\ Reduction \in [known : BOOLEAN, pct : Int] /\ Reduction.pct <= 100
         /\ Reduction.known =>
              /\ Known("with_backoff") # {} /\ Known("no_backoff") # {}
              /\ \E n \in Known("no_backoff") : Quarantined(n) > 0
              /\ (\A k \in Known("with_backoff"), n \in Known("no_backoff") :
                    Quarantined(k) >= Quarantined(n)) => Reduction.pct <= 0
  <1> DEFINE wb == Agg("with_backoff")
             nb == Agg("no_backoff")
             W == Known("with_backoff")
             N == Known("no_backoff")
             d == nb.sum * wb.n
             e == wb.sum * nb.n
  <1>1. Reduction = IF wb.n = 0 \/ nb.n = 0 \/ nb.sum = 0 THEN NoReduction
                    ELSE [known |-> TRUE, pct |-> (100 * (d - e)) \div d]
    BY DEF Reduction, Arms
  <1>2. /\ wb.n \in Nat /\ wb.sum \in Nat /\ nb.n \in Nat /\ nb.sum \in Nat
        /\ (wb.n = 0 <=> W = {}) /\ (nb.n = 0 <=> N = {})
    BY AggIs
  <1>3. \A b \in Nat :
          /\ (\A k \in W : Quarantined(k) >= b) => wb.sum >= b * wb.n
          /\ (\A k \in N : Quarantined(k) <= b) => nb.sum <= b * nb.n
    BY AggIs
  <1>4. \A k \in W \cup N : Quarantined(k) \in Nat
    BY ExtractIs DEF Known, RunsOf
  <1> HIDE DEF wb, nb, W, N
  <1>5. CASE wb.n = 0 \/ nb.n = 0 \/ nb.sum = 0
    <2>1. Reduction = [known |-> FALSE, pct |-> 0]
      BY <1>1, <1>5 DEF NoReduction
    <2> QED BY <2>1
  <1>6. CASE ~(wb.n = 0 \/ nb.n = 0 \/ nb.sum = 0)
    <2>1. d \in Nat \ {0} /\ e \in Nat
      <3>1. \A i, j \in Nat : i * j \in Nat /\ (i # 0 /\ j # 0 => i * j # 0)
        OBVIOUS
      <3> QED BY <1>2, <1>6, <3>1
    <2>2. Reduction = [known |-> TRUE, pct |-> (100 * (d - e)) \div d]
      BY <1>1, <1>6
    <2>3. /\ (100 * (d - e)) \div d \in Int /\ (100 * (d - e)) \div d <= 100
          /\ d <= e => (100 * (d - e)) \div d <= 0
      <3> HIDE DEF d, e
      <3> QED BY <2>1, Percent
    <2>4. W # {} /\ N # {}
      BY <1>2, <1>6
    <2>5. \E n \in N : Quarantined(n) > 0
      <3> SUFFICES ASSUME \A n \in N : ~(Quarantined(n) > 0) PROVE FALSE
        OBVIOUS
      <3>1. \A n \in N : Quarantined(n) <= 0
        BY <1>4
      <3>2. nb.sum <= 0 * nb.n /\ 0 * nb.n = 0
        BY <1>2, <1>3, <3>1
      <3> QED BY <1>2, <1>6, <3>2
    <2>6. ASSUME \A k \in W, n \in N : Quarantined(k) >= Quarantined(n) PROVE d <= e
      <3> DEFINE M == {Quarantined(k) : k \in W}
      <3>1. M \subseteq Nat /\ M # {}
        BY <1>4, <2>4
      <3>2. PICK b \in M : \A v \in M : ~(v < b)
        <4> HIDE DEF M
        <4> QED BY <3>1, LeastElement
      <3>3. b \in Nat /\ \A k \in W : Quarantined(k) >= b
        BY <1>4, <3>1, <3>2
      <3>4. \A n \in N : Quarantined(n) <= b
        BY <1>4, <2>6, <3>2
      <3>5. wb.sum >= b * wb.n /\ nb.sum <= b * nb.n
        BY <1>3, <3>3, <3>4
      <3> QED BY <1>2, <3>3, <3>5, MeansOrdered
    <2>7. Reduction.known = TRUE /\ Reduction.pct = (100 * (d - e)) \div d
      BY <2>2
    <2>8. Reduction \in [known : BOOLEAN, pct : Int]
      <3> HIDE DEF d, e
      <3> QED BY <2>2, <2>3
    <2> HIDE DEF d, e
    <2> QED BY <2>3, <2>4, <2>5, <2>6, <2>7, <2>8 DEF W, N
  <1> QED BY <1>5, <1>6

-----------------------------------------------------------------------------
(* The invariant of both programs *)

(* The number of results, and the run that is next. *)
LEMMA Reading ==
  ASSUME SuiteInv
  PROVE  /\ suite \in {"sweep", "chaos"}
         /\ Len(results) \in Nat /\ DOMAIN results = 1 .. Len(results)
         /\ Now = Len(results) + 1 /\ Len(results) <= Len(Plan) /\ Len(Plan) \in Nat
         /\ pc \in {"run", "read"} => /\ Now \in 1 .. Len(Plan) /\ RunId \in ToSet(Plan)
                                      /\ \A k \in DOMAIN results : Plan[k] # RunId
  <1>1. suite \in {"sweep", "chaos"}
    BY DEF SuiteInv, TypeOK
  <1>2. Len(results) \in Nat /\ DOMAIN results = 1 .. Len(results)
    <2>1. PICK X : results \in Seq(X)
      BY DEF SuiteInv, TypeOK
    <2> QED BY <2>1
  <1>3. /\ Len(Plan) \in Nat /\ DOMAIN Plan = 1 .. Len(Plan)
        /\ \A k, n \in 1 .. Len(Plan) : k # n => Plan[k] # Plan[n]
    BY <1>1, PlanIs
  <1>4. Len(results) <= Len(Plan)
    BY DEF SuiteInv, TypeOK
  <1>5. ASSUME pc \in {"run", "read"}
        PROVE  /\ Now \in 1 .. Len(Plan) /\ RunId \in ToSet(Plan)
               /\ \A k \in DOMAIN results : Plan[k] # RunId
    <2>1. Len(results) < Len(Plan)
      BY <1>5 DEF SuiteInv, Progress
    <2>2. Now \in 1 .. Len(Plan) /\ \A k \in DOMAIN results : k \in 1 .. Len(Plan) /\ k # Now
      BY <1>2, <1>3, <2>1 DEF Now
    <2> QED BY <1>3, <2>2 DEF RunId, ToSet
  <1> QED BY <1>1, <1>2, <1>3, <1>4, <1>5 DEF Now

LEMMA ReportsReal ==
  ASSUME suite = "chaos", NEW id, NEW r \in Reports(id)
  PROVE  /\ r # NoRun /\ r \in ScenarioExtracts \cup ArmExtracts
         /\ r.quarantined \in Nat /\ r.loss \in Nat
  <1>1. r \in ScenarioExtracts \cup ArmExtracts
    BY DEF Reports, ChaosReports
  <1>2. r.quarantined \in Nat /\ r.loss \in Nat
    BY <1>1, SuiteAssumption DEF ScenarioExtracts, ArmExtracts
  <1>3. NoRun.quarantined = -1
    BY DEF NoRun, None
  <1> QED BY <1>1, <1>2, <1>3

(* What only looks at the program and its results. *)
LEMMA SamePlan ==
  ASSUME suite' = suite
  PROVE  Plan' = Plan /\ \A id : Reports(id)' = Reports(id)
  BY DEF Plan, Reports

LEMMA SameResults ==
  ASSUME suite' = suite, results' = results
  PROVE  /\ Now' = Now /\ RunId' = RunId
         /\ FollowsPlan => FollowsPlan'
  <1>1. Plan' = Plan /\ \A id : Reports(id)' = Reports(id)
    BY SamePlan
  <1>2. Now' = Now /\ RunId' = RunId
    BY <1>1 DEF Now, RunId
  <1>3. FollowsPlan => FollowsPlan'
    BY <1>1 DEF FollowsPlan
  <1> QED BY <1>2, <1>3

(* The conclusions as functions of the results. *)
SustainableOf(steps) ==
  LET slower(k) == {n \in DOMAIN steps : steps[n].rate < steps[k].rate}
      byRate == [i \in DOMAIN steps |->
                   steps[CHOOSE k \in DOMAIN steps : Cardinality(slower(k)) = i - 1]]
      good == {n \in DOMAIN byRate : \A k \in 1 .. n : byRate[k].sustained}
  IN  IF good = {} THEN None ELSE byRate[Max(good)].rate

AggOf(runs, name) ==
  LET known == {k \in {k \in DOMAIN runs : runs[k].of = name} : runs[k].report.quarantined # None}
  IN  [n |-> Cardinality(known),
       sum |-> FoldSet(LAMBDA k, s : s + runs[k].report.quarantined, 0, known)]

ReductionOf(runs) ==
  LET wb == AggOf(runs, Arms[1])
      nb == AggOf(runs, Arms[2])
  IN  IF wb.n = 0 \/ nb.n = 0 \/ nb.sum = 0 THEN NoReduction
      ELSE [known |-> TRUE,
            pct |-> (100 * (nb.sum * wb.n - wb.sum * nb.n)) \div (nb.sum * wb.n)]

LEMMA SameConclusions ==
  ASSUME results' = results
  PROVE  /\ Sustainable' = Sustainable /\ Reduction' = Reduction
         /\ \A s : (AllRecovered(s)' <=> AllRecovered(s)) /\ (ZeroLoss(s)' <=> ZeroLoss(s))
  <1>1. Sustainable = SustainableOf(results) /\ Sustainable' = SustainableOf(results')
    BY DEF Sustainable, ByRate, Slower, SustainableOf
  <1>2. Reduction = ReductionOf(results)
    BY DEF Reduction, ReductionOf, Agg, RunsOf, Quarantined, AggOf
  <1>3. Reduction' = ReductionOf(results')
    BY DEF Reduction, ReductionOf, Agg, RunsOf, Quarantined, AggOf, FoldSet, MapThenFoldSet
  <1>4. \A s : (AllRecovered(s)' <=> AllRecovered(s)) /\ (ZeroLoss(s)' <=> ZeroLoss(s))
    BY DEF AllRecovered, ZeroLoss, RunsOf
  <1> QED BY <1>1, <1>2, <1>3, <1>4

LEMMA SuiteInit == Init => SuiteInv
  <1> SUFFICES ASSUME Init PROVE SuiteInv
    OBVIOUS
  <1>1. suite \in {"sweep", "chaos"} /\ results = <<>> /\ pc = "run" /\ wrote = FALSE
    BY DEF Init
  <1>2. Len(Plan) \in Nat \ {0} /\ StopAfter \in Nat \ {0}
    BY <1>1, PlanIs, SuiteAssumption
  <1>3. Len(results) = 0 /\ DOMAIN results = {} /\ \A X : results \in Seq(X)
    BY <1>1
  <1>4. ASSUME NEW id PROVE BestReport \in Reports(id)
    <2>1. CASE suite = "sweep"
      BY <2>1 DEF BestReport, Reports, SweepReports
    <2>2. CASE suite = "chaos"
      <3>1. 0 \in 0 .. MaxCount
        BY SuiteAssumption
      <3>2. BestReport = [recovered |-> "yes", loss |-> 0, quarantined |-> 0]
        BY <2>2 DEF BestReport
      <3>3. BestReport \in ScenarioExtracts /\ BestReport \in ArmExtracts
        BY <3>1, <3>2 DEF ScenarioExtracts, ArmExtracts
      <3> QED BY <2>2, <3>3 DEF Reports, ChaosReports
    <2> QED BY <1>1, <2>1, <2>2
  <1>5. DOMAIN disk \subseteq ToSet(Plan) /\ \A id \in DOMAIN disk : disk[id] \in Reports(id)
    <2>1. CASE scratch
      <3>1. DOMAIN disk = {}
        BY <2>1 DEF Init
      <3> QED BY <3>1
    <2>2. CASE ~scratch
      <3>1. disk = [id \in ToSet(Plan) |-> BestReport]
        BY <2>2 DEF Init
      <3> QED BY <1>4, <3>1
    <2> QED BY <2>1, <2>2
  <1>6. summary \in Summaries /\ summary.reduction.pct <= 100
    BY DEF Init, NoSummary, NoReduction, Summaries
  <1>7. TypeOK
    <2>1. scratch \in BOOLEAN /\ failures = 0
      BY DEF Init
    <2>2. failures \in 0 .. StopAfter
      BY <1>2, <2>1
    <2>3. results \in Seq(IF suite = "sweep" THEN Steps ELSE Extracts)
      BY <1>3
    <2>4. Len(results) <= Len(Plan)
      BY <1>2, <1>3
    <2> QED BY <1>1, <1>5, <1>6, <2>1, <2>2, <2>3, <2>4 DEF TypeOK
  <1>8. Progress
    BY <1>1, <1>2, <1>3 DEF Progress, Init
  <1>9. FollowsPlan
    BY <1>3 DEF FollowsPlan
  <1>10. Fresh
    <2>1. scratch => DOMAIN disk = {}
      BY DEF Init
    <2> QED BY <1>1, <1>3, <2>1 DEF Fresh
  <1>11. Drawn
    BY <1>1 DEF Drawn
  <1> QED BY <1>7, <1>8, <1>9, <1>10, <1>11 DEF SuiteInv

(* A scenario runs, writes its report or does not, or hangs. *)
LEMMA RunKeeps ==
  ASSUME SuiteInv, ScenarioReports \/ ScenarioFails \/ ScenarioHangs
  PROVE  SuiteInv'
  <1>1. /\ suite' = suite /\ scratch' = scratch /\ results' = results
        /\ failures' = failures /\ summary' = summary /\ pc = "run" /\ pc' \in {"read", "crashed"}
    BY DEF ScenarioReports, ScenarioFails, ScenarioHangs
  <1>2. Plan' = Plan /\ Now' = Now /\ RunId' = RunId /\ \A id : Reports(id)' = Reports(id)
    BY <1>1, SamePlan, SameResults
  <1>3. RunId \in ToSet(Plan)
    BY <1>1, Reading
  <1>4. /\ DOMAIN disk' \subseteq ToSet(Plan) /\ \A id \in DOMAIN disk' : disk'[id] \in Reports(id)
        /\ wrote' \in BOOLEAN
        /\ \A id \in DOMAIN disk' : id \in DOMAIN disk \/ (wrote' /\ id = RunId)
        /\ pc' = "read" /\ wrote' => RunId \in DOMAIN disk'
    <2>1. /\ DOMAIN disk \subseteq ToSet(Plan) /\ \A id \in DOMAIN disk : disk[id] \in Reports(id)
          /\ wrote \in BOOLEAN
      BY DEF SuiteInv, TypeOK
    <2>2. CASE ScenarioReports
      <3>1. PICK r \in Reports(RunId) :
              disk' = [id \in DOMAIN disk \cup {RunId} |-> IF id = RunId THEN r ELSE disk[id]]
        BY <2>2 DEF ScenarioReports
      <3>2. wrote' = TRUE
        BY <2>2 DEF ScenarioReports
      <3> QED BY <1>3, <2>1, <3>1, <3>2
    <2>3. CASE ScenarioFails
      <3>1. disk' = disk /\ wrote' = FALSE
        BY <2>3 DEF ScenarioFails
      <3> QED BY <2>1, <3>1
    <2>4. CASE ScenarioHangs
      <3>1. disk' = disk /\ wrote' = wrote /\ pc' = "crashed"
        BY <2>4 DEF ScenarioHangs
      <3> QED BY <2>1, <3>1
    <2> QED BY <2>2, <2>3, <2>4
  <1>5. TypeOK'
    <2>1. \A id \in DOMAIN disk' : disk'[id] \in Reports(id)'
      BY <1>2, <1>4
    <2>2. TypeOK
      BY DEF SuiteInv
    <2> QED BY <1>1, <1>2, <1>4, <2>1, <2>2 DEF TypeOK
  <1>6. Progress'
    <2>1. Progress
      BY DEF SuiteInv
    <2> QED BY <1>1, <1>2, <2>1 DEF Progress
  <1>7. FollowsPlan'
    BY <1>1, SameResults DEF SuiteInv
  <1>8. Fresh'
    <2>1. Fresh
      BY DEF SuiteInv
    <2>2. ASSUME scratch', pc' \in {"run", "read"}, NEW id \in DOMAIN disk'
          PROVE  \/ \E k \in DOMAIN results' : id = Plan'[k]
                 \/ pc' = "read" /\ wrote' /\ id = RunId'
      <3>1. id \in DOMAIN disk => \E k \in DOMAIN results : id = Plan[k]
        BY <1>1, <2>1, <2>2 DEF Fresh
      <3> QED BY <1>1, <1>2, <1>4, <2>2, <3>1
    <2>3. scratch' => \A k \in DOMAIN results' :
                        suite' = "sweep" \/ results'[k].report # NoRun => results'[k].measured
      BY <1>1, <2>1 DEF Fresh
    <2>4. pc' = "read" /\ wrote' => RunId' \in DOMAIN disk'
      BY <1>2, <1>4
    <2> QED BY <2>2, <2>3, <2>4 DEF Fresh
  <1>9. Drawn'
    BY <1>1 DEF Drawn
  <1> QED BY <1>5, <1>6, <1>7, <1>8, <1>9 DEF SuiteInv

(* The results with one more: those before it, and it. *)
LEMMA OneResultMore ==
  ASSUME NEW X, NEW s \in Seq(X), NEW e \in X, NEW t, t = Append(s, e)
  PROVE  /\ t \in Seq(X) /\ Len(t) = Len(s) + 1 /\ DOMAIN t = 1 .. Len(s) + 1
         /\ \A k \in 1 .. Len(s) : t[k] = s[k]
         /\ t[Len(s) + 1] = e
  OBVIOUS

(* A sweep counts a step. *)
LEMMA JudgeKeeps == ASSUME SuiteInv, JudgeStep PROVE SuiteInv'
  <1> DEFINE step == [rate |-> Rates[Now], sustained |-> disk[RunId].met = Criteria,
                      measured |-> wrote]
  <1>1. /\ suite = "sweep" /\ suite' = suite /\ scratch' = scratch /\ disk' = disk
        /\ wrote' = wrote /\ summary' = summary /\ pc = "read" /\ pc' \in {"summarise", "run"}
        /\ RunId \in DOMAIN disk
    BY DEF JudgeStep
  <1>2. /\ results' = Append(results, step)
        /\ failures' = IF step.sustained THEN 0 ELSE failures + 1
        /\ pc' = IF failures' >= StopAfter \/ Now = Len(Plan) THEN "summarise" ELSE "run"
    BY DEF JudgeStep
  <1>3. /\ Len(results) \in Nat /\ DOMAIN results = 1 .. Len(results)
        /\ Now = Len(results) + 1 /\ Now \in 1 .. Len(Plan) /\ Len(Plan) \in Nat
        /\ \A k \in DOMAIN results : Plan[k] # RunId
    BY <1>1, Reading
  <1>4. TypeOK /\ Progress /\ FollowsPlan /\ Fresh
    BY DEF SuiteInv
  <1>5. results \in Seq(Steps) /\ wrote \in BOOLEAN
    BY <1>1, <1>4 DEF TypeOK
  <1>6. Len(Plan) = Len(Rates) /\ Plan' = Plan /\ \A id : Reports(id)' = Reports(id)
    BY <1>1, PlanIs, SamePlan
  <1>7. step \in Steps
    <2>1. Rates[Now] \in ToSet(Rates)
      BY <1>3, <1>6, Parameters DEF ToSet
    <2>2. (disk[RunId].met = Criteria) \in BOOLEAN
      OBVIOUS
    <2> QED BY <1>5, <2>1, <2>2 DEF Steps
  <1>8. step.rate = Rates[Now] /\ step.measured = wrote
    OBVIOUS
  <1> HIDE DEF step
  <1>9. /\ results' \in Seq(Steps) /\ Len(results') = Now /\ DOMAIN results' = 1 .. Now
        /\ \A k \in 1 .. Len(results) : results'[k] = results[k]
        /\ results'[Now] = step
    BY <1>2, <1>3, <1>5, <1>7, OneResultMore
  <1>10. \A k \in 1 .. Now : k \in 1 .. Len(results) \/ k = Now
    BY <1>3
  <1>11. failures \in Nat /\ failures < StopAfter /\ StopAfter \in Nat
    BY <1>1, <1>4, SuiteAssumption DEF TypeOK, Progress
  <1>12. TypeOK'
    <2>1. failures' \in 0 .. StopAfter
      BY <1>2, <1>11
    <2>2. Len(results') <= Len(Plan')
      BY <1>3, <1>6, <1>9
    <2>3. \A id \in DOMAIN disk' : disk'[id] \in Reports(id)'
      BY <1>1, <1>4, <1>6 DEF TypeOK
    <2>4. results' \in Seq(IF suite' = "sweep" THEN Steps ELSE Extracts)
      BY <1>1, <1>9
    <2> QED BY <1>1, <1>4, <1>6, <2>1, <2>2, <2>3, <2>4 DEF TypeOK
  <1>13. Progress'
    <2>1. pc' = "run" => failures' < StopAfter /\ Now < Len(Plan)
      <3>1. failures' \in Nat
        BY <1>2, <1>11
      <3> QED BY <1>2, <1>3, <1>11, <3>1
    <2> QED BY <1>1, <1>6, <1>9, <2>1 DEF Progress
  <1>14. FollowsPlan'
    <2>1. \A k \in DOMAIN results' : results'[k].rate = Rates[k]
      BY <1>1, <1>3, <1>4, <1>8, <1>9, <1>10 DEF FollowsPlan
    <2> QED BY <1>1, <2>1 DEF FollowsPlan
  <1>15. Fresh'
    <2>1. ASSUME scratch PROVE wrote
      BY <1>1, <1>3, <1>4, <2>1 DEF Fresh
    <2>2. ASSUME scratch, NEW id \in DOMAIN disk PROVE \E k \in DOMAIN results' : id = Plan[k]
      <3>1. (\E k \in DOMAIN results : id = Plan[k]) \/ id = RunId
        BY <1>1, <1>4, <2>2 DEF Fresh
      <3>2. Now \in DOMAIN results' /\ \A k \in DOMAIN results : k \in DOMAIN results'
        BY <1>3, <1>9
      <3> QED BY <3>1, <3>2 DEF RunId
    <2>3. ASSUME scratch PROVE \A k \in DOMAIN results' : results'[k].measured
      BY <1>1, <1>3, <1>4, <1>8, <1>9, <1>10, <2>1, <2>3 DEF Fresh
    <2> QED BY <1>1, <1>6, <2>2, <2>3 DEF Fresh
  <1>16. Drawn'
    BY <1>1 DEF Drawn
  <1> QED BY <1>12, <1>13, <1>14, <1>15, <1>16 DEF SuiteInv

(* A chaos suite takes what a run has left. *)
LEMMA ExtractKeeps == ASSUME SuiteInv, ExtractRun PROVE SuiteInv'
  <1> DEFINE report == IF RunId \in DOMAIN disk THEN disk[RunId] ELSE NoRun
             e == [report |-> report, of |-> RunId[1], measured |-> wrote]
  <1>1. /\ suite = "chaos" /\ suite' = suite /\ scratch' = scratch /\ disk' = disk
        /\ wrote' = wrote /\ summary' = summary /\ failures' = failures
        /\ pc = "read" /\ pc' \in {"summarise", "run"}
    BY DEF ExtractRun
  <1>2. /\ results' = Append(results, e)
        /\ pc' = IF Now = Len(Plan) THEN "summarise" ELSE "run"
    BY DEF ExtractRun
  <1>3. /\ Len(results) \in Nat /\ DOMAIN results = 1 .. Len(results)
        /\ Now = Len(results) + 1 /\ Now \in 1 .. Len(Plan) /\ Len(Plan) \in Nat
        /\ \A k \in DOMAIN results : Plan[k] # RunId
    BY <1>1, Reading
  <1>4. TypeOK /\ Progress /\ FollowsPlan /\ Fresh
    BY DEF SuiteInv
  <1>5. results \in Seq(Extracts) /\ wrote \in BOOLEAN
    BY <1>1, <1>4 DEF TypeOK
  <1>6. Plan' = Plan /\ \A id : Reports(id)' = Reports(id)
    BY <1>1, SamePlan
  <1>7. /\ report \in Reports(RunId) \cup {NoRun}
        /\ report \in ScenarioExtracts \cup ArmExtracts \cup {NoRun}
        /\ wrote => report # NoRun
        /\ report # NoRun => RunId \in DOMAIN disk
    <2>1. RunId \in DOMAIN disk => disk[RunId] \in Reports(RunId)
      BY <1>4 DEF TypeOK
    <2>2. RunId \in DOMAIN disk =>
            disk[RunId] # NoRun /\ disk[RunId] \in ScenarioExtracts \cup ArmExtracts
      BY <1>1, <2>1, ReportsReal
    <2>3. wrote => RunId \in DOMAIN disk
      BY <1>1, <1>4 DEF Fresh
    <2> QED BY <2>1, <2>2, <2>3
  <1> HIDE DEF report
  <1>8. e \in Extracts
    <2>1. RunId[1] \in ToSet(Scenarios) \cup ToSet(Arms)
      BY <1>1, <1>3, PlanIs, ArmNames DEF RunId, Names
    <2> QED BY <1>5, <1>7, <2>1 DEF Extracts
  <1>9. e.report = report /\ e.of = RunId[1] /\ e.measured = wrote
    OBVIOUS
  <1> HIDE DEF e
  <1>10. /\ results' \in Seq(Extracts) /\ Len(results') = Now /\ DOMAIN results' = 1 .. Now
         /\ \A k \in 1 .. Len(results) : results'[k] = results[k]
         /\ results'[Now] = e
    BY <1>2, <1>3, <1>5, <1>8, OneResultMore
  <1>11. \A k \in 1 .. Now : k \in 1 .. Len(results) \/ k = Now
    BY <1>3
  <1>12. TypeOK'
    <2>1. Len(results') <= Len(Plan')
      BY <1>3, <1>6, <1>10
    <2>2. \A id \in DOMAIN disk' : disk'[id] \in Reports(id)'
      BY <1>1, <1>4, <1>6 DEF TypeOK
    <2>3. results' \in Seq(IF suite' = "sweep" THEN Steps ELSE Extracts)
      BY <1>1, <1>10
    <2> QED BY <1>1, <1>4, <1>6, <2>1, <2>2, <2>3 DEF TypeOK
  <1>13. Progress'
    <2>1. /\ pc' = "run" => Now < Len(Plan)
          /\ pc' = "summarise" => Now = Len(Plan)
      BY <1>2, <1>3
    <2>2. failures < StopAfter
      BY <1>1, <1>4 DEF Progress
    <2> QED BY <1>1, <1>6, <1>10, <2>1, <2>2 DEF Progress
  <1>14. FollowsPlan'
    <2>1. \A k \in 1 .. Len(results) :
            /\ results[k].of = Plan[k][1]
            /\ results[k].report \in Reports(Plan[k]) \cup {NoRun}
            /\ results[k].measured => results[k].report # NoRun
      BY <1>1, <1>3, <1>4 DEF FollowsPlan
    <2>2. /\ e.of = Plan[Now][1] /\ e.report \in Reports(Plan[Now]) \cup {NoRun}
          /\ e.measured => e.report # NoRun
      BY <1>7, <1>9 DEF RunId
    <2>3. \A k \in DOMAIN results' :
            /\ results'[k].of = Plan[k][1]
            /\ results'[k].report \in Reports(Plan[k]) \cup {NoRun}
            /\ results'[k].measured => results'[k].report # NoRun
      BY <1>10, <1>11, <2>1, <2>2
    <2> QED BY <1>1, <1>6, <2>3 DEF FollowsPlan
  <1>15. Fresh'
    <2>1. ASSUME scratch, e.report # NoRun PROVE e.measured
      BY <1>1, <1>3, <1>4, <1>7, <1>9, <2>1 DEF Fresh
    <2>2. ASSUME scratch, NEW id \in DOMAIN disk PROVE \E k \in DOMAIN results' : id = Plan[k]
      <3>1. (\E k \in DOMAIN results : id = Plan[k]) \/ id = RunId
        BY <1>1, <1>4, <2>2 DEF Fresh
      <3>2. Now \in DOMAIN results' /\ \A k \in DOMAIN results : k \in DOMAIN results'
        BY <1>3, <1>10
      <3> QED BY <3>1, <3>2 DEF RunId
    <2>3. ASSUME scratch, NEW k \in DOMAIN results', results'[k].report # NoRun
          PROVE  results'[k].measured
      BY <1>1, <1>3, <1>4, <1>10, <1>11, <2>1, <2>3 DEF Fresh
    <2> QED BY <1>1, <1>6, <2>2, <2>3 DEF Fresh
  <1>16. Drawn'
    BY <1>1 DEF Drawn
  <1> QED BY <1>12, <1>13, <1>14, <1>15, <1>16 DEF SuiteInv

(* A sweep whose next step has no report ends there. *)
LEMMA NothingKeeps == ASSUME SuiteInv, JudgeNothing PROVE SuiteInv'
  <1>1. /\ suite' = suite /\ scratch' = scratch /\ disk' = disk /\ wrote' = wrote
        /\ results' = results /\ summary' = summary /\ failures' = failures /\ pc' = "crashed"
    BY DEF JudgeNothing
  <1>2. Plan' = Plan /\ Now' = Now /\ RunId' = RunId /\ \A id : Reports(id)' = Reports(id)
    BY <1>1, SamePlan, SameResults
  <1>3. TypeOK'
    <2>1. TypeOK
      BY DEF SuiteInv
    <2>2. \A id \in DOMAIN disk' : disk'[id] \in Reports(id)'
      BY <1>1, <1>2, <2>1 DEF TypeOK
    <2> QED BY <1>1, <1>2, <2>1, <2>2 DEF TypeOK
  <1>4. FollowsPlan'
    BY <1>1, SameResults DEF SuiteInv
  <1>5. Progress' /\ Drawn'
    BY <1>1 DEF Progress, Drawn
  <1>6. Fresh'
    <2>1. Fresh
      BY DEF SuiteInv
    <2> QED BY <1>1, <2>1 DEF Fresh
  <1> QED BY <1>3, <1>4, <1>5, <1>6 DEF SuiteInv

(* The sweep concludes. *)
LEMMA SweepKeeps == ASSUME SuiteInv, SummariseSweep PROVE SuiteInv'
  <1>1. /\ suite = "sweep" /\ suite' = suite /\ scratch' = scratch /\ disk' = disk
        /\ wrote' = wrote /\ results' = results /\ failures' = failures /\ pc' = "ended"
        /\ summary' = [summary EXCEPT !.headline = Sustainable]
    BY DEF SummariseSweep
  <1>2. Plan' = Plan /\ Now' = Now /\ RunId' = RunId /\ \A id : Reports(id)' = Reports(id)
    BY <1>1, SamePlan, SameResults
  <1>3. TypeOK /\ FollowsPlan /\ Fresh
    BY DEF SuiteInv
  <1>4. SweepRan
    <2>1. Len(Plan) = Len(Rates)
      BY <1>1, PlanIs
    <2> QED BY <1>1, <1>3, <2>1 DEF SweepRan, TypeOK, FollowsPlan
  <1>5. Sustainable \in ToSet(Rates) \cup {None}
    <2>1. ASSUME NEW m \in 1 .. Len(results) PROVE ByRate[m].rate \in ToSet(Rates)
      BY <1>4, ByRateIs, RatesApart
    <2> QED BY <1>4, <2>1, SustainableIs
  <1>6. summary' \in Summaries /\ summary'.reduction.pct <= 100 /\ summary'.headline = Sustainable
    BY <1>1, <1>3, <1>5 DEF TypeOK, Summaries
  <1>7. TypeOK'
    <2>1. \A id \in DOMAIN disk' : disk'[id] \in Reports(id)'
      BY <1>1, <1>2, <1>3 DEF TypeOK
    <2> QED BY <1>1, <1>2, <1>3, <1>6, <2>1 DEF TypeOK
  <1>8. FollowsPlan'
    BY <1>1, <1>3, SameResults
  <1>9. Progress'
    BY <1>1 DEF Progress
  <1>10. Fresh'
    BY <1>1, <1>3 DEF Fresh
  <1>11. Drawn'
    <2>1. Sustainable' = Sustainable
      BY <1>1, SameConclusions
    <2> QED BY <1>1, <1>6, <2>1 DEF Drawn
  <1> QED BY <1>7, <1>8, <1>9, <1>10, <1>11 DEF SuiteInv

(* The chaos suite concludes. *)
LEMMA ChaosKeeps == ASSUME SuiteInv, SummariseChaos PROVE SuiteInv'
  <1> DEFINE recovered == {s \in ToSet(Scenarios) : AllRecovered(s)}
             lossless == {s \in ToSet(Scenarios) : ZeroLoss(s)}
  <1>1. /\ suite = "chaos" /\ suite' = suite /\ scratch' = scratch /\ disk' = disk
        /\ wrote' = wrote /\ results' = results /\ failures' = failures
        /\ pc = "summarise" /\ pc' = "ended"
        /\ summary' = [summary EXCEPT !.recovered = recovered, !.lossless = lossless,
                                      !.reduction = Reduction]
    BY DEF SummariseChaos
  <1>2. Plan' = Plan /\ Now' = Now /\ RunId' = RunId /\ \A id : Reports(id)' = Reports(id)
    BY <1>1, SamePlan, SameResults
  <1>3. TypeOK /\ Progress /\ FollowsPlan /\ Fresh
    BY DEF SuiteInv
  <1>4. Reduction \in [known : BOOLEAN, pct : Int] /\ Reduction.pct <= 100
    BY <1>1, <1>3, ReductionIs DEF TypeOK
  <1>5. recovered \subseteq ToSet(Scenarios) /\ lossless \subseteq ToSet(Scenarios)
    OBVIOUS
  <1>6. Drawn'
    <2>1. recovered' = recovered /\ lossless' = lossless /\ Reduction' = Reduction
      BY <1>1, SameConclusions
    <2>2. summary \in Summaries
      BY <1>3 DEF TypeOK
    <2>3. /\ summary'.recovered = recovered /\ summary'.lossless = lossless
          /\ summary'.reduction = Reduction
      <3> HIDE DEF recovered, lossless
      <3> QED BY <1>1, <2>2 DEF Summaries
    <2> QED BY <1>1, <2>1, <2>3 DEF Drawn
  <1> HIDE DEF recovered, lossless
  <1>7. summary' \in Summaries /\ summary'.reduction.pct <= 100
    BY <1>1, <1>3, <1>4, <1>5 DEF TypeOK, Summaries
  <1>8. TypeOK'
    <2>1. \A id \in DOMAIN disk' : disk'[id] \in Reports(id)'
      BY <1>1, <1>2, <1>3 DEF TypeOK
    <2> QED BY <1>1, <1>2, <1>3, <1>7, <2>1 DEF TypeOK
  <1>9. FollowsPlan'
    BY <1>1, <1>3, SameResults
  <1>10. Progress'
    BY <1>1, <1>2, <1>3 DEF Progress
  <1>11. Fresh'
    BY <1>1, <1>3 DEF Fresh
  <1> QED BY <1>6, <1>8, <1>9, <1>10, <1>11 DEF SuiteInv

LEMMA SuiteStep == SuiteInv /\ [Next]_vars => SuiteInv'
  <1> SUFFICES ASSUME SuiteInv, [Next]_vars PROVE SuiteInv'
    OBVIOUS
  <1>1. CASE ScenarioReports \/ ScenarioFails \/ ScenarioHangs
    BY <1>1, RunKeeps
  <1>2. CASE JudgeStep
    BY <1>2, JudgeKeeps
  <1>3. CASE JudgeNothing
    BY <1>3, NothingKeeps
  <1>4. CASE SummariseSweep
    BY <1>4, SweepKeeps
  <1>5. CASE ExtractRun
    BY <1>5, ExtractKeeps
  <1>6. CASE SummariseChaos
    BY <1>6, ChaosKeeps
  <1>7. CASE UNCHANGED vars
    <2>1. /\ suite' = suite /\ pc' = pc /\ disk' = disk /\ scratch' = scratch /\ wrote' = wrote
          /\ results' = results /\ failures' = failures /\ summary' = summary
      BY <1>7 DEF vars
    <2>2. Plan' = Plan /\ Now' = Now /\ RunId' = RunId /\ \A id : Reports(id)' = Reports(id)
      BY <2>1, SamePlan, SameResults
    <2>3. TypeOK' /\ Progress' /\ FollowsPlan' /\ Fresh'
      <3>1. TypeOK /\ Progress /\ FollowsPlan /\ Fresh
        BY DEF SuiteInv
      <3>2. \A id \in DOMAIN disk' : disk'[id] \in Reports(id)'
        BY <2>1, <2>2, <3>1 DEF TypeOK
      <3>3. TypeOK'
        BY <2>1, <2>2, <3>1, <3>2 DEF TypeOK
      <3>4. FollowsPlan'
        BY <2>1, <3>1, SameResults
      <3>5. Progress' /\ Fresh'
        BY <2>1, <2>2, <3>1 DEF Progress, Fresh
      <3> QED BY <3>3, <3>4, <3>5
    <2>4. Drawn'
      <3>1. Drawn
        BY DEF SuiteInv
      <3> QED BY <2>1, <3>1, SameConclusions DEF Drawn
    <2> QED BY <2>3, <2>4 DEF SuiteInv
  <1> QED BY <1>1, <1>2, <1>3, <1>4, <1>5, <1>6, <1>7 DEF Next

(* The invariant of the sweep and of the chaos suite: types, how far the   *)
(* plan is, that each result is of the run at its place, that without      *)
(* reports of an earlier suite each report was measured, and that what is  *)
(* concluded is what the results say (throughput_sweep.py: main,           *)
(* chaos_suite.py: main).                                                  *)
THEOREM SuiteInvariant == Spec => []SuiteInv
  <1> QED BY SuiteInit, SuiteStep, PTL DEF Spec

-----------------------------------------------------------------------------
(* What the programs conclude *)

(* This step and every slower one were sustained. *)
Holds(k) ==
  k \in DOMAIN results /\ \A n \in DOMAIN results :
    results[n].rate <= results[k].rate => results[n].sustained

LEMMA GoodHolds ==
  ASSUME SweepRan, NEW i \in 1 .. Len(results), NEW k \in 1 .. Len(results),
         ByRate[i] = results[k], Cardinality(Slower(k)) = i - 1
  PROVE  Good(i) <=> Holds(k)
  <1> DEFINE N == Len(results)
  <1>1. N \in Nat /\ DOMAIN results = 1 .. N /\ \A n \in 1 .. N : results[n].rate \in Nat
    BY RatesApart
  <1>2. \A n \in 1 .. N : results[n].rate <= results[k].rate <=> ~(results[k].rate < results[n].rate)
    BY <1>1
  <1>3. \A n \in 1 .. N : results[k].rate < results[n].rate
                           <=> Cardinality(Slower(k)) < Cardinality(Slower(n))
    BY SlowerOrder
  <1>4. ASSUME Good(i) PROVE Holds(k)
    <2> SUFFICES ASSUME NEW n \in 1 .. N, results[n].rate <= results[k].rate
                 PROVE  results[n].sustained
      BY <1>1 DEF Holds
    <2>1. PICK j \in 1 .. N : ByRate[j] = results[n] /\ Cardinality(Slower(n)) = j - 1
      BY ByRateIs
    <2>2. ~(i - 1 < j - 1)
      BY <1>2, <1>3, <2>1
    <2>3. j \in 1 .. i
      BY <1>1, <2>1, <2>2
    <2> QED BY <1>4, <2>1, <2>3 DEF Good
  <1>5. ASSUME Holds(k) PROVE Good(i)
    <2> SUFFICES ASSUME NEW m \in 1 .. i PROVE ByRate[m].sustained
      BY DEF Good
    <2>1. m \in 1 .. N
      BY <1>1
    <2>2. PICK n \in 1 .. N : ByRate[m] = results[n] /\ Cardinality(Slower(n)) = m - 1
      BY <2>1, ByRateIs
    <2>3. ~(i - 1 < m - 1)
      OBVIOUS
    <2>4. results[n].rate <= results[k].rate
      BY <1>2, <1>3, <2>2, <2>3
    <2> QED BY <1>1, <1>5, <2>2, <2>4 DEF Holds
  <1> QED BY <1>4, <1>5

LEMMA HeadlineHolds == SuiteInv => SweepHeadline
  <1> SUFFICES ASSUME SuiteInv PROVE SweepHeadline
    OBVIOUS
  <1> DEFINE N == Len(results)
             holds == {k \in DOMAIN results :
                         \A n \in DOMAIN results :
                           results[n].rate <= results[k].rate => results[n].sustained}
  <1>1. SUFFICES ASSUME Sweeping
                 PROVE  /\ IF holds = {} THEN summary.headline = None
                           ELSE \E k \in holds :
                                  /\ results[k].rate = summary.headline
                                  /\ \A n \in holds : results[n].rate <= results[k].rate
                        /\ scratch => \A k \in DOMAIN results : results[k].measured
    BY DEF SweepHeadline
  <1>2. suite = "sweep" /\ pc = "ended"
    BY <1>1 DEF Sweeping
  <1>3. SweepRan
    <2>1. Len(Plan) = Len(Rates)
      BY <1>2, PlanIs
    <2> QED BY <1>2, <2>1 DEF SweepRan, SuiteInv, TypeOK, FollowsPlan
  <1>4. summary.headline = Sustainable
    BY <1>2 DEF SuiteInv, Drawn
  <1>5. scratch => \A k \in DOMAIN results : results[k].measured
    BY <1>2 DEF SuiteInv, Fresh
  <1>6. N \in Nat /\ DOMAIN results = 1 .. N /\ \A n \in 1 .. N : results[n].rate \in Nat
    BY <1>3, RatesApart
  <1>7. \A k : k \in holds <=> Holds(k)
    BY DEF Holds
  <1>8. \A k \in holds : k \in 1 .. N
    BY <1>6
  <1> HIDE DEF holds
  <1>9. CASE \A i \in 1 .. N : ~Good(i)
    <2>1. holds = {}
      <3> SUFFICES ASSUME NEW k \in holds PROVE FALSE
        OBVIOUS
      <3>1. PICK i \in 1 .. N : ByRate[i] = results[k] /\ Cardinality(Slower(k)) = i - 1
        BY <1>3, <1>8, ByRateIs
      <3> QED BY <1>3, <1>7, <1>8, <1>9, <3>1, GoodHolds
    <2>2. Sustainable = None
      BY <1>3, <1>9, SustainableIs
    <2> QED BY <1>4, <1>5, <2>1, <2>2
  <1>10. CASE \E i \in 1 .. N : Good(i)
    <2>1. PICK m \in 1 .. N : /\ Good(m) /\ Sustainable = ByRate[m].rate
                              /\ \A i \in 1 .. N : Good(i) => i <= m
      BY <1>3, <1>10, SustainableIs
    <2>2. PICK k \in 1 .. N : ByRate[m] = results[k] /\ Cardinality(Slower(k)) = m - 1
      BY <1>3, ByRateIs
    <2>3. k \in holds /\ results[k].rate = summary.headline
      BY <1>3, <1>4, <1>7, <2>1, <2>2, GoodHolds
    <2>4. ASSUME NEW n \in holds PROVE results[n].rate <= results[k].rate
      <3>1. PICK i \in 1 .. N : ByRate[i] = results[n] /\ Cardinality(Slower(n)) = i - 1
        BY <1>3, <1>8, ByRateIs
      <3>2. Good(i)
        BY <1>3, <1>7, <1>8, <3>1, GoodHolds
      <3>3. ~(m - 1 < i - 1)
        BY <2>1, <3>2
      <3>4. ~(results[k].rate < results[n].rate)
        BY <1>3, <1>8, <2>2, <3>1, <3>3, SlowerOrder
      <3> QED BY <1>6, <1>8, <3>4
    <2> QED BY <1>5, <2>3, <2>4
  <1> QED BY <1>9, <1>10

(* A row of r runs from the i-th on is as long as r. *)
LEMMA RowLong ==
  ASSUME NEW i \in Nat, NEW r \in Nat \ {0}
  PROVE  /\ IsFiniteSet((i * r) + 1 .. (i * r) + r)
         /\ Cardinality((i * r) + 1 .. (i * r) + r) = r
  <1> DEFINE a == i * r
  <1>1. a \in Nat
    OBVIOUS
  <1> HIDE DEF a
  <1>2. a + 1 \in Int /\ a + r \in Int /\ ~(a + 1 > a + r) /\ (a + r) - (a + 1) + 1 = r
    BY <1>1
  <1>3. IsFiniteSet(a + 1 .. a + r) /\ Cardinality(a + 1 .. a + r) = r
    BY <1>2, FS_Interval
  <1> QED BY <1>3 DEF a

(* The runs of the i-th scenario are those from (i - 1) * Repeats + 1 on. *)
LEMMA RowOf ==
  ASSUME NEW i \in 1 .. Len(Scenarios), NEW k \in 1 .. ScenarioRuns + 2 * Repeats
  PROVE  Id(k)[1] = Scenarios[i]
           <=> k \in ((i - 1) * Repeats) + 1 .. ((i - 1) * Repeats) + Repeats
  <1> DEFINE a == (i - 1) * Repeats
  <1>1. /\ Len(Scenarios) \in Nat /\ Repeats \in Nat \ {0} /\ ScenarioRuns \in Nat
        /\ DOMAIN Scenarios = 1 .. Len(Scenarios)
    BY Parameters
  <1>2. a \in Nat /\ a + Repeats <= ScenarioRuns
    <2>1. (i - 1) * Repeats + Repeats = i * Repeats /\ i * Repeats <= Len(Scenarios) * Repeats
      <3>1. \A m, n, r \in Nat : m <= n => m * r <= n * r
        OBVIOUS
      <3>2. i \in Nat /\ Repeats \in Nat /\ i <= Len(Scenarios)
        BY <1>1
      <3>3. i * Repeats <= Len(Scenarios) * Repeats
        BY <1>1, <3>1, <3>2
      <3>4. (i - 1) * Repeats + Repeats = i * Repeats
        BY <3>2
      <3> QED BY <3>3, <3>4
    <2>2. a \in Nat
      BY <1>1
    <2> QED BY <1>1, <2>1, <2>2 DEF ScenarioRuns
  <1>3. CASE k \in 1 .. ScenarioRuns
    <2> DEFINE q == (k - 1) \div Repeats
               c == (k - 1) % Repeats
    <2>1. /\ q \in Nat /\ q + 1 \in 1 .. Len(Scenarios) /\ c \in 0 .. Repeats - 1
          /\ k - 1 = Repeats * q + c /\ Id(k)[1] = Scenarios[q + 1]
      BY <1>3, ScenarioAt, ScenarioId
    <2> HIDE DEF q, c
    <2>2. CASE q = i - 1
      <3>1. k - 1 = a + c
        BY <1>1, <2>1, <2>2
      <3>2. q + 1 = i
        BY <2>1, <2>2
      <3>3. Id(k)[1] = Scenarios[i]
        BY <2>1, <3>2
      <3> HIDE DEF a
      <3>4. k \in a + 1 .. a + Repeats
        BY <1>1, <1>2, <2>1, <3>1
      <3> QED BY <3>3, <3>4 DEF a
    <2>3. CASE q # i - 1
      <3>1. Scenarios[q + 1] # Scenarios[i]
        <4>1. q + 1 # i /\ q + 1 \in DOMAIN Scenarios /\ i \in DOMAIN Scenarios
          BY <1>1, <2>1, <2>3
        <4> QED BY <4>1, SuiteAssumption
      <3>2. CASE q < i - 1
        <4>1. Repeats * q + Repeats <= a
          <5>1. q + 1 <= i - 1 /\ q + 1 \in Nat /\ i - 1 \in Nat
            BY <2>1, <3>2
          <5>2. \A m, n, r \in Nat : m <= n => m * r <= n * r
            OBVIOUS
          <5>3. (q + 1) * Repeats <= (i - 1) * Repeats
            BY <1>1, <5>1, <5>2
          <5>4. (q + 1) * Repeats = Repeats * q + Repeats
            BY <1>1, <2>1
          <5> QED BY <5>3, <5>4
        <4>2. Repeats * q \in Nat
          BY <1>1, <2>1
        <4> HIDE DEF a
        <4>3. ~(k >= a + 1)
          BY <1>1, <1>2, <2>1, <4>1, <4>2
        <4> QED BY <1>1, <1>2, <2>1, <3>1, <4>3 DEF a
      <3>3. CASE q > i - 1
        <4>1. Repeats * q >= a + Repeats
          <5>1. i <= q /\ i \in Nat
            BY <2>1, <3>3
          <5>2. \A m, n, r \in Nat : m <= n => m * r <= n * r
            OBVIOUS
          <5>3. i * Repeats <= q * Repeats
            BY <1>1, <2>1, <5>1, <5>2
          <5>4. i * Repeats = a + Repeats
            BY <1>1, <5>1
          <5> QED BY <5>3, <5>4, <2>1, <1>1
        <4>2. Repeats * q \in Nat
          BY <1>1, <2>1
        <4> HIDE DEF a
        <4>3. ~(k <= a + Repeats)
          BY <1>1, <1>2, <2>1, <4>1, <4>2
        <4> QED BY <1>1, <1>2, <2>1, <3>1, <4>3 DEF a
      <3> QED BY <2>1, <2>3, <3>2, <3>3
    <2> QED BY <2>2, <2>3
  <1>4. CASE k \in ScenarioRuns + 1 .. ScenarioRuns + 2 * Repeats
    <2>1. Id(k)[1] # Scenarios[i]
      <3>1. Scenarios[i] \in ToSet(Scenarios)
        BY <1>1 DEF ToSet
      <3> QED BY <1>4, <3>1, ArmId, SuiteAssumption
    <2> HIDE DEF a
    <2>2. ~(k <= a + Repeats)
      BY <1>1, <1>2, <1>4
    <2> QED BY <1>1, <1>2, <2>1, <2>2 DEF a
  <1>5. k \in 1 .. ScenarioRuns \/ k \in ScenarioRuns + 1 .. ScenarioRuns + 2 * Repeats
    BY <1>1
  <1> QED BY <1>3, <1>4, <1>5

(* In a chaos suite that began without reports, what was measured is what  *)
(* there is a report of, and that report is one of a run of that name.     *)
LEMMA MeasuredIsReported ==
  ASSUME SuiteInv, Concluded
  PROVE  /\ suite = "chaos" /\ results \in Seq(Extracts)
         /\ Len(results) = ScenarioRuns + 2 * Repeats
         /\ DOMAIN results = 1 .. ScenarioRuns + 2 * Repeats
         /\ \A k \in DOMAIN results :
              /\ results[k].of = Id(k)[1]
              /\ results[k].measured <=> results[k].report # NoRun
              /\ results[k].measured <=> Quarantined(k) # None
              /\ results[k].measured => results[k].report.loss \in Nat
  <1>1. suite = "chaos" /\ pc = "ended" /\ scratch
    BY DEF Concluded
  <1>2. TypeOK /\ Progress /\ FollowsPlan /\ Fresh
    BY DEF SuiteInv
  <1>3. /\ Len(Plan) = ScenarioRuns + 2 * Repeats
        /\ \A k \in 1 .. Len(Plan) : Plan[k] = Id(k)
    BY <1>1, PlanIs
  <1>4. results \in Seq(Extracts) /\ Len(results) = Len(Plan)
    BY <1>1, <1>2 DEF TypeOK, Progress
  <1>5. DOMAIN results = 1 .. ScenarioRuns + 2 * Repeats
    BY <1>3, <1>4
  <1>6. ASSUME NEW k \in DOMAIN results
        PROVE  /\ results[k].of = Id(k)[1]
               /\ results[k].measured <=> results[k].report # NoRun
               /\ results[k].measured <=> Quarantined(k) # None
               /\ results[k].measured => results[k].report.loss \in Nat
    <2>1. /\ results[k].of = Plan[k][1]
          /\ results[k].report \in Reports(Plan[k]) \cup {NoRun}
          /\ results[k].measured => results[k].report # NoRun
      BY <1>1, <1>2 DEF FollowsPlan
    <2>2. results[k].report # NoRun => results[k].measured
      BY <1>1, <1>2 DEF Fresh
    <2>3. results[k].report # NoRun => /\ Quarantined(k) \in Nat
                                       /\ results[k].report.loss \in Nat
      BY <1>1, <2>1, ReportsReal DEF Quarantined
    <2>4. results[k].report = NoRun => Quarantined(k) = None
      BY DEF Quarantined, NoRun
    <2>5. \A n \in Nat : n # None
      BY DEF None
    <2>6. results[k].of = Id(k)[1]
      BY <1>3, <1>5, <2>1
    <2> QED BY <2>1, <2>2, <2>3, <2>4, <2>5, <2>6
  <1> QED BY <1>1, <1>3, <1>4, <1>5, <1>6

LEMMA RecoveryHolds == SuiteInv => RecoveryIsMeasured
  <1> SUFFICES ASSUME SuiteInv, Concluded, NEW s \in summary.recovered
               PROVE  /\ Cardinality(RunsOf(s)) = Repeats
                      /\ \A k \in RunsOf(s) :
                           /\ results[k].measured /\ results[k].report.recovered = "yes"
                           /\ s \in summary.lossless => results[k].report.loss = 0
    BY DEF RecoveryIsMeasured
  <1>1. /\ DOMAIN results = 1 .. ScenarioRuns + 2 * Repeats
        /\ \A k \in DOMAIN results :
              /\ results[k].of = Id(k)[1]
              /\ results[k].measured <=> results[k].report # NoRun
              /\ results[k].measured => results[k].report.loss \in Nat
    BY MeasuredIsReported
  <1>2. /\ s \in ToSet(Scenarios) /\ AllRecovered(s)
        /\ s \in summary.lossless => ZeroLoss(s)
    BY DEF SuiteInv, Drawn, Concluded
  <1>3. PICK i \in 1 .. Len(Scenarios) : s = Scenarios[i]
    BY <1>2, Parameters DEF ToSet
  <1> DEFINE a == (i - 1) * Repeats
             row == (a + 1) .. (a + Repeats)
  <1>4. row \subseteq 1 .. ScenarioRuns + 2 * Repeats
    <2>1. /\ Len(Scenarios) \in Nat /\ Repeats \in Nat \ {0} /\ i \in Nat
          /\ i <= Len(Scenarios) /\ i - 1 \in Nat
      BY Parameters
    <2>2. \A m, n, r \in Nat : m <= n => m * r <= n * r
      OBVIOUS
    <2>3. i * Repeats <= Len(Scenarios) * Repeats
      BY <2>1, <2>2
    <2>4. (i - 1) * Repeats + Repeats = i * Repeats
      BY <2>1
    <2>5. a \in Nat
      BY <2>1
    <2>6. a + Repeats <= ScenarioRuns /\ ScenarioRuns \in Nat
      BY <2>3, <2>4, Parameters DEF ScenarioRuns
    <2> HIDE DEF a
    <2> QED BY <2>1, <2>5, <2>6
  <1>5. \A k \in 1 .. ScenarioRuns + 2 * Repeats : Id(k)[1] = s <=> k \in row
    BY <1>3, RowOf
  <1>6. IsFiniteSet(row) /\ Cardinality(row) = Repeats
    <2>1. i - 1 \in Nat /\ Repeats \in Nat \ {0}
      BY Parameters
    <2> QED BY <2>1, RowLong
  <1> HIDE DEF row
  <1>7. RunsOf(s) = row
    BY <1>1, <1>4, <1>5 DEF RunsOf
  <1>8. ASSUME NEW k \in RunsOf(s)
        PROVE  /\ results[k].measured /\ results[k].report.recovered = "yes"
               /\ s \in summary.lossless => results[k].report.loss = 0
    <2>1. results[k].report.recovered = "yes" /\ k \in DOMAIN results
      BY <1>2 DEF AllRecovered, RunsOf
    <2>2. results[k].report # NoRun
      BY <2>1 DEF NoRun
    <2>3. results[k].measured /\ results[k].report.loss \in Nat
      BY <1>1, <2>1, <2>2
    <2>4. s \in summary.lossless => results[k].report.loss <= 0
      BY <1>2 DEF ZeroLoss
    <2> QED BY <2>1, <2>3, <2>4
  <1> QED BY <1>6, <1>7, <1>8

LEMMA ReductionHolds == SuiteInv => ReductionHasBothArms
  <1> DEFINE known(arm) == {k \in RunsOf(arm) : results[k].measured}
             worst(arm) == {Quarantined(k) : k \in known(arm)}
  <1> SUFFICES ASSUME SuiteInv, Concluded, summary.reduction.known
               PROVE  /\ known("with_backoff") # {} /\ known("no_backoff") # {}
                      /\ \E q \in worst("no_backoff") : q > 0
                      /\ (\A q \in worst("with_backoff"), r \in worst("no_backoff") : q >= r)
                           => summary.reduction.pct <= 0
    BY DEF ReductionHasBothArms
  <1>1. /\ results \in Seq(Extracts)
        /\ \A k \in DOMAIN results : results[k].measured <=> Quarantined(k) # None
    BY MeasuredIsReported
  <1>2. summary.reduction = Reduction
    BY DEF SuiteInv, Drawn, Concluded
  <1>3. \A arm : known(arm) = Known(arm)
    BY <1>1 DEF Known, RunsOf
  <1>4. /\ Known("with_backoff") # {} /\ Known("no_backoff") # {}
        /\ \E n \in Known("no_backoff") : Quarantined(n) > 0
        /\ (\A k \in Known("with_backoff"), n \in Known("no_backoff") :
              Quarantined(k) >= Quarantined(n)) => Reduction.pct <= 0
    BY <1>1, <1>2, ReductionIs
  <1>5. \A arm : \A k \in Known(arm) : Quarantined(k) \in worst(arm)
    BY <1>3
  <1>6. known("with_backoff") = Known("with_backoff") /\ known("no_backoff") = Known("no_backoff")
    BY <1>3
  <1> HIDE DEF known, worst
  <1> QED BY <1>2, <1>4, <1>5, <1>6

(* The rate a sweep reports is the highest it ran such that it and every   *)
(* lower one were sustained, whatever the rates, their order and the       *)
(* failures to stop after are (throughput_sweep.py: main).                 *)
THEOREM SuiteSweepHeadline == Spec => []SweepHeadline
  <1> QED BY SuiteInvariant, HeadlineHolds, PTL

(* Whatever the scenarios and the number of repeats, a suite that began    *)
(* without reports says of a scenario that it always recovered only if all *)
(* its repeats wrote reports that say so (chaos_suite.py: main).           *)
THEOREM SuiteRecoveryMeasured == Spec => []RecoveryIsMeasured
  <1> QED BY SuiteInvariant, RecoveryHolds, PTL

(* Whatever the numbers quarantined, such a suite reports a reduction only *)
(* of two measured arms, and none of an arm that is nowhere better         *)
(* (chaos_suite.py: main).                                                 *)
THEOREM SuiteReductionBothArms == Spec => []ReductionHasBothArms
  <1> QED BY SuiteInvariant, ReductionHolds, PTL
=============================================================================
