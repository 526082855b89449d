--------------------------- MODULE Induction_proofs ---------------------------
(***************************************************************************)
(* Induction over the natural numbers as facts about sets of numbers, for  *)
(* the proofs of the other modules: a theorem about a set can be cited     *)
(* where one about a predicate cannot be instantiated.                     *)
(***************************************************************************)
EXTENDS Integers, FiniteSets, FiniteSetTheorems, TLAPS

\* A non-empty set of naturals has a least element: the sets 1..n are finite,
\* and strict inclusion of finite sets is well-founded.
LEMMA LeastNatural ==
  ASSUME NEW T \in SUBSET Nat, T # {}
  PROVE  \E n \in T : \A m \in T : n <= m
<1> DEFINE I == {1..n : n \in T}
<1>1. I # {}
  OBVIOUS
<1>2. \A n \in T : IsFiniteSet(1..n) /\ 1..n \in SUBSET Nat
  BY FS_Interval
<1>3. I \subseteq FiniteSubsetsOf(Nat)
  BY <1>2 DEF FiniteSubsetsOf
<1>4. \A m \in T : 1..m \in I /\ (1..m) \in SUBSET Nat
  BY <1>2
<1>5. \A x \in I : \E n \in T : x = 1..n
  OBVIOUS
<1> HIDE DEF I
<1>6. \E x \in I : \A y \in I : ~ (<<y, x>> \in StrictSubsetOrdering(Nat))
  BY <1>1, <1>3, WFMin, FS_StrictSubsetOrderingWellFounded
<1>7. PICK n \in T : \A y \in I : ~ (<<y, 1..n>> \in StrictSubsetOrdering(Nat))
  BY <1>5, <1>6
<1>8. \A m \in T : ~(1..m \subseteq 1..n /\ 1..m # 1..n)
  BY <1>4, <1>7 DEF StrictSubsetOrdering
<1>9. ASSUME NEW m \in T, m < n PROVE FALSE
  <2>1. 1..m \subseteq 1..n /\ n \in 1..n /\ n \notin 1..m
    BY <1>9
  <2> QED BY <2>1, <1>8
<1> QED BY <1>9

\* A non-empty bounded set of naturals has a greatest element.
LEMMA GreatestNatural ==
  ASSUME NEW T \in SUBSET Nat, T # {}, NEW b \in Nat, \A n \in T : n <= b
  PROVE  \E n \in T : \A m \in T : m <= n
<1> DEFINE D == {b - n : n \in T}
<1>1. D \in SUBSET Nat /\ D # {}
  <2>1. \A n \in T : b - n \in Nat
    OBVIOUS
  <2>2. \A d \in D : d \in Nat
    BY <2>1
  <2> QED BY <2>2
<1>2. \A m \in T : b - m \in D
  OBVIOUS
<1>3. \A d \in D : \E n \in T : d = b - n
  OBVIOUS
<1> HIDE DEF D
<1>4. PICK d \in D : \A e \in D : d <= e
  BY <1>1, LeastNatural
<1>5. PICK n \in T : d = b - n
  BY <1>3
<1> QED BY <1>2, <1>4, <1>5

\* Induction: a set that holds 0 and with every number the next one.
LEMMA NatSetInduction ==
  ASSUME NEW P \in SUBSET Nat, 0 \in P, \A n \in P : n + 1 \in P
  PROVE  P = Nat
<1> SUFFICES ASSUME Nat \ P # {} PROVE FALSE
  OBVIOUS
<1>1. PICK n \in Nat \ P : \A m \in Nat \ P : n <= m
  BY LeastNatural
<1>2. n - 1 \in P
  BY <1>1
<1>3. (n - 1) + 1 \in P
  BY <1>2
<1> QED BY <1>1, <1>3

(***************************************************************************)
(* Passes over a sequence: functions that are computed step by step        *)
(***************************************************************************)
\* The values a pass takes on from base when step[i] is applied at position i.
StepMaps(S, n) == [1..n -> [S -> S]]
PassMaps(S, n, base, step) ==
  {g \in [0..n -> S] : g[0] = base /\ \A i \in 1..n : g[i] = step[i][g[i - 1]]}

\* What is computed step by step from a first value exists for every number of
\* steps.
LEMMA PassExists ==
  ASSUME NEW S, NEW n \in Nat, NEW base \in S, NEW step \in StepMaps(S, n)
  PROVE  \E g : g \in PassMaps(S, n, base, step)
<1> USE DEF StepMaps
<1> DEFINE Upto(m) == {g \in [0..m -> S] :
                         g[0] = base /\ \A i \in 1..m : g[i] = step[i][g[i - 1]]}
           P == {m \in Nat : m <= n => \E g : g \in Upto(m)}
<1>1. 0 \in P
  <2>1. [i \in 0..0 |-> base] \in Upto(0)
    OBVIOUS
  <2> QED BY <2>1
<1>2. ASSUME NEW m \in P PROVE m + 1 \in P
  <2> SUFFICES ASSUME m + 1 <= n PROVE \E g : g \in Upto(m + 1)
    <3>1. m + 1 \in Nat
      OBVIOUS
    <3> HIDE DEF Upto
    <3> QED BY <3>1
  <2>1. PICK g \in Upto(m) : TRUE
    OBVIOUS
  <2>2. /\ g \in [0..m -> S] /\ g[0] = base
        /\ \A i \in 1..m : g[i] = step[i][g[i - 1]]
    BY <2>1
  <2>3. m \in Nat /\ m + 1 \in 1..n /\ g[m] \in S
    BY <2>2
  <2>4. step[m + 1] \in [S -> S] /\ step[m + 1][g[m]] \in S
    BY <2>3
  <2> DEFINE h == [i \in 0..(m + 1) |-> IF i <= m THEN g[i] ELSE step[m + 1][g[m]]]
  <2>5. h \in [0..(m + 1) -> S] /\ h[0] = base
    BY <2>2, <2>3, <2>4
  <2>6. h[m + 1] = step[m + 1][g[m]] /\ \A i \in 0..m : h[i] = g[i]
    BY <2>3
  <2> HIDE DEF h
  <2>7. \A i \in 1..(m + 1) : h[i] = step[i][h[i - 1]]
    <3> TAKE i \in 1..(m + 1)
    <3>1. CASE i = m + 1
      <4>1. i - 1 = m /\ m \in 0..m
        BY <3>1, <2>3
      <4> QED BY <4>1, <3>1, <2>6
    <3>2. CASE i # m + 1
      <4>1. i \in 1..m /\ i \in 0..m /\ i - 1 \in 0..m
        BY <3>2, <2>3
      <4> QED BY <4>1, <2>2, <2>6
    <3> QED BY <3>1, <3>2
  <2>8. h \in Upto(m + 1)
    BY <2>5, <2>7
  <2> QED BY <2>8
<1> HIDE DEF P
<1>3. P = Nat
  <2>1. P \in SUBSET Nat
    BY DEF P
  <2> QED BY <1>1, <1>2, <2>1, NatSetInduction
<1>4. \E g : g \in Upto(n)
  <2> HIDE DEF Upto
  <2>1. n \in P
    BY <1>3
  <2> QED BY <2>1 DEF P
<1> QED BY <1>4 DEF PassMaps

\* What holds at 0 and is kept by every step up to n holds up to n.
LEMMA HoldsUpTo ==
  ASSUME NEW n \in Nat, NEW P \in SUBSET Nat, 0 \in P,
         \A i \in 1..n : i - 1 \in P => i \in P
  PROVE  \A i \in 0..n : i \in P
<1> DEFINE Q == {m \in Nat : m <= n => m \in P}
<1>1. 0 \in Q
  OBVIOUS
<1>2. ASSUME NEW m \in Q PROVE m + 1 \in Q
  <2> SUFFICES ASSUME m + 1 <= n PROVE m + 1 \in P
    OBVIOUS
  <2>1. m + 1 \in 1..n /\ (m + 1) - 1 = m /\ m \in P
    OBVIOUS
  <2> QED BY <2>1
<1> HIDE DEF Q
<1>3. Q = Nat
  <2>1. Q \in SUBSET Nat
    BY DEF Q
  <2> QED BY <1>1, <1>2, <2>1, NatSetInduction
<1> QED BY <1>3 DEF Q
===============================================================================
