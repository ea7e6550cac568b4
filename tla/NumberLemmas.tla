----------------------------- MODULE NumberLemmas -----------------------------
(* Least and largest numbers of sets, without induction: finite sets are     *)
(* well-founded under inclusion, and a number is as good as the interval     *)
(* that it ends.                                                             *)
EXTENDS Integers, FiniteSetsExt, FiniteSetTheorems, TLAPS

(* A set of natural numbers has a least one.                                 *)
LEMMA LeastNumber ==
    ASSUME NEW T, T \subseteq Nat, T # {}
    PROVE  \E x \in T : \A y \in T : x <= y
<1> DEFINE Intervals == {0 .. x : x \in T}
<1>1. Intervals \subseteq FiniteSubsetsOf(Nat) /\ Intervals # {}
  <2>1. ASSUME NEW x \in T PROVE 0 .. x \in FiniteSubsetsOf(Nat)
    BY FS_Interval DEF FiniteSubsetsOf
  <2> QED BY <2>1
<1>2. PICK s \in Intervals : \A t \in Intervals : <<t, s>> \notin StrictSubsetOrdering(Nat)
  <2>1. IsWellFoundedOn(StrictSubsetOrdering(Nat), FiniteSubsetsOf(Nat))
    BY FS_StrictSubsetOrderingWellFounded
  <2> HIDE DEF Intervals
  <2> QED BY <1>1, <2>1, WFMin
<1>3. PICK x \in T : s = 0 .. x
  OBVIOUS
<1>4. ASSUME NEW y \in T, y < x PROVE FALSE
  <2>1. 0 .. y \in Intervals
    OBVIOUS
  <2>2. /\ 0 .. y \subseteq 0 .. x /\ x \in 0 .. x /\ x \notin 0 .. y
        /\ 0 .. y \subseteq Nat /\ 0 .. x \subseteq Nat
    BY <1>4
  <2>3. <<0 .. y, 0 .. x>> \in StrictSubsetOrdering(Nat)
    BY <2>2 DEF StrictSubsetOrdering
  <2> QED BY <1>2, <1>3, <2>1, <2>3
<1> QED BY <1>4

(* A set of natural numbers with a bound has a largest one.                  *)
LEMMA LargestNumber ==
    ASSUME NEW T, T \subseteq Nat, T # {}, NEW n \in Nat, \A x \in T : x <= n
    PROVE  \E x \in T : \A y \in T : y <= x
<1> DEFINE Gaps == {n - x : x \in T}
<1>1. Gaps \subseteq Nat /\ Gaps # {}
  <2>1. ASSUME NEW x \in T PROVE n - x \in Nat
    OBVIOUS
  <2> QED BY <2>1
<1>2. PICK g \in Gaps : \A h \in Gaps : g <= h
  <2> HIDE DEF Gaps
  <2> QED BY <1>1, LeastNumber
<1>3. PICK x \in T : g = n - x
  OBVIOUS
<1>4. ASSUME NEW y \in T PROVE y <= x
  <2>1. n - y \in Gaps
    OBVIOUS
  <2>2. n - x <= n - y
    <3> HIDE DEF Gaps
    <3> QED BY <1>2, <1>3, <2>1
  <2> QED BY <2>2
<1> QED BY <1>4

(* Of bad parts of a finite set one has no other bad one within it.          *)
LEMMA MinimalSet ==
    ASSUME NEW S, IsFiniteSet(S), NEW Bad, Bad \subseteq SUBSET S, Bad # {}
    PROVE  \E T \in Bad : \A U \in SUBSET T : U # T => U \notin Bad
<1>1. Bad \subseteq FiniteSubsetsOf(S)
  BY FS_Subset DEF FiniteSubsetsOf
<1>2. PICK T \in Bad : \A U \in Bad : <<U, T>> \notin StrictSubsetOrdering(S)
  <2>1. IsWellFoundedOn(StrictSubsetOrdering(S), FiniteSubsetsOf(S))
    BY FS_StrictSubsetOrderingWellFounded
  <2> QED BY <1>1, <2>1, WFMin
<1>3. ASSUME NEW U \in SUBSET T, U # T, U \in Bad PROVE FALSE
  BY <1>2, <1>3 DEF StrictSubsetOrdering
<1> QED BY <1>3

-----------------------------------------------------------------------------
(* Sums are folds over sets, which are recursive functions: that there are   *)
(* such functions, and that they return numbers, has to be shown first.      *)
Pick(s) == CHOOSE x \in s : TRUE

AddNext(fun, sum, s) == IF s = {} THEN 0 ELSE fun[Pick(s)] + sum[s \ {Pick(s)}]

AddsUp(fun, sum, S) == sum = [s \in SUBSET S |-> AddNext(fun, sum, s)]

LEMMA PickIs ==
    ASSUME NEW s, s # {}
    PROVE  Pick(s) \in s /\ s \ {Pick(s)} \in SUBSET s /\ s \ {Pick(s)} # s
<1>1. Pick(s) \in s
  BY DEF Pick
<1> QED BY <1>1

LEMMA AddsUpAgree ==
    ASSUME NEW fun, NEW S, IsFiniteSet(S), NEW T \in SUBSET S, NEW U \in SUBSET S,
           NEW g, AddsUp(fun, g, T), NEW h, AddsUp(fun, h, U),
           NEW V \in SUBSET (T \cap U)
    PROVE  g[V] = h[V]
<1> DEFINE Bad == {W \in SUBSET (T \cap U) : g[W] # h[W]}
<1>1. SUFFICES Bad = {}
  BY <1>1
<1>2. ASSUME Bad # {} PROVE FALSE
  <2>1. PICK W \in Bad : \A X \in SUBSET W : X # W => X \notin Bad
    <3>1. Bad \subseteq SUBSET S
      OBVIOUS
    <3> HIDE DEF Bad
    <3> QED BY <1>2, <3>1, MinimalSet
  <2>2. g[W] = AddNext(fun, g, W) /\ h[W] = AddNext(fun, h, W)
    BY DEF AddsUp
  <2>3. W # {} => g[W \ {Pick(W)}] = h[W \ {Pick(W)}]
    BY <2>1, PickIs
  <2> QED BY <2>2, <2>3 DEF AddNext
<1> QED BY <1>2

LEMMA AddsUpExists ==
    ASSUME NEW fun, NEW S, IsFiniteSet(S)
    PROVE  \E g : AddsUp(fun, g, S)
<1> DEFINE Bad == {T \in SUBSET S : ~ \E g : AddsUp(fun, g, T)}
<1>1. SUFFICES Bad = {}
  BY <1>1
<1>2. ASSUME Bad # {} PROVE FALSE
  <2>1. PICK T \in Bad : \A U \in SUBSET T : U # T => U \notin Bad
    <3>1. Bad \subseteq SUBSET S
      OBVIOUS
    <3> HIDE DEF Bad
    <3> QED BY <1>2, <3>1, MinimalSet
  <2> DEFINE Sum(U) == CHOOSE g : AddsUp(fun, g, U)
             Value(U) == Sum(U)[U]
             h == [s \in SUBSET T |->
                     IF s = {} THEN 0 ELSE fun[Pick(s)] + Value(s \ {Pick(s)})]
  <2>2. ASSUME NEW U \in SUBSET T, U # T PROVE AddsUp(fun, Sum(U), U)
    <3>1. \E g : AddsUp(fun, g, U)
      BY <2>1, <2>2
    <3> QED BY <3>1
  <2> HIDE DEF Sum
  <2>3. ASSUME NEW U \in SUBSET T, U # T PROVE h[U] = Value(U)
    <3>1. Value(U) = AddNext(fun, Sum(U), U)
      BY <2>2, <2>3 DEF AddsUp
    <3>2. U # {} => Sum(U)[U \ {Pick(U)}] = Value(U \ {Pick(U)})
      <4> SUFFICES ASSUME U # {} PROVE Sum(U)[U \ {Pick(U)}] = Value(U \ {Pick(U)})
        OBVIOUS
      <4> DEFINE V == U \ {Pick(U)}
      <4>1. V \in SUBSET U /\ V \in SUBSET T /\ V # T
        BY <2>3, PickIs
      <4> HIDE DEF V
      <4>2. AddsUp(fun, Sum(U), U) /\ AddsUp(fun, Sum(V), V)
        BY <2>2, <2>3, <4>1
      <4>3. V \in SUBSET S /\ U \in SUBSET S /\ V \in SUBSET (U \cap V)
        BY <4>1
      <4> QED BY <4>2, <4>3, AddsUpAgree DEF V
    <3> QED BY <3>1, <3>2 DEF AddNext
  <2>4. ASSUME NEW s \in SUBSET T PROVE h[s] = AddNext(fun, h, s)
    <3>1. CASE s = {}
      BY <3>1 DEF AddNext
    <3>2. CASE s # {}
      <4>1. s \ {Pick(s)} \in SUBSET T /\ s \ {Pick(s)} # T
        BY <3>2, PickIs
      <4>2. h[s \ {Pick(s)}] = Value(s \ {Pick(s)})
        BY <2>3, <4>1
      <4>3. h[s] = fun[Pick(s)] + Value(s \ {Pick(s)})
        BY <3>2
      <4> HIDE DEF h, Value
      <4> QED BY <3>2, <4>2, <4>3 DEF AddNext
    <3> QED BY <3>1, <3>2
  <2>5. AddsUp(fun, h, T)
    <3>1. h = [s \in SUBSET T |-> h[s]]
      OBVIOUS
    <3> HIDE DEF h
    <3> QED BY <2>4, <3>1 DEF AddsUp
  <2> QED BY <2>5
<1> QED BY <1>2

(* A sum of natural numbers is one.                                          *)
LEMMA SumIsNatural ==
    ASSUME NEW S, IsFiniteSet(S), NEW fun, \A x \in S : fun[x] \in Nat
    PROVE  SumFunctionOnSet(fun, S) \in Nat
<1> DEFINE sum == CHOOSE g : AddsUp(fun, g, S)
<1>1. AddsUp(fun, sum, S)
  BY AddsUpExists
<1>2. SumFunctionOnSet(fun, S) = sum[S]
  BY DEF SumFunctionOnSet, FoldFunctionOnSet, MapThenFoldSet, AddsUp, AddNext, Pick
<1> HIDE DEF sum
<1> DEFINE Bad == {T \in SUBSET S : sum[T] \notin Nat}
<1>3. ASSUME Bad # {} PROVE FALSE
  <2>1. PICK T \in Bad : \A U \in SUBSET T : U # T => U \notin Bad
    <3>1. Bad \subseteq SUBSET S
      OBVIOUS
    <3> HIDE DEF Bad
    <3> QED BY <1>3, <3>1, MinimalSet
  <2>2. sum[T] = AddNext(fun, sum, T)
    BY <1>1 DEF AddsUp
  <2>3. T # {} => Pick(T) \in S /\ sum[T \ {Pick(T)}] \in Nat
    BY <2>1, PickIs
  <2> QED BY <2>2, <2>3 DEF AddNext
<1> QED BY <1>2, <1>3
-----------------------------------------------------------------------------
(* Folds over sequences take the indexes from the last one down: every set   *)
(* of indexes is what is left of it without its last, and that one.          *)
LEMMA MaxIs ==
    ASSUME NEW n \in Nat, NEW s \in SUBSET (1..n), s # {}
    PROVE  /\ Max(s) \in s /\ \A x \in s : x <= Max(s)
           /\ s \ {Max(s)} \in SUBSET s /\ s \ {Max(s)} # s
<1>0. s \subseteq Nat /\ \A x \in s : x <= n
  OBVIOUS
<1>1. \E x \in s : \A y \in s : x >= y
  <2>1. \E x \in s : \A y \in s : y <= x
    BY <1>0, LargestNumber
  <2> QED BY <1>0, <2>1
<1>2. Max(s) \in s /\ \A y \in s : Max(s) >= y
  BY <1>1 DEF Max
<1> QED BY <1>2

(* What holds of no index, and of more indexes when of the ones before the   *)
(* last, holds of all.                                                       *)
LEMMA IndexInduction ==
    ASSUME NEW n \in Nat, NEW Good, {} \in Good,
           \A s \in SUBSET (1..n) : s # {} /\ s \ {Max(s)} \in Good => s \in Good
    PROVE  SUBSET (1..n) \subseteq Good
<1> DEFINE Bad == {s \in SUBSET (1..n) : s \notin Good}
<1>1. ASSUME Bad # {} PROVE FALSE
  <2>1. IsFiniteSet(1..n) /\ Bad \subseteq SUBSET (1..n)
    BY FS_Interval
  <2>2. PICK T \in Bad : \A U \in SUBSET T : U # T => U \notin Bad
    <3> DEFINE N == 1..n
    <3> HIDE DEF Bad
    <3>1. IsFiniteSet(N) /\ Bad \subseteq SUBSET N
      BY <2>1
    <3> HIDE DEF N
    <3> QED BY <1>1, <3>1, MinimalSet
  <2>3. T # {}
    OBVIOUS
  <2>4. T \ {Max(T)} \in SUBSET T /\ T \ {Max(T)} # T
    BY <2>3, MaxIs
  <2>5. T \ {Max(T)} \in Good
    BY <2>2, <2>4
  <2> QED BY <2>3, <2>5
<1> QED BY <1>1

Folded(step, base, g, S) ==
    g = [s \in SUBSET S |-> IF s = {} THEN base ELSE step[<<Max(s), g[s \ {Max(s)}]>>]]

(* There are folds: from that of all indexes but the last one to that of all. *)
LEMMA FoldExists ==
    ASSUME NEW n \in Nat, NEW V, NEW base \in V, NEW step \in [(1..n) \X V -> V]
    PROVE  \E g \in [SUBSET (1..n) -> V] : Folded(step, base, g, 1..n)
<1> DEFINE S == 1..n
           Good == {T \in SUBSET S : \E g \in [SUBSET T -> V] : Folded(step, base, g, T)}
<1>1. {} \in Good
  <2> DEFINE g == [s \in SUBSET {} |-> base]
  <2>1. g \in [SUBSET {} -> V] /\ Folded(step, base, g, {})
    BY DEF Folded
  <2> HIDE DEF g
  <2> QED BY <2>1
<1>2. ASSUME NEW T \in SUBSET S, T # {}, T \ {Max(T)} \in Good PROVE T \in Good
  <2> DEFINE m == Max(T)
             U == T \ {m}
  <2>1. m \in T /\ m \in S /\ \A x \in T : x <= m
    BY <1>2, MaxIs
  <2> HIDE DEF m
  <2>2. PICK g \in [SUBSET U -> V] : Folded(step, base, g, U)
    BY <1>2 DEF m
  <2> DEFINE h == [s \in SUBSET T |-> IF m \in s THEN step[<<m, g[s \ {m}]>>] ELSE g[s]]
  <2>3. h \in [SUBSET T -> V]
    <3>1. ASSUME NEW s \in SUBSET T, m \in s PROVE step[<<m, g[s \ {m}]>>] \in V
      <4>1. s \ {m} \in SUBSET U
        OBVIOUS
      <4>2. g[s \ {m}] \in V
        BY <4>1
      <4> HIDE DEF U, S
      <4> QED BY <2>1, <4>2 DEF S
    <3>2. ASSUME NEW s \in SUBSET T, m \notin s PROVE g[s] \in V
      <4>1. s \in SUBSET U
        BY <3>2
      <4> QED BY <4>1
    <3> QED BY <3>1, <3>2
  <2>4. ASSUME NEW s \in SUBSET T
        PROVE  h[s] = IF s = {} THEN base ELSE step[<<Max(s), h[s \ {Max(s)}]>>]
    <3>0. s # {} => /\ Max(s) \in s /\ \A x \in s : x <= Max(s)
                    /\ s \ {Max(s)} \in SUBSET T
      BY MaxIs
    <3>1. CASE m \in s
      <4>1. s # {}
        BY <3>1
      <4>2. Max(s) \in s /\ m <= Max(s) /\ Max(s) <= m
        BY <2>1, <3>0, <3>1
      <4>3. Max(s) = m
        <5>1. T \subseteq Nat
          OBVIOUS
        <5>2. Max(s) \in Nat /\ m \in Nat
          <6> HIDE DEF h
          <6> QED BY <2>1, <4>2, <5>1
        <5> HIDE DEF h
        <5> QED BY <4>2, <5>2
      <4>4. s \ {m} \in SUBSET T /\ m \notin s \ {m}
        OBVIOUS
      <4>5. h[s] = step[<<m, g[s \ {m}]>>] /\ h[s \ {m}] = g[s \ {m}]
        BY <3>1, <4>4
      <4> HIDE DEF h
      <4> QED BY <4>1, <4>3, <4>5
    <3>2. CASE m \notin s
      <4>1. s \in SUBSET U
        BY <3>2
      <4>2. g[s] = IF s = {} THEN base ELSE step[<<Max(s), g[s \ {Max(s)}]>>]
        BY <2>2, <4>1 DEF Folded
      <4>3. h[s] = g[s]
        BY <3>2
      <4>4. s # {} => h[s \ {Max(s)}] = g[s \ {Max(s)}]
        BY <3>0, <3>2
      <4> HIDE DEF h
      <4> QED BY <4>2, <4>3, <4>4
    <3> QED BY <3>1, <3>2
  <2>5. Folded(step, base, h, T)
    <3>1. h = [s \in SUBSET T |-> h[s]]
      OBVIOUS
    <3> HIDE DEF h
    <3> QED BY <2>4, <3>1 DEF Folded
  <2> HIDE DEF h
  <2> QED BY <2>3, <2>5
<1>3. SUBSET S \subseteq Good
  <2> HIDE DEF Good
  <2> QED BY <1>1, <1>2, IndexInduction
<1>4. S \in Good
  BY <1>3
<1> QED BY <1>4

==============================================================================
