-------------------------------- MODULE SetSums -------------------------------
(***************************************************************************)
(* Induction over the subsets of a finite set, and with it the facts about *)
(* MapThenSumSet that the proofs about costs and counts need. The library  *)
(* states its induction theorems for an operator; here the property is a   *)
(* set of sets.                                                            *)
(***************************************************************************)
EXTENDS Integers, FiniteSetsExt, FiniteSetTheorems, TLAPS

\* A set of subsets of S which contains a set as soon as it contains it less any one
\* element contains them all.
THEOREM SubsetInduction ==
  ASSUME NEW S, IsFiniteSet(S), NEW Q,
         \A T \in SUBSET S : (\A x \in T : T \ {x} \in Q) => T \in Q
  PROVE  SUBSET S \subseteq Q
<1> DEFINE Bad == (SUBSET S) \ Q
           R == StrictSubsetOrdering(S)
<1>1. IsWellFoundedOn(R, SUBSET S)
  BY FS_StrictSubsetOrderingWellFounded, FS_FiniteSubsetsOfFinite
<1>2. SUFFICES ASSUME Bad # {} PROVE FALSE
  OBVIOUS
<1>a. Bad \subseteq SUBSET S
  OBVIOUS
<1>b. \A T \in Bad : \E x \in T : T \ {x} \notin Q
  <2> TAKE T \in Bad
  <2>1. T \in SUBSET S /\ T \notin Q
    OBVIOUS
  <2>2. ~ \A x \in T : T \ {x} \in Q
    BY <2>1
  <2> QED BY <2>2
<1> HIDE DEF R
<1>3. PICK T \in Bad : \A U \in Bad : ~(<<U, T>> \in R)
  <2> HIDE DEF Bad
  <2> QED BY <1>1, <1>2, <1>a, WFMin
<1>4. PICK x \in T : T \ {x} \notin Q
  BY <1>b
<1>5. T \ {x} \in Bad
  BY <1>3, <1>4
<1>6. <<T \ {x}, T>> \in R
  BY <1>3, <1>4 DEF R, StrictSubsetOrdering
<1> QED BY <1>3, <1>5, <1>6

\* The recursion behind MapThenSumSet, on the subsets of T.
One(s) == CHOOSE x \in s : TRUE
Tail(s) == s \ {One(s)}
Plus(f, g, s) == IF s = {} THEN 0 ELSE f[One(s)] + g[Tail(s)]
Sums(f, T, g) == g = [s \in SUBSET T |-> Plus(f, g, s)]
SumOver(f, S) == MapThenSumSet(LAMBDA a : f[a], S)

LEMMA OneInside == \A s : s # {} => One(s) \in s /\ Tail(s) \subseteq s
  BY DEF One, Tail

LEMMA SumsValue == \A f, T, g : Sums(f, T, g) => \A s \in SUBSET T : g[s] = Plus(f, g, s)
  BY DEF Sums

\* Two of them agree wherever both are defined.
LEMMA SumsAgree ==
  ASSUME NEW S, IsFiniteSet(S), NEW f, NEW T \in SUBSET S, NEW U \in SUBSET S, NEW g, NEW h,
         Sums(f, T, g), Sums(f, U, h)
  PROVE  \A s \in SUBSET (T \cap U) : g[s] = h[s]
<1> DEFINE Q == {s \in SUBSET S : s \subseteq T \cap U => g[s] = h[s]}
<1>1. ASSUME NEW s \in SUBSET S, \A x \in s : s \ {x} \in Q
      PROVE  s \in Q
  <2> SUFFICES ASSUME s \subseteq T \cap U PROVE g[s] = h[s]
    OBVIOUS
  <2>1. g[s] = Plus(f, g, s) /\ h[s] = Plus(f, h, s)
    BY SumsValue
  <2>2. CASE s = {}
    BY <2>1, <2>2 DEF Plus
  <2>3. CASE s # {}
    <3>1. Tail(s) \in Q /\ Tail(s) \subseteq T \cap U
      BY <1>1, <2>3, OneInside DEF Tail
    <3> QED BY <2>1, <2>3, <3>1 DEF Plus
  <2> QED BY <2>2, <2>3
<1>2. SUBSET S \subseteq Q
  <2> HIDE DEF Q
  <2> QED BY <1>1, SubsetInduction
<1> QED BY <1>2

\* One exists.
LEMMA SumsExist ==
  ASSUME NEW S, IsFiniteSet(S), NEW f
  PROVE  \E g : Sums(f, S, g)
<1> DEFINE Q == {T \in SUBSET S : \E g : Sums(f, T, g)}
           v(s) == (CHOOSE g : Sums(f, s, g))[s]
<1>1. ASSUME NEW T \in SUBSET S, \A x \in T : T \ {x} \in Q
      PROVE  T \in Q
  <2> DEFINE g == [s \in SUBSET T |-> IF s = {} THEN 0 ELSE f[One(s)] + v(Tail(s))]
             step(s) == f[One(s)] + v(Tail(s))
  <2>1. \A s \in SUBSET T : g[s] = IF s = {} THEN 0 ELSE step(s)
    OBVIOUS
  <2>2. ASSUME NEW U \in SUBSET T, U # T
        PROVE  v(U) = IF U = {} THEN 0 ELSE step(U)
    <3>1. PICK x \in T : x \notin U
      BY <2>2
    <3>2. PICK k : Sums(f, T \ {x}, k)
      BY <1>1, <3>1
    <3>a. \A s \in SUBSET (T \ {x}) : k[s] = Plus(f, k, s)
      BY <3>2, SumsValue
    <3>3. \A W \in SUBSET (T \ {x}) : Sums(f, W, [s \in SUBSET W |-> k[s]])
      <4> TAKE W \in SUBSET (T \ {x})
      <4> DEFINE r == [s \in SUBSET W |-> k[s]]
                 q == [s \in SUBSET W |-> Plus(f, r, s)]
      <4>1. ASSUME NEW s \in SUBSET W
            PROVE  r[s] = q[s]
        <5>1. k[s] = Plus(f, k, s)
          BY <3>a
        <5>2. s # {} => Tail(s) \in SUBSET W
          BY OneInside
        <5> QED BY <5>1, <5>2 DEF Plus
      <4>2. r = q
        BY <4>1
      <4> QED BY <4>2 DEF Sums
    <3>4. \A W \in SUBSET (T \ {x}) : v(W) = k[W]
      <4> TAKE W \in SUBSET (T \ {x})
      <4> DEFINE c == CHOOSE h : Sums(f, W, h)
      <4>1. Sums(f, W, c)
        BY <3>3
      <4> HIDE DEF c
      <4>2. c[W] = k[W]
        BY <3>2, <4>1, SumsAgree
      <4> QED BY <4>2 DEF c
    <3> HIDE DEF v
    <3>5. k[U] = Plus(f, k, U)
      BY <3>1, <3>a
    <3>6. U # {} => Tail(U) \in SUBSET (T \ {x})
      BY <3>1, OneInside
    <3> QED BY <3>1, <3>4, <3>5, <3>6 DEF Plus, step
  <2>3. \A s \in SUBSET T : s # {} => v(Tail(s)) = g[Tail(s)]
    <3> TAKE s \in SUBSET T
    <3> HAVE s # {}
    <3>1. Tail(s) \in SUBSET T /\ Tail(s) # T
      BY OneInside DEF Tail
    <3> HIDE DEF v, step, g
    <3> QED BY <2>1, <2>2, <3>1
  <2> DEFINE q == [s \in SUBSET T |-> Plus(f, g, s)]
  <2>4. \A s \in SUBSET T : g[s] = q[s]
    <3> HIDE DEF v
    <3> QED BY <2>3 DEF Plus
  <2>5. g = q
    <3> HIDE DEF v
    <3> QED BY <2>4
  <2> QED BY <2>5 DEF Sums
<1>2. SUBSET S \subseteq Q
  <2> HIDE DEF Q
  <2> QED BY <1>1, SubsetInduction
<1> QED BY <1>2

\* The sum over a set is the value of that recursion, whatever function stands for it.
LEMMA SumIs ==
  ASSUME NEW S, IsFiniteSet(S), NEW f
  PROVE  \E g : Sums(f, S, g) /\ SumOver(f, S) = g[S]
<1> DEFINE it == CHOOSE g : g = [s \in SUBSET S |-> IF s = {} THEN 0 ELSE f[CHOOSE x \in s : TRUE] + g[s \ {CHOOSE x \in s : TRUE}]]
<1>1. SumOver(f, S) = it[S]
  BY DEF SumOver, MapThenSumSet, MapThenFoldSet
<1>2. \E g : g = [s \in SUBSET S |-> IF s = {} THEN 0 ELSE f[CHOOSE x \in s : TRUE] + g[s \ {CHOOSE x \in s : TRUE}]]
  <2>1. PICK g : Sums(f, S, g)
    BY SumsExist
  <2>2. g = [s \in SUBSET S |-> IF s = {} THEN 0 ELSE f[CHOOSE x \in s : TRUE] + g[s \ {CHOOSE x \in s : TRUE}]]
    BY <2>1 DEF Sums, Plus, One, Tail
  <2> QED BY Zenon, <2>2
<1>3. it = [s \in SUBSET S |-> IF s = {} THEN 0 ELSE f[CHOOSE x \in s : TRUE] + it[s \ {CHOOSE x \in s : TRUE}]]
  BY <1>2
<1> HIDE DEF it
<1>4. Sums(f, S, it)
  BY <1>3 DEF Sums, Plus, One, Tail
<1> QED BY <1>1, <1>4

\* It is a natural number when the terms are, and grows by a term with every element.
LEMMA SumsAdd ==
  ASSUME NEW S, IsFiniteSet(S), NEW f, \A a \in S : f[a] \in Nat, NEW g, Sums(f, S, g)
  PROVE  /\ g[{}] = 0
         /\ \A T \in SUBSET S : g[T] \in Nat
         /\ \A T \in SUBSET S : \A x \in T : g[T] = f[x] + g[T \ {x}]
<1>1. \A s \in SUBSET S : g[s] = Plus(f, g, s)
  BY SumsValue
<1>2. g[{}] = 0
  BY <1>1 DEF Plus
<1>3. \A T \in SUBSET S : T # {} => g[T] = f[One(T)] + g[T \ {One(T)}] /\ One(T) \in T
  BY <1>1, OneInside DEF Plus, Tail
<1>4. \A T \in SUBSET S : g[T] \in Nat
  <2> DEFINE Q == {T \in SUBSET S : g[T] \in Nat}
  <2>1. ASSUME NEW T \in SUBSET S, \A x \in T : T \ {x} \in Q
        PROVE  T \in Q
    <3>1. CASE T = {}
      BY <1>2, <3>1
    <3>2. CASE T # {}
      <4>1. PICK x \in T : g[T] = f[x] + g[T \ {x}]
        BY <1>3, <3>2
      <4>2. g[T \ {x}] \in Nat /\ f[x] \in Nat
        BY <2>1
      <4>3. g[T] \in Nat
        BY <4>1, <4>2
      <4> QED BY <4>3
    <3> QED BY <3>1, <3>2
  <2>2. SUBSET S \subseteq Q
    <3> HIDE DEF Q
    <3> QED BY <2>1, SubsetInduction
  <2> QED BY <2>2
<1>5. \A T \in SUBSET S : \A x \in T : g[T] = f[x] + g[T \ {x}]
  <2> DEFINE Q == {T \in SUBSET S : \A x \in T : g[T] = f[x] + g[T \ {x}]}
  <2>1. ASSUME NEW T \in SUBSET S, \A y \in T : T \ {y} \in Q
        PROVE  T \in Q
    <3> SUFFICES ASSUME NEW x \in T PROVE g[T] = f[x] + g[T \ {x}]
      OBVIOUS
    <3> DEFINE c == One(T)
    <3>1. c \in T /\ g[T] = f[c] + g[T \ {c}]
      BY <1>3
    <3> HIDE DEF c
    <3>2. CASE c = x
      BY <3>1, <3>2
    <3>3. CASE c # x
      <4>1. g[T \ {c}] = f[x] + g[(T \ {c}) \ {x}]
        BY <2>1, <3>1, <3>3
      <4>2. g[T \ {x}] = f[c] + g[(T \ {x}) \ {c}]
        BY <2>1, <3>1, <3>3
      <4>3. (T \ {x}) \ {c} = (T \ {c}) \ {x}
        OBVIOUS
      <4>4. f[x] \in Nat /\ f[c] \in Nat /\ g[(T \ {c}) \ {x}] \in Nat
        <5>1. (T \ {c}) \ {x} \in SUBSET S
          OBVIOUS
        <5> QED BY <1>4, <3>1, <5>1
      <4> DEFINE rest == g[(T \ {c}) \ {x}]
      <4>5. f[c] + (f[x] + rest) = f[x] + (f[c] + rest)
        <5> HIDE DEF rest
        <5> QED BY <4>4 DEF rest
      <4>6. g[T] = f[c] + (f[x] + rest) /\ g[T \ {x}] = f[c] + rest
        BY Zenon, <3>1, <4>1, <4>2, <4>3
      <4> QED BY Zenon, <4>5, <4>6
    <3> QED BY <3>2, <3>3
  <2>2. SUBSET S \subseteq Q
    <3> HIDE DEF Q
    <3> QED BY <2>1, SubsetInduction
  <2> QED BY <2>2
<1> QED BY <1>2, <1>4, <1>5

THEOREM SumEmpty == \A f : SumOver(f, {}) = 0
<1> TAKE f
<1>1. IsFiniteSet({})
  BY FS_EmptySet
<1>2. PICK g : Sums(f, {}, g) /\ SumOver(f, {}) = g[{}]
  BY <1>1, SumIs
<1> QED BY <1>2, SumsValue DEF Plus

\* Two functions on two sets with one value of the recursion everywhere on both.
LEMMA SumPart ==
  ASSUME NEW S, IsFiniteSet(S), NEW f, NEW g, Sums(f, S, g), NEW T \in SUBSET S
  PROVE  SumOver(f, T) = g[T]
<1>1. IsFiniteSet(T)
  BY FS_Subset
<1>2. PICK h : Sums(f, T, h) /\ SumOver(f, T) = h[T]
  BY <1>1, SumIs
<1>3. h[T] = g[T]
  BY <1>2, SumsAgree
<1> QED BY <1>2, <1>3

THEOREM SumAdd ==
  ASSUME NEW S, IsFiniteSet(S), NEW f, \A a \in S : f[a] \in Nat
  PROVE  /\ SumOver(f, S) \in Nat
         /\ \A x \in S : SumOver(f, S) = f[x] + SumOver(f, S \ {x}) /\ SumOver(f, S \ {x}) \in Nat
<1>1. PICK g : Sums(f, S, g)
  BY SumsExist
<1>2. \A T \in SUBSET S : SumOver(f, T) = g[T]
  BY <1>1, SumPart
<1>3. /\ \A T \in SUBSET S : g[T] \in Nat
      /\ \A T \in SUBSET S : \A x \in T : g[T] = f[x] + g[T \ {x}]
  BY <1>1, SumsAdd
<1>4. S \in SUBSET S /\ \A x \in S : S \ {x} \in SUBSET S
  OBVIOUS
<1>5. SumOver(f, S) = g[S] /\ \A x \in S : SumOver(f, S \ {x}) = g[S \ {x}]
  BY <1>2, <1>4
<1>6. g[S] \in Nat /\ \A x \in S : g[S] = f[x] + g[S \ {x}] /\ g[S \ {x}] \in Nat
  BY <1>3, <1>4
<1> QED BY <1>5, <1>6

\* Greater terms, greater sum.
THEOREM SumMonotone ==
  ASSUME NEW S, IsFiniteSet(S), NEW f, NEW h, \A a \in S : f[a] \in Nat /\ h[a] \in Nat /\ f[a] <= h[a]
  PROVE  SumOver(f, S) <= SumOver(h, S)
<1>0. (\A a \in S : f[a] \in Nat) /\ (\A a \in S : h[a] \in Nat)
  OBVIOUS
<1>1. PICK g : Sums(f, S, g)
  BY SumsExist
<1>2. PICK k : Sums(h, S, k)
  BY SumsExist
<1>3. /\ g[{}] = 0 /\ \A T \in SUBSET S : g[T] \in Nat
      /\ \A T \in SUBSET S : \A x \in T : g[T] = f[x] + g[T \ {x}]
  BY <1>0, <1>1, SumsAdd
<1>4. /\ k[{}] = 0 /\ \A T \in SUBSET S : k[T] \in Nat
      /\ \A T \in SUBSET S : \A x \in T : k[T] = h[x] + k[T \ {x}]
  BY <1>0, <1>2, SumsAdd
<1> DEFINE Q == {T \in SUBSET S : g[T] <= k[T]}
<1>5. ASSUME NEW T \in SUBSET S, \A x \in T : T \ {x} \in Q
      PROVE  T \in Q
  <2>1. CASE T = {}
    BY <1>3, <1>4, <2>1
  <2>2. CASE T # {}
    <3>1. PICK x \in T : TRUE
      BY <2>2
    <3>2. T \ {x} \in SUBSET S /\ g[T \ {x}] <= k[T \ {x}]
      BY <1>5
    <3>3. g[T] = f[x] + g[T \ {x}] /\ k[T] = h[x] + k[T \ {x}]
      BY <1>3, <1>4
    <3>4. f[x] \in Nat /\ h[x] \in Nat /\ f[x] <= h[x] /\ g[T \ {x}] \in Nat /\ k[T \ {x}] \in Nat
      BY <1>3, <1>4, <3>2
    <3> QED BY <3>2, <3>3, <3>4
  <2> QED BY <2>1, <2>2
<1>6. SUBSET S \subseteq Q
  <2> HIDE DEF Q
  <2> QED BY <1>5, SubsetInduction
<1>7. g[S] <= k[S]
  BY <1>6
<1> QED BY <1>1, <1>2, <1>7, SumPart

\* The sums over the parts of a set, as a function.
PartsOf(f, S, g) ==
  /\ SumOver(f, S) = g[S]
  /\ g[{}] = 0
  /\ \A T \in SUBSET S : g[T] \in Nat
  /\ \A T \in SUBSET S : \A x \in T : g[T] = f[x] + g[T \ {x}]

LEMMA SumParts ==
  ASSUME NEW S, IsFiniteSet(S), NEW f, \A a \in S : f[a] \in Nat
  PROVE  \E g : PartsOf(f, S, g)
<1>1. PICK g : Sums(f, S, g)
  BY SumsExist
<1>2. g[{}] = 0
  BY <1>1, SumsAdd
<1>3. /\ \A T \in SUBSET S : g[T] \in Nat
      /\ \A T \in SUBSET S : \A x \in T : g[T] = f[x] + g[T \ {x}]
  BY <1>1, SumsAdd
<1>4. SumOver(f, S) = g[S]
  BY <1>1, SumPart
<1> QED BY <1>2, <1>3, <1>4 DEF PartsOf

\* Sums of sums: two sums over the same set are added term by term.
THEOREM SumsAddUp ==
  ASSUME NEW S, IsFiniteSet(S), NEW f, NEW h, NEW e,
         \A a \in S : f[a] \in Nat /\ h[a] \in Nat /\ e[a] = f[a] + h[a]
  PROVE  SumOver(e, S) = SumOver(f, S) + SumOver(h, S)
<1>1. PICK g : PartsOf(f, S, g)
  BY SumParts
<1>2. PICK k : PartsOf(h, S, k)
  BY SumParts
<1>3. \A a \in S : e[a] \in Nat
  OBVIOUS
<1>4. PICK m : PartsOf(e, S, m)
  BY <1>3, SumParts
<1> DEFINE Q == {T \in SUBSET S : m[T] = g[T] + k[T]}
<1>5. ASSUME NEW T \in SUBSET S, \A x \in T : T \ {x} \in Q
      PROVE  T \in Q
  <2>1. CASE T = {}
    BY <1>1, <1>2, <1>4, <2>1 DEF PartsOf
  <2>2. CASE T # {}
    <3>1. PICK x \in T : TRUE
      BY <2>2
    <3>2. T \ {x} \in SUBSET S /\ m[T \ {x}] = g[T \ {x}] + k[T \ {x}]
      BY <1>5
    <3>3. g[T] = f[x] + g[T \ {x}] /\ k[T] = h[x] + k[T \ {x}] /\ m[T] = e[x] + m[T \ {x}]
      BY <1>1, <1>2, <1>4 DEF PartsOf
    <3>4. f[x] \in Nat /\ h[x] \in Nat /\ e[x] = f[x] + h[x] /\ g[T \ {x}] \in Nat /\ k[T \ {x}] \in Nat
      BY <1>1, <1>2, <3>2 DEF PartsOf
    <3> QED BY <3>2, <3>3, <3>4
  <2> QED BY <2>1, <2>2
<1>6. SUBSET S \subseteq Q
  <2> HIDE DEF Q
  <2> QED BY <1>5, SubsetInduction
<1>7. m[S] = g[S] + k[S]
  BY <1>6
<1> QED BY <1>1, <1>2, <1>4, <1>7 DEF PartsOf

\* Equal terms, equal sum.
THEOREM SumEqual ==
  ASSUME NEW S, IsFiniteSet(S), NEW f, NEW h, \A a \in S : f[a] \in Nat /\ h[a] = f[a]
  PROVE  SumOver(f, S) = SumOver(h, S)
<1>1. SumOver(f, S) <= SumOver(h, S) /\ SumOver(h, S) <= SumOver(f, S)
  BY SumMonotone
<1>2. SumOver(f, S) \in Nat /\ SumOver(h, S) \in Nat
  BY SumAdd
<1> QED BY <1>1, <1>2

\* One term changed.
THEOREM SumChanged ==
  ASSUME NEW S, IsFiniteSet(S), NEW f, NEW h, NEW x \in S,
         \A a \in S : f[a] \in Nat /\ h[a] \in Nat, \A a \in S \ {x} : h[a] = f[a]
  PROVE  SumOver(h, S) = SumOver(f, S) - f[x] + h[x]
<1>1. IsFiniteSet(S \ {x})
  BY FS_RemoveElement
<1>2. SumOver(f, S \ {x}) = SumOver(h, S \ {x})
  BY <1>1, SumEqual
<1>3. SumOver(f, S) = f[x] + SumOver(f, S \ {x}) /\ SumOver(h, S) = h[x] + SumOver(h, S \ {x})
      /\ SumOver(f, S \ {x}) \in Nat
  BY SumAdd
<1> QED BY <1>2, <1>3

\* Terms that are nothing may be left out.
THEOREM SumWithoutZeros ==
  ASSUME NEW S, IsFiniteSet(S), NEW f, \A a \in S : f[a] \in Nat, NEW U \in SUBSET S, \A a \in S \ U : f[a] = 0
  PROVE  SumOver(f, S) = SumOver(f, U)
<1>1. PICK g : Sums(f, S, g)
  BY SumsExist
<1>2. /\ g[{}] = 0 /\ \A T \in SUBSET S : g[T] \in Nat
      /\ \A T \in SUBSET S : \A x \in T : g[T] = f[x] + g[T \ {x}]
  BY <1>1, SumsAdd
<1> DEFINE Q == {T \in SUBSET S : U \subseteq T => g[T] = g[U]}
<1>3. ASSUME NEW T \in SUBSET S, \A x \in T : T \ {x} \in Q
      PROVE  T \in Q
  <2> SUFFICES ASSUME U \subseteq T PROVE g[T] = g[U]
    OBVIOUS
  <2>1. CASE T = U
    BY <2>1
  <2>2. CASE T # U
    <3>1. PICK x \in T : x \notin U
      BY <2>2
    <3>2. g[T \ {x}] = g[U]
      BY <1>3, <3>1
    <3>3. g[T] = f[x] + g[T \ {x}] /\ f[x] = 0
      BY <1>2, <3>1
    <3>4. T \ {x} \in SUBSET S
      OBVIOUS
    <3>5. g[T \ {x}] \in Nat
      BY <1>2, <3>4
    <3> QED BY <3>2, <3>3, <3>5
  <2> QED BY <2>1, <2>2
<1>4. SUBSET S \subseteq Q
  <2> HIDE DEF Q
  <2> QED BY <1>3, SubsetInduction
<1>5. g[S] = g[U]
  BY <1>4
<1> QED BY <1>1, <1>5, SumPart

===============================================================================
