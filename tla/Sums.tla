-------------------------------- MODULE Sums --------------------------------
(***************************************************************************)
(* Facts about data that the proofs about the books need: induction over   *)
(* the natural numbers, in a form that the provers can use, and what it    *)
(* gives for the sums of finite sets of numbers.  The library states       *)
(* induction for an operator; here it is stated for a set, and follows     *)
(* from the well-foundedness of the natural numbers.                       *)
(***************************************************************************)
EXTENDS Integers, Functions, FiniteSetTheorems, WellFoundedInduction, TLAPS

-----------------------------------------------------------------------------
\* A set of natural numbers that has a member has a least one.
LEMMA LeastOf ==
  ASSUME NEW T \in SUBSET Nat, T # {}
  PROVE  \E x \in T : \A y \in T : x <= y
  <1>. DEFINE Less == {ss \in Nat \X Nat : ss[1] < ss[2]}
  <1>1. IsWellFoundedOn(Less, Nat)
    BY NatLessThanWellFounded DEF OpToRel
  <1>2. PICK x \in T : \A y \in T : <<y, x>> \notin Less
    <2>. HIDE DEF Less
    <2>. QED
      BY <1>1, WFMin
  <1>3. \A y \in T : ~(y < x)
    BY <1>2
  <1>. QED
    BY <1>3

\* What is true of 0 and of the successor of each number it is true of.
LEMMA SetInduction ==
  ASSUME NEW S, 0 \in S, \A n \in Nat : n \in S => n + 1 \in S
  PROVE  Nat \subseteq S
  <1>. SUFFICES ASSUME Nat \ S # {} PROVE FALSE
    OBVIOUS
  <1>1. PICK x \in Nat \ S : \A y \in Nat \ S : x <= y
    BY LeastOf
  <1>2. x - 1 \in Nat /\ x - 1 \notin Nat \ S
    BY <1>1
  <1>3. x - 1 \in S /\ (x - 1) + 1 = x
    BY <1>2
  <1>. QED
    BY <1>1, <1>2, <1>3

-----------------------------------------------------------------------------
(***************************************************************************)
(* SumFunctionOnSet removes the elements of a set one after the other.     *)
(***************************************************************************)

First(s) == CHOOSE x \in s : TRUE

\* The sum over s, if g has the sums over the smaller sets.
SumStep(f, g, s) == IF s = {} THEN 0 ELSE f[First(s)] + g[s \ {First(s)}]

\* g has the sums of f over all the subsets of S.
IsSum(g, f, S) == g = [s \in SUBSET S |-> SumStep(f, g, s)]

LEMMA FirstOf ==
  ASSUME NEW S, IsFiniteSet(S), NEW s \in SUBSET S, s # {}
  PROVE  /\ First(s) \in s
         /\ s \ {First(s)} \in SUBSET S
         /\ Cardinality(s) \in Nat /\ Cardinality(s) # 0
         /\ Cardinality(s \ {First(s)}) = Cardinality(s) - 1
  <1>1. First(s) \in s
    BY DEF First
  <1>2. IsFiniteSet(s)
    BY FS_Subset
  <1>3. Cardinality(s) \in Nat /\ Cardinality(s) # 0
    BY <1>2, FS_CardinalityType, FS_EmptySet
  <1>4. Cardinality(s \ {First(s)}) = Cardinality(s) - 1
    BY <1>1, <1>2, FS_RemoveElement
  <1>. QED
    BY <1>1, <1>3, <1>4

\* A finite set has sums: each round of the recursion gets those of sets
\* that have an element more right.
LEMMA SumExists ==
  ASSUME NEW f, NEW S, IsFiniteSet(S)
  PROVE  \E g : IsSum(g, f, S)
  <1>. DEFINE Right(g, n) ==
                /\ g = [s \in SUBSET S |-> g[s]]
                /\ \A s \in SUBSET S : Cardinality(s) <= n => g[s] = SumStep(f, g, s)
              Done == {n \in Nat : \E g : Right(g, n)}
  <1>1. 0 \in Done
    <2>. DEFINE zero == [s \in SUBSET S |-> 0]
    <2>1. ASSUME NEW s \in SUBSET S, Cardinality(s) <= 0
          PROVE  s = {}
      BY <2>1, FS_Subset, FS_CardinalityType, FS_EmptySet
    <2>2. Right(zero, 0)
      BY <2>1 DEF SumStep
    <2>. QED
      BY <2>2
  <1>2. ASSUME NEW n \in Nat, n \in Done
        PROVE  n + 1 \in Done
    <2>1. PICK g : Right(g, n)
      BY <1>2
    <2>. DEFINE h == [s \in SUBSET S |-> SumStep(f, g, s)]
    <2>2. \A s \in SUBSET S : Cardinality(s) <= n => h[s] = g[s]
      BY <2>1
    <2>3. ASSUME NEW s \in SUBSET S, Cardinality(s) <= n + 1
          PROVE  h[s] = SumStep(f, h, s)
      <3>1. CASE s = {}
        BY <3>1 DEF SumStep
      <3>2. CASE s # {}
        <4>1. /\ s \ {First(s)} \in SUBSET S
              /\ Cardinality(s \ {First(s)}) <= n
          BY <2>3, <3>2, FirstOf
        <4>2. h[s \ {First(s)}] = g[s \ {First(s)}]
          BY <2>2, <4>1
        <4>3. h[s] = SumStep(f, g, s)
          OBVIOUS
        <4>. HIDE DEF h
        <4>. QED
          BY <3>2, <4>2, <4>3 DEF SumStep
      <3>. QED
        BY <3>1, <3>2
    <2>4. Right(h, n + 1)
      BY <2>3
    <2>5. n + 1 \in Nat
      OBVIOUS
    <2>. HIDE DEF h, Right
    <2>. QED
      BY <2>4, <2>5
  <1>3. Cardinality(S) \in Done
    <2>. HIDE DEF Done
    <2>1. Nat \subseteq Done
      BY <1>1, <1>2, SetInduction
    <2>. QED
      BY <2>1, FS_CardinalityType
  <1>4. PICK g : Right(g, Cardinality(S))
    BY <1>3
  <1>5. \A s \in SUBSET S : g[s] = SumStep(f, g, s)
    BY <1>4, FS_Subset
  <1>. QED
    BY <1>4, <1>5 DEF IsSum

\* The sums over a set that is part of two others are the same, if the
\* numbers are.
LEMMA SumSame ==
  ASSUME NEW S, IsFiniteSet(S), NEW U, NEW V, S \subseteq U, S \subseteq V,
         NEW f, NEW g, \A x \in S : f[x] = g[x],
         NEW a, IsSum(a, f, U), NEW b, IsSum(b, g, V)
  PROVE  a[S] = b[S]
  <1>. DEFINE Done == {n \in Nat : \A s \in SUBSET S : Cardinality(s) <= n => a[s] = b[s]}
  <1>0. \A s \in SUBSET S : a[s] = SumStep(f, a, s) /\ b[s] = SumStep(g, b, s)
    BY DEF IsSum
  <1>1. 0 \in Done
    <2>1. ASSUME NEW s \in SUBSET S, Cardinality(s) <= 0
          PROVE  a[s] = b[s]
      <3>1. s = {}
        BY <2>1, FS_Subset, FS_CardinalityType, FS_EmptySet
      <3>. QED
        BY <1>0, <3>1 DEF SumStep
    <2>. QED
      BY <2>1
  <1>2. ASSUME NEW n \in Nat, n \in Done
        PROVE  n + 1 \in Done
    <2>1. ASSUME NEW s \in SUBSET S, Cardinality(s) <= n + 1
          PROVE  a[s] = b[s]
      <3>1. CASE s = {}
        BY <1>0, <3>1 DEF SumStep
      <3>2. CASE s # {}
        <4>1. /\ First(s) \in s
              /\ s \ {First(s)} \in SUBSET S
              /\ Cardinality(s \ {First(s)}) <= n
          BY <2>1, <3>2, FirstOf
        <4>2. a[s \ {First(s)}] = b[s \ {First(s)}]
          BY <1>2, <4>1
        <4>. QED
          BY <1>0, <3>2, <4>1, <4>2 DEF SumStep
      <3>. QED
        BY <3>1, <3>2
    <2>. QED
      BY <2>1
  <1>3. Nat \subseteq Done
    <2>. HIDE DEF Done
    <2>. QED
      BY <1>1, <1>2, SetInduction
  <1>. QED
    BY <1>3, FS_CardinalityType

\* It does not matter which element is taken out first.
LEMMA SumAny ==
  ASSUME NEW S, IsFiniteSet(S), NEW f, \A x \in S : f[x] \in Int,
         NEW g, IsSum(g, f, S)
  PROVE  \A s \in SUBSET S : /\ g[s] \in Int
                             /\ \A x \in s : g[s] = f[x] + g[s \ {x}]
  <1>. DEFINE Good(s) == /\ g[s] \in Int
                         /\ \A x \in s : g[s] = f[x] + g[s \ {x}]
              Done == {n \in Nat : \A s \in SUBSET S : Cardinality(s) <= n => Good(s)}
  <1>0. \A s \in SUBSET S : g[s] = SumStep(f, g, s)
    BY DEF IsSum
  <1>e. ASSUME NEW s \in SUBSET S, s = {} PROVE Good(s)
    <2>1. g[s] = 0
      BY <1>0, <1>e DEF SumStep
    <2>. QED
      BY <1>e, <2>1
  <1>1. 0 \in Done
    <2>1. ASSUME NEW s \in SUBSET S, Cardinality(s) <= 0
          PROVE  s = {}
      BY <2>1, FS_Subset, FS_CardinalityType, FS_EmptySet
    <2>. QED
      BY <1>e, <2>1
  <1>2. ASSUME NEW n \in Nat, n \in Done
        PROVE  n + 1 \in Done
    <2>1. ASSUME NEW s \in SUBSET S, s # {}, Cardinality(s) <= n + 1
          PROVE  Good(s)
      <3>. DEFINE c    == First(s)
                  rest == s \ {c}
      <3>1. /\ c \in s
            /\ rest \in SUBSET S
            /\ Cardinality(s) \in Nat
            /\ Cardinality(rest) <= n
        BY <2>1, FirstOf
      <3>2. g[s] = f[c] + g[rest]
        BY <1>0, <2>1 DEF SumStep
      <3>3. Good(rest)
        BY <1>2, <3>1
      <3>. HIDE DEF c, rest
      <3>4. g[s] \in Int
        BY <3>1, <3>2, <3>3
      <3>5. ASSUME NEW x \in s, x # c
            PROVE  g[s] = f[x] + g[s \ {x}]
        <4>1. /\ s \ {x} \in SUBSET S /\ c \in s \ {x}
              /\ x \in rest
              /\ (s \ {x}) \ {c} = rest \ {x}
              /\ rest \ {x} \in SUBSET S
          BY <3>1, <3>5 DEF rest
        <4>2. Cardinality(s \ {x}) <= n
          <5>1. IsFiniteSet(s)
            BY FS_Subset
          <5>2. Cardinality(s \ {x}) = Cardinality(s) - 1
            BY <3>5, <5>1, FS_RemoveElement
          <5>. QED
            BY <3>1, <2>1, <5>2
        <4>3. Good(s \ {x})
          BY <1>2, <4>1, <4>2
        <4>4. g[s \ {x}] = f[c] + g[rest \ {x}]
          BY <4>1, <4>3
        <4>5. g[rest] = f[x] + g[rest \ {x}]
          BY <3>3, <4>1
        <4>6. Good(rest \ {x})
          <5>1. Cardinality(rest \ {x}) <= n
            <6>1. IsFiniteSet(rest)
              BY <3>1, FS_Subset
            <6>2. Cardinality(rest) \in Nat
              BY <6>1, FS_CardinalityType
            <6>3. Cardinality(rest \ {x}) = Cardinality(rest) - 1
              BY <4>1, <6>1, FS_RemoveElement
            <6>. QED
              BY <3>1, <6>2, <6>3
          <5>. QED
            BY <1>2, <4>1, <5>1
        <4>7. f[c] \in Int /\ f[x] \in Int /\ g[rest \ {x}] \in Int
          BY <3>1, <4>6
        <4>. QED
          BY <3>2, <4>4, <4>5, <4>7
      <3>. QED
        BY <3>2, <3>4, <3>5 DEF rest
    <2>2. n + 1 \in Nat
      OBVIOUS
    <2>. HIDE DEF Good
    <2>. QED
      BY <1>e, <2>1, <2>2
  <1>3. Nat \subseteq Done
    <2>. HIDE DEF Done
    <2>. QED
      BY <1>1, <1>2, SetInduction
  <1>4. ASSUME NEW s \in SUBSET S PROVE Good(s)
    BY <1>3, FS_Subset, FS_CardinalityType
  <1>. QED
    BY <1>4

-----------------------------------------------------------------------------
(***************************************************************************)
(* What a sum over a finite set is.                                        *)
(***************************************************************************)

LEMMA SumIsSum ==
  ASSUME NEW f, NEW S, IsFiniteSet(S)
  PROVE  \E g : IsSum(g, f, S) /\ SumFunctionOnSet(f, S) = g[S]
  <1>. DEFINE g == CHOOSE h : IsSum(h, f, S)
  <1>1. IsSum(g, f, S)
    BY SumExists
  <1>2. SumFunctionOnSet(f, S) = g[S]
    BY DEF SumFunctionOnSet, FoldFunctionOnSet, MapThenFoldSet, IsSum, SumStep, First
  <1>. QED
    BY <1>1, <1>2

\* The sum depends on the numbers only.
LEMMA SumOfEqual ==
  ASSUME NEW S, IsFiniteSet(S), NEW f, NEW g, \A x \in S : f[x] = g[x]
  PROVE  SumFunctionOnSet(f, S) = SumFunctionOnSet(g, S)
  BY SumIsSum, SumSame

LEMMA SumOfNone ==
  ASSUME NEW f
  PROVE  SumFunctionOnSet(f, {}) = 0
  <1>1. PICK g : IsSum(g, f, {}) /\ SumFunctionOnSet(f, {}) = g[{}]
    BY SumIsSum, FS_EmptySet
  <1>2. g[{}] = SumStep(f, g, {})
    BY <1>1 DEF IsSum
  <1>. QED
    BY <1>1, <1>2 DEF SumStep

LEMMA SumType ==
  ASSUME NEW S, IsFiniteSet(S), NEW f, \A x \in S : f[x] \in Int
  PROVE  SumFunctionOnSet(f, S) \in Int
  BY SumIsSum, SumAny

\* A summand may be taken out.
LEMMA SumWithout ==
  ASSUME NEW S, IsFiniteSet(S), NEW f, \A x \in S : f[x] \in Int, NEW x \in S
  PROVE  SumFunctionOnSet(f, S) = f[x] + SumFunctionOnSet(f, S \ {x})
  <1>1. PICK g : IsSum(g, f, S) /\ SumFunctionOnSet(f, S) = g[S]
    BY SumIsSum
  <1>2. PICK h : IsSum(h, f, S \ {x}) /\ SumFunctionOnSet(f, S \ {x}) = h[S \ {x}]
    BY SumIsSum, FS_RemoveElement
  <1>3. g[S] = f[x] + g[S \ {x}]
    BY <1>1, SumAny
  <1>4. g[S \ {x}] = h[S \ {x}]
    <2>1. IsFiniteSet(S \ {x})
      BY FS_RemoveElement
    <2>2. S \ {x} \subseteq S /\ S \ {x} \subseteq S \ {x}
      OBVIOUS
    <2>. QED
      BY <1>1, <1>2, <2>1, <2>2, SumSame
  <1>. QED
    BY <1>1, <1>2, <1>3, <1>4

\* A sum of natural numbers is one.
LEMMA SumNat ==
  ASSUME NEW S, IsFiniteSet(S), NEW f, \A x \in S : f[x] \in Nat
  PROVE  SumFunctionOnSet(f, S) \in Nat
  <1>1. PICK g : IsSum(g, f, S) /\ SumFunctionOnSet(f, S) = g[S]
    BY SumIsSum
  <1>2. \A s \in SUBSET S : g[s] = SumStep(f, g, s)
    BY <1>1 DEF IsSum
  <1>. DEFINE Done == {n \in Nat : \A s \in SUBSET S : Cardinality(s) <= n => g[s] \in Nat}
  <1>3. 0 \in Done
    <2>1. ASSUME NEW s \in SUBSET S, Cardinality(s) <= 0
          PROVE  g[s] \in Nat
      <3>1. s = {}
        BY <2>1, FS_Subset, FS_CardinalityType, FS_EmptySet
      <3>2. g[s] = 0
        BY <1>2, <3>1 DEF SumStep
      <3>. QED
        BY <3>2
    <2>. QED
      BY <2>1
  <1>4. ASSUME NEW n \in Nat, n \in Done
        PROVE  n + 1 \in Done
    <2>1. ASSUME NEW s \in SUBSET S, Cardinality(s) <= n + 1
          PROVE  g[s] \in Nat
      <3>1. CASE s = {}
        <4>1. g[s] = 0
          BY <1>2, <3>1 DEF SumStep
        <4>. QED
          BY <4>1
      <3>2. CASE s # {}
        <4>1. /\ First(s) \in s
              /\ s \ {First(s)} \in SUBSET S
              /\ Cardinality(s \ {First(s)}) <= n
          BY <2>1, <3>2, FirstOf
        <4>2. g[s \ {First(s)}] \in Nat /\ f[First(s)] \in Nat
          BY <1>4, <4>1
        <4>3. g[s] = f[First(s)] + g[s \ {First(s)}]
          BY <1>2, <3>2 DEF SumStep
        <4>. QED
          BY <4>2, <4>3
      <3>. QED
        BY <3>1, <3>2
    <2>. QED
      BY <2>1
  <1>5. Nat \subseteq Done
    <2>. HIDE DEF Done
    <2>. QED
      BY <1>3, <1>4, SetInduction
  <1>. QED
    BY <1>1, <1>5, FS_CardinalityType
=============================================================================
