------------------------------- MODULE Folding -------------------------------
(***************************************************************************)
(* Folds over finite sets, of which sums and the folds of sequences are    *)
(* cases.  The operator that is folded is a parameter of the module: a     *)
(* proof about one fold instantiates it, and its theorems are then facts   *)
(* about that fold.  Sums of a function, at the end, need no parameter.    *)
(***************************************************************************)
EXTENDS Integers, FiniteSets, FiniteSetTheorems, TLAPS

CONSTANTS
  Op(_, _),   \* what is folded: the next value, the result so far
  Base,       \* the fold of nothing
  Value(_),   \* the value of an element
  Choice(_)   \* the element of a set that comes last

Unfold(iter, s) ==
  IF s = {} THEN Base ELSE Op(Value(Choice(s)), iter[s \ {Choice(s)}])

Iteration(S) == CHOOSE iter : iter = [s \in SUBSET S |-> Unfold(iter, s)]

Folded(S) == Iteration(S)[S]

(* Finite, in the words of no other module.                                *)
Counted(S) ==
  \E n \in Nat : \E f \in [1 .. n -> S] : \A x \in S : \E i \in 1 .. n : f[i] = x

(* Results stay in a set, and the order of two elements does not matter.   *)
Commutes(S, Type) ==
  /\ Base \in Type
  /\ \A x \in S : \A t \in Type : Op(Value(x), t) \in Type
  /\ \A x, y \in S : \A t \in Type :
       Op(Value(x), Op(Value(y), t)) = Op(Value(y), Op(Value(x), t))

Chooses(S) == \A T \in SUBSET S : T # {} => Choice(T) \in T

-----------------------------------------------------------------------------

(* Induction over the natural numbers, about sets instead of predicates.   *)
LEMMA NaturalInduction ==
  ASSUME NEW P, 0 \in P, \A n \in Nat : n \in P => n + 1 \in P
  PROVE  Nat \subseteq P
<1> DEFINE R == OpToRel(<, Nat)
<1>1. IsWellFoundedOn(R, Nat)
  BY NatLessThanWellFounded
<1>2. \A m, n \in Nat : m < n => <<m, n>> \in R
  BY DEF OpToRel
<1> HIDE DEF R
<1> SUFFICES ASSUME Nat \ P # {} PROVE FALSE
  OBVIOUS
<1>3. PICK m \in Nat \ P : \A k \in Nat \ P : <<k, m>> \notin R
  BY <1>1, WFMin
<1>4. m - 1 \in Nat /\ m - 1 < m /\ (m - 1) + 1 = m
  BY <1>3
<1>5. m - 1 \in P
  BY <1>2, <1>3, <1>4
<1> QED BY <1>3, <1>4, <1>5

LEMMA LargestExists ==
  ASSUME NEW m \in Nat, NEW S \in SUBSET (1 .. m), S # {}
  PROVE  \E x \in S : \A y \in S : y <= x
<1> DEFINE Has(T) == \E x \in T : \A y \in T : y <= x
           P == {n \in Nat : \A T \in SUBSET (1 .. n) : T # {} => Has(T)}
<1>1. 0 \in P
  <2>1. 1 .. 0 = {}
    OBVIOUS
  <2>2. \A T \in SUBSET (1 .. 0) : T = {}
    BY <2>1
  <2> HIDE DEF Has
  <2> QED BY <2>2
<1>2. ASSUME NEW n \in Nat, n \in P
      PROVE  n + 1 \in P
  <2> SUFFICES ASSUME NEW T \in SUBSET (1 .. n + 1), T # {}
               PROVE  Has(T)
    <3> HIDE DEF Has
    <3> QED OBVIOUS
  <2>1. CASE n + 1 \in T
    BY <2>1
  <2>2. CASE n + 1 \notin T
    <3>1. T \in SUBSET (1 .. n)
      BY <2>2
    <3> QED BY <1>2, <3>1
  <2> QED BY <2>1, <2>2
<1> HIDE DEF P
<1>3. m \in P
  BY <1>1, <1>2, NaturalInduction
<1> QED BY <1>3 DEF P

LEMMA CountedIsFinite ==
  ASSUME NEW S
  PROVE  Counted(S) <=> IsFiniteSet(S)
  BY FS_NatSurjection DEF Counted, ExistsSurjection, Surjection

(* The recursion has a solution: by induction on the size of the subsets.  *)
LEMMA IterationExists ==
  ASSUME NEW S, Counted(S), Chooses(S)
  PROVE  Iteration(S) = [s \in SUBSET S |-> Unfold(Iteration(S), s)]
<1> DEFINE Small(n) == {s \in SUBSET S : Cardinality(s) <= n}
           P == {n \in Nat : \E g : g = [s \in Small(n) |-> Unfold(g, s)]}
<1>1. /\ IsFiniteSet(S) /\ Cardinality(S) \in Nat
      /\ \A s \in SUBSET S : IsFiniteSet(s) /\ Cardinality(s) \in Nat
                               /\ Cardinality(s) <= Cardinality(S)
  BY CountedIsFinite, FS_Subset, FS_CardinalityType
<1>2. \A s \in SUBSET S : s # {} =>
        /\ Choice(s) \in s /\ s \ {Choice(s)} \in SUBSET S
        /\ Cardinality(s \ {Choice(s)}) = Cardinality(s) - 1
  BY <1>1, FS_RemoveElement DEF Chooses
<1>3. 0 \in P
  <2> DEFINE g == [s \in Small(0) |-> Base]
  <2>1. \A s \in Small(0) : s = {}
    BY <1>1, FS_EmptySet
  <2>2. g = [s \in Small(0) |-> Unfold(g, s)]
    BY <2>1 DEF Unfold
  <2> QED BY <2>2
<1>4. ASSUME NEW n \in Nat, n \in P
      PROVE  n + 1 \in P
  <2>1. PICK g : g = [s \in Small(n) |-> Unfold(g, s)]
    BY <1>4
  <2> DEFINE h == [s \in Small(n + 1) |-> Unfold(g, s)]
  <2>2. \A s \in Small(n + 1) : s # {} => s \ {Choice(s)} \in Small(n)
    BY <1>1, <1>2
  <2>3. \A s \in Small(n) : s \in Small(n + 1)
    BY <1>1
  <2>4. \A s \in Small(n) : h[s] = g[s]
    BY <2>1, <2>3
  <2>5. \A s \in Small(n + 1) : Unfold(g, s) = Unfold(h, s)
    BY <2>2, <2>4 DEF Unfold
  <2>6. h = [s \in Small(n + 1) |-> Unfold(h, s)]
    BY <2>5
  <2> HIDE DEF Small, h
  <2>7. \E f : f = [s \in Small(n + 1) |-> Unfold(f, s)]
    BY <2>6
  <2> QED BY <2>7
<1> HIDE DEF P
<1>5. Cardinality(S) \in P
  BY <1>1, <1>3, <1>4, NaturalInduction
<1>6. Small(Cardinality(S)) = SUBSET S
  BY <1>1
<1>7. \E g : g = [s \in SUBSET S |-> Unfold(g, s)]
  BY <1>5, <1>6 DEF P
<1> QED BY <1>7 DEF Iteration

(* And the solutions for two sets agree on what both have.                 *)
LEMMA IterationsAgree ==
  ASSUME NEW S, Counted(S), Chooses(S), NEW T \in SUBSET S
  PROVE  Folded(T) = Iteration(S)[T]
<1> DEFINE P == {n \in Nat : \A s \in SUBSET T :
                   Cardinality(s) = n => Iteration(T)[s] = Iteration(S)[s]}
<1>1. /\ IsFiniteSet(S)
      /\ \A s \in SUBSET S : IsFiniteSet(s) /\ Cardinality(s) \in Nat
  BY CountedIsFinite, FS_Subset, FS_CardinalityType
<1>2. \A s \in SUBSET S : s # {} =>
        /\ Choice(s) \in s
        /\ Cardinality(s \ {Choice(s)}) = Cardinality(s) - 1
  BY <1>1, FS_RemoveElement DEF Chooses
<1>3. Counted(T) /\ Chooses(T)
  BY <1>1, CountedIsFinite DEF Chooses
<1>4. /\ \A s \in SUBSET T : Iteration(T)[s] = Unfold(Iteration(T), s)
      /\ \A s \in SUBSET S : Iteration(S)[s] = Unfold(Iteration(S), s)
  BY <1>3, IterationExists
<1>5. 0 \in P
  BY <1>1, <1>4, FS_EmptySet DEF Unfold
<1>6. ASSUME NEW n \in Nat, n \in P
      PROVE  n + 1 \in P
  <2> SUFFICES ASSUME NEW s \in SUBSET T, Cardinality(s) = n + 1
               PROVE  Iteration(T)[s] = Iteration(S)[s]
    OBVIOUS
  <2>1. s # {} /\ s \ {Choice(s)} \in SUBSET T /\ Cardinality(s \ {Choice(s)}) = n
    BY <1>2, FS_EmptySet
  <2>2. Iteration(T)[s \ {Choice(s)}] = Iteration(S)[s \ {Choice(s)}]
    BY <1>6, <2>1
  <2> QED BY <1>4, <2>1, <2>2 DEF Unfold
<1>7. Cardinality(T) \in Nat
  BY <1>1
<1> HIDE DEF P
<1>8. Cardinality(T) \in P
  BY <1>5, <1>6, <1>7, NaturalInduction
<1> QED BY <1>8 DEF P, Folded

-----------------------------------------------------------------------------

(* The fold of nothing.                                                    *)
THEOREM FoldedEmpty == Folded({}) = Base
<1>1. Counted({}) /\ Chooses({})
  BY CountedIsFinite, FS_EmptySet DEF Chooses
<1> QED BY <1>1, IterationExists DEF Folded, Unfold

(* The fold of a set is one step from the fold without its last element.   *)
THEOREM FoldedStep ==
  ASSUME NEW S, Counted(S), Chooses(S), S # {}
  PROVE  Folded(S) = Op(Value(Choice(S)), Folded(S \ {Choice(S)}))
<1>1. S \ {Choice(S)} \in SUBSET S
  OBVIOUS
<1>2. Folded(S) = Unfold(Iteration(S), S)
  BY IterationExists DEF Folded
<1> QED BY <1>1, <1>2, IterationsAgree DEF Unfold

(* Where the order of two elements does not matter any element may be last.*)
THEOREM FoldedAnyLast ==
  ASSUME NEW S, Counted(S), Chooses(S), NEW Type, Commutes(S, Type)
  PROVE  /\ Folded(S) \in Type
         /\ \A x \in S : Folded(S) = Op(Value(x), Folded(S \ {x}))
<1> DEFINE Sound(T) == /\ Folded(T) \in Type
                       /\ \A x \in T : Folded(T) = Op(Value(x), Folded(T \ {x}))
           P == {n \in Nat : \A T \in SUBSET S : Cardinality(T) <= n => Sound(T)}
<1>1. /\ IsFiniteSet(S)
      /\ \A T \in SUBSET S : /\ IsFiniteSet(T) /\ Cardinality(T) \in Nat
                             /\ Counted(T) /\ Chooses(T)
  BY CountedIsFinite, FS_Subset, FS_CardinalityType DEF Chooses
<1>2. \A T \in SUBSET S : \A x \in T : Cardinality(T \ {x}) = Cardinality(T) - 1
  BY <1>1, FS_RemoveElement
<1>3. 0 \in P
  BY <1>1, FS_EmptySet, FoldedEmpty DEF Commutes
<1>4. ASSUME NEW n \in Nat, n \in P
      PROVE  n + 1 \in P
  <2> SUFFICES ASSUME NEW T \in SUBSET S, Cardinality(T) = n + 1
               PROVE  Sound(T)
    <3> HIDE DEF Sound
    <3> QED BY <1>1, <1>4
  <2>1. /\ T # {}
        /\ \A x \in T : T \ {x} \in SUBSET S /\ Sound(T \ {x})
        /\ \A x, y \in T : (T \ {x}) \ {y} \in SUBSET S /\ Sound((T \ {x}) \ {y})
    <3> HIDE DEF Sound
    <3>1. \A x \in T : T \ {x} \in SUBSET S /\ Sound(T \ {x})
      BY <1>1, <1>2, <1>4
    <3>2. ASSUME NEW x \in T, NEW y \in T
          PROVE  Sound((T \ {x}) \ {y})
      <4>1. CASE y = x
        BY <3>1, <4>1, (T \ {x}) \ {x} = T \ {x}
      <4>2. CASE y # x
        <5>1. T \ {x} \in SUBSET S /\ y \in T \ {x}
          BY <4>2
        <5>2. Cardinality(T \ {x}) = n
          <6>1. Cardinality(T \ {x}) = Cardinality(T) - 1
            BY <1>2
          <6> QED BY <6>1
        <5>3. Cardinality((T \ {x}) \ {y}) = n - 1
          BY <1>2, <5>1, <5>2
        <5>4. (T \ {x}) \ {y} \in SUBSET S
          OBVIOUS
        <5> QED BY <1>4, <5>3, <5>4
      <4> QED BY <4>1, <4>2
    <3> QED BY <1>1, <3>1, <3>2, FS_EmptySet
  <2> DEFINE c == Choice(T)
  <2>2. c \in T /\ Folded(T) = Op(Value(c), Folded(T \ {c}))
    BY <1>1, <2>1, FoldedStep DEF Chooses
  <2> HIDE DEF c
  <2>3. ASSUME NEW x \in T, x # c
        PROVE  Folded(T) = Op(Value(x), Folded(T \ {x}))
    <3> DEFINE rest == Folded((T \ {x}) \ {c})
    <3>1. Folded(T \ {c}) = Op(Value(x), rest)
      BY <2>1, <2>2, <2>3, (T \ {c}) \ {x} = (T \ {x}) \ {c}
    <3>2. Folded(T \ {x}) = Op(Value(c), rest)
      BY <2>1, <2>2, <2>3
    <3>3. rest \in Type
      BY <2>1, <2>2
    <3> HIDE DEF rest
    <3> QED BY <2>2, <3>1, <3>2, <3>3 DEF Commutes
  <2> QED BY ZenonT(60), <2>1, <2>2, <2>3 DEF Commutes
<1> HIDE DEF P
<1>5. Cardinality(S) \in P
  BY <1>1, <1>3, <1>4, NaturalInduction
<1> QED BY <1>1, <1>5 DEF P

(* A sum of natural numbers is one, and any of them may be added last.     *)
THEOREM FoldedSum ==
  ASSUME NEW S, Counted(S), Chooses(S), Base = 0,
         \A x \in S : Value(x) \in Nat,
         \A v, t \in Nat : Op(v, t) = v + t
  PROVE  /\ Folded(S) \in Nat
         /\ \A x \in S : Folded(S) = Value(x) + Folded(S \ {x})
<1>1. ASSUME NEW T \in SUBSET S
      PROVE  /\ Folded(T) \in Nat
             /\ \A x \in T : Folded(T) = Op(Value(x), Folded(T \ {x}))
  <2>1. Counted(T)
    BY CountedIsFinite, FS_Subset
  <2>2. Chooses(T)
    BY DEF Chooses
  <2>3. Commutes(T, Nat)
    BY DEF Commutes
  <2> QED BY <2>1, <2>2, <2>3, FoldedAnyLast
<1>2. ASSUME NEW x \in S
      PROVE  Folded(S) = Value(x) + Folded(S \ {x})
  <2>1. Folded(S \ {x}) \in Nat /\ Folded(S) = Op(Value(x), Folded(S \ {x}))
    BY <1>1, S \ {x} \in SUBSET S
  <2>2. Value(x) \in Nat
    OBVIOUS
  <2> QED BY <2>1, <2>2
<1> QED BY <1>1, <1>2

-----------------------------------------------------------------------------
(* Sums of a function over finite sets, as the community modules compute   *)
(* them: the function is a bound variable here, and no parameter is used.  *)

OneOf(s) == CHOOSE x \in s : TRUE

Step(f, g, s) == IF s = {} THEN 0 ELSE f[OneOf(s)] + g[s \ {OneOf(s)}]

Stepped(f, g, S) == [s \in SUBSET S |-> Step(f, g, s)]

Totals(f, S) == CHOOSE g : g = Stepped(f, g, S)

Sum(f, S) == Totals(f, S)[S]

(* Induction over the subsets of a finite set.                             *)
LEMMA SetInduction ==
  ASSUME NEW S, IsFiniteSet(S), NEW P, {} \in P,
         \A T \in SUBSET S : \A x \in S \ T : T \in P => T \cup {x} \in P
  PROVE  S \in P
<1> DEFINE Q == {n \in Nat : \A T \in SUBSET S : Cardinality(T) = n => T \in P}
<1>1. \A T \in SUBSET S : IsFiniteSet(T) /\ Cardinality(T) \in Nat
  BY FS_Subset, FS_CardinalityType
<1>2. 0 \in Q
  BY <1>1, FS_EmptySet
<1>3. ASSUME NEW n \in Nat, n \in Q
      PROVE  n + 1 \in Q
  <2> SUFFICES ASSUME NEW T \in SUBSET S, Cardinality(T) = n + 1
               PROVE  T \in P
    OBVIOUS
  <2>1. T # {}
    BY <1>1, FS_EmptySet
  <2> PICK x \in T : TRUE
    BY <2>1
  <2>2. Cardinality(T \ {x}) = n
    <3>1. Cardinality(T \ {x}) = Cardinality(T) - 1
      BY <1>1, FS_RemoveElement
    <3> QED BY <3>1
  <2>3. T \ {x} \in P
    BY <1>3, <2>2
  <2>4. (T \ {x}) \cup {x} = T /\ T \ {x} \in SUBSET S /\ x \in S \ (T \ {x})
    OBVIOUS
  <2> QED BY <2>3, <2>4
<1> HIDE DEF Q
<1>4. Cardinality(S) \in Q
  BY <1>1, <1>2, <1>3, NaturalInduction
<1> QED BY <1>4 DEF Q

(* The recursion has a solution.                                           *)
LEMMA TotalsExist ==
  ASSUME NEW f, NEW S, IsFiniteSet(S)
  PROVE  Totals(f, S) = Stepped(f, Totals(f, S), S)
<1> DEFINE Small(n) == {s \in SUBSET S : Cardinality(s) <= n}
           P == {n \in Nat : \E g : g = [s \in Small(n) |-> Step(f, g, s)]}
<1>1. /\ Cardinality(S) \in Nat
      /\ \A s \in SUBSET S : IsFiniteSet(s) /\ Cardinality(s) \in Nat
                               /\ Cardinality(s) <= Cardinality(S)
  BY FS_Subset, FS_CardinalityType
<1>2. \A s \in SUBSET S : s # {} =>
        /\ OneOf(s) \in s /\ s \ {OneOf(s)} \in SUBSET S
        /\ Cardinality(s \ {OneOf(s)}) = Cardinality(s) - 1
  BY <1>1, FS_RemoveElement DEF OneOf
<1>3. 0 \in P
  <2> DEFINE g == [s \in Small(0) |-> 0]
  <2>1. \A s \in Small(0) : s = {}
    BY <1>1, FS_EmptySet
  <2>2. g = [s \in Small(0) |-> Step(f, g, s)]
    BY <2>1 DEF Step
  <2> QED BY <2>2
<1>4. ASSUME NEW n \in Nat, n \in P
      PROVE  n + 1 \in P
  <2>1. PICK g : g = [s \in Small(n) |-> Step(f, g, s)]
    BY <1>4
  <2> DEFINE h == [s \in Small(n + 1) |-> Step(f, g, s)]
  <2>2. \A s \in Small(n + 1) : s # {} => s \ {OneOf(s)} \in Small(n)
    BY <1>1, <1>2
  <2>3. \A s \in Small(n) : s \in Small(n + 1)
    BY <1>1
  <2>4. \A s \in Small(n) : h[s] = g[s]
    BY <2>1, <2>3
  <2>5. \A s \in Small(n + 1) : Step(f, g, s) = Step(f, h, s)
    BY <2>2, <2>4 DEF Step
  <2>6. h = [s \in Small(n + 1) |-> Step(f, h, s)]
    BY <2>5
  <2> HIDE DEF Small, h
  <2>7. \E k : k = [s \in Small(n + 1) |-> Step(f, k, s)]
    BY <2>6
  <2> QED BY <2>7
<1> HIDE DEF P
<1>5. Cardinality(S) \in P
  BY <1>1, <1>3, <1>4, NaturalInduction
<1>6. Small(Cardinality(S)) = SUBSET S
  BY <1>1
<1>7. \E g : g = Stepped(f, g, S)
  BY <1>5, <1>6 DEF P, Stepped
<1> QED BY <1>7 DEF Totals

(* Whatever solves the recursion gives the sum.                            *)
LEMMA SumIsUnique ==
  ASSUME NEW f, NEW S, IsFiniteSet(S), NEW g, g = Stepped(f, g, S),
         NEW T \in SUBSET S
  PROVE  g[T] = Sum(f, T)
<1> DEFINE h == Totals(f, T)
           P == {n \in Nat : \A s \in SUBSET T : Cardinality(s) = n => g[s] = h[s]}
<1>1. /\ Cardinality(T) \in Nat /\ IsFiniteSet(T)
      /\ \A s \in SUBSET T : s \in SUBSET S /\ IsFiniteSet(s) /\ Cardinality(s) \in Nat
  BY FS_Subset, FS_CardinalityType
<1>2. \A s \in SUBSET T : s # {} =>
        /\ OneOf(s) \in s
        /\ Cardinality(s \ {OneOf(s)}) = Cardinality(s) - 1
  BY <1>1, FS_RemoveElement DEF OneOf
<1>3. \A s \in SUBSET T : g[s] = Step(f, g, s) /\ h[s] = Step(f, h, s)
  <2>1. h = Stepped(f, h, T)
    BY <1>1, TotalsExist
  <2> HIDE DEF h
  <2> QED BY <1>1, <2>1 DEF Stepped
<1> HIDE DEF h
<1>4. 0 \in P
  BY <1>1, <1>3, FS_EmptySet DEF Step
<1>5. ASSUME NEW n \in Nat, n \in P
      PROVE  n + 1 \in P
  <2>1. ASSUME NEW s \in SUBSET T, Cardinality(s) = n + 1
        PROVE  g[s] = h[s]
    <3>1. s # {}
      BY <1>1, <2>1, FS_EmptySet
    <3>2. s \ {OneOf(s)} \in SUBSET T /\ Cardinality(s \ {OneOf(s)}) = n
      <4>1. Cardinality(s \ {OneOf(s)}) = Cardinality(s) - 1
        BY <1>2, <3>1
      <4> QED BY <2>1, <4>1
    <3>3. g[s \ {OneOf(s)}] = h[s \ {OneOf(s)}]
      BY <1>5, <3>2
    <3> QED BY <1>3, <3>1, <3>3 DEF Step
  <2> QED BY <2>1
<1> HIDE DEF P
<1>6. Cardinality(T) \in P
  BY <1>1, <1>4, <1>5, NaturalInduction
<1> QED BY <1>6 DEF P, Sum, h

(* A sum is the sum without any one element, and that element.             *)
LEMMA SumStep ==
  ASSUME NEW f, NEW S, IsFiniteSet(S), \A x \in S : f[x] \in Int
  PROVE  /\ Sum(f, {}) = 0
         /\ Sum(f, S) \in Int
         /\ \A x \in S : Sum(f, S) = f[x] + Sum(f, S \ {x})
<1> DEFINE Sound(T) == /\ Sum(f, T) \in Int
                       /\ \A x \in T : Sum(f, T) = f[x] + Sum(f, T \ {x})
           P == {n \in Nat : \A T \in SUBSET S : Cardinality(T) <= n => Sound(T)}
<1>1. \A T \in SUBSET S : IsFiniteSet(T) /\ Cardinality(T) \in Nat
  BY FS_Subset, FS_CardinalityType
<1>2. \A T \in SUBSET S : \A x \in T : Cardinality(T \ {x}) = Cardinality(T) - 1
  BY <1>1, FS_RemoveElement
<1>3. Sum(f, {}) = 0
  <2>1. Totals(f, {}) = Stepped(f, Totals(f, {}), {})
    BY TotalsExist, FS_EmptySet
  <2> QED BY <2>1 DEF Sum, Stepped, Step
<1>4. \A T \in SUBSET S : T # {} =>
        /\ OneOf(T) \in T
        /\ Sum(f, T) = f[OneOf(T)] + Sum(f, T \ {OneOf(T)})
  <2> SUFFICES ASSUME NEW T \in SUBSET S, T # {}
               PROVE  /\ OneOf(T) \in T
                      /\ Sum(f, T) = f[OneOf(T)] + Sum(f, T \ {OneOf(T)})
    OBVIOUS
  <2>1. IsFiniteSet(T) /\ OneOf(T) \in T
    BY <1>1 DEF OneOf
  <2> DEFINE g == Totals(f, T)
  <2>2. g = Stepped(f, g, T)
    BY <2>1, TotalsExist
  <2> HIDE DEF g
  <2>3. g[T \ {OneOf(T)}] = Sum(f, T \ {OneOf(T)})
    BY ZenonT(60), <2>1, <2>2, SumIsUnique, T \ {OneOf(T)} \in SUBSET T
  <2>4. g[T] = f[OneOf(T)] + g[T \ {OneOf(T)}]
    BY <2>2 DEF Stepped, Step
  <2> QED BY <2>1, <2>3, <2>4 DEF Sum, g
<1>5. 0 \in P
  BY <1>1, <1>3, FS_EmptySet
<1>6. ASSUME NEW n \in Nat, n \in P
      PROVE  n + 1 \in P
  <2> SUFFICES ASSUME NEW T \in SUBSET S, Cardinality(T) = n + 1
               PROVE  Sound(T)
    <3> HIDE DEF Sound
    <3> QED BY <1>1, <1>6
  <2> DEFINE c == OneOf(T)
  <2>1. c \in T /\ Sum(f, T) = f[c] + Sum(f, T \ {c})
    <3>1. T # {}
      BY <1>1, FS_EmptySet
    <3> QED BY <1>4, <3>1
  <2> HIDE DEF c
  <2>2. \A x \in T : T \ {x} \in SUBSET S /\ Cardinality(T \ {x}) = n
    BY <1>2
  <2>3. \A x \in T : Sum(f, T \ {x}) \in Int
    BY <1>6, <2>2
  <2>4. ASSUME NEW x \in T, x # c
        PROVE  Sum(f, T) = f[x] + Sum(f, T \ {x})
    <3> DEFINE rest == Sum(f, (T \ {x}) \ {c})
    <3>1. (T \ {x}) \ {c} = (T \ {c}) \ {x} /\ x \in T \ {c} /\ c \in T \ {x}
      BY <2>1, <2>4
    <3>2. Sum(f, T \ {c}) = f[x] + rest
      BY <1>6, <2>1, <2>2, <3>1
    <3>3. Sum(f, T \ {x}) = f[c] + rest
      BY <1>6, <2>2, <3>1
    <3>4. rest \in Int
      <4>1. (T \ {x}) \ {c} \in SUBSET S /\ Cardinality((T \ {x}) \ {c}) = n - 1
        BY <1>2, <2>2, <3>1
      <4> QED BY <1>6, <4>1
    <3>5. f[x] \in Int /\ f[c] \in Int
      BY <2>1
    <3> HIDE DEF rest
    <3> QED BY <2>1, <3>2, <3>3, <3>4, <3>5
  <2>5. \A x \in T : Sum(f, T) = f[x] + Sum(f, T \ {x})
    BY <2>1, <2>4
  <2>6. Sum(f, T) \in Int
    <3>1. f[c] \in Int /\ Sum(f, T \ {c}) \in Int
      BY <2>1, <2>3
    <3> QED BY <2>1, <3>1
  <2> QED BY <2>5, <2>6
<1> HIDE DEF P
<1>7. Cardinality(S) \in Nat /\ Cardinality(S) \in P
  BY <1>1, <1>5, <1>6, NaturalInduction
<1> QED BY <1>1, <1>3, <1>7 DEF P

LEMMA SumNat ==
  ASSUME NEW f, NEW S, IsFiniteSet(S), \A x \in S : f[x] \in Nat
  PROVE  Sum(f, S) \in Nat
<1> DEFINE P == {T \in SUBSET S : Sum(f, T) \in Nat}
<1>1. {} \in P
  BY SumStep
<1>2. ASSUME NEW T \in SUBSET S, NEW x \in S \ T, T \in P
      PROVE  T \cup {x} \in P
  <2>1. IsFiniteSet(T \cup {x}) /\ (T \cup {x}) \ {x} = T
    BY FS_Subset
  <2>2. Sum(f, T \cup {x}) = f[x] + Sum(f, T)
    BY <2>1, SumStep
  <2> QED BY <1>2, <2>2
<1> HIDE DEF P
<1>3. S \in P
  BY <1>1, <1>2, SetInduction
<1> QED BY <1>3 DEF P

(* Adding to the set, to the function, and the sum of a constant.          *)
LEMMA SumAdd ==
  ASSUME NEW f, NEW T, IsFiniteSet(T), NEW x, x \notin T,
         \A y \in T \cup {x} : f[y] \in Int
  PROVE  /\ Sum(f, T) \in Int /\ IsFiniteSet(T \cup {x})
         /\ Sum(f, T \cup {x}) = f[x] + Sum(f, T)
<1>1. IsFiniteSet(T \cup {x}) /\ (T \cup {x}) \ {x} = T
  BY FS_AddElement
<1> QED BY <1>1, SumStep

LEMMA SumUnion ==
  ASSUME NEW f, NEW S, NEW U, IsFiniteSet(S), IsFiniteSet(U), S \cap U = {},
         \A x \in S \cup U : f[x] \in Int
  PROVE  Sum(f, S \cup U) = Sum(f, S) + Sum(f, U)
<1> DEFINE P == {T \in SUBSET S : Sum(f, T \cup U) = Sum(f, T) + Sum(f, U)}
<1>1. Sum(f, U) \in Int /\ Sum(f, {}) = 0
  BY SumStep
<1>2. {} \in P
  BY <1>1, {} \cup U = U
<1>3. ASSUME NEW T \in SUBSET S, NEW x \in S \ T, T \in P
      PROVE  T \cup {x} \in P
  <2>1. IsFiniteSet(T) /\ IsFiniteSet(T \cup U) /\ x \notin T \cup U
    BY FS_Subset, FS_Union
  <2>2. /\ Sum(f, T \cup {x}) = f[x] + Sum(f, T) /\ Sum(f, T) \in Int
        /\ Sum(f, (T \cup U) \cup {x}) = f[x] + Sum(f, T \cup U)
    BY <2>1, SumAdd
  <2>3. (T \cup {x}) \cup U = (T \cup U) \cup {x} /\ f[x] \in Int
    OBVIOUS
  <2>4. Sum(f, T \cup U) = Sum(f, T) + Sum(f, U)
    BY <1>3
  <2>5. Sum(f, (T \cup U) \cup {x}) = Sum(f, T \cup {x}) + Sum(f, U)
    BY <1>1, <2>2, <2>3, <2>4
  <2> QED BY <2>3, <2>5
<1> HIDE DEF P
<1>4. S \in P
  BY <1>2, <1>3, SetInduction
<1> QED BY <1>4 DEF P

LEMMA SumSame ==
  ASSUME NEW f, NEW g, NEW S, IsFiniteSet(S),
         \A x \in S : f[x] \in Int /\ f[x] = g[x]
  PROVE  Sum(f, S) = Sum(g, S)
<1> DEFINE P == {T \in SUBSET S : Sum(f, T) = Sum(g, T)}
<1>1. {} \in P
  BY SumStep, FS_EmptySet
<1>2. ASSUME NEW T \in SUBSET S, NEW x \in S \ T, T \in P
      PROVE  T \cup {x} \in P
  <2>1. IsFiniteSet(T) /\ \A y \in T \cup {x} : f[y] \in Int /\ g[y] \in Int
    BY FS_Subset
  <2>2. /\ Sum(f, T \cup {x}) = f[x] + Sum(f, T)
        /\ Sum(g, T \cup {x}) = g[x] + Sum(g, T)
    BY <2>1, SumAdd
  <2> QED BY <1>2, <2>2
<1> HIDE DEF P
<1>3. S \in P
  BY <1>1, <1>2, SetInduction
<1> QED BY <1>3 DEF P

LEMMA SumPlus ==
  ASSUME NEW f, NEW g, NEW h, NEW S, IsFiniteSet(S),
         \A x \in S : f[x] \in Int /\ g[x] \in Int /\ h[x] = f[x] + g[x]
  PROVE  Sum(h, S) = Sum(f, S) + Sum(g, S)
<1> DEFINE P == {T \in SUBSET S : Sum(h, T) = Sum(f, T) + Sum(g, T)}
<1>1. {} \in P
  BY SumStep, FS_EmptySet
<1>2. ASSUME NEW T \in SUBSET S, NEW x \in S \ T, T \in P
      PROVE  T \cup {x} \in P
  <2>1. IsFiniteSet(T) /\ \A y \in T \cup {x} : f[y] \in Int /\ g[y] \in Int /\ h[y] \in Int
    BY FS_Subset
  <2>2. /\ Sum(f, T \cup {x}) = f[x] + Sum(f, T)
        /\ Sum(g, T \cup {x}) = g[x] + Sum(g, T)
        /\ Sum(h, T \cup {x}) = h[x] + Sum(h, T)
        /\ Sum(f, T) \in Int /\ Sum(g, T) \in Int
    BY <2>1, SumAdd
  <2>3. h[x] = f[x] + g[x] /\ f[x] \in Int /\ g[x] \in Int
    OBVIOUS
  <2> QED BY <1>2, <2>2, <2>3
<1> HIDE DEF P
<1>3. S \in P
  BY <1>1, <1>2, SetInduction
<1> QED BY <1>3 DEF P

LEMMA SumConstant ==
  ASSUME NEW f, NEW c \in Int, NEW S, IsFiniteSet(S), \A x \in S : f[x] = c
  PROVE  Sum(f, S) = c * Cardinality(S)
<1> DEFINE P == {T \in SUBSET S : Sum(f, T) = c * Cardinality(T)}
<1>1. {} \in P
  BY SumStep, FS_EmptySet
<1>2. ASSUME NEW T \in SUBSET S, NEW x \in S \ T, T \in P
      PROVE  T \cup {x} \in P
  <2>1. IsFiniteSet(T) /\ \A y \in T \cup {x} : f[y] \in Int
    BY FS_Subset
  <2>2. Sum(f, T \cup {x}) = c + Sum(f, T)
    BY <2>1, SumAdd
  <2>3. Cardinality(T \cup {x}) = Cardinality(T) + 1 /\ Cardinality(T) \in Nat
    BY <2>1, FS_AddElement, FS_CardinalityType
  <2>4. \A n \in Nat : c + c * n = c * (n + 1)
    OBVIOUS
  <2> QED BY <1>2, <2>2, <2>3, <2>4
<1> HIDE DEF P
<1>3. S \in P
  BY <1>1, <1>2, SetInduction
<1> QED BY <1>3 DEF P

(* Disjoint sets have as many elements as they add up to.                  *)
LEMMA SizeOfBoth ==
  ASSUME NEW S, NEW U, IsFiniteSet(S), IsFiniteSet(U), S \cap U = {}
  PROVE  /\ IsFiniteSet(S \cup U)
         /\ Cardinality(S \cup U) = Cardinality(S) + Cardinality(U)
<1>1. Cardinality(S) \in Nat /\ Cardinality(U) \in Nat /\ Cardinality(S \cap U) = 0
  BY FS_CardinalityType, FS_EmptySet
<1>2. /\ IsFiniteSet(S \cup U)
      /\ Cardinality(S \cup U) = Cardinality(S) + Cardinality(U) - Cardinality(S \cap U)
  BY FS_Union
<1> QED BY <1>1, <1>2

LEMMA SumOfSizes ==
  ASSUME NEW F, NEW S, IsFiniteSet(S), \A x \in S : IsFiniteSet(F[x]),
         \A x, y \in S : x # y => F[x] \cap F[y] = {}
  PROVE  /\ IsFiniteSet(UNION {F[x] : x \in S})
         /\ Cardinality(UNION {F[x] : x \in S})
              = Sum([x \in S |-> Cardinality(F[x])], S)
<1> DEFINE sizes == [x \in S |-> Cardinality(F[x])]
           All(T) == UNION {F[x] : x \in T}
           P == {T \in SUBSET S : /\ IsFiniteSet(All(T))
                                  /\ Cardinality(All(T)) = Sum(sizes, T)}
<1>1. \A x \in S : sizes[x] \in Nat /\ sizes[x] = Cardinality(F[x])
  BY FS_CardinalityType
<1> HIDE DEF sizes
<1>2. {} \in P
  BY All({}) = {}, SumStep, FS_EmptySet
<1>3. ASSUME NEW T \in SUBSET S, NEW x \in S \ T, T \in P
      PROVE  T \cup {x} \in P
  <2>1. IsFiniteSet(T) /\ \A y \in T \cup {x} : sizes[y] \in Int
    BY <1>1, FS_Subset
  <2>2. Sum(sizes, T \cup {x}) = sizes[x] + Sum(sizes, T)
    BY <2>1, SumAdd
  <2>3. All(T \cup {x}) = All(T) \cup F[x]
    OBVIOUS
  <2>4. All(T) \cap F[x] = {}
    OBVIOUS
  <2> HIDE DEF All
  <2>5. /\ IsFiniteSet(All(T) \cup F[x])
        /\ Cardinality(All(T) \cup F[x]) = Cardinality(All(T)) + Cardinality(F[x])
    BY <1>3, <2>4, SizeOfBoth
  <2>6. Cardinality(All(T)) \in Nat /\ Cardinality(F[x]) \in Nat
    BY <1>3, FS_CardinalityType
  <2>7. sizes[x] = Cardinality(F[x]) /\ Cardinality(All(T)) = Sum(sizes, T)
    BY <1>1, <1>3
  <2>8. /\ IsFiniteSet(All(T \cup {x}))
        /\ Cardinality(All(T \cup {x})) = Sum(sizes, T \cup {x})
    <3>1. Cardinality(All(T) \cup F[x]) = Sum(sizes, T \cup {x})
      BY <2>2, <2>5, <2>6, <2>7
    <3> QED BY <2>3, <2>5, <3>1
  <2> QED BY <2>8
<1> HIDE DEF P
<1>4. S \in P
  BY <1>2, <1>3, SetInduction
<1> QED BY <1>4 DEF P, sizes

(* A factor of every term, and terms that are no more than others.         *)
LEMMA SumScale ==
  ASSUME NEW f, NEW g, NEW c \in Int, NEW S, IsFiniteSet(S),
         \A x \in S : f[x] \in Int /\ g[x] = c * f[x]
  PROVE  Sum(g, S) = c * Sum(f, S)
<1> DEFINE P == {T \in SUBSET S : Sum(g, T) = c * Sum(f, T)}
<1>1. {} \in P
  BY SumStep, FS_EmptySet
<1>2. ASSUME NEW T \in SUBSET S, NEW x \in S \ T, T \in P
      PROVE  T \cup {x} \in P
  <2>1. IsFiniteSet(T) /\ \A y \in T \cup {x} : f[y] \in Int /\ g[y] \in Int
    BY FS_Subset
  <2>2. /\ Sum(f, T \cup {x}) = f[x] + Sum(f, T)
        /\ Sum(g, T \cup {x}) = g[x] + Sum(g, T)
        /\ Sum(f, T) \in Int
    BY <2>1, SumAdd
  <2>3. \A a, b \in Int : c * a + c * b = c * (a + b)
    OBVIOUS
  <2>4. f[x] \in Int /\ g[x] = c * f[x] /\ Sum(g, T) = c * Sum(f, T)
    BY <1>2
  <2>5. Sum(g, T \cup {x}) = c * Sum(f, T \cup {x})
    BY <2>2, <2>3, <2>4
  <2> QED BY <2>5
<1> HIDE DEF P
<1>3. S \in P
  BY <1>1, <1>2, SetInduction
<1> QED BY <1>3 DEF P

LEMMA SumMonotone ==
  ASSUME NEW f, NEW g, NEW S, IsFiniteSet(S),
         \A x \in S : f[x] \in Int /\ g[x] \in Int /\ f[x] <= g[x]
  PROVE  Sum(f, S) <= Sum(g, S)
<1> DEFINE P == {T \in SUBSET S : Sum(f, T) <= Sum(g, T)}
<1>1. {} \in P
  BY SumStep, FS_EmptySet
<1>2. ASSUME NEW T \in SUBSET S, NEW x \in S \ T, T \in P
      PROVE  T \cup {x} \in P
  <2>1. IsFiniteSet(T) /\ \A y \in T \cup {x} : f[y] \in Int /\ g[y] \in Int
    BY FS_Subset
  <2>2. /\ Sum(f, T \cup {x}) = f[x] + Sum(f, T)
        /\ Sum(g, T \cup {x}) = g[x] + Sum(g, T)
        /\ Sum(f, T) \in Int /\ Sum(g, T) \in Int
    BY <2>1, SumAdd
  <2>3. Sum(f, T \cup {x}) <= Sum(g, T \cup {x})
    BY <1>2, <2>2
  <2> QED BY <2>3
<1> HIDE DEF P
<1>3. S \in P
  BY <1>1, <1>2, SetInduction
<1> QED BY <1>3 DEF P

(* A sum over the blocks of a partition is one over their elements.        *)
LEMMA SumPartition ==
  ASSUME NEW Q, IsFiniteSet(Q), IsFiniteSet(UNION Q),
         \A b, c \in Q : b # c => b \cap c = {},
         NEW h, \A x \in UNION Q : h[x] \in Int,
         NEW g, \A b \in Q : g[b] = Sum(h, b)
  PROVE  Sum(g, Q) = Sum(h, UNION Q)
<1> DEFINE P == {T \in SUBSET Q : Sum(g, T) = Sum(h, UNION T)}
<1>1. {} \in P
  <2>1. Sum(g, {}) = 0
    BY SumStep, FS_EmptySet
  <2>2. Sum(h, {}) = 0
    BY SumStep, FS_EmptySet
  <2>3. UNION {} = {}
    OBVIOUS
  <2> QED BY <2>1, <2>2, <2>3
<1>2. ASSUME NEW T \in SUBSET Q, NEW b \in Q \ T, T \in P
      PROVE  T \cup {b} \in P
  <2>1. UNION T \in SUBSET UNION Q /\ b \in SUBSET UNION Q
    OBVIOUS
  <2>2. IsFiniteSet(T) /\ IsFiniteSet(UNION T) /\ IsFiniteSet(b)
    BY <2>1, FS_Subset
  <2>3. \A c \in Q : IsFiniteSet(c) /\ \A x \in c : h[x] \in Int
    BY FS_Subset
  <2>4. \A c \in Q : g[c] \in Int
    <3> TAKE c \in Q
    <3>1. Sum(h, c) \in Int
      BY <2>3, SumStep
    <3> QED BY <3>1
  <2>5. Sum(g, T \cup {b}) = g[b] + Sum(g, T) /\ Sum(g, T) \in Int
    BY <2>2, <2>4, SumAdd
  <2>6. b \cap UNION T = {}
    OBVIOUS
  <2>7. Sum(h, b \cup UNION T) = Sum(h, b) + Sum(h, UNION T)
    BY <2>1, <2>2, <2>6, SumUnion
  <2>8. UNION (T \cup {b}) = b \cup UNION T
    OBVIOUS
  <2>9. Sum(g, T) = Sum(h, UNION T)
    BY <1>2
  <2>10. Sum(g, T \cup {b}) = Sum(h, b \cup UNION T)
    BY <2>5, <2>7, <2>9
  <2> QED BY <2>8, <2>10
<1> HIDE DEF P
<1>3. Q \in P
  BY <1>1, <1>2, SetInduction
<1> QED BY <1>3 DEF P

-----------------------------------------------------------------------------
(* Finite sets: least and greatest elements, images, orders, and folds whose *)
(* steps are given by a function.                                            *)

(* Natural numbers have a least one, finitely many integers a greatest.    *)
LEMMA LeastNat ==
  ASSUME NEW S \in SUBSET Nat, S # {}
  PROVE  \E x \in S : \A y \in S : x <= y
<1> DEFINE Has(T) == \E x \in T : \A y \in T : x <= y
           P == {n \in Nat : \A T \in SUBSET Nat : (\E x \in T : x <= n) => Has(T)}
<1>1. 0 \in P
  OBVIOUS
<1>2. ASSUME NEW n \in Nat, n \in P
      PROVE  n + 1 \in P
  <2> SUFFICES ASSUME NEW T \in SUBSET Nat, NEW x \in T, x <= n + 1
               PROVE  Has(T)
    OBVIOUS
  <2>1. CASE \E y \in T : y <= n
    <3> HIDE DEF Has
    <3> QED BY <1>2, <2>1
  <2>2. CASE ~ \E y \in T : y <= n
    <3>1. \A y \in T : n + 1 <= y
      BY <2>2
    <3>2. x = n + 1
      BY <3>1
    <3> QED BY <3>1, <3>2
  <2> QED BY <2>1, <2>2
<1> HIDE DEF P
<1>3. Nat \subseteq P
  BY <1>1, <1>2, NaturalInduction
<1>4. PICK n \in S : TRUE
  OBVIOUS
<1>5. n \in P /\ n <= n
  BY <1>3
<1> QED BY <1>4, <1>5 DEF P

LEMMA GreatestInt ==
  ASSUME NEW S, IsFiniteSet(S), S # {}, S \subseteq Int
  PROVE  \E x \in S : \A y \in S : x >= y
<1> DEFINE P == {T \in SUBSET S : T # {} => \E x \in T : \A y \in T : x >= y}
<1>1. {} \in P
  OBVIOUS
<1>2. ASSUME NEW T \in SUBSET S, NEW x \in S \ T, T \in P
      PROVE  T \cup {x} \in P
  <2>1. CASE T = {}
    BY <2>1
  <2>2. CASE T # {}
    <3>1. PICK y \in T : \A z \in T : y >= z
      BY <1>2, <2>2
    <3>2. CASE y >= x
      BY <3>1, <3>2
    <3>3. CASE ~ y >= x
      <4>1. \A z \in T \cup {x} : x >= z
        BY <3>1, <3>3
      <4> QED BY <4>1
    <3> QED BY <3>2, <3>3
  <2> QED BY <2>1, <2>2
<1> HIDE DEF P
<1>3. S \in P
  BY <1>1, <1>2, SetInduction
<1> QED BY <1>3 DEF P

(* The images of finitely many elements are finitely many.                 *)
LEMMA FiniteImage ==
  ASSUME NEW S, IsFiniteSet(S), NEW f
  PROVE  IsFiniteSet({f[x] : x \in S})
<1> DEFINE P == {T \in SUBSET S : IsFiniteSet({f[x] : x \in T})}
<1>1. {} \in P
  <2>1. {f[x] : x \in {}} = {}
    OBVIOUS
  <2> QED BY <2>1, FS_EmptySet
<1>2. ASSUME NEW T \in SUBSET S, NEW x \in S \ T, T \in P
      PROVE  T \cup {x} \in P
  <2>1. {f[y] : y \in T \cup {x}} = {f[y] : y \in T} \cup {f[x]}
    OBVIOUS
  <2>2. IsFiniteSet({f[y] : y \in T} \cup {f[x]})
    BY <1>2, FS_AddElement
  <2> QED BY <2>1, <2>2
<1> HIDE DEF P
<1>3. S \in P
  BY <1>1, <1>2, SetInduction
<1> QED BY <1>3 DEF P

(* Under a strict order on a finite set, what has something above it has   *)
(* something above it that has nothing above it.                           *)
StrictlyOrders(R, D) ==
  /\ \A x \in D : <<x, x>> \notin R
  /\ \A x, y, z \in D : <<x, y>> \in R /\ <<y, z>> \in R => <<x, z>> \in R

LEMMA UndominatedExists ==
  ASSUME NEW D, IsFiniteSet(D), NEW R, StrictlyOrders(R, D),
         NEW i \in D, \E j \in D : <<j, i>> \in R
  PROVE  \E j \in D : <<j, i>> \in R /\ \A k \in D : <<k, j>> \notin R
<1> DEFINE Has(E) == \E j \in E : <<j, i>> \in R /\ \A k \in E : <<k, j>> \notin R
           P == {E \in SUBSET D : (\E j \in E : <<j, i>> \in R) => Has(E)}
<1>1. {} \in P
  OBVIOUS
<1>2. ASSUME NEW E \in SUBSET D, NEW x \in D \ E, E \in P
      PROVE  E \cup {x} \in P
  <2> SUFFICES ASSUME \E j \in E \cup {x} : <<j, i>> \in R
               PROVE  Has(E \cup {x})
    <3> HIDE DEF Has
    <3> QED OBVIOUS
  <2>1. CASE \E j \in E : <<j, i>> \in R
    <3>1. PICK j \in E : <<j, i>> \in R /\ \A k \in E : <<k, j>> \notin R
      BY <1>2, <2>1
    <3>2. CASE <<x, j>> \in R
      <4>1. <<x, i>> \in R
        BY <3>1, <3>2 DEF StrictlyOrders
      <4>2. \A k \in E \cup {x} : <<k, x>> \notin R
        BY <3>1, <3>2 DEF StrictlyOrders
      <4> QED BY <4>1, <4>2
    <3>3. CASE <<x, j>> \notin R
      BY <3>1, <3>3
    <3> QED BY <3>2, <3>3
  <2>2. CASE ~ \E j \in E : <<j, i>> \in R
    <3>1. <<x, i>> \in R
      BY <2>2
    <3>2. \A k \in E \cup {x} : <<k, x>> \notin R
      BY <2>2, <3>1 DEF StrictlyOrders
    <3> QED BY <3>1, <3>2
  <2> QED BY <2>1, <2>2
<1> HIDE DEF P
<1>3. D \in P
  BY <1>1, <1>2, SetInduction
<1> QED BY <1>3 DEF P

(* A recursion over the subsets of a finite set, base b and step F, that    *)
(* takes from each subset s the member c[s].                                *)
Picks(c, S) == \A s \in SUBSET S : s # {} => c[s] \in s
StaysIn(F, S, T) == \A x \in S : \A t \in T : F[x][t] \in T
Unfolds(g, S, c, b, F) ==
  \A s \in SUBSET S : g[s] = IF s = {} THEN b ELSE F[c[s]][g[s \ {c[s]}]]

(* It has a solution, and that stays in the set the base and steps are in. *)
LEMMA FoldExists ==
  ASSUME NEW S, IsFiniteSet(S), NEW c, Picks(c, S),
         NEW T, NEW b \in T, NEW F, StaysIn(F, S, T)
  PROVE  \E g \in [SUBSET S -> T] : Unfolds(g, S, c, b, F)
<1> DEFINE Small(n) == {s \in SUBSET S : Cardinality(s) <= n}
           Next(g, s) == IF s = {} THEN b ELSE F[c[s]][g[s \ {c[s]}]]
           P == {n \in Nat : \E g \in [Small(n) -> T] :
                               \A s \in Small(n) : g[s] = Next(g, s)}
<1>1. /\ Cardinality(S) \in Nat
      /\ \A s \in SUBSET S : IsFiniteSet(s) /\ Cardinality(s) \in Nat
                               /\ Cardinality(s) <= Cardinality(S)
  BY FS_Subset, FS_CardinalityType
<1>2. \A s \in SUBSET S : s # {} =>
        /\ c[s] \in S /\ s \ {c[s]} \in SUBSET S
        /\ Cardinality(s \ {c[s]}) = Cardinality(s) - 1
  BY <1>1, FS_RemoveElement DEF Picks
<1>3. 0 \in P
  <2> DEFINE g == [s \in Small(0) |-> b]
  <2>1. \A s \in Small(0) : s = {}
    BY <1>1, FS_EmptySet
  <2>2. g \in [Small(0) -> T] /\ \A s \in Small(0) : g[s] = Next(g, s)
    BY <2>1
  <2> HIDE DEF Next, Small, g
  <2> QED BY <2>2
<1>4. ASSUME NEW n \in Nat, n \in P
      PROVE  n + 1 \in P
  <2>1. PICK g \in [Small(n) -> T] : \A s \in Small(n) : g[s] = Next(g, s)
    BY <1>4
  <2> DEFINE h == [s \in Small(n + 1) |-> Next(g, s)]
  <2>2. \A s \in Small(n + 1) : s # {} => s \ {c[s]} \in Small(n)
    BY <1>1, <1>2
  <2>3. \A s \in Small(n) : s \in Small(n + 1)
    BY <1>1
  <2>4. \A s \in Small(n + 1) : h[s] = Next(g, s)
    OBVIOUS
  <2>5. \A s \in Small(n) : h[s] = g[s]
    BY <2>1, <2>3, <2>4
  <2>6. \A s \in Small(n + 1) : Next(g, s) = Next(h, s)
    <3> HIDE DEF h
    <3> QED BY <2>2, <2>5
  <2>7. \A s \in Small(n + 1) : Next(g, s) \in T
    BY <1>2, <2>1, <2>2 DEF StaysIn
  <2>8. h \in [Small(n + 1) -> T]
    BY <2>7
  <2>9. \A s \in Small(n + 1) : h[s] = Next(h, s)
    BY <2>4, <2>6
  <2> HIDE DEF Small, Next, h
  <2> QED BY <2>8, <2>9
<1> HIDE DEF P
<1>5. Cardinality(S) \in P
  BY <1>1, <1>3, <1>4, NaturalInduction
<1>6. Small(Cardinality(S)) = SUBSET S
  BY <1>1
<1> QED BY <1>5, <1>6 DEF P, Unfolds
=============================================================================
