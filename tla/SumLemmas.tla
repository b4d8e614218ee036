------------------------------ MODULE SumLemmas ------------------------------
(***************************************************************************)
(* Facts about natural numbers, finite sets, lists and the sums of         *)
(* Functions that the other proofs rest on.  The induction theorems of the *)
(* library take a predicate as parameter; here a property is the set of    *)
(* the values that have it, and induction follows from the                 *)
(* well-foundedness of <.                                                  *)
(***************************************************************************)
EXTENDS SequencesExt, Lists, Integers, FiniteSetTheorems, WellFoundedInduction, TLAPS

(* A non-empty set of natural numbers has a least element. *)
LEMMA LeastElement ==
  ASSUME NEW T, T \subseteq Nat, T # {}
  PROVE  \E x \in T : \A y \in T : x <= y
<1> DEFINE R == OpToRel(<, Nat)
<1>1. IsWellFoundedOn(R, Nat)
  BY NatLessThanWellFounded
<1> HIDE DEF R
<1>2. PICK x \in T : \A y \in T : ~ (<<y, x>> \in R)
  BY <1>1, WFMin
<1>3. \A y \in T : ~ (y < x)
  BY <1>2 DEF R, OpToRel
<1>4. \A y \in T : x <= y
  BY <1>3
<1> QED BY <1>4

LEMMA NatSetInduction ==
  ASSUME NEW S, 0 \in S, \A n \in Nat : n \in S => n + 1 \in S
  PROVE  \A n \in Nat : n \in S
<1> DEFINE T == Nat \ S
<1> SUFFICES ASSUME T # {} PROVE FALSE
  OBVIOUS
<1>1. PICK x \in T : \A y \in T : x <= y
  BY LeastElement
<1>2. x \in Nat /\ x # 0 /\ x - 1 \in Nat
  BY <1>1
<1>3. x - 1 \in S
  BY <1>1, <1>2
<1>4. (x - 1) + 1 \in S
  BY <1>2, <1>3
<1> QED BY <1>1, <1>2, <1>4

(* The same up to a bound. *)
LEMMA RangeInduction ==
  ASSUME NEW m \in Nat, NEW S, 0 \in S, \A n \in 0 .. m - 1 : n \in S => n + 1 \in S
  PROVE  \A n \in 0 .. m : n \in S
<1> DEFINE T == {n \in Nat : n <= m => n \in S}
<1>1. 0 \in T
  OBVIOUS
<1>2. \A n \in Nat : n \in T => n + 1 \in T
  <2> SUFFICES ASSUME NEW n \in Nat, n \in T, n + 1 <= m PROVE n + 1 \in S
    OBVIOUS
  <2>1. n \in 0 .. m - 1 /\ n \in S
    OBVIOUS
  <2> QED BY <2>1
<1> HIDE DEF T
<1>3. \A n \in Nat : n \in T
  BY <1>1, <1>2, NatSetInduction
<1> QED BY <1>3 DEF T

(* What holds of {} and goes from T \ {x} to T holds of all subsets of a
   finite set; P is the set of the subsets that have the property.          *)
LEMMA SubsetInduction ==
  ASSUME NEW S, IsFiniteSet(S), NEW P, {} \in P,
         \A T \in SUBSET S : T # {} /\ (\A x \in T : T \ {x} \in P) => T \in P
  PROVE  \A T \in SUBSET S : T \in P
<1> DEFINE Bad == {Cardinality(T) : T \in (SUBSET S) \ P}
<1> SUFFICES ASSUME (SUBSET S) \ P # {} PROVE FALSE
  OBVIOUS
<1>1. \A T \in SUBSET S : IsFiniteSet(T) /\ Cardinality(T) \in Nat
  BY FS_Subset, FS_CardinalityType
<1>2. Bad \subseteq Nat /\ Bad # {}
  BY <1>1
<1>3. PICK n \in Bad : \A m \in Bad : n <= m
  <2> HIDE DEF Bad
  <2> QED BY <1>2, LeastElement
<1>4. PICK T \in (SUBSET S) \ P : Cardinality(T) = n
  BY <1>3
<1>5. \A x \in T : Cardinality(T \ {x}) = n - 1 /\ T \ {x} \in SUBSET S
  BY <1>1, <1>4, FS_RemoveElement
<1>6. \A x \in T : T \ {x} \in P
  <2> SUFFICES ASSUME NEW x \in T, T \ {x} \notin P PROVE FALSE
    OBVIOUS
  <2>1. n - 1 \in Bad
    BY <1>5
  <2>2. n \in Nat /\ n <= n - 1
    BY <1>2, <1>3, <2>1
  <2> QED BY <2>2
<1> QED BY <1>4, <1>6

(* The largest element of a finite range of positions. *)
LEMMA MaxOfPositions ==
  ASSUME NEW n \in Nat, NEW s \in SUBSET (1 .. n), s # {}
  PROVE  Max(s) \in s /\ \A y \in s : y <= Max(s)
<1> DEFINE D == {n - y : y \in s}
<1>1. D \subseteq Nat /\ D # {}
  OBVIOUS
<1>2. PICK d \in D : \A e \in D : d <= e
  <2> HIDE DEF D
  <2> QED BY <1>1, LeastElement
<1>3. PICK x \in s : d = n - x
  BY <1>2
<1>4. \A y \in s : n - x <= n - y
  BY <1>2, <1>3
<1>5. \A y \in s : x >= y
  BY <1>4
<1>6. \E z \in s : \A y \in s : z >= y
  BY <1>5
<1>7. Max(s) \in s /\ \A y \in s : Max(s) >= y
  BY <1>6, Zenon DEF Max
<1> QED BY <1>7

-----------------------------------------------------------------------------
(* The recursion behind a sum over a finite set has a solution: one for the
   subsets of at most n elements extends to those of n + 1.                 *)
Some(s) == CHOOSE x \in s : TRUE

Sums(g, f, S) ==
  g = [s \in SUBSET S |-> IF s = {} THEN 0 ELSE f[Some(s)] + g[s \ {Some(s)}]]

LEMMA SumsExist ==
  ASSUME NEW S, IsFiniteSet(S), NEW f
  PROVE  \E g : Sums(g, f, S)
<1> DEFINE Small(n) == {s \in SUBSET S : Cardinality(s) <= n}
           Solves(g, n) == g = [s \in Small(n) |->
                                  IF s = {} THEN 0 ELSE f[Some(s)] + g[s \ {Some(s)}]]
           Good == {n \in Nat : \E g : Solves(g, n)}
<1>1. \A s \in SUBSET S : IsFiniteSet(s) /\ Cardinality(s) \in Nat
  BY FS_Subset, FS_CardinalityType
<1>2. \A s \in SUBSET S : s # {} =>
        /\ Some(s) \in s /\ s \ {Some(s)} \in SUBSET S
        /\ Cardinality(s \ {Some(s)}) = Cardinality(s) - 1
  <2> SUFFICES ASSUME NEW s \in SUBSET S, s # {}
               PROVE  /\ Some(s) \in s /\ s \ {Some(s)} \in SUBSET S
                      /\ Cardinality(s \ {Some(s)}) = Cardinality(s) - 1
    OBVIOUS
  <2>1. Some(s) \in s
    BY Zenon DEF Some
  <2> QED BY <1>1, <2>1, FS_RemoveElement
<1>3. 0 \in Good
  <2>1. \A s \in Small(0) : s = {}
    BY <1>1, FS_EmptySet
  <2>2. Solves([s \in Small(0) |-> 0], 0)
    BY <2>1, Zenon
  <2> QED BY <2>2
<1>4. \A n \in Nat : n \in Good => n + 1 \in Good
  <2> SUFFICES ASSUME NEW n \in Nat, n \in Good
               PROVE  \E h : Solves(h, n + 1)
    <3> HIDE DEF Solves
    <3> QED OBVIOUS
  <2>0. PICK g : Solves(g, n)
    <3> HIDE DEF Solves
    <3> QED OBVIOUS
  <2> DEFINE h == [s \in Small(n + 1) |->
                     IF s = {} THEN 0 ELSE f[Some(s)] + g[s \ {Some(s)}]]
  <2>1. \A s \in Small(n + 1) : s # {} => s \ {Some(s)} \in Small(n)
    <3> HIDE DEF Good, Solves, h
    <3> QED BY <1>1, <1>2
  <2>2. \A s \in Small(n) : s \in Small(n + 1)
    BY <1>1
  <2>3. \A s \in Small(n) : h[s] = g[s]
    <3> SUFFICES ASSUME NEW s \in Small(n) PROVE h[s] = g[s]
      OBVIOUS
    <3>1. g[s] = IF s = {} THEN 0 ELSE f[Some(s)] + g[s \ {Some(s)}]
      <4> HIDE DEF Small
      <4> QED BY <2>0, Zenon
    <3>2. h[s] = IF s = {} THEN 0 ELSE f[Some(s)] + g[s \ {Some(s)}]
      <4> HIDE DEF Small
      <4> QED BY <2>2
    <3> HIDE DEF h, Small
    <3> QED BY <3>1, <3>2
  <2>4. \A s \in Small(n + 1) : s # {} => h[s \ {Some(s)}] = g[s \ {Some(s)}]
    <3> HIDE DEF h, Small
    <3> QED BY <2>1, <2>3
  <2>5. h = [s \in Small(n + 1) |-> IF s = {} THEN 0 ELSE f[Some(s)] + h[s \ {Some(s)}]]
    <3>1. \A s \in Small(n + 1) :
            (IF s = {} THEN 0 ELSE f[Some(s)] + g[s \ {Some(s)}])
              = (IF s = {} THEN 0 ELSE f[Some(s)] + h[s \ {Some(s)}])
      <4> HIDE DEF h, Small
      <4> QED BY <2>4
    <3> HIDE DEF Small
    <3> QED BY <3>1, Zenon
  <2> QED BY <2>5
<1>5. \A n \in Nat : n \in Good
  <2> HIDE DEF Good
  <2> QED BY <1>3, <1>4, NatSetInduction
<1>6. PICK g : Solves(g, Cardinality(S))
  BY <1>1, <1>5
<1>7. Small(Cardinality(S)) = SUBSET S
  <2>1. \A s \in SUBSET S : Cardinality(s) <= Cardinality(S)
    BY FS_Subset
  <2> QED BY <2>1
<1>8. Sums(g, f, S)
  BY <1>6, <1>7, Zenon DEF Sums
<1> QED BY <1>8

(* SumFunctionOnSet is a solution. *)
LEMMA SumIsSolution ==
  ASSUME NEW S, IsFiniteSet(S), NEW f
  PROVE  \E g : Sums(g, f, S) /\ SumFunctionOnSet(f, S) = g[S]
<1>1. PICK it : Sums(it, f, S)
  BY SumsExist
<1> QED BY <1>1, Zenon DEF Sums, Some, SumFunctionOnSet, FoldFunctionOnSet, MapThenFoldSet

(* Two solutions agree where both are defined. *)
LEMMA SumsAgree ==
  ASSUME NEW S, IsFiniteSet(S), NEW T \in SUBSET S, NEW f, NEW g, NEW h,
         Sums(g, f, S), Sums(h, f, T)
  PROVE  \A s \in SUBSET T : g[s] = h[s]
<1> DEFINE P == {s \in SUBSET T : g[s] = h[s]}
<1>1. \A s \in SUBSET T :
        /\ g[s] = IF s = {} THEN 0 ELSE f[Some(s)] + g[s \ {Some(s)}]
        /\ h[s] = IF s = {} THEN 0 ELSE f[Some(s)] + h[s \ {Some(s)}]
  <2>1. \A s \in SUBSET T : s \in SUBSET S
    OBVIOUS
  <2> QED BY <2>1, Zenon DEF Sums
<1>2. {} \in P
  BY <1>1
<1>3. \A s \in SUBSET T : s # {} /\ (\A x \in s : s \ {x} \in P) => s \in P
  <2> SUFFICES ASSUME NEW s \in SUBSET T, s # {}, \A x \in s : s \ {x} \in P
               PROVE  g[s] = h[s]
    OBVIOUS
  <2>1. Some(s) \in s
    BY Zenon DEF Some
  <2>2. g[s \ {Some(s)}] = h[s \ {Some(s)}]
    BY <2>1
  <2> HIDE DEF P
  <2> QED BY <1>1, <2>2
<1>4. IsFiniteSet(T)
  BY FS_Subset
<1>5. \A s \in SUBSET T : s \in P
  <2> HIDE DEF P
  <2> QED BY <1>2, <1>3, <1>4, SubsetInduction
<1> QED BY <1>5

(* The sum takes out some element first. *)
LEMMA SumUnfolds ==
  ASSUME NEW S, IsFiniteSet(S), NEW f
  PROVE  /\ SumFunctionOnSet(f, {}) = 0
         /\ S # {} => /\ Some(S) \in S
                      /\ SumFunctionOnSet(f, S) = f[Some(S)] + SumFunctionOnSet(f, S \ {Some(S)})
<1>1. SumFunctionOnSet(f, {}) = 0
  <2>1. IsFiniteSet({})
    BY FS_EmptySet
  <2>2. PICK g : Sums(g, f, {}) /\ SumFunctionOnSet(f, {}) = g[{}]
    BY <2>1, SumIsSolution
  <2> QED BY <2>2 DEF Sums
<1>2. ASSUME S # {}
      PROVE  /\ Some(S) \in S
             /\ SumFunctionOnSet(f, S) = f[Some(S)] + SumFunctionOnSet(f, S \ {Some(S)})
  <2>1. Some(S) \in S
    BY <1>2, Zenon DEF Some
  <2> DEFINE T == S \ {Some(S)}
  <2>2. IsFiniteSet(T) /\ T \in SUBSET S
    BY FS_Subset
  <2>3. PICK g : Sums(g, f, S) /\ SumFunctionOnSet(f, S) = g[S]
    BY SumIsSolution
  <2>4. PICK h : Sums(h, f, T) /\ SumFunctionOnSet(f, T) = h[T]
    BY <2>2, SumIsSolution
  <2>5. g[T] = h[T]
    <3> HIDE DEF T
    <3> QED BY <2>2, <2>3, <2>4, SumsAgree
  <2>6. g[S] = f[Some(S)] + g[T]
    BY <1>2, <2>3, Zenon DEF Sums
  <2> QED BY <2>1, <2>3, <2>4, <2>5, <2>6
<1> QED BY <1>1, <1>2

(* A sum stays in every set that is closed under addition. *)
LEMMA SumClosed ==
  ASSUME NEW S, IsFiniteSet(S), NEW f, NEW N, 0 \in N, \A a, b \in N : a + b \in N,
         \A x \in S : f[x] \in N
  PROVE  SumFunctionOnSet(f, S) \in N
<1> DEFINE P == {T \in SUBSET S : SumFunctionOnSet(f, T) \in N}
<1>1. {} \in P
  <2>1. SumFunctionOnSet(f, {}) = 0
    BY SumUnfolds
  <2> QED BY <2>1
<1>2. \A T \in SUBSET S : T # {} /\ (\A x \in T : T \ {x} \in P) => T \in P
  <2> SUFFICES ASSUME NEW T \in SUBSET S, T # {}, \A x \in T : T \ {x} \in P
               PROVE  SumFunctionOnSet(f, T) \in N
    OBVIOUS
  <2>1. IsFiniteSet(T)
    BY FS_Subset
  <2>2. Some(T) \in T /\ SumFunctionOnSet(f, T) = f[Some(T)] + SumFunctionOnSet(f, T \ {Some(T)})
    BY <2>1, SumUnfolds
  <2>3. SumFunctionOnSet(f, T \ {Some(T)}) \in N /\ f[Some(T)] \in N
    BY <2>2
  <2> QED BY <2>2, <2>3
<1> HIDE DEF P
<1>3. \A T \in SUBSET S : T \in P
  BY <1>1, <1>2, SubsetInduction
<1> QED BY <1>3 DEF P

LEMMA SumType ==
  ASSUME NEW S, IsFiniteSet(S), NEW f
  PROVE  /\ (\A x \in S : f[x] \in Int) => SumFunctionOnSet(f, S) \in Int
         /\ (\A x \in S : f[x] \in Nat) => SumFunctionOnSet(f, S) \in Nat
<1>1. 0 \in Int /\ \A a, b \in Int : a + b \in Int
  OBVIOUS
<1>2. 0 \in Nat /\ \A a, b \in Nat : a + b \in Nat
  OBVIOUS
<1>3. ASSUME \A x \in S : f[x] \in Int PROVE SumFunctionOnSet(f, S) \in Int
  BY <1>1, <1>3, SumClosed
<1>4. ASSUME \A x \in S : f[x] \in Nat PROVE SumFunctionOnSet(f, S) \in Nat
  BY <1>2, <1>4, SumClosed
<1> QED BY <1>3, <1>4

(* The order in which the elements are taken does not matter. *)
LEMMA SumRemoves ==
  ASSUME NEW S, IsFiniteSet(S), NEW f, \A x \in S : f[x] \in Int
  PROVE  \A x \in S : SumFunctionOnSet(f, S) = f[x] + SumFunctionOnSet(f, S \ {x})
<1> DEFINE Sum(T) == SumFunctionOnSet(f, T)
           P == {T \in SUBSET S : \A x \in T : Sum(T) = f[x] + Sum(T \ {x})}
<1>0. \A T \in SUBSET S : IsFiniteSet(T) /\ Sum(T) \in Int
  <2> SUFFICES ASSUME NEW T \in SUBSET S PROVE IsFiniteSet(T) /\ Sum(T) \in Int
    OBVIOUS
  <2>1. IsFiniteSet(T)
    BY FS_Subset
  <2> QED BY <2>1, SumType
<1>1. {} \in P
  OBVIOUS
<1>2. \A T \in SUBSET S : T # {} /\ (\A x \in T : T \ {x} \in P) => T \in P
  <2> SUFFICES ASSUME NEW T \in SUBSET S, T # {}, \A x \in T : T \ {x} \in P, NEW x \in T
               PROVE  Sum(T) = f[x] + Sum(T \ {x})
    OBVIOUS
  <2> DEFINE c == Some(T)
  <2>1. c \in T /\ Sum(T) = f[c] + Sum(T \ {c})
    BY <1>0, SumUnfolds
  <2>2. CASE x = c
    BY <2>1, <2>2
  <2>3. CASE x # c
    <3>1. x \in T \ {c} /\ c \in T \ {x}
      BY <2>1, <2>3
    <3>2. Sum(T \ {c}) = f[x] + Sum((T \ {c}) \ {x})
      BY <2>1, <3>1
    <3>3. Sum(T \ {x}) = f[c] + Sum((T \ {x}) \ {c})
      BY <3>1
    <3>4. (T \ {c}) \ {x} = (T \ {x}) \ {c}
      OBVIOUS
    <3>5. f[x] \in Int /\ f[c] \in Int /\ Sum((T \ {x}) \ {c}) \in Int
      BY <1>0, <2>1
    <3>6. Sum(T) = f[c] + (f[x] + Sum((T \ {x}) \ {c}))
      <4> HIDE DEF Sum, c, P
      <4> QED BY <2>1, <3>2, <3>4
    <3> HIDE DEF Sum, c, P
    <3> QED BY <3>3, <3>5, <3>6
  <2> QED BY <2>2, <2>3
<1>3. \A T \in SUBSET S : T \in P
  <2> HIDE DEF P
  <2> QED BY <1>1, <1>2, SubsetInduction
<1> QED BY <1>3

LEMMA SumAdds ==
  ASSUME NEW S, IsFiniteSet(S), NEW x, x \notin S, NEW f, \A y \in S \cup {x} : f[y] \in Int
  PROVE  /\ IsFiniteSet(S \cup {x})
         /\ SumFunctionOnSet(f, S \cup {x}) = f[x] + SumFunctionOnSet(f, S)
<1>1. IsFiniteSet(S \cup {x})
  BY FS_AddElement
<1>2. (S \cup {x}) \ {x} = S
  OBVIOUS
<1>3. SumFunctionOnSet(f, S \cup {x}) = f[x] + SumFunctionOnSet(f, (S \cup {x}) \ {x})
  BY <1>1, SumRemoves
<1> QED BY <1>1, <1>2, <1>3

(* Only the values on the set matter. *)
LEMMA SumOfEqual ==
  ASSUME NEW S, IsFiniteSet(S), NEW f, NEW g, \A x \in S : f[x] = g[x]
  PROVE  SumFunctionOnSet(f, S) = SumFunctionOnSet(g, S)
<1> DEFINE P == {T \in SUBSET S : SumFunctionOnSet(f, T) = SumFunctionOnSet(g, T)}
<1>1. {} \in P
  BY SumUnfolds
<1>2. \A T \in SUBSET S : T # {} /\ (\A x \in T : T \ {x} \in P) => T \in P
  <2> SUFFICES ASSUME NEW T \in SUBSET S, T # {}, \A x \in T : T \ {x} \in P
               PROVE  SumFunctionOnSet(f, T) = SumFunctionOnSet(g, T)
    OBVIOUS
  <2>1. IsFiniteSet(T)
    BY FS_Subset
  <2>2. /\ Some(T) \in T
        /\ SumFunctionOnSet(f, T) = f[Some(T)] + SumFunctionOnSet(f, T \ {Some(T)})
        /\ SumFunctionOnSet(g, T) = g[Some(T)] + SumFunctionOnSet(g, T \ {Some(T)})
    BY <2>1, SumUnfolds
  <2>3. /\ SumFunctionOnSet(f, T \ {Some(T)}) = SumFunctionOnSet(g, T \ {Some(T)})
        /\ f[Some(T)] = g[Some(T)]
    BY <2>2
  <2> QED BY <2>2, <2>3
<1> HIDE DEF P
<1>3. \A T \in SUBSET S : T \in P
  BY <1>1, <1>2, SubsetInduction
<1> QED BY <1>3 DEF P

(* The sum over two disjoint sets, and over what is left of a set. *)
LEMMA SumOfUnion ==
  ASSUME NEW S, IsFiniteSet(S), NEW f, \A x \in S : f[x] \in Int,
         NEW A \in SUBSET S
  PROVE  SumFunctionOnSet(f, S) = SumFunctionOnSet(f, A) + SumFunctionOnSet(f, S \ A)
<1> DEFINE Sum(T) == SumFunctionOnSet(f, T)
           P == {T \in SUBSET S : Sum(S) = Sum(T) + Sum(S \ T)}
<1>0. \A T \in SUBSET S : IsFiniteSet(T) /\ Sum(T) \in Int
  <2> SUFFICES ASSUME NEW T \in SUBSET S PROVE IsFiniteSet(T) /\ Sum(T) \in Int
    OBVIOUS
  <2>1. IsFiniteSet(T)
    BY FS_Subset
  <2> QED BY <2>1, SumType
<1>1. {} \in P
  <2>1. S \ {} = S /\ Sum({}) = 0 /\ Sum(S) \in Int
    BY <1>0, SumUnfolds
  <2> HIDE DEF Sum
  <2> QED BY <2>1
<1>2. \A T \in SUBSET S : T # {} /\ (\A x \in T : T \ {x} \in P) => T \in P
  <2> SUFFICES ASSUME NEW T \in SUBSET S, T # {}, \A x \in T : T \ {x} \in P
               PROVE  Sum(S) = Sum(T) + Sum(S \ T)
    OBVIOUS
  <2>1. PICK x \in T : TRUE
    OBVIOUS
  <2>2. Sum(S) = Sum(T \ {x}) + Sum(S \ (T \ {x}))
    BY <2>1
  <2>3. Sum(T) = f[x] + Sum(T \ {x})
    BY <1>0, <2>1, SumRemoves
  <2>4. S \ (T \ {x}) = (S \ T) \cup {x} /\ x \notin S \ T
    BY <2>1
  <2>5. Sum((S \ T) \cup {x}) = f[x] + Sum(S \ T)
    BY <1>0, <2>1, <2>4, SumAdds
  <2>6. f[x] \in Int /\ Sum(T \ {x}) \in Int /\ Sum(S \ T) \in Int
    BY <1>0, <2>1
  <2>7. Sum(S) = Sum(T \ {x}) + (f[x] + Sum(S \ T))
    <3> HIDE DEF Sum, P
    <3> QED BY <2>2, <2>4, <2>5
  <2> HIDE DEF Sum, P
  <2> QED BY <2>3, <2>6, <2>7
<1>3. \A T \in SUBSET S : T \in P
  <2> HIDE DEF P
  <2> QED BY <1>1, <1>2, SubsetInduction
<1> QED BY <1>3

(* A sum over positions is the sum over what distinct positions hold. *)
LEMMA SumReindexes ==
  ASSUME NEW S, IsFiniteSet(S), NEW p, \A x, y \in S : p[x] = p[y] => x = y,
         NEW f, NEW g, \A x \in S : f[x] = g[p[x]] /\ f[x] \in Int
  PROVE  /\ IsFiniteSet({p[x] : x \in S})
         /\ SumFunctionOnSet(f, S) = SumFunctionOnSet(g, {p[x] : x \in S})
<1> DEFINE Im(T) == {p[x] : x \in T}
           P == {T \in SUBSET S : /\ IsFiniteSet(Im(T))
                                  /\ SumFunctionOnSet(f, T) = SumFunctionOnSet(g, Im(T))}
<1>1. {} \in P
  <2>1. Im({}) = {} /\ IsFiniteSet({})
    BY FS_EmptySet
  <2> HIDE DEF Im
  <2>2. SumFunctionOnSet(f, {}) = SumFunctionOnSet(g, {})
    BY SumUnfolds
  <2> QED BY <2>1, <2>2
<1>2. \A T \in SUBSET S : T # {} /\ (\A x \in T : T \ {x} \in P) => T \in P
  <2> SUFFICES ASSUME NEW T \in SUBSET S, T # {}, \A x \in T : T \ {x} \in P
               PROVE  /\ IsFiniteSet(Im(T))
                      /\ SumFunctionOnSet(f, T) = SumFunctionOnSet(g, Im(T))
    BY Zenon
  <2>1. PICK x \in T : TRUE
    OBVIOUS
  <2>2. Im(T) = Im(T \ {x}) \cup {p[x]} /\ p[x] \notin Im(T \ {x})
    OBVIOUS
  <2>3. /\ IsFiniteSet(Im(T \ {x}))
        /\ SumFunctionOnSet(f, T \ {x}) = SumFunctionOnSet(g, Im(T \ {x}))
    <3> HIDE DEF Im
    <3> QED BY <2>1, Zenon
  <2>4. \A y \in Im(T \ {x}) \cup {p[x]} : g[y] \in Int
    BY <2>2
  <2>5. /\ IsFiniteSet(Im(T \ {x}) \cup {p[x]})
        /\ SumFunctionOnSet(g, Im(T \ {x}) \cup {p[x]}) = g[p[x]] + SumFunctionOnSet(g, Im(T \ {x}))
    <3> HIDE DEF Im
    <3> QED BY <2>2, <2>3, <2>4, SumAdds
  <2>6. SumFunctionOnSet(f, T) = f[x] + SumFunctionOnSet(f, T \ {x})
    <3>1. IsFiniteSet(T) /\ \A y \in T : f[y] \in Int
      BY FS_Subset
    <3> HIDE DEF P, Im
    <3> QED BY <2>1, <3>1, SumRemoves
  <2>7. f[x] = g[p[x]]
    BY <2>1
  <2> HIDE DEF Im
  <2> QED BY <2>2, <2>3, <2>5, <2>6, <2>7
<1>3. \A T \in SUBSET S : T \in P
  <2> HIDE DEF P
  <2> QED BY <1>1, <1>2, SubsetInduction
<1> QED BY <1>3

(* Sums add up term by term. *)
LEMMA SumOfSums ==
  ASSUME NEW S, IsFiniteSet(S), NEW f, NEW g, NEW h,
         \A x \in S : f[x] \in Int /\ g[x] \in Int /\ h[x] = f[x] + g[x]
  PROVE  SumFunctionOnSet(h, S) = SumFunctionOnSet(f, S) + SumFunctionOnSet(g, S)
<1> DEFINE P == {T \in SUBSET S :
                   SumFunctionOnSet(h, T) = SumFunctionOnSet(f, T) + SumFunctionOnSet(g, T)}
<1>1. {} \in P
  <2>1. SumFunctionOnSet(h, {}) = 0 /\ SumFunctionOnSet(f, {}) = 0 /\ SumFunctionOnSet(g, {}) = 0
    BY SumUnfolds
  <2> QED BY <2>1
<1>2. \A T \in SUBSET S : T # {} /\ (\A x \in T : T \ {x} \in P) => T \in P
  <2> SUFFICES ASSUME NEW T \in SUBSET S, T # {}, \A x \in T : T \ {x} \in P
               PROVE  SumFunctionOnSet(h, T) = SumFunctionOnSet(f, T) + SumFunctionOnSet(g, T)
    OBVIOUS
  <2> DEFINE x == Some(T)
             R == T \ {x}
  <2>1. IsFiniteSet(T) /\ IsFiniteSet(R)
    BY FS_Subset
  <2>2. /\ x \in T
        /\ SumFunctionOnSet(f, T) = f[x] + SumFunctionOnSet(f, R)
        /\ SumFunctionOnSet(g, T) = g[x] + SumFunctionOnSet(g, R)
        /\ SumFunctionOnSet(h, T) = h[x] + SumFunctionOnSet(h, R)
    BY <2>1, SumUnfolds
  <2>3. SumFunctionOnSet(h, R) = SumFunctionOnSet(f, R) + SumFunctionOnSet(g, R)
    BY <2>2
  <2>4. SumFunctionOnSet(f, R) \in Int /\ SumFunctionOnSet(g, R) \in Int
    <3>1. \A y \in R : f[y] \in Int /\ g[y] \in Int
      OBVIOUS
    <3> HIDE DEF R
    <3> QED BY <2>1, <3>1, SumType
  <2>5. f[x] \in Int /\ g[x] \in Int /\ h[x] = f[x] + g[x]
    BY <2>2
  <2> HIDE DEF x, R
  <2> QED BY <2>2, <2>3, <2>4, <2>5
<1>3. \A T \in SUBSET S : T \in P
  <2> HIDE DEF P
  <2> QED BY <1>1, <1>2, SubsetInduction
<1> QED BY <1>3

-----------------------------------------------------------------------------
(* Lists. *)

(* One element more. *)
LEMMA AppendSet ==
  ASSUME NEW S, NEW s \in Seq(S), NEW e \in S
  PROVE  ToSet(Append(s, e)) = ToSet(s) \cup {e}
<1> DEFINE t == Append(s, e)
<1>1. /\ DOMAIN t = 1 .. Len(s) + 1 /\ DOMAIN s = 1 .. Len(s) /\ Len(s) \in Nat
      /\ t[Len(s) + 1] = e /\ \A i \in 1..Len(s) : t[i] = s[i]
  OBVIOUS
<1> HIDE DEF t
<1>2. ASSUME NEW x \in ToSet(t) PROVE x \in ToSet(s) \cup {e}
  <2>1. PICK i \in DOMAIN t : x = t[i]
    BY <1>2 DEF ToSet
  <2>2. i = Len(s) + 1 \/ i \in 1..Len(s)
    BY <1>1, <2>1
  <2> QED BY <1>1, <2>1, <2>2 DEF ToSet
<1>3. ASSUME NEW x \in ToSet(s) \cup {e} PROVE x \in ToSet(t)
  <2>1. CASE x = e
    <3>1. Len(s) + 1 \in DOMAIN t
      BY <1>1
    <3> QED BY <1>1, <2>1, <3>1 DEF ToSet
  <2>2. CASE x \in ToSet(s)
    <3>1. PICK i \in DOMAIN s : x = s[i]
      BY <2>2 DEF ToSet
    <3>2. i \in DOMAIN t /\ x = t[i]
      BY <1>1, <3>1
    <3> QED BY <3>2 DEF ToSet
  <2> QED BY <1>3, <2>1, <2>2
<1> QED BY <1>2, <1>3 DEF t

(* The list that is kept, built up item by item. *)
KeptSteps(items, S, f) ==
  /\ Kept(items, S) = f[Len(items)] /\ f[0] = <<>>
  /\ \A i \in 1..Len(items) :
       f[i] = IF items[i] \in S THEN Append(f[i - 1], items[i]) ELSE f[i - 1]

LEMMA KeptTable ==
  ASSUME NEW X, NEW items \in Seq(X), NEW S
  PROVE  \E f : KeptSteps(items, S, f)
<1> DEFINE n == Len(items)
           Step(f, i) == IF items[i] \in S THEN Append(f[i - 1], items[i]) ELSE f[i - 1]
           Table(f, m) == f = [i \in 0..m |->
             IF i = 0 THEN <<>>
             ELSE IF items[i] \in S THEN Append(f[i - 1], items[i]) ELSE f[i - 1]]
           Good == {m \in 0..n : \E f : Table(f, m)}
<1>0. n \in Nat
  OBVIOUS
<1>1. 0 \in Good
  <2>1. Table([i \in 0..0 |-> <<>>], 0)
    OBVIOUS
  <2>2. \E f : Table(f, 0)
    BY <2>1
  <2> QED BY <1>0, <2>2
<1>2. ASSUME NEW m \in 0 .. n - 1, m \in Good PROVE m + 1 \in Good
  <2>1. PICK f : Table(f, m)
    BY <1>2
  <2>2. \A i \in 0..m : f[i] = IF i = 0 THEN <<>> ELSE Step(f, i)
    BY <2>1
  <2> HIDE DEF Table
  <2> DEFINE g == [i \in 0 .. m + 1 |->
               IF i = m + 1 THEN (IF items[i] \in S THEN Append(f[m], items[i]) ELSE f[m]) ELSE f[i]]
  <2>3. ASSUME NEW i \in 0 .. m + 1
        PROVE  g[i] = IF i = 0 THEN <<>> ELSE Step(g, i)
    <3>1. CASE i = m + 1
      <4>1. i # 0 /\ i - 1 = m /\ m \in 0 .. m + 1 /\ m # m + 1
        BY <1>0, <3>1
      <4>2. g[m] = f[m]
        BY <4>1
      <4> QED BY <3>1, <4>1, <4>2
    <3>2. CASE i # m + 1
      <4>1. i \in 0..m /\ (i # 0 => i - 1 \in 0 .. m + 1 /\ i - 1 # m + 1)
        BY <1>0, <3>2
      <4>2. g[i] = f[i] /\ (i # 0 => g[i - 1] = f[i - 1])
        BY <3>2, <4>1
      <4> QED BY <2>2, <4>1, <4>2
    <3> QED BY <3>1, <3>2
  <2>4. g = [i \in 0 .. m + 1 |-> g[i]]
    OBVIOUS
  <2> HIDE DEF g
  <2>5. Table(g, m + 1)
    BY <2>3, <2>4 DEF Table
  <2>6. m + 1 \in 0..n /\ \E h : Table(h, m + 1)
    BY <1>0, <2>5
  <2> QED BY <2>6
<1> HIDE DEF Good
<1>3. \A m \in 0..n : m \in Good
  BY <1>0, <1>1, <1>2, RangeInduction
<1>4. \E f : Table(f, n)
  <2>1. n \in Good
    BY <1>0, <1>3
  <2> HIDE DEF Table, n
  <2> QED BY <2>1 DEF Good
<1> DEFINE upto == CHOOSE f : Table(f, n)
<1>5. Table(upto, n)
  BY <1>4
<1>6. Kept(items, S) = upto[n]
  BY DEF Kept
<1>7. \A i \in 0..n : upto[i] = IF i = 0 THEN <<>> ELSE Step(upto, i)
  BY <1>5
<1> HIDE DEF upto
<1>8. upto[0] = <<>>
  BY <1>0, <1>7
<1>9. ASSUME NEW i \in 1..n
      PROVE  upto[i] = IF items[i] \in S THEN Append(upto[i - 1], items[i]) ELSE upto[i - 1]
  <2>1. i \in 0..n /\ i # 0
    BY <1>0
  <2> QED BY <1>7, <2>1
<1>10. KeptSteps(items, S, upto)
  BY <1>6, <1>8, <1>9 DEF KeptSteps
<1> QED BY <1>10

(* What is kept of a list is a list of the same things. *)
LEMMA KeptType ==
  ASSUME NEW X, NEW items \in Seq(X), NEW S
  PROVE  Kept(items, S) \in Seq(X)
<1> DEFINE n == Len(items)
<1>0. n \in Nat
  OBVIOUS
<1>1. PICK upto : KeptSteps(items, S, upto)
  BY KeptTable
<1> DEFINE Typed == {i \in 0..n : upto[i] \in Seq(X)}
<1>2. 0 \in Typed
  <2>1. 0 \in 0..n /\ upto[0] = <<>>
    BY <1>0, <1>1 DEF KeptSteps
  <2>2. <<>> \in Seq(X)
    OBVIOUS
  <2> QED BY <2>1, <2>2
<1>3. ASSUME NEW i \in 0 .. n - 1, i \in Typed PROVE i + 1 \in Typed
  <2> DEFINE u == upto[i]
             e == items[i + 1]
  <2>1. i + 1 \in 0..n /\ i + 1 \in 1..n /\ (i + 1) - 1 = i /\ e \in X /\ u \in Seq(X)
    BY <1>0, <1>3
  <2>2. upto[i + 1] = Append(u, e) \/ upto[i + 1] = u
    BY <1>1, <2>1 DEF KeptSteps
  <2> HIDE DEF u, e
  <2>3. Append(u, e) \in Seq(X)
    BY <2>1
  <2>4. upto[i + 1] \in Seq(X)
    BY <2>1, <2>2, <2>3
  <2> QED BY <2>1, <2>4
<1> HIDE DEF Typed
<1>4. \A i \in 0..n : i \in Typed
  BY <1>0, <1>2, <1>3, RangeInduction
<1> QED BY <1>0, <1>1, <1>4 DEF Typed, KeptSteps

(* No item is listed twice. *)
Distinct(s) == \A i, j \in 1..Len(s) : s[i] = s[j] => i = j

(* What is kept of a list whose first j items go and whose other items stay. *)
Rest(r, s, j) == Len(r) = Len(s) - j /\ \A i \in 1..Len(r) : r[i] = s[i + j]

LEMMA AppendElements ==
  ASSUME NEW X, NEW u \in Seq(X), NEW e \in X
  PROVE  /\ Append(u, e) \in Seq(X) /\ Len(Append(u, e)) = Len(u) + 1
         /\ Append(u, e)[Len(u) + 1] = e /\ \A k \in 1..Len(u) : Append(u, e)[k] = u[k]
  OBVIOUS

(* Items of which the first j go and the others stay. *)
LEMMA KeptRest ==
  ASSUME NEW X, NEW s \in Seq(X), NEW S, NEW j \in 0..Len(s),
         \A i \in 1..j : s[i] \notin S, \A i \in (j + 1)..Len(s) : s[i] \in S
  PROVE  Kept(s, S) \in Seq(X) /\ Rest(Kept(s, S), s, j)
<1> DEFINE n == Len(s)
<1>0. n \in Nat /\ j \in Nat /\ j <= n /\ \A i \in 1..n : s[i] \in X
  OBVIOUS
<1>1. PICK f : KeptSteps(s, S, f)
  BY KeptTable
<1> DEFINE Shifted(i) == /\ f[i] \in Seq(X)
                         /\ i <= j => f[i] = <<>>
                         /\ i > j => Len(f[i]) = i - j
                         /\ \A k \in 1 .. i - j : f[i][k] = s[k + j]
           Good == {i \in 0..n : Shifted(i)}
<1>2. 0 \in Good
  <2>1. f[0] = <<>>
    BY <1>1 DEF KeptSteps
  <2>2. <<>> \in Seq(X)
    OBVIOUS
  <2>3. 0 \in 0..n /\ ~(0 > j) /\ 1 .. 0 - j = {}
    BY <1>0
  <2>4. Shifted(0)
    BY <2>1, <2>2, <2>3
  <2> QED BY <2>3, <2>4
<1>3. ASSUME NEW i \in 0 .. n - 1, i \in Good PROVE i + 1 \in Good
  <2> DEFINE u == f[i]
             e == s[i + 1]
             v == f[i + 1]
  <2>1. i + 1 \in 1..n /\ (i + 1) - 1 = i /\ i \in Nat /\ i + 1 \in 0..n
    BY <1>0
  <2>2. /\ u \in Seq(X) /\ e \in X /\ (i <= j => u = <<>>) /\ (i > j => Len(u) = i - j)
        /\ \A k \in 1 .. i - j : u[k] = s[k + j]
    BY <1>0, <1>3, <2>1
  <2>3. v = IF e \in S THEN Append(u, e) ELSE u
    BY <1>1, <2>1 DEF KeptSteps
  <2> HIDE DEF u, v
  <2>4. CASE i + 1 <= j
    <3>1. i + 1 \in 1..j /\ i <= j
      BY <1>0, <2>1, <2>4
    <3>2. v = <<>>
      BY <2>2, <2>3, <3>1
    <3>3. 1 .. (i + 1) - j = {} /\ ~(i + 1 > j)
      BY <1>0, <2>1, <2>4
    <3>4. Shifted(i + 1)
      BY <2>2, <3>1, <3>2, <3>3 DEF v
    <3> QED BY <2>1, <3>4
  <2>5. CASE ~(i + 1 <= j)
    <3>1. i + 1 \in (j + 1)..n
      BY <1>0, <2>1, <2>5
    <3>2. v = Append(u, e)
      BY <2>3, <3>1
    <3>3. Len(u) = i - j /\ i >= j
      <4>1. i = j => Len(u) = 0
        BY <1>0, <2>1, <2>2
      <4> QED BY <1>0, <2>1, <2>2, <2>5, <4>1
    <3>4. /\ v \in Seq(X) /\ Len(v) = Len(u) + 1 /\ v[Len(u) + 1] = e
          /\ \A k \in 1..Len(u) : v[k] = u[k]
      BY <2>2, <3>2, AppendElements
    <3>5. Len(v) = (i + 1) - j
      BY <1>0, <2>1, <3>3, <3>4
    <3>6. ASSUME NEW k \in 1 .. (i + 1) - j PROVE v[k] = s[k + j]
      <4>1. k \in 1 .. i - j \/ k = (i - j) + 1
        BY <1>0, <2>1
      <4>2. CASE k \in 1 .. i - j
        BY <2>2, <3>3, <3>4, <4>2
      <4>3. CASE k = (i - j) + 1
        <5>1. k + j = i + 1 /\ k = Len(u) + 1
          BY <1>0, <2>1, <3>3, <4>3
        <5> QED BY <3>4, <5>1
      <4> QED BY <4>1, <4>2, <4>3
    <3>7. Shifted(i + 1)
      BY <2>5, <3>4, <3>5, <3>6 DEF v
    <3> QED BY <2>1, <3>7
  <2> QED BY <2>4, <2>5
<1> HIDE DEF Good
<1>4. \A i \in 0..n : i \in Good
  BY <1>0, <1>2, <1>3, RangeInduction
<1>5. Shifted(n)
  <2>1. n \in Good
    BY <1>0, <1>4
  <2> QED BY <2>1 DEF Good
<1>6. Kept(s, S) = f[n]
  BY <1>1 DEF KeptSteps
<1>7. Len(f[n]) = n - j
  <2>1. n = j => Len(f[n]) = 0
    BY <1>0, <1>5
  <2> HIDE DEF n
  <2> QED BY <1>0, <1>5, <2>1
<1> QED BY <1>5, <1>6, <1>7 DEF Rest

(* To keep all but the first of distinct items is to drop the first. *)
LEMMA KeptWithoutFirst ==
  ASSUME NEW X, NEW s \in Seq(X), s # <<>>, Distinct(s)
  PROVE  Kept(s, X \ {Head(s)}) \in Seq(X) /\ Rest(Kept(s, X \ {Head(s)}), s, 1)
<1> DEFINE S == X \ {Head(s)}
<1>1. Len(s) \in Nat /\ Len(s) >= 1 /\ Head(s) = s[1] /\ \A i \in 1..Len(s) : s[i] \in X
  OBVIOUS
<1>2. 1 \in 0..Len(s) /\ \A i \in 1..1 : s[i] \notin S
  BY <1>1
<1>3. \A i \in (1 + 1)..Len(s) : s[i] \in S
  <2>1. \A i \in (1 + 1)..Len(s) : i \in 1..Len(s) /\ i # 1 /\ 1 \in 1..Len(s)
    BY <1>1
  <2> QED BY <1>1, <2>1 DEF Distinct
<1> HIDE DEF S
<1>4. Kept(s, S) \in Seq(X) /\ Rest(Kept(s, S), s, 1)
  BY <1>2, <1>3, KeptRest
<1> QED BY <1>4 DEF S

(* As many items as there are in the list, if none is listed twice. *)
LEMMA DistinctLength ==
  ASSUME NEW X, NEW s \in Seq(X), Distinct(s)
  PROVE  IsFiniteSet(ToSet(s)) /\ Cardinality(ToSet(s)) = Len(s)
<1>1. Len(s) \in Nat /\ DOMAIN s = 1..Len(s) /\ s = [i \in 1..Len(s) |-> s[i]]
  OBVIOUS
<1>2. s \in [1..Len(s) -> ToSet(s)]
  BY <1>1 DEF ToSet
<1>3. s \in Injection(1..Len(s), ToSet(s))
  BY <1>1, <1>2 DEF Injection, IsInjective, Distinct
<1>4. s \in Surjection(1..Len(s), ToSet(s))
  BY <1>1, <1>2 DEF Surjection, ToSet
<1>5. ExistsBijection(1..Len(s), ToSet(s))
  BY <1>3, <1>4 DEF ExistsBijection, Bijection
<1>6. IsFiniteSet(1..Len(s)) /\ Cardinality(1..Len(s)) = Len(s)
  <2> DEFINE n == Len(s)
  <2>1. n \in Nat /\ n \in Int /\ 1 \in Int
    BY <1>1
  <2> HIDE DEF n
  <2>2. IsFiniteSet(1..n) /\ Cardinality(1..n) = IF 1 > n THEN 0 ELSE n - 1 + 1
    BY <2>1, FS_Interval
  <2>3. (IF 1 > n THEN 0 ELSE n - 1 + 1) = n
    BY <2>1
  <2> QED BY <2>2, <2>3 DEF n
<1> QED BY <1>5, <1>6, FS_Bijection
=============================================================================
