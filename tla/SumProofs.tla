----------------------------- MODULE SumProofs ------------------------------
(***************************************************************************)
(* What a sum over a finite set is, for every set and every function.      *)
(*                                                                         *)
(* A fold is a function that is defined by recursion over the subsets of a *)
(* set.  The proofs below go by the smallest counterexample: a set of      *)
(* subsets of a finite set has a member that is minimal (SmallestSubset).  *)
(***************************************************************************)
EXTENDS BountyRules, FiniteSets, FiniteSetTheorems, TLAPS

First(T) == CHOOSE a \in T : TRUE

(* The sum of a set T, given those of smaller sets.                        *)
Unfolded(f, T, sum) == IF T = {} THEN 0 ELSE f[First(T)] + sum[T \ {First(T)}]

SumsOf(f, S, sum) == sum = [T \in SUBSET S |-> Unfolded(f, T, sum)]

LEMMA FirstIsIn == \A T : T # {} => First(T) \in T
  BY DEF First

LEMMA SumOverIsRecursive ==
    ASSUME NEW S, NEW f
    PROVE  SumOver(S, f) = (CHOOSE sum : SumsOf(f, S, sum))[S]
  BY DEF SumOver, MapThenFoldSet, SumsOf, Unfolded, First

LEMMA SmallestSubset ==
    ASSUME NEW S, IsFiniteSet(S), NEW B \in SUBSET SUBSET S, B # {}
    PROVE  \E T \in B : \A U \in SUBSET T : U # T => U \notin B
  <1>1. IsWellFoundedOn(StrictSubsetOrdering(S), SUBSET S)
    BY FS_FiniteSubsetsOfFinite, FS_StrictSubsetOrderingWellFounded
  <1>2. PICK T \in B : \A U \in B : <<U, T>> \notin StrictSubsetOrdering(S)
    BY <1>1, WFMin
  <1> QED
    BY <1>2 DEF StrictSubsetOrdering

(* Two recursions agree wherever both are defined.                         *)
LEMMA SumsAgree ==
    ASSUME NEW f, NEW S, IsFiniteSet(S), NEW sum, SumsOf(f, S, sum),
           NEW T \in SUBSET S, NEW other, SumsOf(f, T, other)
    PROVE  \A U \in SUBSET T : sum[U] = other[U]
  <1> DEFINE Differ == {U \in SUBSET T : sum[U] # other[U]}
  <1> SUFFICES ASSUME Differ # {} PROVE FALSE
    OBVIOUS
  <1>1. PICK U \in Differ : \A V \in SUBSET U : V # U => V \notin Differ
    <2>1. Differ \in SUBSET SUBSET S
      OBVIOUS
    <2> HIDE DEF Differ
    <2> QED
      BY <2>1, SmallestSubset
  <1>2. sum[U] = Unfolded(f, U, sum) /\ other[U] = Unfolded(f, U, other)
    BY <1>1 DEF SumsOf
  <1>3. U # {} => sum[U \ {First(U)}] = other[U \ {First(U)}]
    BY <1>1, FirstIsIn
  <1> QED
    BY <1>1, <1>2, <1>3 DEF Unfolded

(* Where the recursion has a solution, a sum is made of a smaller one.     *)
LEMMA SumIfSolvable ==
    ASSUME NEW f, NEW S, IsFiniteSet(S),
           \A U \in SUBSET S : \E sum : SumsOf(f, U, sum)
    PROVE  SumOver(S, f) = IF S = {} THEN 0
                           ELSE f[First(S)] + SumOver(S \ {First(S)}, f)
  <1> DEFINE R == S \ {First(S)}
             whole == CHOOSE sum : SumsOf(f, S, sum)
             rest == CHOOSE sum : SumsOf(f, R, sum)
  <1>1. R \in SUBSET S
    OBVIOUS
  <1> HIDE DEF R
  <1>2. SumsOf(f, S, whole) /\ SumsOf(f, R, rest)
    BY <1>1
  <1>3. SumOver(S, f) = whole[S] /\ SumOver(R, f) = rest[R]
    BY SumOverIsRecursive
  <1> HIDE DEF whole, rest
  <1>4. whole[R] = rest[R]
    BY <1>1, <1>2, SumsAgree
  <1>5. whole[S] = Unfolded(f, S, whole)
    BY <1>2 DEF SumsOf
  <1> QED
    BY <1>3, <1>4, <1>5 DEF Unfolded, R

LEMMA SumsExist ==
    ASSUME NEW f, NEW S, IsFiniteSet(S)
    PROVE  \E sum : SumsOf(f, S, sum)
  <1> DEFINE Unsolved == {U \in SUBSET S : ~ \E sum : SumsOf(f, U, sum)}
  <1> SUFFICES ASSUME Unsolved # {} PROVE FALSE
    OBVIOUS
  <1>1. PICK T \in Unsolved : \A U \in SUBSET T : U # T => U \notin Unsolved
    <2>1. Unsolved \in SUBSET SUBSET S
      OBVIOUS
    <2> HIDE DEF Unsolved
    <2> QED
      BY <2>1, SmallestSubset
  <1>2. \A U \in SUBSET T : U # T => \E sum : SumsOf(f, U, sum)
    BY <1>1
  <1>3. ASSUME NEW U \in SUBSET T, U # T
        PROVE  SumOver(U, f) = IF U = {} THEN 0
                               ELSE f[First(U)] + SumOver(U \ {First(U)}, f)
    <2>1. \A V \in SUBSET U : V \in SUBSET T /\ V # T
      BY <1>3
    <2>2. IsFiniteSet(U)
      BY <1>1, FS_Subset
    <2> QED
      BY <1>2, <2>1, <2>2, SumIfSolvable
  <1> DEFINE whole == IF T = {} THEN 0 ELSE f[First(T)] + SumOver(T \ {First(T)}, f)
             sums == [U \in SUBSET T |-> IF U = T THEN whole ELSE SumOver(U, f)]
  <1>4. ASSUME NEW U \in SUBSET T PROVE sums[U] = Unfolded(f, U, sums)
    <2>1. U # {} => U \ {First(U)} \in SUBSET T /\ U \ {First(U)} # T
      BY FirstIsIn
    <2>2. U # {} => sums[U \ {First(U)}] = SumOver(U \ {First(U)}, f)
      BY <2>1
    <2>3. sums[U] = IF U = {} THEN 0 ELSE f[First(U)] + SumOver(U \ {First(U)}, f)
      BY <1>3
    <2> QED
      BY <2>2, <2>3 DEF Unfolded
  <1>5. SumsOf(f, T, sums)
    <2>1. sums = [U \in SUBSET T |-> sums[U]]
      OBVIOUS
    <2> HIDE DEF sums
    <2> QED
      BY <1>4, <2>1 DEF SumsOf
  <1> QED
    BY <1>1, <1>5

LEMMA SumUnfolds ==
    ASSUME NEW f, NEW S, IsFiniteSet(S)
    PROVE  SumOver(S, f) = IF S = {} THEN 0
                           ELSE f[First(S)] + SumOver(S \ {First(S)}, f)
  BY SumsExist, SumIfSolvable, FS_Subset

-----------------------------------------------------------------------------
(* The sum does not depend on the order.                                   *)

LEMMA SumOfNone == \A f : SumOver({}, f) = 0
  BY SumUnfolds, FS_EmptySet

LEMMA SumIsNatural ==
    ASSUME NEW f, NEW S, IsFiniteSet(S), \A a \in S : f[a] \in Nat
    PROVE  SumOver(S, f) \in Nat
  <1> DEFINE Wrong == {T \in SUBSET S : SumOver(T, f) \notin Nat}
  <1> SUFFICES ASSUME Wrong # {} PROVE FALSE
    OBVIOUS
  <1>1. Wrong \in SUBSET SUBSET S
    OBVIOUS
  <1>2. PICK T \in Wrong : \A U \in SUBSET T : U # T => U \notin Wrong
    <2> HIDE DEF Wrong
    <2> QED
      BY <1>1, SmallestSubset
  <1>3. T # {} => First(T) \in S /\ SumOver(T \ {First(T)}, f) \in Nat
    BY <1>2, FirstIsIn
  <1>4. IsFiniteSet(T)
    BY <1>1, FS_Subset
  <1> QED
    BY <1>2, <1>3, <1>4, SumUnfolds

LEMMA SumWithout ==
    ASSUME NEW f, NEW S, IsFiniteSet(S), \A a \in S : f[a] \in Nat, NEW x \in S
    PROVE  SumOver(S, f) = f[x] + SumOver(S \ {x}, f)
  <1> DEFINE Wrong == {T \in SUBSET S : \E y \in T :
                        SumOver(T, f) # f[y] + SumOver(T \ {y}, f)}
  <1> SUFFICES ASSUME Wrong # {} PROVE FALSE
    OBVIOUS
  <1>1. Wrong \in SUBSET SUBSET S
    OBVIOUS
  <1>2. PICK T \in Wrong : \A U \in SUBSET T : U # T => U \notin Wrong
    <2> HIDE DEF Wrong
    <2> QED
      BY <1>1, SmallestSubset
  <1>3. PICK y \in T : SumOver(T, f) # f[y] + SumOver(T \ {y}, f)
    BY <1>2
  <1> DEFINE c == First(T)
             R == T \ {c, y}
  <1>4. c \in T
    BY <1>3, FirstIsIn
  <1> HIDE DEF c
  <1>5. \A U \in SUBSET S : IsFiniteSet(U) /\ SumOver(U, f) \in Nat
    BY FS_Subset, SumIsNatural
  <1>6. SumOver(T, f) = f[c] + SumOver(T \ {c}, f)
    BY <1>3, <1>5, SumUnfolds DEF c
  <1>7. c # y
    BY <1>3, <1>6
  <1>8. SumOver(T \ {c}, f) = f[y] + SumOver((T \ {c}) \ {y}, f)
    BY <1>2, <1>4, <1>7
  <1>9. SumOver(T \ {y}, f) = f[c] + SumOver((T \ {y}) \ {c}, f)
    BY <1>2, <1>3, <1>4, <1>7
  <1>10. (T \ {c}) \ {y} = R /\ (T \ {y}) \ {c} = R /\ R \in SUBSET S
    OBVIOUS
  <1>11. f[c] \in Nat /\ f[y] \in Nat /\ SumOver(R, f) \in Nat
    BY <1>4, <1>5, <1>10
  <1> QED
    BY <1>3, <1>6, <1>8, <1>9, <1>10, <1>11

LEMMA SumWith ==
    ASSUME NEW f, NEW S, IsFiniteSet(S), NEW x, x \notin S,
           \A a \in S \union {x} : f[a] \in Nat
    PROVE  SumOver(S \union {x}, f) = f[x] + SumOver(S, f)
  <1>1. IsFiniteSet(S \union {x}) /\ (S \union {x}) \ {x} = S
    BY FS_AddElement
  <1> QED
    BY <1>1, SumWithout

LEMMA SumOfEqual ==
    ASSUME NEW f, NEW g, NEW S, IsFiniteSet(S), \A a \in S : f[a] = g[a]
    PROVE  SumOver(S, f) = SumOver(S, g)
  <1> DEFINE Wrong == {T \in SUBSET S : SumOver(T, f) # SumOver(T, g)}
  <1> SUFFICES ASSUME Wrong # {} PROVE FALSE
    OBVIOUS
  <1>1. Wrong \in SUBSET SUBSET S
    OBVIOUS
  <1>2. PICK T \in Wrong : \A U \in SUBSET T : U # T => U \notin Wrong
    <2> HIDE DEF Wrong
    <2> QED
      BY <1>1, SmallestSubset
  <1>3. T # {} => First(T) \in S /\ SumOver(T \ {First(T)}, f) = SumOver(T \ {First(T)}, g)
    BY <1>2, FirstIsIn
  <1>4. IsFiniteSet(T)
    BY <1>1, FS_Subset
  <1> QED
    BY <1>2, <1>3, <1>4, SumUnfolds

LEMMA SumOfSubset ==
    ASSUME NEW f, NEW S, IsFiniteSet(S), \A a \in S : f[a] \in Nat, NEW T \in SUBSET S
    PROVE  SumOver(T, f) =< SumOver(S, f)
  <1> DEFINE Wrong == {R \in SUBSET S : T \subseteq R /\ ~(SumOver(T, f) =< SumOver(R, f))}
  <1> SUFFICES ASSUME Wrong # {} PROVE FALSE
    OBVIOUS
  <1>1. Wrong \in SUBSET SUBSET S
    OBVIOUS
  <1>2. PICK R \in Wrong : \A U \in SUBSET R : U # R => U \notin Wrong
    <2> HIDE DEF Wrong
    <2> QED
      BY <1>1, SmallestSubset
  <1>3. \A U \in SUBSET S : IsFiniteSet(U) /\ SumOver(U, f) \in Nat
    BY FS_Subset, SumIsNatural
  <1>4. R # T
    BY <1>3
  <1>5. PICK x \in R : x \notin T
    BY <1>4
  <1>6. SumOver(T, f) =< SumOver(R \ {x}, f)
    BY <1>2, <1>5
  <1>7. SumOver(R, f) = f[x] + SumOver(R \ {x}, f)
    BY <1>3, SumWithout
  <1>8. f[x] \in Nat /\ SumOver(R \ {x}, f) \in Nat /\ SumOver(T, f) \in Nat
    BY <1>3
  <1> QED
    BY <1>2, <1>6, <1>7, <1>8

(* Members that contribute nothing can be left out. *)
LEMMA SumOfSupport ==
    ASSUME NEW f, NEW S, IsFiniteSet(S), \A a \in S : f[a] \in Nat,
           NEW T \in SUBSET S, \A a \in S \ T : f[a] = 0
    PROVE  SumOver(T, f) = SumOver(S, f)
  <1> DEFINE Wrong == {R \in SUBSET S : T \subseteq R /\ SumOver(T, f) # SumOver(R, f)}
  <1> SUFFICES ASSUME Wrong # {} PROVE FALSE
    OBVIOUS
  <1>1. Wrong \in SUBSET SUBSET S
    OBVIOUS
  <1>2. PICK R \in Wrong : \A U \in SUBSET R : U # R => U \notin Wrong
    <2> HIDE DEF Wrong
    <2> QED
      BY <1>1, SmallestSubset
  <1>3. \A U \in SUBSET S : IsFiniteSet(U) /\ SumOver(U, f) \in Nat
    BY FS_Subset, SumIsNatural
  <1>4. R # T
    BY <1>2
  <1>5. PICK x \in R : x \notin T
    BY <1>2, <1>4
  <1>6. SumOver(T, f) = SumOver(R \ {x}, f)
    BY <1>2, <1>5
  <1>7. SumOver(R, f) = f[x] + SumOver(R \ {x}, f) /\ f[x] = 0
    BY <1>3, <1>5, SumWithout
  <1>8. SumOver(R \ {x}, f) \in Nat
    BY <1>3
  <1> QED
    BY <1>2, <1>6, <1>7, <1>8

(* One amount is replaced by another. *)
LEMMA SumOfReplaced ==
    ASSUME NEW f, NEW g, NEW S, IsFiniteSet(S), \A a \in S : f[a] \in Nat /\ g[a] \in Nat,
           NEW x \in S, \A a \in S \ {x} : g[a] = f[a]
    PROVE  SumOver(S, g) + f[x] = SumOver(S, f) + g[x]
  <1> DEFINE R == S \ {x}
  <1>1. IsFiniteSet(R) /\ R \in SUBSET S
    BY FS_Subset
  <1>2. SumOver(S, g) = g[x] + SumOver(R, g) /\ SumOver(S, f) = f[x] + SumOver(R, f)
    BY SumWithout
  <1>3. SumOver(R, g) = SumOver(R, f)
    BY <1>1, SumOfEqual
  <1>4. SumOver(R, f) \in Nat
    BY <1>1, SumIsNatural
  <1> QED
    BY <1>2, <1>3, <1>4

=============================================================================
