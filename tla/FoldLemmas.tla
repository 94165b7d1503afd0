----------------------------- MODULE FoldLemmas -----------------------------
(***************************************************************************)
(* Facts about numbers, finite sets and the folds of the community         *)
(* modules that the proofs of the browser's models share.                  *)
(*                                                                         *)
(* A theorem whose parameter is an operator cannot be used by the provers  *)
(* at hand.  So a fold is described by a function that has the value of    *)
(* the fold of every subset (IsFold), its step being a function as well;   *)
(* what a module folds is unfolded there, once, to such a function.        *)
(***************************************************************************)
EXTENDS Integers, Sequences, FiniteSets, FiniteSetsExt, FiniteSetTheorems, SequenceTheorems, TLAPS

------------------------------------------------------------------------------
(* Greatest and least numbers                                               *)

\* The greater of two numbers is one of them.
LEMMA MaxOfTwo ==
  ASSUME NEW a \in Int, NEW b \in Int
  PROVE  /\ Max({a, b}) \in {a, b} /\ Max({a, b}) \in Int
         /\ Max({a, b}) >= a /\ Max({a, b}) >= b
<1>1. \E x \in {a, b} : \A y \in {a, b} : x >= y
  OBVIOUS
<1>2. Max({a, b}) \in {a, b} /\ \A y \in {a, b} : Max({a, b}) >= y
  BY <1>1, Zenon DEF Max
<1> QED
  BY <1>2

\* The greatest of three numbers is one of them.
LEMMA MaxOfThree ==
  ASSUME NEW a \in Int, NEW b \in Int, NEW d \in Int
  PROVE  /\ Max({a, b, d}) \in {a, b, d} /\ Max({a, b, d}) \in Int
         /\ Max({a, b, d}) >= a /\ Max({a, b, d}) >= b /\ Max({a, b, d}) >= d
<1>1. \E x \in {a, b, d} : \A y \in {a, b, d} : x >= y
  <2>1. CASE a >= b /\ a >= d
    BY <2>1
  <2>2. CASE b >= a /\ b >= d
    BY <2>2
  <2>3. CASE d >= a /\ d >= b
    BY <2>3
  <2> QED
    BY <2>1, <2>2, <2>3
<1>2. /\ Max({a, b, d}) \in {a, b, d}
      /\ \A y \in {a, b, d} : Max({a, b, d}) >= y
  BY <1>1, Zenon DEF Max
<1> QED
  BY <1>2

\* The greatest of four numbers is one of them.
LEMMA MaxOfFour ==
  ASSUME NEW a \in Int, NEW b \in Int, NEW c \in Int, NEW d \in Int
  PROVE  /\ Max({a, b, c, d}) \in {a, b, c, d} /\ Max({a, b, c, d}) \in Int
         /\ Max({a, b, c, d}) >= a /\ Max({a, b, c, d}) >= b
         /\ Max({a, b, c, d}) >= c /\ Max({a, b, c, d}) >= d
<1>1. \E x \in {a, b, c, d} : \A y \in {a, b, c, d} : x >= y
  <2>1. PICK m \in {a, b, c} : \A y \in {a, b, c} : m >= y
    <3>1. Max({a, b, c}) \in {a, b, c} /\ \A y \in {a, b, c} : Max({a, b, c}) >= y
      BY MaxOfThree
    <3> QED
      BY <3>1, Zenon
  <2>2. CASE m >= d
    BY <2>1, <2>2
  <2>3. CASE d >= m
    BY <2>1, <2>3
  <2> QED
    BY <2>1, <2>2, <2>3
<1>2. /\ Max({a, b, c, d}) \in {a, b, c, d}
      /\ \A y \in {a, b, c, d} : Max({a, b, c, d}) >= y
  BY <1>1, Zenon DEF Max
<1> QED
  BY <1>2

\* A nonempty set of numbers has a least one, a nonempty set of subsets a minimal one.
LEMMA LeastNumber ==
  ASSUME NEW T \in SUBSET Nat, T # {} PROVE \E m \in T : \A k \in T : ~(k < m)
<1>1. \E x \in T : \A y \in T : ~(<<y, x>> \in OpToRel(<, Nat))
  BY NatLessThanWellFounded, WFMin
<1> QED
  BY <1>1 DEF OpToRel

\* Numbers that stay below a bound have a greatest, those that stay above one a least.
LEMMA GreatestBelow ==
  ASSUME NEW T \in SUBSET Int, T # {}, NEW b \in Int, \A x \in T : x <= b
  PROVE  /\ \E m \in T : \A k \in T : m >= k
         /\ Max(T) \in T /\ \A k \in T : Max(T) >= k
<1> DEFINE U == {b - x : x \in T}
<1>1. U \in SUBSET Nat /\ U # {}
  <2>1. ASSUME NEW x \in T PROVE b - x \in Nat
    BY x \in Int, x <= b
  <2>2. U \subseteq Nat
    BY <2>1
  <2>3. PICK x \in T : TRUE
    OBVIOUS
  <2>4. b - x \in U
    OBVIOUS
  <2> QED
    BY <2>2, <2>4
<1> HIDE DEF U
<1>2. PICK u \in U : \A k \in U : ~(k < u)
  BY <1>1, LeastNumber
<1>3. PICK m \in T : u = b - m
  BY <1>2 DEF U
<1>4. ASSUME NEW k \in T PROVE m >= k
  <2>1. b - k \in U
    BY DEF U
  <2>2. ~(b - k < u)
    BY <1>2, <2>1
  <2> QED
    BY <1>3, <2>2
<1>5. \E x \in T : \A k \in T : x >= k
  BY <1>4
<1> QED
  BY <1>5, Zenon DEF Max
------------------------------------------------------------------------------
(* Finite sets of numbers                                                   *)

\* Of the subsets of a finite set with a property, one is minimal.
LEMMA MinimalSubset ==
  ASSUME NEW D, IsFiniteSet(D), NEW T \in SUBSET (SUBSET D), T # {}
  PROVE  \E m \in T : \A s \in T : s \subseteq m => s = m
<1>1. FiniteSubsetsOf(D) = SUBSET D
  BY FS_FiniteSubsetsOfFinite
<1>2. IsWellFoundedOn(StrictSubsetOrdering(D), SUBSET D)
  BY <1>1, FS_StrictSubsetOrderingWellFounded
<1>3. \E x \in T : \A y \in T : ~(<<y, x>> \in StrictSubsetOrdering(D))
  BY <1>2, WFMin
<1> QED
  BY <1>3 DEF StrictSubsetOrdering

\* The values a function has on a finite set are finitely many.
LEMMA FiniteImage ==
  ASSUME NEW S, IsFiniteSet(S), NEW f, f = [x \in S |-> f[x]]
  PROVE  IsFiniteSet({f[x] : x \in S})
<1> DEFINE T == {f[x] : x \in S}
<1>1. f \in Surjection(S, T)
  BY DEF Surjection
<1> QED
  BY <1>1, FS_Surjection

\* A nonempty finite set of numbers has a least and a greatest.
LEMMA FiniteBounded ==
  ASSUME NEW D, IsFiniteSet(D)
  PROVE  D \subseteq Int /\ D # {} =>
         /\ \E m \in D : \A k \in D : m =< k
         /\ \E m \in D : \A k \in D : m >= k
<1> DEFINE Wrong == {s \in SUBSET D : s # {} /\ ~(\E m \in s : \A k \in s : m =< k)}
           Worse == {s \in SUBSET D : s # {} /\ ~(\E m \in s : \A k \in s : m >= k)}
<1>0. \A W \in SUBSET (SUBSET D) : W # {} => \E m \in W : \A s \in W : s \subseteq m => s = m
  BY MinimalSubset
<1> SUFFICES ASSUME D \subseteq Int, D # {}
             PROVE  (\E m \in D : \A k \in D : m =< k) /\ (\E m \in D : \A k \in D : m >= k)
  OBVIOUS
<1>1. Wrong = {}
  <2> SUFFICES ASSUME Wrong # {} PROVE FALSE
    OBVIOUS
  <2>0. Wrong \in SUBSET (SUBSET D)
    OBVIOUS
  <2> HIDE DEF Wrong, Worse
  <2>1. PICK s \in Wrong : \A u \in Wrong : u \subseteq s => u = s
    BY <1>0, <2>0
  <2>2. s \in SUBSET D /\ s # {} /\ ~(\E m \in s : \A k \in s : m =< k)
    BY <2>1 DEF Wrong
  <2>3. PICK x \in s : TRUE
    BY <2>2
  <2>4. CASE s \ {x} = {}
    BY <2>2, <2>3, <2>4
  <2>5. CASE s \ {x} # {}
    <3>1. s \ {x} \notin Wrong
      BY <2>1, <2>3
    <3>2. PICK m \in s \ {x} : \A k \in s \ {x} : m =< k
      BY <2>2, <2>5, <3>1 DEF Wrong
    <3>3. x \in Int /\ m \in Int /\ s \subseteq Int
      BY <2>2, <3>2
    <3>4. (\A k \in s : m =< k) \/ (\A k \in s : x =< k)
      BY <3>2, <3>3
    <3> QED
      BY <2>2, <3>2, <3>4
  <2> QED
    BY <2>4, <2>5
<1>2. Worse = {}
  <2> SUFFICES ASSUME Worse # {} PROVE FALSE
    OBVIOUS
  <2>0. Worse \in SUBSET (SUBSET D)
    OBVIOUS
  <2> HIDE DEF Wrong, Worse
  <2>1. PICK s \in Worse : \A u \in Worse : u \subseteq s => u = s
    BY <1>0, <2>0
  <2>2. s \in SUBSET D /\ s # {} /\ ~(\E m \in s : \A k \in s : m >= k)
    BY <2>1 DEF Worse
  <2>3. PICK x \in s : TRUE
    BY <2>2
  <2>4. CASE s \ {x} = {}
    BY <2>2, <2>3, <2>4
  <2>5. CASE s \ {x} # {}
    <3>1. s \ {x} \notin Worse
      BY <2>1, <2>3
    <3>2. PICK m \in s \ {x} : \A k \in s \ {x} : m >= k
      BY <2>2, <2>5, <3>1 DEF Worse
    <3>3. x \in Int /\ m \in Int /\ s \subseteq Int
      BY <2>2, <3>2
    <3>4. (\A k \in s : m >= k) \/ (\A k \in s : x >= k)
      BY <3>2, <3>3
    <3> QED
      BY <2>2, <3>2, <3>4
  <2> QED
    BY <2>4, <2>5
<1>3. D \notin Wrong /\ D \notin Worse
  BY <1>1, <1>2
<1> QED
  BY <1>3

\* So Min and Max of it are what their names say.
LEMMA MinMaxOfFinite ==
  ASSUME NEW T \in SUBSET Int, IsFiniteSet(T), T # {}
  PROVE  /\ Min(T) \in T /\ (\A k \in T : Min(T) =< k)
         /\ Max(T) \in T /\ (\A k \in T : Max(T) >= k)
<1>1. Min(T) \in T /\ (\A k \in T : Min(T) =< k)
  BY FiniteBounded, Zenon DEF Min
<1>2. Max(T) \in T /\ (\A k \in T : Max(T) >= k)
  BY FiniteBounded, Zenon DEF Max
<1> QED
  BY <1>1, <1>2

------------------------------------------------------------------------------
(* Folds over finite sets                                                    *)

\* A fold over a finite set, its step a function F and its choice a function c.
IsFold(g, D, base, F, c) ==
  g = [s \in SUBSET D |-> IF s = {} THEN base ELSE F[<<g[s \ {c[s]}], c[s]>>]]

\* A fold whose step keeps within a set V exists, as a function into V.
LEMMA FoldExists ==
  ASSUME NEW D, IsFiniteSet(D), NEW V, NEW base \in V,
         NEW F, \A v \in V : \A x \in D : F[<<v, x>>] \in V,
         NEW c, \A s \in SUBSET D : s # {} => c[s] \in s
  PROVE  \E g \in [SUBSET D -> V] : IsFold(g, D, base, F, c)
<1> DEFINE One(g, s) == IF s = {} THEN base ELSE F[<<g[s \ {c[s]}], c[s]>>]
           UpTo(g, n) == \A s \in SUBSET D : Cardinality(s) <= n => g[s] = One(g, s)
           Missing == {n \in Nat : ~\E g \in [SUBSET D -> V] : UpTo(g, n)}
<1>0. \A s \in SUBSET D : IsFiniteSet(s) /\ Cardinality(s) \in Nat /\ Cardinality(s) <= Cardinality(D)
  BY FS_Subset, FS_CardinalityType
<1>a. \A g, s : s = {} => One(g, s) = base
  OBVIOUS
<1>b. \A g \in [SUBSET D -> V] : \A s \in SUBSET D : One(g, s) \in V
  <2> TAKE g \in [SUBSET D -> V]
  <2> TAKE s \in SUBSET D
  <2>1. CASE s = {}
    BY <2>1
  <2>2. CASE s # {}
    <3>1. s \ {c[s]} \in SUBSET D /\ c[s] \in D
      BY <2>2
    <3>2. g[s \ {c[s]}] \in V
      BY <3>1
    <3> QED
      BY <2>2, <3>1, <3>2
  <2> QED
    BY <2>1, <2>2
<1>c. \A g, h : \A s : (s # {} => g[s \ {c[s]}] = h[s \ {c[s]}]) => One(g, s) = One(h, s)
  OBVIOUS
<1> HIDE DEF One
<1>1. 0 \notin Missing
  <2> DEFINE g == [s \in SUBSET D |-> base]
  <2>1. ASSUME NEW s \in SUBSET D, Cardinality(s) <= 0 PROVE g[s] = One(g, s)
    <3>1. Cardinality(s) = 0
      BY <1>0, <2>1
    <3>2. s = {}
      BY <1>0, <3>1, FS_EmptySet
    <3> QED
      BY <1>a, <3>2
  <2>2. g \in [SUBSET D -> V]
    OBVIOUS
  <2> QED
    BY <2>1, <2>2
<1>2. ASSUME NEW n \in Nat, n + 1 \in Missing PROVE n \in Missing
  <2> SUFFICES ASSUME NEW g \in [SUBSET D -> V], UpTo(g, n) PROVE FALSE
    BY <1>2
  <2> DEFINE h == [s \in SUBSET D |-> One(g, s)]
  <2>1. h \in [SUBSET D -> V]
    BY <1>b
  <2>2. ASSUME NEW s \in SUBSET D, Cardinality(s) <= n + 1 PROVE h[s] = One(h, s)
    <3>1. CASE s = {}
      BY <1>a, <3>1
    <3>2. CASE s # {}
      <4> DEFINE u == s \ {c[s]}
      <4>1. Cardinality(u) = Cardinality(s) - 1 /\ u \in SUBSET D
        BY <1>0, <3>2, FS_RemoveElement
      <4>2. Cardinality(u) <= n
        BY <1>0, <2>2, <4>1
      <4>3. g[u] = One(g, u)
        BY <4>1, <4>2
      <4>4. g[u] = h[u]
        BY <4>1, <4>3
      <4>5. One(g, s) = One(h, s)
        BY <1>c, <4>4
      <4> QED
        BY <4>5
    <3> QED
      BY <3>1, <3>2
  <2> HIDE DEF h
  <2> QED
    BY <1>2, <2>1, <2>2
<1>3. Missing = {}
  <2> SUFFICES ASSUME Missing # {} PROVE FALSE
    OBVIOUS
  <2>0. Missing \in SUBSET Nat
    OBVIOUS
  <2> HIDE DEF Missing
  <2>1. PICK m \in Missing : \A k \in Missing : ~(k < m)
    BY <2>0, LeastNumber
  <2>2. m \in Nat /\ m # 0
    BY <1>1, <2>0
  <2>3. m - 1 \in Nat /\ (m - 1) + 1 = m
    BY <2>2
  <2>4. m - 1 \in Missing
    BY <1>2, <2>3
  <2> QED
    BY <2>1, <2>2, <2>4
<1>4. PICK g \in [SUBSET D -> V] : UpTo(g, Cardinality(D))
  BY <1>0, <1>3, FS_CardinalityType
<1>5. \A s \in SUBSET D : g[s] = One(g, s)
  BY <1>0, <1>4
<1>6. g = [s \in SUBSET D |-> One(g, s)]
  BY <1>4, <1>5
<1>7. IsFold(g, D, base, F, c)
  BY <1>6, Zenon DEF IsFold, One
<1> QED
  BY <1>7

\* What holds of the empty set, and after a step if it did before, holds of the whole.
StaysIn(g, D, V, c) ==
  \A s \in SUBSET D : /\ s # {} => c[s] \in s
                      /\ (s # {} => g[s \ {c[s]}] \in V) => g[s] \in V

\* What every step keeps, the fold of the whole set has.
LEMMA FoldIn ==
  ASSUME NEW D, IsFiniteSet(D), NEW V, NEW g, NEW c, StaysIn(g, D, V, c)
  PROVE  g[D] \in V
<1>0. \A s \in SUBSET D : /\ s # {} => c[s] \in s
                          /\ (s # {} => g[s \ {c[s]}] \in V) => g[s] \in V
  BY Zenon DEF StaysIn
<1> DEFINE Wrong == {s \in SUBSET D : g[s] \notin V}
<1>1. Wrong = {}
  <2> SUFFICES ASSUME Wrong # {} PROVE FALSE
    OBVIOUS
  <2>0. Wrong \in SUBSET (SUBSET D)
    OBVIOUS
  <2> HIDE DEF Wrong
  <2>1. PICK s \in Wrong : \A u \in Wrong : u \subseteq s => u = s
    BY <2>0, MinimalSubset
  <2>2. s \in SUBSET D /\ g[s] \notin V
    BY <2>1 DEF Wrong
  <2>3. ASSUME s # {} PROVE g[s \ {c[s]}] \in V
    <3>1. c[s] \in s
      BY <1>0, <2>2, <2>3
    <3>2. s \ {c[s]} \notin Wrong
      BY <2>1, <3>1
    <3> QED
      BY <2>2, <3>2 DEF Wrong
  <2> QED
    BY <1>0, <2>2, <2>3
<1> QED
  BY <1>1

------------------------------------------------------------------------------
(* Folds over sequences: the last index is taken off first                   *)

\* The last index of a prefix, and the prefix before it.
LEMMA LastOfPrefix ==
  ASSUME NEW k \in Nat \ {0}
  PROVE  1..k # {} /\ Max(1..k) = k /\ (1..k) \ {k} = 1..(k - 1)
<1>1. 1..k # {} /\ (1..k) \ {k} = 1..(k - 1)
  OBVIOUS
<1>2. k \in 1..k /\ \A j \in 1..k : k >= j
  OBVIOUS
<1>3. \E x \in 1..k : \A j \in 1..k : x >= j
  BY <1>2
<1>4. Max(1..k) \in 1..k /\ \A j \in 1..k : Max(1..k) >= j
  BY <1>3, Zenon DEF Max
<1>5. Max(1..k) = k
  BY <1>2, <1>4
<1> QED
  BY <1>1, <1>5

\* Of indices there is a greatest.
LEMMA GreatestIndex ==
  ASSUME NEW n \in Nat, NEW s \in SUBSET (1..n), s # {} PROVE Max(s) \in s
<1>1. IsFiniteSet(1..n)
  BY FS_Interval
<1>2. IsFiniteSet(s)
  BY <1>1, FS_Subset
<1>3. s \in SUBSET Int
  OBVIOUS
<1> QED
  BY <1>2, <1>3, MinMaxOfFinite

\* Such a fold exists when its step keeps within a set.
IsLeftFold(g, n, V, base, F) ==
  \A s \in SUBSET (1..n) :
    /\ s # {} => Max(s) \in 1..n /\ g[s \ {Max(s)}] \in V
    /\ g[s] = IF s = {} THEN base ELSE F[<<g[s \ {Max(s)}], Max(s)>>]

\* The fold of a sequence, a function on sets of indices that takes the greatest last.
LEMMA LeftFoldExists ==
  ASSUME NEW n \in Nat, NEW V, NEW base \in V,
         NEW F, \A v \in V : \A i \in 1..n : F[<<v, i>>] \in V
  PROVE  \E g \in [SUBSET (1..n) -> V] : IsLeftFold(g, n, V, base, F)
<1> DEFINE c == [s \in SUBSET (1..n) |-> Max(s)]
<1>1. \A s \in SUBSET (1..n) : c[s] = Max(s) /\ (s # {} => c[s] \in s)
  BY GreatestIndex
<1>2. IsFiniteSet(1..n)
  BY FS_Interval
<1> HIDE DEF c
<1>3. PICK g \in [SUBSET (1..n) -> V] : IsFold(g, 1..n, base, F, c)
  BY <1>1, <1>2, FoldExists
<1>4. \A s \in SUBSET (1..n) : g[s] = IF s = {} THEN base ELSE F[<<g[s \ {c[s]}], c[s]>>]
  BY <1>3, Zenon DEF IsFold
<1>5. \A s \in SUBSET (1..n) : s # {} => Max(s) \in 1..n /\ g[s \ {Max(s)}] \in V
  BY <1>1, <1>3
<1> QED
  BY <1>1, <1>4, <1>5 DEF IsLeftFold

\* What holds before the first step, and after a step if it did before, holds at the end.
LEMMA PrefixIn ==
  ASSUME NEW n \in Nat, NEW h, NEW W, <<0, h[0]>> \in W,
         \A k \in 1..n : <<k - 1, h[k - 1]>> \in W => <<k, h[k]>> \in W
  PROVE  \A k \in 0..n : <<k, h[k]>> \in W
<1> DEFINE Wrong == {k \in 0..n : <<k, h[k]>> \notin W}
<1>1. Wrong \in SUBSET Nat
  OBVIOUS
<1>2. ASSUME Wrong # {} PROVE FALSE
  <2> HIDE DEF Wrong
  <2>1. PICK m \in Wrong : \A k \in Wrong : ~(k < m)
    BY <1>1, <1>2, LeastNumber
  <2>2. m \in 0..n /\ <<m, h[m]>> \notin W /\ m # 0
    BY <2>1 DEF Wrong
  <2>3. m \in 1..n /\ m - 1 \in 0..n /\ m - 1 < m
    BY <2>2
  <2>4. m - 1 \notin Wrong
    BY <2>1, <2>3
  <2>5. <<m - 1, h[m - 1]>> \in W
    BY <2>3, <2>4 DEF Wrong
  <2> QED
    BY <2>2, <2>3, <2>5
<1> QED
  BY <1>2
==============================================================================
