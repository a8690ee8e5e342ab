------------------------------ MODULE FoldLemmas ------------------------------
(***************************************************************************)
(* Facts about the operators the modules count and join with: sums over a  *)
(* set, which the upload pool's and the logger's accounts are stated with, *)
(* and FlattenSeq, which joins blocks, files and responses.  The library   *)
(* defines them by recursive functions, so they are proved by induction    *)
(* over numbers, one set or sequence size after the other.                 *)
(***************************************************************************)
EXTENDS Naturals, Sequences, SequencesExt, FiniteSets, SequenceTheorems, FiniteSetTheorems,
        NaturalsInduction, WellFoundedInduction, TLAPS

-----------------------------------------------------------------------------
(* Induction.                                                              *)

\* A set of numbers has a least one.
LEMMA LeastOf ==
  ASSUME NEW S \in SUBSET Nat, S # {}
  PROVE  \E w \in S : \A v \in S : w <= v
<1>1. PICK w \in S : \A v \in S : ~ (<<v, w>> \in OpToRel(<, Nat))
  BY NatLessThanWellFounded, WFMin
<1>2. ASSUME NEW v \in S PROVE w <= v
  <2>1. v \in Nat /\ w \in Nat
    OBVIOUS
  <2>2. v < w => <<v, w>> \in OpToRel(<, Nat)
    BY <2>1 DEF OpToRel
  <2>3. ~ (v < w)
    BY <1>1, <2>2
  <2> QED BY <2>1, <2>3
<1> QED BY <1>2

\* Induction over the numbers, for a set of them.
LEMMA Climb ==
  ASSUME NEW T, 0 \in T, \A n \in Nat : n \in T => n + 1 \in T
  PROVE  \A n \in Nat : n \in T
<1> SUFFICES ASSUME NEW m \in Nat, m \notin T PROVE FALSE
  OBVIOUS
<1>1. PICK w \in Nat \ T : \A v \in Nat \ T : w <= v
  <2>1. Nat \ T \in SUBSET Nat /\ Nat \ T # {}
    OBVIOUS
  <2> QED BY <2>1, LeastOf
<1>2. w # 0 /\ w - 1 \in Nat /\ w - 1 + 1 = w /\ ~(w <= w - 1)
  BY <1>1
<1> QED BY <1>1, <1>2

-----------------------------------------------------------------------------
(* Sums.                                                                   *)

\* The element the library takes from a set.
Chosen(s) == CHOOSE x \in s : TRUE

\* it is the recursion of SumFunctionOnSet over f, on the sets of D.
Adds(f, D, it) ==
  it = [s \in D |-> IF s = {} THEN 0 ELSE f[Chosen(s)] + it[s \ {Chosen(s)}]]

\* The subsets of S of n elements at most.
UpTo(S, n) == {s \in SUBSET S : Cardinality(s) <= n}

\* An element taken from a finite set leaves one less.
LEMMA ChosenIs ==
  ASSUME NEW S, IsFiniteSet(S), NEW s \in SUBSET S, s # {}
  PROVE  /\ Chosen(s) \in s /\ Cardinality(s) \in Nat \ {0}
         /\ Cardinality(s \ {Chosen(s)}) = Cardinality(s) - 1
<1>1. Chosen(s) \in s
  BY DEF Chosen
<1>2. IsFiniteSet(s)
  BY FS_Subset
<1>3. Cardinality(s) \in Nat /\ Cardinality(s) # 0
  BY <1>2, FS_CardinalityType, FS_EmptySet
<1>4. Cardinality(s \ {Chosen(s)}) = Cardinality(s) - 1
  BY <1>1, <1>2, FS_RemoveElement
<1> QED BY <1>1, <1>3, <1>4

\* The recursion has a solution, on the sets of n elements for each n.
LEMMA AddsExist ==
  ASSUME NEW f, NEW S, IsFiniteSet(S)
  PROVE  \A n \in Nat : \E it : Adds(f, UpTo(S, n), it)
<1> DEFINE T == {n \in Nat : \E it : Adds(f, UpTo(S, n), it)}
<1>1. 0 \in T
  <2>1. ASSUME NEW s \in UpTo(S, 0) PROVE s = {}
    <3>1. s \in SUBSET S /\ Cardinality(s) <= 0
      BY DEF UpTo
    <3>2. s # {} => Cardinality(s) \in Nat \ {0}
      BY <3>1, ChosenIs
    <3> QED BY <3>1, <3>2
  <2>2. Adds(f, UpTo(S, 0), [s \in UpTo(S, 0) |-> 0])
    BY <2>1, Zenon DEF Adds
  <2> QED BY <2>2
<1>2. ASSUME NEW n \in Nat, n \in T PROVE n + 1 \in T
  <2>1. PICK g : Adds(f, UpTo(S, n), g)
    BY <1>2
  <2> DEFINE Next1(k, s) == IF s = {} THEN 0 ELSE f[Chosen(s)] + k[s \ {Chosen(s)}]
             h == [s \in UpTo(S, n + 1) |-> Next1(g, s)]
  <2>2. ASSUME NEW s \in UpTo(S, n + 1) PROVE h[s] = Next1(h, s)
    <3>1. CASE s = {}
      BY <3>1
    <3>2. CASE s # {}
      <4> DEFINE r == s \ {Chosen(s)}
      <4>1. r \in UpTo(S, n) /\ r \in UpTo(S, n + 1)
        <5>1. s \in SUBSET S /\ Cardinality(s) <= n + 1
          BY DEF UpTo
        <5>2. r \in SUBSET S /\ Cardinality(r) = Cardinality(s) - 1 /\ Cardinality(s) \in Nat
          BY <3>2, <5>1, ChosenIs
        <5> QED BY <5>1, <5>2 DEF UpTo
      <4>2. g[r] = Next1(g, r)
        BY <2>1, <4>1, Zenon DEF Adds
      <4>3. h[r] = Next1(g, r)
        BY <4>1
      <4> QED BY <3>2, <4>2, <4>3
    <3> QED BY <3>1, <3>2
  <2>3. Adds(f, UpTo(S, n + 1), h)
    BY <2>2, Zenon DEF Adds
  <2> QED BY <2>3
<1> HIDE DEF T
<1>3. \A n \in Nat : n \in T
  BY <1>1, <1>2, Climb
<1> QED BY <1>3 DEF T

\* What SumFunctionOnSet computes.
LEMMA SumIs ==
  ASSUME NEW f, NEW S, IsFiniteSet(S)
  PROVE  \E it : Adds(f, SUBSET S, it) /\ SumFunctionOnSet(f, S) = it[S]
<1> DEFINE G(it) == [s \in SUBSET S |-> IF s = {} THEN 0 ELSE f[Chosen(s)] + it[s \ {Chosen(s)}]]
           F == CHOOSE it : it = G(it)
<1>1. UpTo(S, Cardinality(S)) = SUBSET S /\ Cardinality(S) \in Nat
  <2>1. Cardinality(S) \in Nat
    BY FS_CardinalityType
  <2>2. ASSUME NEW s \in SUBSET S PROVE Cardinality(s) <= Cardinality(S)
    BY FS_Subset
  <2> QED BY <2>1, <2>2 DEF UpTo
<1>2. PICK it : Adds(f, SUBSET S, it)
  <2>1. \A n \in Nat : \E it : Adds(f, UpTo(S, n), it)
    BY AddsExist
  <2>2. \E it : Adds(f, UpTo(S, Cardinality(S)), it)
    BY <1>1, <2>1, Zenon
  <2> QED BY <1>1, <2>2, Zenon
<1>3. it = G(it)
  BY <1>2 DEF Adds
<1>4. F = G(F)
  BY <1>3, Zenon
<1>5. SumFunctionOnSet(f, S) = F[S]
  BY Zenon DEF SumFunctionOnSet, FoldFunctionOnSet, MapThenFoldSet, Chosen
<1>6. Adds(f, SUBSET S, F)
  BY <1>4, Zenon DEF Adds
<1> QED BY <1>5, <1>6

\* A sum by its recursion.
LEMMA SumTakes ==
  ASSUME NEW f, NEW S, IsFiniteSet(S)
  PROVE  SumFunctionOnSet(f, S) = IF S = {} THEN 0
                                  ELSE f[Chosen(S)] + SumFunctionOnSet(f, S \ {Chosen(S)})
<1>1. CASE S = {}
  <2>1. PICK it : Adds(f, SUBSET S, it) /\ SumFunctionOnSet(f, S) = it[S]
    BY SumIs
  <2>2. it[S] = 0
    BY <1>1, <2>1, Zenon DEF Adds
  <2> QED BY <1>1, <2>1, <2>2
<1>2. CASE S # {}
  <2> DEFINE R == S \ {Chosen(S)}
             T == {n \in Nat : \A s \in UpTo(R, n) : \A a, b :
                     Adds(f, SUBSET S, a) /\ Adds(f, SUBSET R, b) => a[s] = b[s]}
  <2>1. IsFiniteSet(R) /\ R \in SUBSET S
    BY FS_Subset
  <2>2. ASSUME NEW a, NEW b, Adds(f, SUBSET S, a), Adds(f, SUBSET R, b), NEW s \in SUBSET R,
               s # {} => a[s \ {Chosen(s)}] = b[s \ {Chosen(s)}]
        PROVE  a[s] = b[s]
    <3>1. s \in SUBSET S
      OBVIOUS
    <3>2. a[s] = IF s = {} THEN 0 ELSE f[Chosen(s)] + a[s \ {Chosen(s)}]
      BY <2>2, <3>1, Zenon DEF Adds
    <3>3. b[s] = IF s = {} THEN 0 ELSE f[Chosen(s)] + b[s \ {Chosen(s)}]
      BY <2>2, Zenon DEF Adds
    <3> QED BY <2>2, <3>2, <3>3
  <2>3. 0 \in T
    <3>1. ASSUME NEW s \in UpTo(R, 0) PROVE s \in SUBSET R /\ s = {}
      <4>1. s \in SUBSET R /\ Cardinality(s) <= 0
        BY DEF UpTo
      <4>2. s # {} => Cardinality(s) \in Nat \ {0}
        BY <2>1, <4>1, ChosenIs
      <4> QED BY <4>1, <4>2
    <3> QED BY <2>2, <3>1, Zenon
  <2>4. ASSUME NEW n \in Nat, n \in T PROVE n + 1 \in T
    <3>1. ASSUME NEW s \in UpTo(R, n + 1), s # {} PROVE s \in SUBSET R /\ s \ {Chosen(s)} \in UpTo(R, n)
      <4>1. s \in SUBSET R /\ Cardinality(s) <= n + 1
        BY DEF UpTo
      <4>2. Cardinality(s) \in Nat \ {0} /\ Cardinality(s \ {Chosen(s)}) = Cardinality(s) - 1
        BY <2>1, <3>1, <4>1, ChosenIs
      <4> QED BY <4>1, <4>2 DEF UpTo
    <3>2. ASSUME NEW s \in UpTo(R, n + 1), NEW a, NEW b, Adds(f, SUBSET S, a), Adds(f, SUBSET R, b)
          PROVE  a[s] = b[s]
      <4>1. s \in SUBSET R
        BY DEF UpTo
      <4>2. s # {} => a[s \ {Chosen(s)}] = b[s \ {Chosen(s)}]
        BY <2>4, <3>1, <3>2, Zenon
      <4> QED BY <2>2, <3>2, <4>1, <4>2
    <3>3. n + 1 \in Nat
      OBVIOUS
    <3> QED BY <3>2, <3>3, Zenon
  <2> HIDE DEF T
  <2>5. \A n \in Nat : n \in T
    BY <2>3, <2>4, Climb
  <2>6. R \in UpTo(R, Cardinality(R)) /\ Cardinality(R) \in Nat
    <3>1. Cardinality(R) \in Nat
      BY <2>1, FS_CardinalityType
    <3> QED BY <3>1 DEF UpTo
  <2>7. PICK a : Adds(f, SUBSET S, a) /\ SumFunctionOnSet(f, S) = a[S]
    BY SumIs
  <2>8. PICK b : Adds(f, SUBSET R, b) /\ SumFunctionOnSet(f, R) = b[R]
    BY <2>1, SumIs
  <2>9. a[R] = b[R]
    BY <2>5, <2>6, <2>7, <2>8, Zenon DEF T
  <2>10. S \in SUBSET S
    OBVIOUS
  <2>11. a[S] = f[Chosen(S)] + a[R]
    BY <1>2, <2>7, <2>10, Zenon DEF Adds
  <2> QED BY <1>2, <2>7, <2>8, <2>9, <2>11
<1> QED BY <1>1, <1>2

\* Induction over the subsets of a finite set, for a set of them.
LEMMA ClimbSets ==
  ASSUME NEW S, IsFiniteSet(S), NEW T, {} \in T,
         \A s \in SUBSET S : s # {} /\ s \ {Chosen(s)} \in T => s \in T
  PROVE  \A s \in SUBSET S : s \in T
<1> DEFINE N == {n \in Nat : \A s \in UpTo(S, n) : s \in T}
<1>1. ASSUME NEW n \in Nat, NEW s \in UpTo(S, n)
      PROVE  s \in SUBSET S /\ (s # {} => n # 0 /\ s \ {Chosen(s)} \in UpTo(S, n - 1))
  <2>1. s \in SUBSET S /\ Cardinality(s) <= n
    BY DEF UpTo
  <2>2. s # {} => Cardinality(s) \in Nat \ {0} /\ Cardinality(s \ {Chosen(s)}) = Cardinality(s) - 1
    BY <2>1, ChosenIs
  <2> QED BY <2>1, <2>2 DEF UpTo
<1>2. 0 \in N
  BY <1>1
<1>3. ASSUME NEW n \in Nat, n \in N PROVE n + 1 \in N
  <2>1. n + 1 \in Nat /\ n + 1 - 1 = n
    OBVIOUS
  <2>2. ASSUME NEW s \in UpTo(S, n + 1) PROVE s \in T
    <3>1. s \in SUBSET S /\ (s # {} => s \ {Chosen(s)} \in UpTo(S, n + 1 - 1))
      BY <1>1, <2>1
    <3>2. s # {} => s \ {Chosen(s)} \in T
      BY <1>3, <2>1, <3>1
    <3> QED BY <3>1, <3>2
  <2> QED BY <2>1, <2>2, Zenon
<1> HIDE DEF N
<1>4. \A n \in Nat : n \in N
  BY <1>2, <1>3, Climb
<1>5. ASSUME NEW s \in SUBSET S PROVE s \in T
  <2>1. IsFiniteSet(s)
    BY FS_Subset
  <2>2. Cardinality(s) \in Nat /\ s \in UpTo(S, Cardinality(s))
    BY <2>1, FS_CardinalityType DEF UpTo
  <2> QED BY <1>4, <2>2 DEF N
<1> QED BY <1>5

\* A sum of numbers is a number, and is zero only if they all are.
LEMMA SumType ==
  ASSUME NEW f, NEW S, IsFiniteSet(S), \A x \in S : f[x] \in Nat
  PROVE  /\ SumFunctionOnSet(f, S) \in Nat
         /\ (\A x \in S : f[x] = 0) => SumFunctionOnSet(f, S) = 0
<1> DEFINE T == {s \in SUBSET S : SumFunctionOnSet(f, s) \in Nat /\
                                  ((\A x \in s : f[x] = 0) => SumFunctionOnSet(f, s) = 0)}
<1>1. {} \in T
  <2>1. SumFunctionOnSet(f, {}) = 0
    BY SumTakes, FS_EmptySet
  <2> QED BY <2>1
<1>2. ASSUME NEW s \in SUBSET S, s # {}, s \ {Chosen(s)} \in T PROVE s \in T
  <2>1. IsFiniteSet(s)
    BY FS_Subset
  <2>2. SumFunctionOnSet(f, s) = f[Chosen(s)] + SumFunctionOnSet(f, s \ {Chosen(s)})
    BY <1>2, <2>1, SumTakes
  <2>3. Chosen(s) \in s /\ f[Chosen(s)] \in Nat
    BY <1>2, ChosenIs
  <2> QED BY <1>2, <2>2, <2>3
<1> HIDE DEF T
<1>3. S \in T
  BY <1>1, <1>2, ClimbSets
<1> QED BY <1>3 DEF T

\* Where two functions agree, so do their sums.
LEMMA SumSame ==
  ASSUME NEW f, NEW g, NEW S, IsFiniteSet(S), \A x \in S : f[x] = g[x]
  PROVE  SumFunctionOnSet(f, S) = SumFunctionOnSet(g, S)
<1> DEFINE T == {s \in SUBSET S : SumFunctionOnSet(f, s) = SumFunctionOnSet(g, s)}
<1>1. {} \in T
  BY SumTakes, FS_EmptySet
<1>2. ASSUME NEW s \in SUBSET S, s # {}, s \ {Chosen(s)} \in T PROVE s \in T
  <2>1. IsFiniteSet(s)
    BY FS_Subset
  <2>2. /\ SumFunctionOnSet(f, s) = f[Chosen(s)] + SumFunctionOnSet(f, s \ {Chosen(s)})
        /\ SumFunctionOnSet(g, s) = g[Chosen(s)] + SumFunctionOnSet(g, s \ {Chosen(s)})
    BY <1>2, <2>1, SumTakes
  <2>3. Chosen(s) \in S
    BY <1>2, ChosenIs
  <2> QED BY <1>2, <2>2, <2>3
<1> HIDE DEF T
<1>3. S \in T
  BY <1>1, <1>2, ClimbSets
<1> QED BY <1>3 DEF T

\* It does not matter which element is counted first.
LEMMA SumWithout ==
  ASSUME NEW f, NEW S, IsFiniteSet(S), \A x \in S : f[x] \in Nat, NEW y \in S
  PROVE  SumFunctionOnSet(f, S) = f[y] + SumFunctionOnSet(f, S \ {y})
<1> DEFINE N == {n \in Nat : \A s \in UpTo(S, n) : \A x \in s :
                   SumFunctionOnSet(f, s) = f[x] + SumFunctionOnSet(f, s \ {x})}
<1>1. 0 \in N
  <2>1. ASSUME NEW s \in UpTo(S, 0), NEW x \in s PROVE FALSE
    <3>1. s \in SUBSET S /\ Cardinality(s) <= 0 /\ s # {}
      BY DEF UpTo
    <3>2. Cardinality(s) \in Nat \ {0}
      BY <3>1, ChosenIs
    <3> QED BY <3>1, <3>2
  <2> QED BY <2>1
<1>2. ASSUME NEW n \in Nat, n \in N PROVE n + 1 \in N
  <2>1. ASSUME NEW s \in UpTo(S, n + 1), NEW x \in s
        PROVE  SumFunctionOnSet(f, s) = f[x] + SumFunctionOnSet(f, s \ {x})
    <3> DEFINE c == Chosen(s)
    <3>1. s \in SUBSET S /\ Cardinality(s) <= n + 1 /\ s # {}
      BY DEF UpTo
    <3>2. IsFiniteSet(s) /\ IsFiniteSet((s \ {c}) \ {x}) /\ c \in s
      <4>1. (s \ {c}) \ {x} \in SUBSET S
        BY <3>1
      <4> QED BY <3>1, <4>1, FS_Subset, ChosenIs
    <3>3. SumFunctionOnSet(f, s) = f[c] + SumFunctionOnSet(f, s \ {c})
      BY <3>1, <3>2, SumTakes
    <3>4. ASSUME NEW z \in s PROVE s \ {z} \in UpTo(S, n)
      <4>1. Cardinality(s \ {z}) = Cardinality(s) - 1 /\ Cardinality(s) \in Nat
        BY <3>2, FS_RemoveElement, FS_CardinalityType
      <4> QED BY <3>1, <4>1 DEF UpTo
    <3>5. CASE x = c
      BY <3>3, <3>5
    <3>6. CASE x # c
      <4>1. SumFunctionOnSet(f, s \ {c}) = f[x] + SumFunctionOnSet(f, (s \ {c}) \ {x})
        BY <1>2, <3>2, <3>4, <3>6
      <4>2. SumFunctionOnSet(f, s \ {x}) = f[c] + SumFunctionOnSet(f, (s \ {x}) \ {c})
        BY <1>2, <3>2, <3>4, <3>6
      <4>3. (s \ {x}) \ {c} = (s \ {c}) \ {x}
        OBVIOUS
      <4>4. SumFunctionOnSet(f, (s \ {c}) \ {x}) \in Nat
        <5>1. \A z \in (s \ {c}) \ {x} : f[z] \in Nat
          BY <3>1
        <5> QED BY <3>2, <5>1, SumType
      <4>5. f[x] \in Nat /\ f[c] \in Nat
        BY <3>1, <3>2
      <4> QED BY <3>3, <4>1, <4>2, <4>3, <4>4, <4>5
    <3> QED BY <3>5, <3>6
  <2>2. n + 1 \in Nat
    OBVIOUS
  <2> QED BY <2>1, <2>2, Zenon
<1> HIDE DEF N
<1>3. \A n \in Nat : n \in N
  BY <1>1, <1>2, Climb
<1>4. Cardinality(S) \in Nat /\ S \in UpTo(S, Cardinality(S))
  BY FS_CardinalityType DEF UpTo
<1> QED BY <1>3, <1>4, Zenon DEF N

\* One summand changes, and the sum by as much.
LEMMA SumMoves ==
  ASSUME NEW f, NEW g, NEW S, IsFiniteSet(S), \A x \in S : f[x] \in Nat /\ g[x] \in Nat,
         NEW y \in S, \A x \in S \ {y} : f[x] = g[x]
  PROVE  /\ SumFunctionOnSet(g, S) = SumFunctionOnSet(f, S) - f[y] + g[y]
         /\ f[y] <= SumFunctionOnSet(f, S)
<1>1. IsFiniteSet(S \ {y})
  BY FS_Subset
<1>2. SumFunctionOnSet(f, S \ {y}) = SumFunctionOnSet(g, S \ {y})
  BY <1>1, SumSame
<1>3. SumFunctionOnSet(f, S \ {y}) \in Nat
  BY <1>1, SumType
<1>4. SumFunctionOnSet(f, S) = f[y] + SumFunctionOnSet(f, S \ {y})
  BY SumWithout
<1>5. SumFunctionOnSet(g, S) = g[y] + SumFunctionOnSet(g, S \ {y})
  BY SumWithout
<1> QED BY <1>2, <1>3, <1>4, <1>5

-----------------------------------------------------------------------------
(* Joining.                                                                *)

\* g[i] is the first i of q's sequences, joined.
Joins(q, n, g) ==
  g = [i \in 1..n |-> IF i = 1 THEN q[i] ELSE g[i - 1] \o q[i]]

\* There is always such a g.
LEMMA JoinsExist ==
  ASSUME NEW q
  PROVE  \A n \in Nat : \E g : Joins(q, n, g)
<1> DEFINE T == {n \in Nat : \E g : Joins(q, n, g)}
<1>1. 0 \in T
  <2>1. Joins(q, 0, [i \in 1..0 |-> 0])
    BY DEF Joins
  <2> QED BY <2>1
<1>2. ASSUME NEW n \in Nat, n \in T PROVE n + 1 \in T
  <2>1. PICK g : Joins(q, n, g)
    BY <1>2
  <2> DEFINE h == [i \in 1..n + 1 |-> IF i \in 1..n THEN g[i] ELSE IF n + 1 = 1 THEN q[i] ELSE g[n] \o q[i]]
  <2>2. Joins(q, n + 1, h)
    <3>1. ASSUME NEW i \in 1..n + 1 PROVE h[i] = IF i = 1 THEN q[i] ELSE h[i - 1] \o q[i]
      <4>1. CASE i \in 1..n
        <5>1. g[i] = IF i = 1 THEN q[i] ELSE g[i - 1] \o q[i]
          BY <2>1, <4>1, Zenon DEF Joins
        <5>2. i # 1 => i - 1 \in 1..n /\ i - 1 \in 1..n + 1
          BY <4>1
        <5> QED BY <5>1, <5>2, <4>1
      <4>2. CASE i \notin 1..n
        BY <4>2
      <4> QED BY <4>1, <4>2
    <3> QED BY <3>1, Zenon DEF Joins
  <2> QED BY <2>2
<1> HIDE DEF T
<1>3. \A n \in Nat : n \in T
  BY <1>1, <1>2, Climb
<1> QED BY <1>3 DEF T

\* What FlattenSeq computes.
LEMMA FlattenIs ==
  ASSUME NEW q, Len(q) \in Nat \ {0}
  PROVE  \E g : Joins(q, Len(q), g) /\ FlattenSeq(q) = g[Len(q)]
<1> DEFINE n == Len(q)
           G(g) == [i \in 1..n |-> IF i = 1 THEN q[i] ELSE g[i - 1] \o q[i]]
           F == CHOOSE g : g = G(g)
<1>1. PICK g : Joins(q, n, g)
  BY JoinsExist
<1>2. g = G(g)
  BY <1>1 DEF Joins
<1>3. F = G(F)
  BY <1>2, Zenon
<1>4. FlattenSeq(q) = F[n]
  BY Zenon DEF FlattenSeq
<1>5. Joins(q, n, F)
  BY <1>3, Zenon DEF Joins
<1> QED BY <1>4, <1>5

\* Nothing joined, and one more sequence joined.
LEMMA FlattenAppend ==
  ASSUME NEW S, NEW q \in Seq(Seq(S)), NEW x \in Seq(S), FlattenSeq(q) \in Seq(S)
  PROVE  FlattenSeq(Append(q, x)) = FlattenSeq(q) \o x
<1> DEFINE n == Len(q)
           w == Append(q, x)
<1>1. /\ n \in Nat /\ w \in Seq(Seq(S)) /\ Len(w) = n + 1 /\ w[n + 1] = x
      /\ \A i \in 1..n : w[i] = q[i]
  BY AppendProperties, LenProperties
<1>2. PICK g : Joins(w, n + 1, g) /\ FlattenSeq(w) = g[n + 1]
  <2>1. Len(w) \in Nat \ {0} /\ Len(w) = n + 1
    BY <1>1
  <2>2. \E g : Joins(w, Len(w), g) /\ FlattenSeq(w) = g[Len(w)]
    BY <2>1, FlattenIs
  <2> QED BY <2>1, <2>2
<1> HIDE DEF w
<1>3. g[n + 1] = IF n + 1 = 1 THEN w[n + 1] ELSE g[n + 1 - 1] \o w[n + 1]
  <2> DEFINE m == n + 1
  <2>1. m \in 1..m
    BY <1>1
  <2>2. Joins(w, m, g)
    BY <1>2
  <2> HIDE DEF m
  <2>3. g[m] = IF m = 1 THEN w[m] ELSE g[m - 1] \o w[m]
    BY <2>1, <2>2, Zenon DEF Joins
  <2> QED BY <2>3 DEF m
<1>4. CASE n = 0
  <2>1. q = << >>
    BY <1>4, EmptySeq
  <2>2. FlattenSeq(q) = << >>
    BY <2>1, <1>4 DEF FlattenSeq
  <2>3. << >> \o x = x
    BY ConcatEmptySeq
  <2> QED BY <1>1, <1>2, <1>3, <1>4, <2>2, <2>3 DEF w
<1>5. CASE n # 0
  <2>1. PICK h : Joins(q, n, h) /\ FlattenSeq(q) = h[n]
    BY <1>1, <1>5, FlattenIs
  <2> DEFINE T == {k \in Nat : k \in 1..n => g[k] = h[k]}
  <2>2. 0 \in T
    OBVIOUS
  <2>3. ASSUME NEW k \in Nat, k \in T PROVE k + 1 \in T
    <3> DEFINE j == k + 1
    <3>1. SUFFICES ASSUME j \in 1..n PROVE g[j] = h[j]
      BY DEF T
    <3>2. j \in 1..n + 1 /\ j - 1 = k /\ (j # 1 => k \in 1..n)
      BY <1>1, <3>1
    <3> HIDE DEF j
    <3>3. g[j] = IF j = 1 THEN w[j] ELSE g[j - 1] \o w[j]
      BY <1>2, <3>2, Zenon DEF Joins
    <3>4. h[j] = IF j = 1 THEN q[j] ELSE h[j - 1] \o q[j]
      BY <2>1, <3>1, Zenon DEF Joins
    <3>5. j # 1 => g[k] = h[k]
      BY <2>3, <3>2
    <3> QED BY <1>1, <3>1, <3>2, <3>3, <3>4, <3>5
  <2> HIDE DEF T
  <2>4. n \in T
    BY <1>1, <2>2, <2>3, Climb
  <2>5. g[n] = h[n]
    BY <1>1, <1>5, <2>4 DEF T
  <2>6. n + 1 # 1 /\ n + 1 - 1 = n
    BY <1>1, <1>5
  <2> QED BY <1>1, <1>2, <1>3, <2>1, <2>5, <2>6 DEF w
<1> QED BY <1>4, <1>5

\* Induction over sequences, for a set of them.
LEMMA ClimbSeqs ==
  ASSUME NEW S, NEW T, << >> \in T, \A q \in Seq(S), x \in S : q \in T => Append(q, x) \in T
  PROVE  \A q \in Seq(S) : q \in T
<1> DEFINE N == {n \in Nat : \A q \in Seq(S) : Len(q) = n => q \in T}
<1>1. 0 \in N
  BY EmptySeq
<1>2. ASSUME NEW n \in Nat, n \in N PROVE n + 1 \in N
  <2>1. ASSUME NEW q \in Seq(S), Len(q) = n + 1 PROVE q \in T
    <3>1. q # << >>
      BY <2>1, EmptySeq
    <3>2. PICK p \in Seq(S), x \in S : q = Append(p, x)
      BY <3>1, SequenceEmptyOrAppend
    <3>3. Len(p) = n
      BY <2>1, <3>2, AppendProperties, LenProperties
    <3> QED BY <1>2, <3>2, <3>3
  <2>2. n + 1 \in Nat
    OBVIOUS
  <2> QED BY <2>1, <2>2, Zenon
<1> HIDE DEF N
<1>3. \A n \in Nat : n \in N
  BY <1>1, <1>2, Climb
<1> QED BY <1>3, LenProperties DEF N

\* What is joined is a sequence.
LEMMA FlattenType ==
  ASSUME NEW S, NEW q \in Seq(Seq(S))
  PROVE  FlattenSeq(q) \in Seq(S) /\ FlattenSeq(<< >>) = << >>
<1> DEFINE T == {p \in Seq(Seq(S)) : FlattenSeq(p) \in Seq(S)}
<1>1. FlattenSeq(<< >>) = << >>
  BY DEF FlattenSeq
<1>2. << >> \in T
  <2>1. << >> \in Seq(S) /\ << >> \in Seq(Seq(S))
    BY EmptySeq
  <2> QED BY <1>1, <2>1
<1>3. ASSUME NEW p \in Seq(Seq(S)), NEW x \in Seq(S), p \in T PROVE Append(p, x) \in T
  <2>1. FlattenSeq(Append(p, x)) = FlattenSeq(p) \o x
    BY <1>3, FlattenAppend
  <2>2. FlattenSeq(p) \o x \in Seq(S) /\ Append(p, x) \in Seq(Seq(S))
    BY <1>3, ConcatProperties, AppendProperties
  <2> QED BY <2>1, <2>2
<1> HIDE DEF T
<1>4. q \in T
  BY <1>2, <1>3, ClimbSeqs
<1> QED BY <1>1, <1>4 DEF T

\* One more sequence joined, and two joins joined.
LEMMA FlattenConcat ==
  ASSUME NEW S, NEW q \in Seq(Seq(S)), NEW r \in Seq(Seq(S))
  PROVE  FlattenSeq(q \o r) = FlattenSeq(q) \o FlattenSeq(r)
<1> DEFINE T == {p \in Seq(Seq(S)) : FlattenSeq(q \o p) = FlattenSeq(q) \o FlattenSeq(p)}
<1>1. << >> \in T
  <2>1. q \o << >> = q /\ FlattenSeq(<< >>) = << >> /\ FlattenSeq(q) \in Seq(S)
    BY ConcatEmptySeq, FlattenType
  <2>2. FlattenSeq(q) \o << >> = FlattenSeq(q)
    BY <2>1, ConcatEmptySeq
  <2> QED BY <2>1, <2>2
<1>2. ASSUME NEW p \in Seq(Seq(S)), NEW x \in Seq(S), p \in T PROVE Append(p, x) \in T
  <2>1. q \o Append(p, x) = Append(q \o p, x)
    <3>1. /\ Append(p, x) = p \o <<x>> /\ Append(q \o p, x) = (q \o p) \o <<x>>
          /\ <<x>> \in Seq(Seq(S)) /\ q \o p \in Seq(Seq(S))
      BY AppendIsConcat, ConcatProperties
    <3> DEFINE e == <<x>>
    <3>2. (q \o p) \o e = q \o (p \o e)
      <4>1. e \in Seq(Seq(S))
        BY <3>1
      <4> HIDE DEF e
      <4> QED BY ONLY q \in Seq(Seq(S)), p \in Seq(Seq(S)), <4>1, ConcatAssociative
    <3> QED BY <3>1, <3>2, Zenon
  <2>2. FlattenSeq(q) \in Seq(S) /\ FlattenSeq(p) \in Seq(S) /\ q \o p \in Seq(Seq(S))
        /\ FlattenSeq(q \o p) \in Seq(S)
    BY FlattenType, ConcatProperties
  <2>3. /\ FlattenSeq(Append(q \o p, x)) = FlattenSeq(q \o p) \o x
        /\ FlattenSeq(Append(p, x)) = FlattenSeq(p) \o x
    BY <2>2, FlattenAppend
  <2>4. (FlattenSeq(q) \o FlattenSeq(p)) \o x = FlattenSeq(q) \o (FlattenSeq(p) \o x)
    BY <2>2, ConcatAssociative
  <2>5. Append(p, x) \in Seq(Seq(S))
    BY AppendProperties
  <2> QED BY <1>2, <2>1, <2>3, <2>4, <2>5
<1> HIDE DEF T
<1>3. r \in T
  BY <1>1, <1>2, ClimbSeqs
<1> QED BY <1>3 DEF T

\* One sequence joined, and the first of them.
LEMMA FlattenHead ==
  ASSUME NEW S, NEW q \in Seq(Seq(S)), q # << >>
  PROVE  /\ FlattenSeq(<<Head(q)>>) = Head(q)
         /\ q = <<Head(q)>> \o Tail(q)
         /\ FlattenSeq(q) = Head(q) \o FlattenSeq(Tail(q))
<1>1. Head(q) \in Seq(S) /\ Tail(q) \in Seq(Seq(S)) /\ Len(q) \in Nat \ {0}
  BY HeadTailProperties, EmptySeq, LenProperties
<1> DEFINE h == Head(q)
           e == <<h>>
           t == Tail(q)
<1>2. FlattenSeq(e) = h
  <2>1. /\ << >> \in Seq(Seq(S)) /\ FlattenSeq(<< >>) = << >> /\ FlattenSeq(<< >>) \in Seq(S)
        /\ e = Append(<< >>, h) /\ << >> \o h = h
    <3>1. << >> \in Seq(Seq(S)) /\ << >> \in Seq(S)
      BY EmptySeq
    <3>2. FlattenSeq(<< >>) = << >>
      BY <3>1, FlattenType
    <3>3. << >> \o h = h
      BY <1>1, ConcatEmptySeq
    <3>4. e = Append(<< >>, h)
      OBVIOUS
    <3> QED BY <3>1, <3>2, <3>3, <3>4
  <2> HIDE DEF e, h
  <2>2. h \in Seq(S)
    BY <1>1 DEF h
  <2>3. FlattenSeq(Append(<< >>, h)) = FlattenSeq(<< >>) \o h
    BY ONLY <2>1, <2>2, FlattenAppend
  <2> QED BY <2>1, <2>3
<1>3. q = e \o t
  <2>1. SubSeq(q, 1, Len(q)) = <<q[1]>> \o SubSeq(q, 1 + 1, Len(q))
    BY <1>1, SubSeqRecursiveFirst
  <2>2. SubSeq(q, 1, Len(q)) = q /\ SubSeq(q, 1 + 1, Len(q)) = Tail(q) /\ q[1] = Head(q)
    BY <1>1, SubSeqFull, TailIsSubSeq
  <2> QED BY <2>1, <2>2
<1>4. e \in Seq(Seq(S)) /\ t \in Seq(Seq(S))
  BY <1>1
<1> HIDE DEF e, t
<1>5. FlattenSeq(e \o t) = FlattenSeq(e) \o FlattenSeq(t)
  BY ONLY <1>4, FlattenConcat
<1> QED BY <1>2, <1>3, <1>5 DEF e, t

\* Sequences of one length joined.
LEMMA FlattenEqual ==
  ASSUME NEW S, NEW n \in Nat, NEW q \in Seq(Seq(S)), \A i \in 1..Len(q) : Len(q[i]) = n
  PROVE  Len(FlattenSeq(q)) = Len(q) * n
<1> DEFINE All(p) == \A i \in 1..Len(p) : Len(p[i]) = n
           T == {p \in Seq(Seq(S)) : All(p) => Len(FlattenSeq(p)) = Len(p) * n}
<1>1. << >> \in T
  BY FlattenType, EmptySeq
<1>2. ASSUME NEW p \in Seq(Seq(S)), NEW x \in Seq(S), p \in T PROVE Append(p, x) \in T
  <2> DEFINE w == Append(p, x)
             l == Len(p)
  <2>1. /\ w \in Seq(Seq(S)) /\ Len(w) = l + 1 /\ l \in Nat /\ w[l + 1] = x
        /\ \A i \in 1..l : w[i] = p[i]
    BY AppendProperties, LenProperties
  <2>2. FlattenSeq(p) \in Seq(S)
    BY FlattenType
  <2>3. Len(FlattenSeq(w)) = Len(FlattenSeq(p)) + Len(x)
    BY <2>2, FlattenAppend, ConcatProperties
  <2>4. SUFFICES ASSUME All(w) PROVE Len(FlattenSeq(w)) = Len(w) * n
    BY <2>1
  <2> HIDE DEF w, l
  <2>5. \A i \in 1..l : i \in 1..Len(w)
    BY <2>1
  <2>6. l + 1 \in 1..Len(w)
    BY <2>1
  <2>7. Len(x) = n
    BY <2>1, <2>4, <2>6
  <2>8. All(p)
    BY <2>1, <2>4, <2>5 DEF l
  <2>9. Len(FlattenSeq(p)) = l * n
    BY <1>2, <2>8 DEF l
  <2> QED BY <2>1, <2>3, <2>7, <2>9
<1> HIDE DEF T
<1>3. q \in T
  BY <1>1, <1>2, ClimbSeqs
<1> QED BY <1>3 DEF T

=============================================================================
