-------------------------- MODULE WorkspaceProofs --------------------------
(* What module Workspace promises, for any clients, outputs, tags and number *)
(* of commands.                                                              *)
(*                                                                           *)
(* The invariant is Inv == Core(wm) /\ Anchored(wm).  Core relates the order *)
(* of the managed clients, their records, the lists and the stacks of the    *)
(* monitors and what these have selected, and holds between any two helpers  *)
(* of a handler; Anchored, that the selected window is on the selected       *)
(* monitor, holds only when the handler is done.  Each handler has a lemma   *)
(* about desktops s and u before and after it (Kept: the invariant and the   *)
(* grouping; InView: the keyboard is on a window in view), which rests on    *)
(* lemmas about the helpers of module Desktop, and these on lemmas about     *)
(* sequences.                                                                *)
(*                                                                           *)
(* A lemma about a helper often names the desktop it returns, t = f(s), or   *)
(* wraps its conclusion in a predicate of its own: the provers then see the  *)
(* fields one by one and not a record built by EXCEPT.                       *)
EXTENDS Workspace, FiniteSetTheorems, WellFoundedInduction, TLAPS

------------------------------------------------------------------------------
(* Sets of numbers *)

\* A set of naturals has a least element.
LEMMA LeastNat ==
  ASSUME NEW S \in SUBSET Nat, S # {}
  PROVE  \E x \in S : \A y \in S : x <= y
  <1> DEFINE R == {ss \in Nat \X Nat : ss[1] < ss[2]}
  <1>1. IsWellFoundedOn(R, Nat)
    BY NatLessThanWellFounded DEF OpToRel
  <1>2. PICK x \in S : \A y \in S : ~(<<y, x>> \in R)
    <2> HIDE DEF R
    <2> QED BY <1>1, WFMin
  <1>3. ASSUME NEW y \in S PROVE x <= y
    <2>1. x \in Nat /\ y \in Nat /\ <<y, x>> \in Nat \X Nat
      OBVIOUS
    <2>2. ~(<<y, x>>[1] < <<y, x>>[2])
      BY <1>2, <2>1
    <2>3. QED BY <2>1, <2>2
  <1>4. QED BY <1>2, <1>3

\* A set of numbers up to n has a greatest element.
LEMMA GreatestNat ==
  ASSUME NEW n \in Nat, NEW S \in SUBSET (0..n), S # {}
  PROVE  \E x \in S : \A y \in S : y <= x
  <1> DEFINE T == {n - x : x \in S}
  <1>1. T \in SUBSET Nat /\ T # {}
    <2>1. \A x \in S : x \in 0..n /\ n - x \in Nat
      OBVIOUS
    <2>2. \A t \in T : t \in Nat
      BY <2>1
    <2>3. T # {}
      OBVIOUS
    <2>4. QED BY <2>2, <2>3
  <1>2. PICK t \in T : \A u \in T : t <= u
    BY <1>1, LeastNat
  <1>3. PICK x \in S : t = n - x
    BY <1>2
  <1>4. ASSUME NEW y \in S PROVE y <= x
    <2>1. n - y \in T
      OBVIOUS
    <2>2. t <= n - y
      BY <1>2, <2>1
    <2>3. QED BY <2>2, <1>3
  <1>5. QED BY <1>3, <1>4

\* How many members of S come up to e.
Rank(S, e) == Cardinality({x \in S : x <= e})

\* Ranks number a finite set of positions in increasing order.
LEMMA RankFacts ==
  ASSUME NEW n \in Nat, NEW S \in SUBSET (1..n)
  PROVE  /\ IsFiniteSet(S) /\ Cardinality(S) \in 0..n
         /\ \A e \in S : Rank(S, e) \in 1..Cardinality(S)
         /\ \A d, e \in S : d < e => Rank(S, d) < Rank(S, e)
  <1>1. IsFiniteSet(1..n) /\ Cardinality(1..n) = n
    BY FS_Interval
  <1>2. IsFiniteSet(S) /\ Cardinality(S) <= n /\ Cardinality(S) \in Nat
    BY <1>1, FS_Subset, FS_CardinalityType
  <1>3. ASSUME NEW e \in S PROVE Rank(S, e) \in 1..Cardinality(S)
    <2> DEFINE B == {x \in S : x <= e}
    <2>1. B \in SUBSET S /\ e \in B
      OBVIOUS
    <2>2. IsFiniteSet(B) /\ Cardinality(B) <= Cardinality(S) /\ Cardinality(B) \in Nat
      BY <1>2, <2>1, FS_Subset, FS_CardinalityType
    <2>3. Cardinality(B) # 0
      BY <2>1, <2>2, FS_EmptySet
    <2>4. QED BY <2>2, <2>3, <1>2 DEF Rank
  <1>4. ASSUME NEW d \in S, NEW e \in S, d < e PROVE Rank(S, d) < Rank(S, e)
    <2> DEFINE A == {x \in S : x <= d}
               B == {x \in S : x <= e}
    <2>0. \A x \in S : x \in Int
      OBVIOUS
    <2>1. A \in SUBSET B /\ B \in SUBSET S /\ e \in B /\ e \notin A
      <3>1. \A x \in A : x \in B
        BY <1>4, <2>0
      <3>2. e \notin A
        BY <1>4, <2>0
      <3>3. e \in B
        BY <2>0
      <3>4. QED BY <3>1, <3>2, <3>3
    <2>2. IsFiniteSet(B)
      BY <1>2, <2>1, FS_Subset
    <2>3. Cardinality(A) < Cardinality(B)
      <3>1. Cardinality(A) <= Cardinality(B) /\ Cardinality(A) # Cardinality(B)
        BY <2>1, <2>2, FS_Subset
      <3>2. Cardinality(A) \in Nat /\ Cardinality(B) \in Nat
        BY <2>1, <2>2, FS_Subset, FS_CardinalityType
      <3>3. QED BY <3>1, <3>2
    <2>4. QED BY <2>3 DEF Rank
  <1>5. QED BY <1>2, <1>3, <1>4

\* Each rank up to the size of the set belongs to an element.
LEMMA NthFacts ==
  ASSUME NEW n \in Nat, NEW S \in SUBSET (1..n), NEW k \in 1..Cardinality(S)
  PROVE  Nth(S, k) \in S /\ Rank(S, Nth(S, k)) = k
  <1> DEFINE T == {e \in S : Rank(S, e) >= k}
  <1>0. \A x \in S : x \in 1..n /\ x \in Nat
    OBVIOUS
  <1>1. IsFiniteSet(S) /\ Cardinality(S) \in Nat /\ S # {}
    <2>1. IsFiniteSet(S) /\ Cardinality(S) \in 0..n
      BY RankFacts
    <2>2. Cardinality(S) # 0
      BY <2>1
    <2>3. QED BY <2>1, <2>2, FS_EmptySet
  <1>2. S \in SUBSET (0..n)
    OBVIOUS
  <1>3. PICK top \in S : \A y \in S : y <= top
    BY <1>1, <1>2, GreatestNat
  <1>4. {x \in S : x <= top} = S
    BY <1>3
  <1>5. top \in T
    BY <1>4, <1>1 DEF Rank
  <1>6. T \in SUBSET Nat /\ T # {}
    <2>1. \A x \in T : x \in Nat
      BY <1>0
    <2>2. QED BY <2>1, <1>5
  <1>7. PICK e \in T : \A y \in T : e <= y
    BY <1>6, LeastNat
  <1>8. e \in S /\ e \in 1..n
    BY <1>7
  <1>9. Rank(S, e) <= k
    <2> SUFFICES ASSUME Rank(S, e) > k PROVE FALSE
      BY <1>8, RankFacts
    <2> DEFINE B == {x \in S : x <= e}
               A == B \ {e}
    <2>1. B \in SUBSET S /\ IsFiniteSet(B) /\ e \in B
      BY <1>1, <1>8, FS_Subset
    <2>2. IsFiniteSet(A) /\ Cardinality(A) = Cardinality(B) - 1
      BY <2>1, FS_RemoveElement
    <2>3. Cardinality(B) \in Nat /\ Cardinality(B) > k
      BY <2>1, FS_CardinalityType DEF Rank
    <2>4. Cardinality(A) >= k /\ k >= 1
      BY <2>2, <2>3
    <2>5. A # {}
      BY <2>4, FS_EmptySet
    <2>6. A \in SUBSET (0..n)
      <3>1. \A x \in A : x \in 0..n
        BY <1>0
      <3>2. QED BY <3>1
    <2>7. PICK d \in A : \A y \in A : y <= d
      BY <2>5, <2>6, GreatestNat
    <2>8. d \in S /\ d < e
      BY <2>7, <1>8
    <2>9. {x \in S : x <= d} = A
      <3>1. ASSUME NEW x \in S PROVE x <= d <=> x \in A
        <4>1. x \in Nat /\ d \in Nat /\ e \in Nat
          BY <1>0, <1>8, <2>8
        <4>2. CASE x <= d
          BY <4>1, <4>2, <2>8
        <4>3. CASE x \in A
          BY <4>3, <2>7
        <4>4. QED BY <4>2, <4>3
      <3>2. \A x \in A : x \in S
        OBVIOUS
      <3>3. QED BY <3>1, <3>2
    <2>10. d \in T
      BY <2>8, <2>9, <2>4 DEF Rank
    <2>11. QED BY <2>8, <2>10, <1>7, <1>8
  <1>10. Rank(S, e) = k
    BY <1>7, <1>8, <1>9, RankFacts
  <1>11. QED BY <1>8, <1>10 DEF Nth, Rank

------------------------------------------------------------------------------
(* Sequences *)

\* No entry comes twice.
Distinct(q) == \A i, j \in DOMAIN q : q[i] = q[j] => i = j

\* q holds the members of S, each once.
Enum(q, S) == Distinct(q) /\ ToSet(q) = S

\* In q the members of F come last.
Sorted(q, F) == \A i, j \in DOMAIN q : i < j /\ q[i] \in F => q[j] \in F

\* r is the part of q that is in S.
Part(q, S, r) ==
  \E p \in [1..Len(r) -> 1..Len(q)] :
    /\ \A k \in 1..Len(r) : r[k] = q[p[k]] /\ r[k] \in S
    /\ \A j, k \in 1..Len(r) : j < k => p[j] < p[k]
    /\ \A i \in 1..Len(q) : q[i] \in S => \E k \in 1..Len(r) : p[k] = i

\* The entries of a sequence are where its length says.
LEMMA EntryFacts ==
  ASSUME NEW T, NEW q \in Seq(T)
  PROVE  /\ Len(q) \in Nat /\ DOMAIN q = 1..Len(q) /\ ToSet(q) \subseteq T
         /\ \A i \in 1..Len(q) : q[i] \in T /\ q[i] \in ToSet(q)
         /\ \A x \in ToSet(q) : \E i \in 1..Len(q) : q[i] = x
  BY DEF ToSet

\* Where an entry is.
LEMMA PositionFacts ==
  ASSUME NEW T, NEW q \in Seq(T), NEW c \in ToSet(q)
  PROVE  Position(q, c) \in 1..Len(q) /\ q[Position(q, c)] = c
  <1>1. \E i \in DOMAIN q : q[i] = c
    BY DEF ToSet
  <1>2. QED BY <1>1 DEF Position

\* What follows the first k entries.
LEMMA RestFacts ==
  ASSUME NEW T, NEW q \in Seq(T), NEW k \in 0..Len(q)
  PROVE  /\ SubSeq(q, k + 1, Len(q)) \in Seq(T)
         /\ Len(SubSeq(q, k + 1, Len(q))) = Len(q) - k
         /\ \A i \in 1..(Len(q) - k) : SubSeq(q, k + 1, Len(q))[i] = q[k + i]
  OBVIOUS

\* The first entry in a set is the one that no other comes before.
LEMMA FirstFacts ==
  ASSUME NEW T, None \notin T, NEW q \in Seq(T), NEW good
  PROVE  \/ First(q, good) = None /\ ToSet(q) \cap good = {}
         \/ \E i \in 1..Len(q) : /\ First(q, good) = q[i] /\ q[i] \in good
                                 /\ \A j \in 1..Len(q) : q[j] \in good => i <= j
  <1> DEFINE hits == {i \in DOMAIN q : q[i] \in good}
  <1>1. hits \in SUBSET Nat /\ DOMAIN q = 1..Len(q)
    OBVIOUS
  <1>2. CASE hits = {}
    <2>1. First(q, good) = None
      BY <1>2 DEF First
    <2>2. ToSet(q) \cap good = {}
      BY <1>2 DEF ToSet
    <2>3. QED BY <2>1, <2>2
  <1>3. CASE hits # {}
    <2>1. \E i \in hits : \A j \in hits : i <= j
      BY <1>1, <1>3, LeastNat
    <2>2. PICK i : i = CHOOSE k \in hits : \A j \in hits : k <= j
      OBVIOUS
    <2>3. i \in hits /\ \A j \in hits : i <= j
      BY <2>1, <2>2
    <2>4. First(q, good) = q[i]
      BY <1>3, <2>2 DEF First
    <2>5. QED BY <2>3, <2>4, <1>1
  <1>4. QED BY <1>2, <1>3

\* The part of a sequence that Keep keeps.
LEMMA KeepFacts ==
  ASSUME NEW T, NEW q \in Seq(T), NEW S
  PROVE  Keep(q, S) \in Seq(T) /\ Part(q, S, Keep(q, S))
  <1> DEFINE hits == {i \in DOMAIN q : q[i] \in S}
             n == Cardinality(hits)
             p == [k \in 1..n |-> Nth(hits, k)]
             r == [k \in 1..n |-> q[Nth(hits, k)]]
  <1>1. Len(q) \in Nat /\ DOMAIN q = 1..Len(q) /\ hits \in SUBSET (1..Len(q))
    OBVIOUS
  <1>2. IsFiniteSet(hits) /\ n \in Nat
    BY <1>1, RankFacts
  <1>3. \A k \in 1..n : Nth(hits, k) \in hits /\ Rank(hits, Nth(hits, k)) = k
    BY <1>1, NthFacts
  <1>4. Keep(q, S) = r
    BY DEF Keep
  <1>5. r \in Seq(T) /\ Len(r) = n
    <2>1. \A k \in 1..n : q[Nth(hits, k)] \in T
      BY <1>1, <1>3
    <2> HIDE DEF n, hits
    <2>2. QED BY <2>1, <1>2
  <1>6. p \in [1..n -> 1..Len(q)]
    BY <1>1, <1>3
  <1>7. \A k \in 1..n : r[k] = q[p[k]] /\ r[k] \in S
    BY <1>3
  <1>8. ASSUME NEW j \in 1..n, NEW k \in 1..n, j < k PROVE p[j] < p[k]
    <2>1. p[j] \in hits /\ p[k] \in hits /\ Rank(hits, p[j]) = j /\ Rank(hits, p[k]) = k
      BY <1>3
    <2>2. p[j] \in Nat /\ p[k] \in Nat
      BY <2>1, <1>1
    <2>3. CASE p[k] < p[j]
      <3>1. k < j
        BY <2>1, <2>3, <1>1, RankFacts
      <3>2. QED BY <3>1, <1>8, <1>2
    <2>4. CASE p[k] = p[j]
      BY <2>1, <2>4, <1>8, <1>2
    <2> HIDE DEF p
    <2>5. QED BY <2>2, <2>3, <2>4
  <1>9. ASSUME NEW i \in 1..Len(q), q[i] \in S PROVE \E k \in 1..n : p[k] = i
    <2>1. i \in hits
      BY <1>9, <1>1
    <2>2. PICK k : k = Rank(hits, i)
      OBVIOUS
    <2>3. k \in 1..n
      BY <2>1, <2>2, <1>1, RankFacts
    <2>4. p[k] \in hits /\ Rank(hits, p[k]) = k
      BY <1>3, <2>3
    <2>5. p[k] \in Nat /\ i \in Nat /\ k \in Nat
      BY <2>4, <1>1, <2>3, <1>2
    <2>6. ~(p[k] < i) /\ ~(i < p[k])
      <3>1. p[k] < i => k < k
        BY <2>1, <2>2, <2>4, <1>1, RankFacts
      <3>2. i < p[k] => k < k
        BY <2>1, <2>2, <2>4, <1>1, RankFacts
      <3>3. QED BY <3>1, <3>2, <2>5
    <2> HIDE DEF p
    <2>7. p[k] = i
      BY <2>5, <2>6
    <2>8. QED BY <2>3, <2>7
  <1> HIDE DEF p, r, n, hits
  <1>10. Part(q, S, r)
    BY <1>5, <1>6, <1>7, <1>8, <1>9 DEF Part
  <1>11. QED BY <1>4, <1>5, <1>10

\* A part of a sequence without repetitions has none.
LEMMA PartEnum ==
  ASSUME NEW T, NEW q \in Seq(T), NEW r \in Seq(T), NEW S, NEW X, Enum(q, X), Part(q, S, r)
  PROVE  Enum(r, X \cap S)
  <1>1. /\ Len(q) \in Nat /\ DOMAIN q = 1..Len(q) /\ Len(r) \in Nat /\ DOMAIN r = 1..Len(r)
    OBVIOUS
  <1>2. PICK p \in [1..Len(r) -> 1..Len(q)] :
          /\ \A k \in 1..Len(r) : r[k] = q[p[k]] /\ r[k] \in S
          /\ \A j, k \in 1..Len(r) : j < k => p[j] < p[k]
          /\ \A i \in 1..Len(q) : q[i] \in S => \E k \in 1..Len(r) : p[k] = i
    BY DEF Part
  <1>3. ASSUME NEW j \in 1..Len(r), NEW k \in 1..Len(r), r[j] = r[k] PROVE j = k
    <2>1. p[j] \in 1..Len(q) /\ p[k] \in 1..Len(q) /\ q[p[j]] = q[p[k]]
      BY <1>2, <1>3
    <2>2. p[j] = p[k]
      BY <2>1, <1>1 DEF Enum, Distinct
    <2>3. ~(j < k) /\ ~(k < j)
      BY <2>1, <2>2, <1>2
    <2>4. QED BY <2>3
  <1>4. ASSUME NEW x \in ToSet(r) PROVE x \in X /\ x \in S
    <2>1. PICK k \in 1..Len(r) : x = r[k]
      BY <1>1 DEF ToSet
    <2>2. x \in S /\ x = q[p[k]] /\ p[k] \in 1..Len(q)
      BY <2>1, <1>2
    <2>3. x \in ToSet(q)
      BY <2>2, <1>1 DEF ToSet
    <2>4. QED BY <2>2, <2>3 DEF Enum
  <1>5. ASSUME NEW x \in X \cap S PROVE x \in ToSet(r)
    <2>1. x \in ToSet(q)
      BY DEF Enum
    <2>2. PICK i \in 1..Len(q) : x = q[i]
      BY <2>1, <1>1 DEF ToSet
    <2>3. PICK k \in 1..Len(r) : p[k] = i
      BY <2>2, <1>2
    <2>4. x = r[k]
      BY <2>2, <2>3, <1>2
    <2>5. QED BY <2>4, <1>1 DEF ToSet
  <1>6. ToSet(r) = X \cap S
    BY <1>4, <1>5
  <1>7. QED BY <1>1, <1>3, <1>6 DEF Enum, Distinct

\* A part of a grouped sequence is grouped.
LEMMA PartSorted ==
  ASSUME NEW T, NEW q \in Seq(T), NEW r \in Seq(T), NEW S, NEW F, Sorted(q, F), Part(q, S, r)
  PROVE  Sorted(r, F)
  <1>1. /\ Len(q) \in Nat /\ DOMAIN q = 1..Len(q) /\ Len(r) \in Nat /\ DOMAIN r = 1..Len(r)
    OBVIOUS
  <1>2. PICK p \in [1..Len(r) -> 1..Len(q)] :
          /\ \A k \in 1..Len(r) : r[k] = q[p[k]]
          /\ \A j, k \in 1..Len(r) : j < k => p[j] < p[k]
    BY DEF Part
  <1>3. ASSUME NEW j \in 1..Len(r), NEW k \in 1..Len(r), j < k, r[j] \in F PROVE r[k] \in F
    <2>1. p[j] \in 1..Len(q) /\ p[k] \in 1..Len(q) /\ p[j] < p[k] /\ q[p[j]] \in F
      BY <1>2, <1>3
    <2>2. q[p[k]] \in F
      BY <2>1, <1>1 DEF Sorted
    <2>3. QED BY <2>2, <1>2
  <1>4. QED BY <1>1, <1>3 DEF Sorted

\* Keep, on a sequence without repetitions.
LEMMA KeepEnum ==
  ASSUME NEW T, NEW q \in Seq(T), NEW S, NEW X, Enum(q, X)
  PROVE  Keep(q, S) \in Seq(T) /\ Enum(Keep(q, S), X \cap S)
  BY KeepFacts, PartEnum

\* Without, on a sequence without repetitions.
LEMMA WithoutFacts ==
  ASSUME NEW T, NEW q \in Seq(T), NEW c, Distinct(q)
  PROVE  Without(q, c) \in Seq(T) /\ Part(q, T \ {c}, Without(q, c))
  <1>1. Len(q) \in Nat /\ DOMAIN q = 1..Len(q) /\ \A i \in 1..Len(q) : q[i] \in T
    OBVIOUS
  <1>2. CASE c \notin ToSet(q)
    <2>1. Without(q, c) = q
      BY <1>2 DEF Without
    <2>2. \A i \in 1..Len(q) : q[i] \in T \ {c}
      BY <1>2, <1>1 DEF ToSet
    <2>3. PICK p : p = [k \in 1..Len(q) |-> k]
      OBVIOUS
    <2>4. p \in [1..Len(q) -> 1..Len(q)] /\ \A k \in 1..Len(q) : p[k] = k
      BY <2>3
    <2>5. Part(q, T \ {c}, q)
      BY <2>2, <2>4 DEF Part
    <2>6. QED BY <2>1, <2>5
  <1>3. CASE c \in ToSet(q)
    <2>1. PICK x : x = Position(q, c)
      OBVIOUS
    <2>2. x \in 1..Len(q) /\ q[x] = c
      BY <1>3, <2>1, PositionFacts
    <2>3. PICK r : r = SubSeq(q, 1, x - 1) \o SubSeq(q, x + 1, Len(q))
      OBVIOUS
    <2>4. Without(q, c) = r
      BY <1>3, <2>1, <2>3 DEF Without, RemoveAt
    <2>5. PICK a, b : a = SubSeq(q, 1, x - 1) /\ b = SubSeq(q, x + 1, Len(q))
      OBVIOUS
    <2>6. /\ a \in Seq(T) /\ Len(a) = x - 1 /\ \A k \in 1..(x - 1) : a[k] = q[k]
          /\ b \in Seq(T) /\ Len(b) = Len(q) - x /\ \A k \in 1..(Len(q) - x) : b[k] = q[x + k]
      <3>1. a \in Seq(T) /\ Len(a) = x - 1 /\ \A k \in 1..(x - 1) : a[k] = q[k]
        BY <2>2, <2>5, <1>1
      <3>2. b \in Seq(T) /\ Len(b) = Len(q) - x /\ \A k \in 1..(Len(q) - x) : b[k] = q[x + k]
        <4>1. x \in 0..Len(q)
          BY <2>2, <1>1
        <4>2. QED BY <4>1, <2>5, RestFacts
      <3>3. QED BY <3>1, <3>2
    <2>7. /\ r \in Seq(T) /\ Len(r) = Len(q) - 1
          /\ \A k \in 1..(Len(q) - 1) : r[k] = IF k < x THEN q[k] ELSE q[k + 1]
      <3>1. r = a \o b
        BY <2>3, <2>5
      <3>2. r \in Seq(T) /\ Len(r) = Len(q) - 1
        BY <3>1, <2>6, <2>2, <1>1
      <3>3. ASSUME NEW k \in 1..(Len(q) - 1)
            PROVE  r[k] = IF k < x THEN q[k] ELSE q[k + 1]
        <4>1. CASE k < x
          BY <4>1, <3>1, <2>6, <2>2, <1>1
        <4>2. CASE k >= x
          <5>1. k - (x - 1) \in 1..(Len(q) - x) /\ x + (k - (x - 1)) = k + 1
            BY <4>2, <2>2, <1>1
          <5>2. r[k] = b[k - (x - 1)]
            BY <4>2, <3>1, <2>6, <2>2, <1>1
          <5>3. QED BY <5>1, <5>2, <4>2, <2>6, <2>2, <1>1
        <4>3. QED BY <4>1, <4>2, <2>2
      <3>4. QED BY <3>2, <3>3
    <2>8. PICK p : p = [k \in 1..(Len(q) - 1) |-> IF k < x THEN k ELSE k + 1]
      OBVIOUS
    <2>9. p \in [1..(Len(q) - 1) -> 1..Len(q)]
          /\ \A k \in 1..(Len(q) - 1) : p[k] = IF k < x THEN k ELSE k + 1
      BY <2>8, <2>2, <1>1
    <2>10. ASSUME NEW k \in 1..(Len(q) - 1) PROVE r[k] = q[p[k]] /\ r[k] \in T \ {c}
      <3>1. p[k] \in 1..Len(q) /\ p[k] # x /\ r[k] = q[p[k]]
        BY <2>7, <2>9, <2>2, <1>1
      <3>2. q[p[k]] # c
        BY <3>1, <2>2, <1>1 DEF Distinct
      <3>3. QED BY <3>1, <3>2, <1>1
    <2>11. \A j, k \in 1..(Len(q) - 1) : j < k => p[j] < p[k]
      BY <2>9, <2>2, <1>1
    <2>12. ASSUME NEW i \in 1..Len(q), q[i] \in T \ {c}
           PROVE  \E k \in 1..(Len(q) - 1) : p[k] = i
      <3>1. i # x
        BY <2>12, <2>2
      <3>2. CASE i < x
        BY <3>2, <2>9, <2>2, <1>1
      <3>3. CASE i > x
        <4>1. i - 1 \in 1..(Len(q) - 1) /\ ~(i - 1 < x) /\ (i - 1) + 1 = i
          BY <3>3, <2>2, <1>1
        <4>2. QED BY <4>1, <2>9
      <3>4. QED BY <3>1, <3>2, <3>3, <2>2
    <2>13. Part(q, T \ {c}, r)
      <3>1. PICK n : n = Len(q) - 1
        OBVIOUS
      <3>2. /\ Len(r) = n /\ p \in [1..n -> 1..Len(q)]
            /\ \A k \in 1..n : r[k] = q[p[k]] /\ r[k] \in T \ {c}
            /\ \A j, k \in 1..n : j < k => p[j] < p[k]
            /\ \A i \in 1..Len(q) : q[i] \in T \ {c} => \E k \in 1..n : p[k] = i
        BY <3>1, <2>7, <2>9, <2>10, <2>11, <2>12
      <3>3. QED BY <3>2 DEF Part
    <2>14. QED BY <2>4, <2>7, <2>13
  <1>4. QED BY <1>2, <1>3

\* Without removes an entry.
LEMMA WithoutEnum ==
  ASSUME NEW T, NEW q \in Seq(T), NEW c, NEW X, Enum(q, X)
  PROVE  Without(q, c) \in Seq(T) /\ Enum(Without(q, c), X \ {c})
  <1>1. Without(q, c) \in Seq(T) /\ Part(q, T \ {c}, Without(q, c))
    BY WithoutFacts DEF Enum
  <1>2. Enum(Without(q, c), X \cap (T \ {c}))
    BY <1>1, PartEnum
  <1>3. X \cap (T \ {c}) = X \ {c}
    BY EntryFacts DEF Enum
  <1>4. QED BY <1>1, <1>2, <1>3

\* Without keeps the grouping.
LEMMA WithoutSorted ==
  ASSUME NEW T, NEW q \in Seq(T), NEW c, NEW F, Distinct(q), Sorted(q, F)
  PROVE  Sorted(Without(q, c), F)
  BY WithoutFacts, PartSorted

\* Where the entries of a concatenation come from.
LEMMA JoinFacts ==
  ASSUME NEW T, NEW a \in Seq(T), NEW b \in Seq(T)
  PROVE  /\ a \o b \in Seq(T) /\ Len(a) \in Nat /\ Len(b) \in Nat
         /\ Len(a \o b) = Len(a) + Len(b)
         /\ \A i \in 1..(Len(a) + Len(b)) :
              \/ i \in 1..Len(a) /\ (a \o b)[i] = a[i]
              \/ i - Len(a) \in 1..Len(b) /\ (a \o b)[i] = b[i - Len(a)]
         /\ \A i \in 1..Len(a) : (a \o b)[i] = a[i]
         /\ \A i \in 1..Len(b) : (a \o b)[Len(a) + i] = b[i]
  OBVIOUS

\* Joining two sequences that share nothing.
LEMMA JoinEnum ==
  ASSUME NEW T, NEW a \in Seq(T), NEW b \in Seq(T), NEW X, NEW Y,
         Enum(a, X), Enum(b, Y), X \cap Y = {}
  PROVE  a \o b \in Seq(T) /\ Enum(a \o b, X \cup Y)
  <1>1. PICK r, m, n : r = a \o b /\ m = Len(a) /\ n = Len(b)
    OBVIOUS
  <1>2. /\ r \in Seq(T) /\ m \in Nat /\ n \in Nat /\ Len(r) = m + n
        /\ \A i \in 1..(m + n) : \/ i \in 1..m /\ r[i] = a[i]
                                 \/ i - m \in 1..n /\ r[i] = b[i - m]
        /\ \A i \in 1..m : r[i] = a[i]
        /\ \A i \in 1..n : r[m + i] = b[i]
    BY <1>1, JoinFacts
  <1>3. DOMAIN r = 1..(m + n) /\ DOMAIN a = 1..m /\ DOMAIN b = 1..n
    BY <1>1, <1>2
  <1>4. (\A i \in 1..m : a[i] \in X) /\ (\A i \in 1..n : b[i] \in Y)
    BY <1>3 DEF Enum, ToSet
  <1>5. ASSUME NEW i \in 1..(m + n), NEW j \in 1..(m + n), r[i] = r[j] PROVE i = j
    <2>1. CASE i \in 1..m /\ j \in 1..m
      BY <2>1, <1>2, <1>3, <1>5 DEF Enum, Distinct
    <2>2. CASE i \notin 1..m /\ j \notin 1..m
      <3>1. i - m \in 1..n /\ j - m \in 1..n /\ b[i - m] = b[j - m]
        BY <2>2, <1>2, <1>5
      <3>2. i - m = j - m
        BY <3>1, <1>3 DEF Enum, Distinct
      <3>3. QED BY <3>2, <1>2
    <2>3. CASE i \in 1..m /\ j \notin 1..m
      <3>1. j - m \in 1..n /\ r[j] = b[j - m] /\ r[i] = a[i]
        BY <2>3, <1>2
      <3>2. QED BY <3>1, <2>3, <1>4, <1>5
    <2>4. CASE i \notin 1..m /\ j \in 1..m
      <3>1. i - m \in 1..n /\ r[i] = b[i - m] /\ r[j] = a[j]
        BY <2>4, <1>2
      <3>2. QED BY <3>1, <2>4, <1>4, <1>5
    <2>5. QED BY <2>1, <2>2, <2>3, <2>4
  <1>6. ASSUME NEW x \in ToSet(r) PROVE x \in X \cup Y
    <2>1. PICK i \in 1..(m + n) : x = r[i]
      BY <1>3 DEF ToSet
    <2>2. QED BY <2>1, <1>2, <1>4
  <1>7. ASSUME NEW x \in X PROVE x \in ToSet(r)
    <2>1. PICK i \in 1..m : x = a[i]
      BY <1>3 DEF Enum, ToSet
    <2>2. i \in 1..(m + n) /\ x = r[i]
      BY <2>1, <1>2
    <2>3. QED BY <2>2, <1>3 DEF ToSet
  <1>8. ASSUME NEW x \in Y PROVE x \in ToSet(r)
    <2>1. PICK i \in 1..n : x = b[i]
      BY <1>3 DEF Enum, ToSet
    <2>2. m + i \in 1..(m + n) /\ x = r[m + i]
      BY <2>1, <1>2
    <2>3. QED BY <2>2, <1>3 DEF ToSet
  <1>9. ToSet(r) = X \cup Y
    BY <1>6, <1>7, <1>8
  <1>10. Enum(r, X \cup Y)
    BY <1>3, <1>5, <1>9 DEF Enum, Distinct
  <1>11. QED BY <1>1, <1>2, <1>10

\* Joining grouped sequences, one of which is all of one group.
LEMMA JoinSorted ==
  ASSUME NEW T, NEW a \in Seq(T), NEW b \in Seq(T), NEW F, Sorted(a, F), Sorted(b, F),
         ToSet(a) \cap F = {} \/ ToSet(b) \subseteq F
  PROVE  Sorted(a \o b, F)
  <1>1. PICK r, m, n : r = a \o b /\ m = Len(a) /\ n = Len(b)
    OBVIOUS
  <1>2. /\ r \in Seq(T) /\ m \in Nat /\ n \in Nat /\ Len(r) = m + n
        /\ \A i \in 1..(m + n) : \/ i \in 1..m /\ r[i] = a[i]
                                 \/ i - m \in 1..n /\ r[i] = b[i - m]
    BY <1>1, JoinFacts
  <1>3. DOMAIN r = 1..(m + n) /\ DOMAIN a = 1..m /\ DOMAIN b = 1..n
    BY <1>1, <1>2
  <1>4. \/ \A i \in 1..m : a[i] \notin F
        \/ \A i \in 1..n : b[i] \in F
    BY <1>3 DEF ToSet
  <1>5. ASSUME NEW i \in 1..(m + n), NEW j \in 1..(m + n), i < j, r[i] \in F
        PROVE  r[j] \in F
    <2>1. CASE i \in 1..m /\ j \in 1..m
      <3>1. a[i] \in F /\ r[j] = a[j]
        BY <2>1, <1>2, <1>5
      <3>2. QED BY <3>1, <2>1, <1>3, <1>5 DEF Sorted
    <2>2. CASE i \notin 1..m
      <3>1. i - m \in 1..n /\ j - m \in 1..n /\ i - m < j - m /\ b[i - m] \in F
            /\ r[j] = b[j - m]
        BY <2>2, <1>2, <1>5
      <3>2. QED BY <3>1, <1>3 DEF Sorted
    <2>3. CASE i \in 1..m /\ j \notin 1..m
      <3>1. j - m \in 1..n /\ r[j] = b[j - m] /\ r[i] = a[i]
        BY <2>3, <1>2
      <3>2. QED BY <3>1, <2>3, <1>4, <1>5
    <2>4. QED BY <2>1, <2>2, <2>3
  <1>6. QED BY <1>1, <1>3, <1>5 DEF Sorted

\* One entry.
LEMMA OneEntry ==
  ASSUME NEW T, NEW c \in T
  PROVE  /\ <<c>> \in Seq(T) /\ Len(<<c>>) = 1 /\ <<c>>[1] = c
         /\ Enum(<<c>>, {c}) /\ \A F : Sorted(<<c>>, F)
  <1>1. <<c>> \in Seq(T) /\ Len(<<c>>) = 1 /\ <<c>>[1] = c /\ DOMAIN <<c>> = {1}
    OBVIOUS
  <1>2. Distinct(<<c>>) /\ ToSet(<<c>>) = {c}
    BY <1>1 DEF Distinct, ToSet
  <1>3. \A F : Sorted(<<c>>, F)
    BY <1>1 DEF Sorted
  <1>4. QED BY <1>1, <1>2, <1>3 DEF Enum

\* The entries before position i, and the others.
Before(q, i) == SubSeq(q, 1, i - 1)
Onward(q, i) == SubSeq(q, i, Len(q))

\* Cutting a sequence in front of position i.
LEMMA CutFacts ==
  ASSUME NEW T, NEW q \in Seq(T), NEW i \in 1..(Len(q) + 1), NEW X, Enum(q, X)
  PROVE  /\ Before(q, i) \in Seq(T) /\ Onward(q, i) \in Seq(T)
         /\ Distinct(Before(q, i)) /\ Distinct(Onward(q, i))
         /\ ToSet(Before(q, i)) \cup ToSet(Onward(q, i)) = X
         /\ ToSet(Before(q, i)) \cap ToSet(Onward(q, i)) = {}
         /\ \A F : (\A k \in 1..(i - 1) : q[k] \notin F) => ToSet(Before(q, i)) \cap F = {}
         /\ \A F : (\A k \in i..Len(q) : q[k] \in F) => ToSet(Onward(q, i)) \subseteq F
         /\ \A F : Sorted(q, F) => Sorted(Before(q, i), F) /\ Sorted(Onward(q, i), F)
  <1>0. PICK a, b, n : a = Before(q, i) /\ b = Onward(q, i) /\ n = Len(q)
    OBVIOUS
  <1>1. a = SubSeq(q, 1, i - 1) /\ b = SubSeq(q, i, Len(q)) /\ n = Len(q)
    BY <1>0 DEF Before, Onward
  <1>2. n \in Nat /\ DOMAIN q = 1..n /\ i \in 1..(n + 1) /\ i - 1 \in 0..n /\ (i - 1) + 1 = i
    BY <1>1
  <1>3. a \in Seq(T) /\ Len(a) = i - 1 /\ \A k \in 1..(i - 1) : a[k] = q[k]
    BY <1>1, <1>2
  <1>4. b \in Seq(T) /\ Len(b) = n - (i - 1) /\ \A k \in 1..(n - (i - 1)) : b[k] = q[(i - 1) + k]
    BY <1>1, <1>2, RestFacts
  <1>5. DOMAIN a = 1..(i - 1) /\ DOMAIN b = 1..(n - (i - 1))
    BY <1>3, <1>4
  <1>6. \A j, k \in 1..n : q[j] = q[k] => j = k
    BY <1>2 DEF Enum, Distinct
  <1>7. Distinct(a) /\ Distinct(b)
    <2>1. ASSUME NEW j \in 1..(i - 1), NEW k \in 1..(i - 1), a[j] = a[k] PROVE j = k
      BY <2>1, <1>2, <1>3, <1>6
    <2>2. ASSUME NEW j \in 1..(n - (i - 1)), NEW k \in 1..(n - (i - 1)), b[j] = b[k]
          PROVE  j = k
      <3>1. (i - 1) + j \in 1..n /\ (i - 1) + k \in 1..n
        BY <1>2
      <3>2. (i - 1) + j = (i - 1) + k
        BY <3>1, <2>2, <1>4, <1>6
      <3>3. QED BY <3>2, <1>2
    <2>3. QED BY <2>1, <2>2, <1>5 DEF Distinct
  <1>8. PICK A, B : A = {q[k] : k \in 1..(i - 1)} /\ B = {q[k] : k \in i..n}
    OBVIOUS
  <1>9. ToSet(a) = A
    BY <1>3, <1>5, <1>8 DEF ToSet
  <1>10. ToSet(b) = B
    <2>1. ASSUME NEW x \in ToSet(b) PROVE x \in B
      <3>1. PICK k \in 1..(n - (i - 1)) : x = b[k]
        BY <1>5 DEF ToSet
      <3>2. (i - 1) + k \in i..n
        BY <1>2
      <3>3. QED BY <3>1, <3>2, <1>4, <1>8
    <2>2. ASSUME NEW x \in B PROVE x \in ToSet(b)
      <3>1. PICK k \in i..n : x = q[k]
        BY <1>8
      <3>2. k - (i - 1) \in 1..(n - (i - 1)) /\ (i - 1) + (k - (i - 1)) = k
        BY <1>2
      <3>3. x = b[k - (i - 1)]
        BY <3>1, <3>2, <1>4
      <3>4. QED BY <3>2, <3>3, <1>5 DEF ToSet
    <2>3. QED BY <2>1, <2>2
  <1>11. X = {q[k] : k \in 1..n}
    BY <1>2 DEF Enum, ToSet
  <1>12. A \cup B = X
    <2>1. \A k \in 1..n : k \in 1..(i - 1) \/ k \in i..n
      BY <1>2
    <2>2. (\A k \in 1..(i - 1) : k \in 1..n) /\ (\A k \in i..n : k \in 1..n)
      BY <1>2
    <2>3. QED BY <2>1, <2>2, <1>8, <1>11
  <1>13. A \cap B = {}
    <2>1. ASSUME NEW x \in A, x \in B PROVE FALSE
      <3>1. PICK j \in 1..(i - 1), k \in i..n : x = q[j] /\ x = q[k]
        BY <2>1, <1>8
      <3>2. j \in 1..n /\ k \in 1..n /\ j # k
        BY <1>2
      <3>3. QED BY <3>1, <3>2, <1>6
    <2>2. QED BY <2>1
  <1>14. ASSUME NEW F, Sorted(q, F) PROVE Sorted(a, F) /\ Sorted(b, F)
    <2>1. \A j, k \in 1..n : j < k /\ q[j] \in F => q[k] \in F
      BY <1>2, <1>14 DEF Sorted
    <2>2. ASSUME NEW j \in 1..(i - 1), NEW k \in 1..(i - 1), j < k, a[j] \in F PROVE a[k] \in F
      <3>1. j \in 1..n /\ k \in 1..n
        BY <1>2
      <3>2. QED BY <3>1, <2>1, <2>2, <1>3
    <2>3. ASSUME NEW j \in 1..(n - (i - 1)), NEW k \in 1..(n - (i - 1)), j < k, b[j] \in F
          PROVE  b[k] \in F
      <3>1. (i - 1) + j \in 1..n /\ (i - 1) + k \in 1..n /\ (i - 1) + j < (i - 1) + k
        BY <1>2, <2>3
      <3>2. QED BY <3>1, <2>1, <2>3, <1>4
    <2>4. QED BY <2>2, <2>3, <1>5 DEF Sorted
  <1>16. \A F : (\A k \in 1..(i - 1) : q[k] \notin F) => A \cap F = {}
    BY <1>8
  <1>17. \A F : (\A k \in i..n : q[k] \in F) => B \subseteq F
    BY <1>8
  <1>18. QED BY <1>0, <1>3, <1>4, <1>7, <1>9, <1>10, <1>12, <1>13, <1>14, <1>16, <1>17

\* Inserting c at position i.
LEMMA InsertEnum ==
  ASSUME NEW T, NEW q \in Seq(T), NEW c \in T, NEW X, Enum(q, X), c \notin X,
         NEW i \in 1..(Len(q) + 1)
  PROVE  InsertAt(q, i, c) \in Seq(T) /\ Enum(InsertAt(q, i, c), X \cup {c})
  <1>1. PICK a, b, e : a = Before(q, i) /\ b = Onward(q, i) /\ e = <<c>>
    OBVIOUS
  <1>2. PICK A, B : /\ a \in Seq(T) /\ b \in Seq(T) /\ Enum(a, A) /\ Enum(b, B)
                    /\ A \cup B = X /\ A \cap B = {}
    <2>1. /\ a \in Seq(T) /\ b \in Seq(T) /\ Distinct(a) /\ Distinct(b)
          /\ ToSet(a) \cup ToSet(b) = X /\ ToSet(a) \cap ToSet(b) = {}
      BY <1>1, CutFacts
    <2>2. Enum(a, ToSet(a)) /\ Enum(b, ToSet(b))
      BY <2>1 DEF Enum
    <2>3. QED BY <2>1, <2>2
  <1>3. e \in Seq(T) /\ Enum(e, {c})
    BY <1>1, OneEntry
  <1>4. a \o e \in Seq(T) /\ Enum(a \o e, A \cup {c})
    BY <1>2, <1>3, JoinEnum
  <1>5. (a \o e) \o b \in Seq(T) /\ Enum((a \o e) \o b, (A \cup {c}) \cup B)
    BY <1>2, <1>4, JoinEnum
  <1>6. (A \cup {c}) \cup B = X \cup {c}
    BY <1>2
  <1>7. InsertAt(q, i, c) = (a \o e) \o b
    BY <1>1 DEF InsertAt, Before, Onward
  <1>8. QED BY <1>5, <1>6, <1>7

\* Inserting c within or at the border of its group.
LEMMA InsertSorted ==
  ASSUME NEW T, NEW q \in Seq(T), NEW c \in T, NEW X, Enum(q, X), c \notin X,
         NEW F, Sorted(q, F), NEW i \in 1..(Len(q) + 1),
         c \in F => \A k \in i..Len(q) : q[k] \in F,
         c \notin F => \A k \in 1..(i - 1) : q[k] \notin F
  PROVE  Sorted(InsertAt(q, i, c), F)
  <1>1. PICK a, b, e : a = Before(q, i) /\ b = Onward(q, i) /\ e = <<c>>
    OBVIOUS
  <1>2. PICK A, B : /\ a \in Seq(T) /\ b \in Seq(T) /\ Enum(a, A) /\ Enum(b, B)
                    /\ A \cup B = X /\ A \cap B = {}
    <2>1. /\ a \in Seq(T) /\ b \in Seq(T) /\ Distinct(a) /\ Distinct(b)
          /\ ToSet(a) \cup ToSet(b) = X /\ ToSet(a) \cap ToSet(b) = {}
      BY <1>1, CutFacts
    <2>2. Enum(a, ToSet(a)) /\ Enum(b, ToSet(b))
      BY <2>1 DEF Enum
    <2>3. QED BY <2>1, <2>2
  <1>3. Sorted(a, F) /\ Sorted(b, F)
    BY <1>1, CutFacts
  <1>4. e \in Seq(T) /\ Enum(e, {c}) /\ ToSet(e) = {c} /\ Sorted(e, F)
    BY <1>1, OneEntry DEF Enum
  <1>5. ToSet(a) = A /\ ToSet(b) = B
    BY <1>2 DEF Enum
  <1>6. a \o e \in Seq(T)
    BY <1>2, <1>4, JoinFacts
  <1>7. CASE c \in F
    <2>1. Sorted(a \o e, F)
      BY <1>2, <1>3, <1>4, <1>7, JoinSorted
    <2>2. ToSet(b) \subseteq F
      BY <1>1, <1>7, CutFacts
    <2>3. Sorted((a \o e) \o b, F)
      BY <2>1, <2>2, <1>2, <1>3, <1>6, JoinSorted
    <2>4. QED BY <2>3, <1>1 DEF InsertAt, Before, Onward
  <1>8. CASE c \notin F
    <2>1. ToSet(a) \cap F = {}
      BY <1>1, <1>8, CutFacts
    <2>2. Sorted(a \o e, F)
      BY <2>1, <1>2, <1>3, <1>4, JoinSorted
    <2>3. ToSet(a \o e) \cap F = {}
      <3>1. Enum(a \o e, A \cup {c})
        BY <1>2, <1>4, JoinEnum
      <3>2. QED BY <3>1, <2>1, <1>5, <1>8 DEF Enum
    <2>4. Sorted((a \o e) \o b, F)
      BY <2>2, <2>3, <1>2, <1>3, <1>6, JoinSorted
    <2>5. QED BY <2>4, <1>1 DEF InsertAt, Before, Onward
  <1>9. QED BY <1>7, <1>8

\* Appending.
LEMMA AppendEnum ==
  ASSUME NEW T, NEW q \in Seq(T), NEW c \in T, NEW X, Enum(q, X), c \notin X
  PROVE  /\ Append(q, c) \in Seq(T) /\ Enum(Append(q, c), X \cup {c})
         /\ Without(Append(q, c), c) = q
  <1>1. PICK e : e = <<c>>
    OBVIOUS
  <1>2. e \in Seq(T) /\ Enum(e, {c}) /\ Len(e) = 1 /\ e[1] = c
    BY <1>1, OneEntry
  <1>3. q \o e \in Seq(T) /\ Enum(q \o e, X \cup {c})
    BY <1>2, JoinEnum
  <1>4. Append(q, c) = q \o e
    BY <1>1, <1>2
  <1>5. PICK r, n : r = Append(q, c) /\ n = Len(q)
    OBVIOUS
  <1>6. /\ n \in Nat /\ r \in Seq(T) /\ Len(r) = n + 1 /\ DOMAIN r = 1..(n + 1) /\ r[n + 1] = c
        /\ \A k \in 1..n : r[k] = q[k]
    BY <1>5
  <1>7. Distinct(r) /\ c \in ToSet(r)
    BY <1>3, <1>4, <1>5 DEF Enum
  <1>8. PICK x : x = Position(r, c)
    OBVIOUS
  <1>9. x \in 1..(n + 1) /\ r[x] = c
    BY <1>6, <1>7, <1>8, PositionFacts
  <1>10. x = n + 1
    BY <1>6, <1>7, <1>9 DEF Distinct
  <1>11. SubSeq(r, 1, x - 1) = q
    <2>1. PICK a : a = SubSeq(r, 1, n)
      OBVIOUS
    <2>2. a \in Seq(T) /\ Len(a) = n /\ \A k \in 1..n : a[k] = r[k]
      BY <2>1, <1>6
    <2>3. a = q
      BY <2>2, <1>5, <1>6
    <2>4. x - 1 = n
      BY <1>10, <1>6
    <2>5. QED BY <2>1, <2>3, <2>4
  <1>12. SubSeq(r, x + 1, Len(r)) = <<>>
    BY <1>6, <1>10
  <1>13. Without(r, c) = q \o <<>>
    BY <1>7, <1>8, <1>11, <1>12 DEF Without, RemoveAt
  <1>14. q \o <<>> = q
    OBVIOUS
  <1>15. QED BY <1>3, <1>4, <1>5, <1>13, <1>14

\* A new first entry.
LEMMA ConsEnum ==
  ASSUME NEW T, NEW q \in Seq(T), NEW c \in T, NEW X, Enum(q, X), c \notin X
  PROVE  <<c>> \o q \in Seq(T) /\ Enum(<<c>> \o q, X \cup {c})
  <1>1. PICK e : e = <<c>>
    OBVIOUS
  <1>2. e \in Seq(T) /\ Enum(e, {c})
    BY <1>1, OneEntry
  <1>3. e \o q \in Seq(T) /\ Enum(e \o q, {c} \cup X)
    BY <1>2, JoinEnum
  <1>4. {c} \cup X = X \cup {c}
    OBVIOUS
  <1>5. QED BY <1>1, <1>3, <1>4

\* A sequence backwards.
LEMMA ReverseEnum ==
  ASSUME NEW T, NEW q \in Seq(T), NEW X, Enum(q, X)
  PROVE  Reverse(q) \in Seq(T) /\ Enum(Reverse(q), X)
  <1>1. PICK r, n : r = Reverse(q) /\ n = Len(q)
    OBVIOUS
  <1>2. n \in Nat /\ DOMAIN q = 1..n /\ \A k \in 1..n : (n - k) + 1 \in 1..n /\ q[k] \in T
    BY <1>1
  <1>3. r = [k \in 1..n |-> q[(n - k) + 1]]
    BY <1>1 DEF Reverse
  <1>4. \A k \in 1..n : q[(n - k) + 1] \in T
    BY <1>2
  <1>5. r \in Seq(T) /\ DOMAIN r = 1..n /\ \A k \in 1..n : r[k] = q[(n - k) + 1]
    BY <1>2, <1>3, <1>4
  <1>6. ASSUME NEW j \in 1..n, NEW k \in 1..n, r[j] = r[k] PROVE j = k
    <2>1. (n - j) + 1 = (n - k) + 1
      BY <1>2, <1>5, <1>6 DEF Enum, Distinct
    <2>2. QED BY <2>1, <1>2
  <1>7. ASSUME NEW x \in ToSet(r) PROVE x \in ToSet(q)
    <2>1. PICK k \in 1..n : x = r[k]
      BY <1>5 DEF ToSet
    <2>2. QED BY <2>1, <1>2, <1>5 DEF ToSet
  <1>8. ASSUME NEW x \in ToSet(q) PROVE x \in ToSet(r)
    <2>1. PICK k \in 1..n : x = q[k]
      BY <1>2 DEF ToSet
    <2>2. (n - k) + 1 \in 1..n /\ (n - ((n - k) + 1)) + 1 = k
      BY <1>2
    <2>3. x = r[(n - k) + 1]
      BY <2>1, <2>2, <1>5
    <2>4. QED BY <2>2, <2>3, <1>5 DEF ToSet
  <1>9. ToSet(r) = X
    BY <1>7, <1>8 DEF Enum
  <1>10. QED BY <1>1, <1>5, <1>6, <1>9 DEF Enum, Distinct

\* Two entries change places.
Switched(q, i, j) == [q EXCEPT ![i] = q[j], ![j] = q[i]]

\* Exchanging two entries.
LEMMA ExchangeEnum ==
  ASSUME NEW T, NEW q \in Seq(T), NEW X, Enum(q, X), NEW i \in 1..Len(q), NEW j \in 1..Len(q),
         NEW r, r = Switched(q, i, j)
  PROVE  /\ r \in Seq(T) /\ Enum(r, X)
         /\ \A F : Sorted(q, F) /\ q[i] \notin F /\ q[j] \notin F => Sorted(r, F)
  <1>1. PICK n : n = Len(q)
    OBVIOUS
  <1>2. /\ n \in Nat /\ DOMAIN q = 1..n /\ i \in 1..n /\ j \in 1..n
        /\ \A k \in 1..n : q[k] \in T
    BY <1>1
  <1>3. r \in Seq(T) /\ DOMAIN r = 1..n
    BY <1>1, <1>2 DEF Switched
  <1>4. \A k \in 1..n : r[k] = IF k = j THEN q[i] ELSE IF k = i THEN q[j] ELSE q[k]
    BY <1>2 DEF Switched
  <1>5. \A k, l \in 1..n : q[k] = q[l] => k = l
    BY <1>2 DEF Enum, Distinct
  <1>6. \A k, l \in 1..n : r[k] = r[l] => k = l
    BY <1>2, <1>4, <1>5
  <1>7. ASSUME NEW x \in ToSet(r) PROVE x \in ToSet(q)
    <2>1. PICK k \in 1..n : x = r[k]
      BY <1>3 DEF ToSet
    <2>2. \E l \in 1..n : x = q[l]
      BY <2>1, <1>2, <1>4
    <2>3. QED BY <2>2, <1>2 DEF ToSet
  <1>8. ASSUME NEW x \in ToSet(q) PROVE x \in ToSet(r)
    <2>1. PICK k \in 1..n : x = q[k]
      BY <1>2 DEF ToSet
    <2>2. \E l \in 1..n : x = r[l]
      <3>1. CASE k = i
        BY <3>1, <2>1, <1>2, <1>4
      <3>2. CASE k = j /\ k # i
        BY <3>2, <2>1, <1>2, <1>4
      <3>3. CASE k # i /\ k # j
        BY <3>3, <2>1, <1>2, <1>4
      <3>4. QED BY <3>1, <3>2, <3>3
    <2>3. QED BY <2>2, <1>3 DEF ToSet
  <1>9. ToSet(r) = X
    BY <1>7, <1>8 DEF Enum
  <1>10. ASSUME NEW F, Sorted(q, F), q[i] \notin F, q[j] \notin F PROVE Sorted(r, F)
    <2>1. \A k, l \in 1..n : k < l /\ q[k] \in F => q[l] \in F
      BY <1>2, <1>10 DEF Sorted
    <2>2. \A k \in 1..n : r[k] \in F <=> q[k] \in F
      BY <1>2, <1>4, <1>10
    <2>3. \A k, l \in 1..n : k < l /\ r[k] \in F => r[l] \in F
      BY <2>1, <2>2
    <2>4. QED BY <2>3, <1>3 DEF Sorted
  <1>11. Enum(r, X)
    BY <1>3, <1>6, <1>9 DEF Enum, Distinct
  <1>12. QED BY <1>3, <1>10, <1>11

\* More distinct entries than places for exceptions: one is none.
LEMMA Pigeonhole ==
  ASSUME NEW T, NEW q \in Seq(T), NEW r \in Seq(T), Distinct(q), Len(r) < Len(q)
  PROVE  \E x \in ToSet(q) : x \notin ToSet(r)
  <1>1. PICK m, n : m = Len(q) /\ n = Len(r)
    OBVIOUS
  <1>2. m \in Nat /\ n \in Nat /\ n < m /\ DOMAIN q = 1..m /\ DOMAIN r = 1..n
    BY <1>1
  <1>3. SUFFICES ASSUME \A x \in ToSet(q) : x \in ToSet(r) PROVE FALSE
    OBVIOUS
  <1>4. \A k \in 1..m : \E l \in 1..n : r[l] = q[k]
    BY <1>2, <1>3 DEF ToSet
  <1>5. PICK f : f = [k \in 1..m |-> CHOOSE l \in 1..n : r[l] = q[k]]
    OBVIOUS
  <1>6. f \in [1..m -> 1..n] /\ \A k \in 1..m : r[f[k]] = q[k]
    BY <1>4, <1>5
  <1>7. \A j, k \in 1..m : f[j] = f[k] => j = k
    BY <1>2, <1>6 DEF Distinct
  <1>8. f \in Injection(1..m, 1..n)
    BY <1>6, <1>7 DEF Injection, IsInjective
  <1>9. IsFiniteSet(1..n) /\ Cardinality(1..n) = n /\ Cardinality(1..m) = m
    <2>1. 1 \in Int /\ m \in Int /\ n \in Int /\ n >= 0 /\ m >= 1
      BY <1>2
    <2>2. /\ IsFiniteSet(1..n) /\ Cardinality(1..n) = IF 1 > n THEN 0 ELSE n - 1 + 1
          /\ Cardinality(1..m) = IF 1 > m THEN 0 ELSE m - 1 + 1
      BY <2>1, FS_Interval
    <2>3. QED BY <2>1, <2>2
  <1>10. Cardinality(1..m) <= Cardinality(1..n)
    BY <1>8, <1>9, FS_Injection
  <1>11. QED BY <1>2, <1>9, <1>10

------------------------------------------------------------------------------
(* The invariant *)

\* A desktop, field by field.
Desktops ==
  [order : Seq(Clients), mon : [Clients -> Monitors \cup {None}],
   tags : [Clients -> SUBSET Tags], floating : SUBSET Clients, sticky : SUBSET Clients,
   hidden : SUBSET Clients, list : [Monitors -> Seq(Clients)],
   stack : [Monitors -> Seq(Clients)], mons : Seq(Monitors),
   sel : [Monitors -> Clients \cup {None}],
   pertag : [Monitors -> [0..TagCount -> Clients \cup {None}]],
   view : [Monitors -> SUBSET Tags], cur : [Monitors -> 0..TagCount],
   selmon : Monitors \cup {None}, locked : Seq(Monitors)]

\* The clients that are on monitor m.
Owned(mon, m) == {c \in Clients : mon[c] = m}

\* Managed clients are on plugged-in outputs while there are any; no other
\* client is on one.
Placed(order, mon, mons) ==
  /\ Distinct(order) /\ Distinct(mons)
  /\ \A c \in Clients : IF c \in ToSet(order) /\ mons # <<>> THEN mon[c] \in ToSet(mons)
                                                           ELSE mon[c] = None

\* The selected output is a plugged-in one.
Chosen(mons, selmon) ==
  /\ selmon \in ToSet(mons) \cup {None}
  /\ selmon = None <=> mons = <<>>

\* Each monitor's list (or stack) names each of its clients once.
Listed(f, mon) == \A m \in Monitors : Enum(f[m], Owned(mon, m))

\* Selections are of the monitor's own windows; tags never select a bar.
Selected(sel, pertag, mon) ==
  \A m \in Monitors :
    /\ sel[m] \notin Docks \cup {None} => mon[sel[m]] = m
    /\ \A i \in 0..TagCount :
         pertag[m][i] # None => pertag[m][i] \notin Docks /\ mon[pertag[m][i]] = m

\* The current slot is that of a tag in view, or 0 for the view of all tags.
Viewed(view, cur) ==
  \A m \in Monitors : IF cur[m] = 0 THEN view[m] = Tags ELSE cur[m] \in view[m]

\* What holds between any two steps of a handler.
Core(s) ==
  /\ s \in Desktops
  /\ Placed(s.order, s.mon, s.mons)
  /\ Chosen(s.mons, s.selmon)
  /\ s.floating \cup s.sticky \cup s.hidden \subseteq ToSet(s.order)
  /\ Listed(s.list, s.mon)
  /\ Listed(s.stack, s.mon)
  /\ Selected(s.sel, s.pertag, s.mon)
  /\ Viewed(s.view, s.cur)
  /\ Distinct(s.locked)

\* The selected window is on the selected monitor.
Anchored(s) ==
  s.selmon # None => \/ s.sel[s.selmon] = None
                     \/ s.mon[s.sel[s.selmon]] = s.selmon

------------------------------------------------------------------------------
(* The parts of the invariant under changes of a field *)

\* The fields of a desktop have their types.
LEMMA FieldTypes ==
  ASSUME NEW s \in Desktops
  PROVE  /\ s.order \in Seq(Clients) /\ s.mon \in [Clients -> Monitors \cup {None}]
         /\ s.tags \in [Clients -> SUBSET Tags] /\ s.floating \in SUBSET Clients
         /\ s.sticky \in SUBSET Clients /\ s.hidden \in SUBSET Clients
         /\ s.list \in [Monitors -> Seq(Clients)] /\ s.stack \in [Monitors -> Seq(Clients)]
         /\ s.mons \in Seq(Monitors) /\ s.sel \in [Monitors -> Clients \cup {None}]
         /\ s.pertag \in [Monitors -> [0..TagCount -> Clients \cup {None}]]
         /\ s.view \in [Monitors -> SUBSET Tags] /\ s.cur \in [Monitors -> 0..TagCount]
         /\ s.selmon \in Monitors \cup {None} /\ s.locked \in Seq(Monitors)
  BY DEF Desktops

\* A monitor's list is rearranged.
LEMMA ListedSame ==
  ASSUME NEW f \in [Monitors -> Seq(Clients)], NEW mon, Listed(f, mon), NEW m \in Monitors,
         NEW e \in Seq(Clients), Enum(e, Owned(mon, m))
  PROVE  /\ [f EXCEPT ![m] = e] \in [Monitors -> Seq(Clients)]
         /\ Listed([f EXCEPT ![m] = e], mon)
  BY DEF Listed

\* A client without a monitor enters a list.
LEMMA ListedPut ==
  ASSUME NEW f \in [Monitors -> Seq(Clients)], NEW mon \in [Clients -> Monitors \cup {None}],
         Listed(f, mon), NEW c \in Clients, mon[c] = None, NEW m \in Monitors,
         NEW e \in Seq(Clients), Enum(e, Owned(mon, m) \cup {c})
  PROVE  /\ [f EXCEPT ![m] = e] \in [Monitors -> Seq(Clients)]
         /\ Listed([f EXCEPT ![m] = e], [mon EXCEPT ![c] = m])
  <1>1. PICK g, p : g = [f EXCEPT ![m] = e] /\ p = [mon EXCEPT ![c] = m]
    OBVIOUS
  <1>2. g \in [Monitors -> Seq(Clients)] /\ g[m] = e /\ \A n \in Monitors \ {m} : g[n] = f[n]
    BY <1>1
  <1>3. p[c] = m /\ \A d \in Clients \ {c} : p[d] = mon[d]
    BY <1>1
  <1>4. Owned(p, m) = Owned(mon, m) \cup {c}
    BY <1>3 DEF Owned
  <1>5. Enum(e, Owned(p, m))
    BY <1>4
  <1>6. \A n \in Monitors \ {m} : Owned(p, n) = Owned(mon, n)
    BY <1>3, DesktopAssumption DEF Owned
  <1>7. Listed(g, p)
    BY <1>2, <1>5, <1>6 DEF Listed
  <1>8. QED BY <1>1, <1>2, <1>7

\* A client leaves its monitor's list.
LEMMA ListedDrop ==
  ASSUME NEW f \in [Monitors -> Seq(Clients)], NEW mon \in [Clients -> Monitors \cup {None}],
         Listed(f, mon), NEW c \in Clients, NEW m \in Monitors, mon[c] = m,
         NEW e \in Seq(Clients), Enum(e, Owned(mon, m) \ {c})
  PROVE  /\ [f EXCEPT ![m] = e] \in [Monitors -> Seq(Clients)]
         /\ Listed([f EXCEPT ![m] = e], [mon EXCEPT ![c] = None])
  <1>1. PICK g, p : g = [f EXCEPT ![m] = e] /\ p = [mon EXCEPT ![c] = None]
    OBVIOUS
  <1>2. g \in [Monitors -> Seq(Clients)] /\ g[m] = e /\ \A n \in Monitors \ {m} : g[n] = f[n]
    BY <1>1
  <1>3. p[c] = None /\ \A d \in Clients \ {c} : p[d] = mon[d]
    BY <1>1
  <1>4. Owned(p, m) = Owned(mon, m) \ {c}
    BY <1>3, DesktopAssumption DEF Owned
  <1>5. Enum(e, Owned(p, m))
    BY <1>4
  <1>6. \A n \in Monitors \ {m} : Owned(p, n) = Owned(mon, n)
    BY <1>3, DesktopAssumption DEF Owned
  <1>7. Listed(g, p)
    BY <1>2, <1>6, <1>5 DEF Listed
  <1>8. QED BY <1>1, <1>2, <1>7

\* One tag's entry is changed.
Noted(pertag, m, i, x) == [pertag EXCEPT ![m][i] = x]

\* A monitor selects one of its windows, or nothing.
LEMMA SelectedSet ==
  ASSUME NEW sel \in [Monitors -> Clients \cup {None}], NEW pertag, NEW mon,
         Selected(sel, pertag, mon), NEW m \in Monitors, NEW x \in Clients \cup {None},
         x \notin Docks \cup {None} => mon[x] = m
  PROVE  /\ [sel EXCEPT ![m] = x] \in [Monitors -> Clients \cup {None}]
         /\ Selected([sel EXCEPT ![m] = x], pertag, mon)
  BY DEF Selected

\* One of a monitor's tags selects one of its windows, or nothing.
LEMMA SelectedTag ==
  ASSUME NEW pertag \in [Monitors -> [0..TagCount -> Clients \cup {None}]], NEW sel, NEW mon,
         Selected(sel, pertag, mon), NEW m \in Monitors, NEW i \in 0..TagCount,
         NEW x \in Clients \cup {None}, x # None => x \notin Docks /\ mon[x] = m
  PROVE  /\ Noted(pertag, m, i, x) \in [Monitors -> [0..TagCount -> Clients \cup {None}]]
         /\ Selected(sel, Noted(pertag, m, i, x), mon)
  <1>1. PICK p : p = [pertag EXCEPT ![m][i] = x] /\ p = Noted(pertag, m, i, x)
    BY DEF Noted
  <1>2. p \in [Monitors -> [0..TagCount -> Clients \cup {None}]]
    BY <1>1
  <1>3. \A n \in Monitors, j \in 0..TagCount :
          p[n][j] = IF n = m /\ j = i THEN x ELSE pertag[n][j]
    BY <1>1
  <1>4. Selected(sel, p, mon)
    BY <1>3 DEF Selected
  <1>5. QED BY <1>1, <1>2, <1>4

\* A client that nobody selects moves.
LEMMA SelectedMoved ==
  ASSUME NEW sel \in [Monitors -> Clients \cup {None}],
         NEW pertag \in [Monitors -> [0..TagCount -> Clients \cup {None}]],
         NEW mon, NEW p, NEW c \in Clients,
         Selected(sel, pertag, mon), \A d \in Clients \ {c} : p[d] = mon[d],
         \A m \in Monitors : sel[m] # c \/ c \in Docks,
         \A m \in Monitors, i \in 0..TagCount : pertag[m][i] # c
  PROVE  Selected(sel, pertag, p)
  <1>1. ASSUME NEW m \in Monitors, sel[m] \notin Docks \cup {None} PROVE p[sel[m]] = m
    <2>1. sel[m] \in Clients \ {c}
      BY <1>1
    <2>2. QED BY <2>1, <1>1 DEF Selected
  <1>2. ASSUME NEW m \in Monitors, NEW i \in 0..TagCount, pertag[m][i] # None
        PROVE  pertag[m][i] \notin Docks /\ p[pertag[m][i]] = m
    <2>1. pertag[m][i] \in Clients \ {c}
      <3>1. pertag[m] \in [0..TagCount -> Clients \cup {None}]
        OBVIOUS
      <3>2. pertag[m][i] \in Clients \cup {None}
        BY <3>1
      <3>3. pertag[m][i] # c
        OBVIOUS
      <3>4. QED BY <3>2, <3>3, <1>2
    <2>2. QED BY <2>1, <1>2 DEF Selected
  <1>3. QED BY <1>1, <1>2 DEF Selected

\* A client without a monitor is selected nowhere, unless it is a bar.
LEMMA Unselected ==
  ASSUME NEW sel \in [Monitors -> Clients \cup {None}],
         NEW pertag \in [Monitors -> [0..TagCount -> Clients \cup {None}]],
         NEW mon, NEW c \in Clients, Selected(sel, pertag, mon), NEW m \in Monitors, mon[c] # m
  PROVE  (sel[m] # c \/ c \in Docks) /\ \A i \in 0..TagCount : pertag[m][i] # c
  BY DesktopAssumption DEF Selected

\* The first entry in a set, if there is one, is an entry and in the set.
LEMMA FirstIn ==
  ASSUME NEW T, None \notin T, NEW q \in Seq(T), NEW good
  PROVE  First(q, good) = None \/ First(q, good) \in ToSet(q) \cap good \cap T
  BY FirstFacts, EntryFacts

------------------------------------------------------------------------------
(* Focus *)

\* Only what focus changes differs between s and u.
Refocused(s, u) ==
  /\ u.order = s.order /\ u.mon = s.mon /\ u.tags = s.tags /\ u.floating = s.floating
  /\ u.sticky = s.sticky /\ u.hidden = s.hidden /\ u.list = s.list /\ u.mons = s.mons
  /\ u.view = s.view /\ u.cur = s.cur /\ u.locked = s.locked

\* Selecting a window, or nothing, on a monitor and its current tag.
LEMMA SetSelectedFacts ==
  ASSUME NEW s \in Desktops, NEW m \in Monitors, NEW x \in Clients \cup {None},
         NEW u, u = set_selected_client_for_current_tag(s, m, x)
  PROVE  /\ u \in Desktops /\ Refocused(s, u) /\ u.selmon = s.selmon /\ u.stack = s.stack
         /\ u.sel = [s.sel EXCEPT ![m] = x] /\ u.pertag = Noted(s.pertag, m, s.cur[m], x)
  <1>1. /\ s.sel \in [Monitors -> Clients \cup {None}] /\ s.cur[m] \in 0..TagCount
        /\ s.pertag \in [Monitors -> [0..TagCount -> Clients \cup {None}]]
    BY FieldTypes
  <1>2. PICK y, p : y = [s.sel EXCEPT ![m] = x] /\ p = [s.pertag EXCEPT ![m][s.cur[m]] = x]
    OBVIOUS
  <1>3. u = [s EXCEPT !.sel = y, !.pertag = p]
    BY <1>2 DEF set_selected_client_for_current_tag
  <1>4. y \in [Monitors -> Clients \cup {None}]
    BY <1>1, <1>2
  <1>5. p \in [Monitors -> [0..TagCount -> Clients \cup {None}]]
    BY <1>1, <1>2
  <1>6. p = Noted(s.pertag, m, s.cur[m], x)
    BY <1>2 DEF Noted
  <1>7. /\ u \in Desktops /\ Refocused(s, u) /\ u.selmon = s.selmon /\ u.stack = s.stack
        /\ u.sel = y /\ u.pertag = p
    BY <1>3, <1>4, <1>5 DEF Desktops, Refocused
  <1>8. QED BY <1>2, <1>6, <1>7

\* What is in view does not depend on focus.
LEMMA FocusableSame ==
  ASSUME NEW s, NEW u, Refocused(s, u)
  PROVE  Focusable(u) = Focusable(s) /\ \A m : is_locked(u, m) <=> is_locked(s, m)
  BY DEF Refocused, Focusable, is_client_visible_by_key, is_client_visible_on_monitor, Managed,
         is_locked

\* The invariant after a change of selections and stacks.
LEMMA RefocusedCore ==
  ASSUME NEW s, Core(s), NEW u \in Desktops, Refocused(s, u), Chosen(s.mons, u.selmon),
         Listed(u.stack, s.mon), Selected(u.sel, u.pertag, s.mon)
  PROVE  Core(u)
  BY DEF Core, Refocused

\* Focus goes to an application in view, on a monitor without a shade.
LEMMA FocusTargetFacts ==
  ASSUME NEW s, Core(s), NEW c
  PROVE  \/ FocusTarget(s, c) = None
         \/ /\ FocusTarget(s, c) \in Focusable(s)
            /\ FocusTarget(s, c) \in Clients \ Docks
            /\ s.mon[FocusTarget(s, c)] \in Monitors
            /\ s.mon[FocusTarget(s, c)] \in ToSet(s.mons)
            /\ ~is_locked(s, s.mon[FocusTarget(s, c)])
  <1>1. PICK f : f = FocusTarget(s, c)
    OBVIOUS
  <1>2. /\ s.mon \in [Clients -> Monitors \cup {None}] /\ s.selmon \in Monitors \cup {None}
        /\ s.stack \in [Monitors -> Seq(Clients)] /\ s.mons \in Seq(Monitors)
    BY FieldTypes DEF Core
  <1>3. \A x \in Focusable(s) : /\ x \in Clients \ Docks /\ s.mon[x] \in Monitors
                               /\ s.mon[x] \in ToSet(s.mons)
    <2>1. ASSUME NEW x \in Focusable(s) PROVE x \in Clients \ Docks /\ s.mon[x] # None
      BY DEF Focusable, is_client_visible_by_key
    <2>2. \A x \in Clients : s.mon[x] # None => s.mon[x] \in ToSet(s.mons)
      BY DEF Core, Placed
    <2>3. QED BY <2>1, <2>2, <1>2
  <1>4. CASE c \in Focusable(s) /\ ~is_locked(s, s.mon[c])
    <2>1. f = c
      BY <1>1, <1>4 DEF FocusTarget
    <2>2. QED BY <2>1, <1>1, <1>3, <1>4
  <1>5. CASE ~(c \in Focusable(s) /\ ~is_locked(s, s.mon[c]))
    <2>1. f = find_visible_client(s)
      BY <1>1, <1>5 DEF FocusTarget
    <2>2. CASE s.selmon = None \/ is_locked(s, s.selmon)
      <3>1. f = None
        BY <2>1, <2>2 DEF find_visible_client
      <3>2. QED BY <3>1, <1>1
    <2>3. CASE ~(s.selmon = None \/ is_locked(s, s.selmon))
      <3>1. f = First(s.stack[s.selmon], Focusable(s))
        BY <2>1, <2>3 DEF find_visible_client
      <3>2. s.selmon \in Monitors /\ s.stack[s.selmon] \in Seq(Clients)
        BY <2>3, <1>2
      <3>3. f = None \/ f \in ToSet(s.stack[s.selmon]) \cap Focusable(s) \cap Clients
        BY <3>1, <3>2, FirstIn, DesktopAssumption
      <3>4. f \in ToSet(s.stack[s.selmon]) => s.mon[f] = s.selmon
        BY <3>2 DEF Core, Listed, Enum, Owned
      <3>5. QED BY <3>3, <3>4, <2>3, <1>1, <1>3
    <2>4. QED BY <2>2, <2>3
  <1>6. QED BY <1>4, <1>5

\* What focus leaves behind, in terms of its target.
Focused(s, u, f, m) ==
  /\ u \in Desktops /\ Refocused(s, u) /\ u.selmon = m
  /\ u.stack = [s.stack EXCEPT ![m] = <<f>> \o Without(s.stack[m], f)]
  /\ u.sel = [s.sel EXCEPT ![m] = f]
  /\ u.pertag = Noted(s.pertag, m, s.cur[m], f)

\* A focus command that has a target.
LEMMA FocusForm ==
  ASSUME NEW s, Core(s), NEW c, FocusTarget(s, c) # None
  PROVE  Focused(s, focus(s, c), FocusTarget(s, c), s.mon[FocusTarget(s, c)])
  <1>0. PICK u, f, m : u = focus(s, c) /\ f = FocusTarget(s, c) /\ m = s.mon[f]
    OBVIOUS
  <1>1. s \in Desktops /\ f \in Clients /\ s.mon[f] \in Monitors
    BY <1>0, FocusTargetFacts DEF Core
  <1>2. PICK s1 : s1 = [s EXCEPT !.selmon = m]
    OBVIOUS
  <1>3. m \in Monitors /\ m # None
    BY <1>0, <1>1, DesktopAssumption
  <1>4. /\ s1 \in Desktops /\ Refocused(s, s1) /\ s1.selmon = m /\ s1.stack = s.stack
        /\ s1.sel = s.sel /\ s1.pertag = s.pertag
    BY <1>1, <1>2, <1>3 DEF Desktops, Refocused
  <1>5. s1.mon[f] = m /\ s1.cur = s.cur
    BY <1>0, <1>4 DEF Refocused
  <1>6. PICK w, e : w = Without(s.stack[m], f) /\ e = <<f>> \o Without(s.stack[m], f)
    OBVIOUS
  <1>7. w \in Seq(Clients) /\ e \in Seq(Clients) /\ e = <<f>> \o w
    <2>1. s.stack[m] \in Seq(Clients) /\ Enum(s.stack[m], Owned(s.mon, m))
      BY <1>1, <1>3, FieldTypes DEF Core, Listed
    <2>2. w \in Seq(Clients)
      BY <2>1, <1>6, WithoutEnum
    <2>3. QED BY <2>2, <1>1, <1>6
  <1>8. PICK t0 : t0 = [s1 EXCEPT !.stack[m] = w]
    OBVIOUS
  <1>9. /\ t0 \in Desktops /\ Refocused(s, t0) /\ t0.selmon = m /\ t0.sel = s.sel
        /\ t0.stack = [s.stack EXCEPT ![m] = w] /\ t0.pertag = s.pertag
    BY <1>3, <1>4, <1>7, <1>8 DEF Desktops, Refocused
  <1>10. PICK x, t1 : /\ x = find_next_visible_client_by_mon(t0, m)
                      /\ t1 = IF s.sel[m] = f THEN [t0 EXCEPT !.sel[m] = x] ELSE t0
    OBVIOUS
  <1>11. t1 = detachstack(s1, f)
    <2>1. t0 = [s1 EXCEPT !.stack[m] = Without(@, f)]
      BY <1>4, <1>6, <1>8
    <2>2. QED BY <2>1, <1>3, <1>4, <1>5, <1>10 DEF detachstack
  <1>12. x \in Clients \cup {None}
    <2>1. t0.stack[m] \in Seq(Clients)
      BY <1>3, <1>9, FieldTypes
    <2>2. QED BY <2>1, <1>10, FirstIn, DesktopAssumption DEF find_next_visible_client_by_mon
  <1>13. PICK y : y = IF s.sel[m] = f THEN [s.sel EXCEPT ![m] = x] ELSE s.sel
    OBVIOUS
  <1>14. y \in [Monitors -> Clients \cup {None}] /\ [y EXCEPT ![m] = f] = [s.sel EXCEPT ![m] = f]
    <2>1. s.sel \in [Monitors -> Clients \cup {None}]
      BY <1>1, FieldTypes
    <2>2. QED BY <2>1, <1>3, <1>12, <1>13
  <1>15. /\ t1 \in Desktops /\ Refocused(s, t1) /\ t1.selmon = m /\ t1.sel = y
         /\ t1.stack = [s.stack EXCEPT ![m] = w] /\ t1.pertag = s.pertag
    <2>1. CASE s.sel[m] = f
      <3>1. t1 = [t0 EXCEPT !.sel[m] = x] /\ y = [s.sel EXCEPT ![m] = x]
        BY <2>1, <1>10, <1>13
      <3>2. QED BY <3>1, <1>3, <1>9, <1>12 DEF Desktops, Refocused
    <2>2. CASE s.sel[m] # f
      BY <2>2, <1>9, <1>10, <1>13
    <2>3. QED BY <2>1, <2>2
  <1>16. PICK t2 : t2 = attachstack(t1, f)
    OBVIOUS
  <1>17. t2 = [t1 EXCEPT !.stack[m] = e]
    <2>1. t1.mon[f] = m /\ t1.stack[m] = w
      <3>1. s.stack \in [Monitors -> Seq(Clients)]
        BY <1>1, FieldTypes
      <3>2. QED BY <3>1, <1>0, <1>3, <1>15 DEF Refocused
    <2>2. QED BY <2>1, <1>3, <1>7, <1>16 DEF attachstack
  <1>18. /\ t2 \in Desktops /\ Refocused(s, t2) /\ t2.selmon = m /\ t2.sel = y
         /\ t2.stack = [s.stack EXCEPT ![m] = e] /\ t2.pertag = s.pertag
    BY <1>1, <1>3, <1>7, <1>15, <1>17 DEF Desktops, Refocused
  <1>19. u = set_selected_client_for_current_tag(t2, m, f)
    BY <1>0, <1>2, <1>3, <1>11, <1>16, <1>18 DEF focus
  <1>20. /\ u \in Desktops /\ Refocused(t2, u) /\ u.selmon = m /\ u.stack = t2.stack
         /\ u.sel = [y EXCEPT ![m] = f] /\ u.pertag = Noted(s.pertag, m, t2.cur[m], f)
    BY <1>1, <1>3, <1>18, <1>19, SetSelectedFacts
  <1>21. Refocused(s, u) /\ t2.cur = s.cur
    BY <1>18, <1>20 DEF Refocused
  <1>22. QED BY <1>0, <1>6, <1>14, <1>18, <1>20, <1>21 DEF Focused

\* Focus keeps the invariant, anchors the selection, and puts it in view unless
\* there is nobody to focus on a selected monitor behind a shade.
LEMMA FocusFacts ==
  ASSUME NEW s, Core(s), NEW c, NEW u, u = focus(s, c)
  PROVE  /\ Core(u) /\ Anchored(u) /\ Refocused(s, u)
         /\ s.selmon = None \/ ~is_locked(s, s.selmon) => Seen(u)
  <1>1. PICK f : f = FocusTarget(s, c)
    OBVIOUS
  <1>2. s \in Desktops /\ s.selmon \in Monitors \cup {None}
    BY FieldTypes DEF Core
  <1>3. CASE f = None /\ s.selmon = None
    <2>1. u = s
      BY <1>1, <1>3 DEF focus
    <2>2. QED BY <2>1, <1>3 DEF Anchored, Refocused, Seen
  <1>4. CASE f = None /\ s.selmon # None
    <2>1. PICK m : m = s.selmon
      OBVIOUS
    <2>2. m \in Monitors /\ m # None
      BY <1>2, <1>4, <2>1
    <2>3. u = set_selected_client_for_current_tag(s, m, None)
      BY <1>1, <1>4, <2>1 DEF focus
    <2>4. /\ s.sel \in [Monitors -> Clients \cup {None}] /\ s.cur[m] \in 0..TagCount
          /\ s.pertag \in [Monitors -> [0..TagCount -> Clients \cup {None}]]
          /\ Selected(s.sel, s.pertag, s.mon)
      BY <1>2, <2>2, FieldTypes DEF Core
    <2>5. PICK y, p : y = [s.sel EXCEPT ![m] = None] /\ p = Noted(s.pertag, m, s.cur[m], None)
      OBVIOUS
    <2>6. y \in [Monitors -> Clients \cup {None}] /\ Selected(y, s.pertag, s.mon)
      BY <2>2, <2>4, <2>5, SelectedSet
    <2>7. p \in [Monitors -> [0..TagCount -> Clients \cup {None}]] /\ Selected(y, p, s.mon)
      BY <2>2, <2>4, <2>5, <2>6, SelectedTag
    <2>8. /\ u \in Desktops /\ Refocused(s, u) /\ u.sel = y /\ u.pertag = p /\ u.stack = s.stack
          /\ u.selmon = m
      BY <1>2, <2>1, <2>2, <2>3, <2>5, SetSelectedFacts
    <2>9. Core(u)
      BY <2>1, <2>7, <2>8, RefocusedCore DEF Core
    <2>10. u.sel[u.selmon] = None
      BY <2>2, <2>4, <2>5, <2>8
    <2>11. ~is_locked(s, s.selmon) => Seen(u)
      BY <2>1, <2>8, <2>10, FocusableSame DEF Seen
    <2>12. QED BY <1>4, <2>8, <2>9, <2>10, <2>11 DEF Anchored
  <1>5. CASE f # None
    <2>1. PICK m : m = s.mon[f]
      OBVIOUS
    <2>2. /\ f \in Focusable(s) /\ f \in Clients \ Docks /\ m \in Monitors /\ m \in ToSet(s.mons)
          /\ ~is_locked(s, m)
      BY <1>1, <1>5, <2>1, FocusTargetFacts
    <2>3. PICK e, g, y, p : /\ e = <<f>> \o Without(s.stack[m], f) /\ g = [s.stack EXCEPT ![m] = e]
                            /\ y = [s.sel EXCEPT ![m] = f]
                            /\ p = Noted(s.pertag, m, s.cur[m], f)
      OBVIOUS
    <2>4. /\ u \in Desktops /\ Refocused(s, u) /\ u.selmon = m /\ u.stack = g /\ u.sel = y
          /\ u.pertag = p
      <3>1. /\ u \in Desktops /\ Refocused(s, u) /\ u.selmon = m
            /\ u.stack = [s.stack EXCEPT ![m] = <<f>> \o Without(s.stack[m], f)]
            /\ u.sel = [s.sel EXCEPT ![m] = f]
            /\ u.pertag = Noted(s.pertag, m, s.cur[m], f)
        <4>1. Focused(s, focus(s, c), FocusTarget(s, c), s.mon[FocusTarget(s, c)])
          BY <1>1, <1>5, FocusForm
        <4>2. QED BY <4>1, <1>1, <2>1 DEF Focused
      <3>2. QED BY <3>1, <2>3
    <2>5. /\ s.stack \in [Monitors -> Seq(Clients)] /\ s.sel \in [Monitors -> Clients \cup {None}]
          /\ s.pertag \in [Monitors -> [0..TagCount -> Clients \cup {None}]]
          /\ s.cur[m] \in 0..TagCount /\ s.stack[m] \in Seq(Clients)
      BY <1>2, <2>2, FieldTypes
    <2>6. Listed(g, s.mon)
      <3>1. PICK X, w : X = Owned(s.mon, m) /\ w = Without(s.stack[m], f)
        OBVIOUS
      <3>2. Enum(s.stack[m], X) /\ f \in X
        BY <2>1, <2>2, <3>1 DEF Core, Listed, Owned
      <3>3. w \in Seq(Clients) /\ Enum(w, X \ {f})
        BY <2>5, <3>1, <3>2, WithoutEnum
      <3>4. PICK Y : Y = X \ {f}
        OBVIOUS
      <3>5. e \in Seq(Clients) /\ Enum(e, Y \cup {f})
        BY <2>2, <2>3, <3>1, <3>3, <3>4, ConsEnum
      <3>6. Y \cup {f} = X
        BY <3>2, <3>4
      <3>7. Enum(e, Owned(s.mon, m))
        BY <3>1, <3>5, <3>6
      <3>8. Listed(s.stack, s.mon)
        BY DEF Core
      <3>9. QED BY <2>2, <2>3, <2>5, <3>5, <3>7, <3>8, ListedSame
    <2>7. Selected(y, p, s.mon)
      <3>1. Selected(s.sel, s.pertag, s.mon)
        BY DEF Core
      <3>2. y \in [Monitors -> Clients \cup {None}] /\ Selected(y, s.pertag, s.mon)
        BY <2>1, <2>2, <2>3, <2>5, <3>1, SelectedSet
      <3>3. QED BY <2>1, <2>2, <2>3, <2>5, <3>2, SelectedTag
    <2>8. Chosen(s.mons, u.selmon)
      <3>1. m # None /\ s.mons # <<>>
        BY <2>2, DesktopAssumption DEF ToSet
      <3>2. QED BY <2>2, <2>4, <3>1 DEF Chosen
    <2>9. Core(u)
      BY <2>4, <2>6, <2>7, <2>8, RefocusedCore
    <2>10. u.sel[u.selmon] = f /\ u.mon[f] = m /\ u.selmon = m
      <3>1. y[m] = f
        BY <2>2, <2>3, <2>5
      <3>2. QED BY <3>1, <2>1, <2>4 DEF Refocused
    <2>11. Seen(u)
      BY <2>2, <2>4, <2>10, FocusableSame DEF Seen
    <2>12. QED BY <2>4, <2>9, <2>10, <2>11 DEF Anchored
  <1>6. QED BY <1>2, <1>3, <1>4, <1>5

------------------------------------------------------------------------------
(* Client lists *)

\* Monitor m gets the list e.
WithList(s, m, e) == [s EXCEPT !.list[m] = e]

\* Only the list of one monitor is new.
LEMMA WithListFacts ==
  ASSUME NEW s \in Desktops, NEW m \in Monitors, NEW e \in Seq(Clients), NEW t, t = WithList(s, m, e)
  PROVE  /\ t \in Desktops /\ t.list = [s.list EXCEPT ![m] = e] /\ t.order = s.order
         /\ t.mon = s.mon /\ t.tags = s.tags /\ t.floating = s.floating /\ t.sticky = s.sticky
         /\ t.hidden = s.hidden /\ t.stack = s.stack /\ t.mons = s.mons /\ t.sel = s.sel
         /\ t.pertag = s.pertag /\ t.view = s.view /\ t.cur = s.cur /\ t.selmon = s.selmon
         /\ t.locked = s.locked
  BY DEF WithList, Desktops

\* Whether the members of F come last depends on the entries only.
LEMMA SortedAgree ==
  ASSUME NEW q, NEW F, NEW G, \A x \in ToSet(q) : x \in F <=> x \in G, Sorted(q, F)
  PROVE  Sorted(q, G)
  BY DEF Sorted, ToSet

\* Where the trailing floating clients begin.
LEMMA FirstFloatingFacts ==
  ASSUME NEW s, NEW q \in Seq(Clients), Distinct(q), NEW at, at = FirstFloating(s, q)
  PROVE  /\ at \in 1..(Len(q) + 1)
         /\ \A k \in 1..(at - 1) : q[k] \notin s.floating
         /\ Sorted(q, s.floating) => \A k \in at..Len(q) : q[k] \in s.floating
  <1>1. PICK f, n : f = First(q, s.floating) /\ n = Len(q)
    OBVIOUS
  <1>2. n \in Nat /\ DOMAIN q = 1..n /\ \A i \in 1..n : q[i] \in Clients /\ q[i] \in ToSet(q)
    BY <1>1, EntryFacts
  <1>3. CASE f = None
    <2>1. at = n + 1
      BY <1>1, <1>3 DEF FirstFloating
    <2>2. ToSet(q) \cap s.floating = {}
      <3>1. \A i \in 1..Len(q) : q[i] # None
        BY <1>1, <1>2, DesktopAssumption
      <3>2. None \notin Clients
        BY DesktopAssumption
      <3>3. \/ First(q, s.floating) = None /\ ToSet(q) \cap s.floating = {}
            \/ \E i \in 1..Len(q) : First(q, s.floating) = q[i]
        BY <3>2, FirstFacts
      <3>4. QED BY <1>1, <1>3, <3>1, <3>3
    <2>3. QED BY <2>1, <2>2, <1>1, <1>2
  <1>4. CASE f # None
    <2>1. PICK i \in 1..n : f = q[i] /\ q[i] \in s.floating /\ \A j \in 1..n : q[j] \in s.floating => i <= j
      BY <1>1, <1>4, FirstFacts, DesktopAssumption
    <2>2. f \in ToSet(q)
      BY <2>1, <1>2
    <2>3. at = Position(q, f)
      BY <1>1, <1>4 DEF FirstFloating
    <2>4. at \in 1..n /\ q[at] = f
      BY <2>2, <2>3, <1>1, PositionFacts
    <2>5. at = i
      BY <2>1, <2>4, <1>2 DEF Distinct
    <2>6. \A k \in 1..(at - 1) : q[k] \notin s.floating
      BY <2>1, <2>5, <1>2
    <2>7. ASSUME Sorted(q, s.floating) PROVE \A k \in at..n : q[k] \in s.floating
      BY <2>7, <2>1, <2>5, <1>2 DEF Sorted
    <2>8. QED BY <2>4, <2>6, <2>7, <1>1, <1>2
  <1>5. QED BY <1>3, <1>4

\* In t the list of m is one of the members of X, and still grouped if q was.
Relisted(s, m, X, q, t) ==
  \E e \in Seq(Clients) :
    /\ Enum(e, X)
    /\ Sorted(q, s.floating) => Sorted(e, s.floating)
    /\ t = WithList(s, m, e)

\* Moving a listed client to the end of its group.
LEMMA ReorderForm ==
  ASSUME NEW s \in Desktops, NEW c \in Clients, NEW m \in Monitors, s.mon[c] = m,
         NEW X, Enum(s.list[m], X), c \in X
  PROVE  Relisted(s, m, X, Without(s.list[m], c), reorder_client_in_monitor_groups(s, c))
  <1>1. PICK q, rest : q = s.list[m] /\ rest = Without(s.list[m], c)
    OBVIOUS
  <1>2. q \in Seq(Clients) /\ Enum(q, X) /\ c \in ToSet(q)
    BY <1>1, FieldTypes DEF Enum
  <1>3. rest \in Seq(Clients) /\ Enum(rest, X \ {c})
    BY <1>1, <1>2, WithoutEnum
  <1>4. Distinct(rest) /\ Len(rest) \in Nat
    BY <1>3 DEF Enum
  <1>5. PICK at : at = IF c \in s.floating THEN Len(rest) + 1 ELSE FirstFloating(s, rest)
    OBVIOUS
  <1>6. /\ at \in 1..(Len(rest) + 1)
        /\ c \in s.floating => \A k \in at..Len(rest) : rest[k] \in s.floating
        /\ c \notin s.floating => \A k \in 1..(at - 1) : rest[k] \notin s.floating
    BY <1>3, <1>4, <1>5, FirstFloatingFacts
  <1>7. PICK e : e = InsertAt(rest, at, c)
    OBVIOUS
  <1>8. PICK Y : Y = X \ {c}
    OBVIOUS
  <1>9. c \notin Y /\ Y \cup {c} = X /\ Enum(rest, Y)
    BY <1>3, <1>8
  <1>10. e \in Seq(Clients) /\ Enum(e, Y \cup {c})
    BY <1>3, <1>6, <1>7, <1>9, InsertEnum
  <1>11. ASSUME Sorted(rest, s.floating) PROVE Sorted(e, s.floating)
    BY <1>3, <1>6, <1>7, <1>9, <1>11, InsertSorted
  <1>12. reorder_client_in_monitor_groups(s, c) = WithList(s, m, e)
    <2>1. m # None
      BY DesktopAssumption
    <2>2. QED BY <2>1, <1>1, <1>2, <1>5, <1>7 DEF reorder_client_in_monitor_groups, WithList
  <1>13. Enum(e, X)
    BY <1>9, <1>10
  <1>14. QED BY <1>1, <1>10, <1>11, <1>12, <1>13 DEF Relisted

\* Attaching a client at the end of its group.
LEMMA AttachBackForm ==
  ASSUME NEW s \in Desktops, NEW c \in Clients, NEW m \in Monitors, s.mon[c] = m,
         NEW X, Enum(s.list[m], X), c \notin X
  PROVE  Relisted(s, m, X \cup {c}, s.list[m], attach_back(s, c))
  <1>1. PICK q, r : q = s.list[m] /\ r = Append(q, c)
    OBVIOUS
  <1>2. q \in Seq(Clients) /\ s.list \in [Monitors -> Seq(Clients)]
    BY <1>1, FieldTypes
  <1>3. r \in Seq(Clients) /\ Enum(r, X \cup {c}) /\ Without(r, c) = q
    BY <1>1, <1>2, AppendEnum
  <1>4. PICK t, Y : t = [s EXCEPT !.list[m] = r] /\ Y = X \cup {c}
    OBVIOUS
  <1>5. /\ t \in Desktops /\ t.list = [s.list EXCEPT ![m] = r] /\ t.mon = s.mon
        /\ t.floating = s.floating
    BY <1>3, <1>4 DEF Desktops
  <1>6. t.list[m] = r /\ t.mon[c] = m /\ c \in Y /\ Enum(r, Y)
    BY <1>2, <1>3, <1>4, <1>5
  <1>7. PICK e \in Seq(Clients) :
          /\ Enum(e, Y)
          /\ Sorted(Without(t.list[m], c), t.floating) => Sorted(e, t.floating)
          /\ reorder_client_in_monitor_groups(t, c) = WithList(t, m, e)
    BY <1>5, <1>6, ReorderForm DEF Relisted
  <1>8. attach_back(s, c) = reorder_client_in_monitor_groups(t, c)
    <2>1. m # None
      BY DesktopAssumption
    <2>2. QED BY <2>1, <1>1, <1>4 DEF attach_back
  <1>9. WithList(t, m, e) = WithList(s, m, e)
    BY <1>2, <1>4, <1>5 DEF WithList
  <1>10. attach_back(s, c) = WithList(s, m, e)
    BY <1>7, <1>8, <1>9
  <1>11. Sorted(q, s.floating) => Sorted(e, s.floating)
    BY <1>3, <1>5, <1>6, <1>7
  <1>12. QED BY <1>1, <1>4, <1>7, <1>8, <1>10, <1>11 DEF Relisted

\* A new client enters its monitor's list.
LEMMA AttachNewForm ==
  ASSUME NEW s \in Desktops, NEW c \in Clients, NEW m \in Monitors, s.mon[c] = m,
         NEW X, Enum(s.list[m], X), c \notin X, NEW position
  PROVE  Relisted(s, m, X \cup {c}, s.list[m], attach_new_client(s, c, position))
  <1>1. CASE position = "tail"
    BY <1>1, AttachBackForm DEF attach_new_client
  <1>2. CASE position # "tail"
    <2>1. PICK q, x, start, end, at :
            /\ q = s.list[m] /\ x = s.sel[m]
            /\ start = IF c \in s.floating THEN FirstFloating(s, q) ELSE 1
            /\ end = IF c \in s.floating THEN Len(q) ELSE FirstFloating(s, q) - 1
            /\ at = IF /\ position = "after_focused"
                       /\ x \in ToSet(q)
                       /\ (x \in s.floating) = (c \in s.floating)
                       /\ Position(q, x) \in start .. end
                    THEN Position(q, x) + 1 ELSE start
      OBVIOUS
    <2>2. q \in Seq(Clients) /\ Enum(q, X) /\ Distinct(q)
      BY <2>1, FieldTypes DEF Enum
    <2>3. attach_new_client(s, c, position) = WithList(s, m, InsertAt(q, at, c))
      <3>1. m # None
        BY DesktopAssumption
      <3>2. new_client_insert_index(s, c, position) = at
        BY <2>1 DEF new_client_insert_index
      <3>3. QED BY <3>1, <3>2, <1>2, <2>1 DEF attach_new_client, WithList
    <2>4. /\ at \in 1..(Len(q) + 1)
          /\ Sorted(q, s.floating) =>
               /\ c \in s.floating => \A k \in at..Len(q) : q[k] \in s.floating
               /\ c \notin s.floating => \A k \in 1..(at - 1) : q[k] \notin s.floating
      <3>1. Len(q) \in Nat /\ DOMAIN q = 1..Len(q)
        BY <2>2
      <3>2. CASE at = start
        <4>1. CASE c \in s.floating
          <5>1. at = FirstFloating(s, q)
            BY <2>1, <3>2, <4>1
          <5>2. QED BY <5>1, <4>1, <2>2, FirstFloatingFacts
        <4>2. CASE c \notin s.floating
          <5>1. at = 1
            BY <2>1, <3>2, <4>2
          <5>2. QED BY <5>1, <4>2, <3>1
        <4>3. QED BY <4>1, <4>2
      <3>3. CASE at # start
        <4>1. /\ at = Position(q, x) + 1 /\ x \in ToSet(q)
              /\ (x \in s.floating) = (c \in s.floating)
          BY <2>1, <3>3
        <4>2. PICK p \in 1..Len(q) : q[p] = x /\ at = p + 1
          BY <4>1, <2>2, PositionFacts
        <4>3. at \in 1..(Len(q) + 1)
          BY <4>2, <3>1
        <4>4. ASSUME Sorted(q, s.floating) PROVE \A i, j \in 1..Len(q) : i < j /\ q[i] \in s.floating => q[j] \in s.floating
          BY <4>4, <3>1 DEF Sorted
        <4>5. ASSUME Sorted(q, s.floating), c \in s.floating, NEW k \in at..Len(q)
              PROVE  q[k] \in s.floating
          <5>1. k \in 1..Len(q) /\ p < k
            BY <4>2, <3>1
          <5>2. q[p] \in s.floating
            BY <4>1, <4>2, <4>5
          <5>3. QED BY <5>1, <5>2, <4>4, <4>5
        <4>6. ASSUME Sorted(q, s.floating), c \notin s.floating, NEW k \in 1..(at - 1)
              PROVE  q[k] \notin s.floating
          <5>1. k \in 1..Len(q) /\ (k < p \/ k = p)
            BY <4>2, <3>1
          <5>2. q[p] \notin s.floating
            BY <4>1, <4>2, <4>6
          <5>3. QED BY <5>1, <5>2, <4>4, <4>6
        <4>7. QED BY <4>3, <4>5, <4>6
      <3>4. QED BY <3>2, <3>3
    <2>5. PICK e : e = InsertAt(q, at, c)
      OBVIOUS
    <2>6. e \in Seq(Clients) /\ Enum(e, X \cup {c})
      BY <2>2, <2>4, <2>5, InsertEnum
    <2>7. ASSUME Sorted(q, s.floating) PROVE Sorted(e, s.floating)
      BY <2>2, <2>4, <2>5, <2>7, InsertSorted
    <2>8. QED BY <2>1, <2>3, <2>5, <2>6, <2>7 DEF Relisted
  <1>3. QED BY <1>1, <1>2

\* The grouping, list by list.
LEMMA GroupedForm ==
  ASSUME NEW s
  PROVE  Grouped(s) <=> \A m \in Monitors : Sorted(s.list[m], s.floating)
  BY DEF Grouped, Sorted

------------------------------------------------------------------------------
(* New windows *)

\* A window stays in view when what decides on it stays.
LEMMA FocusableKept ==
  ASSUME NEW s, NEW u, NEW x \in Focusable(s), u.mon[x] = s.mon[x], u.tags[x] = s.tags[x],
         x \in ToSet(s.order) => x \in ToSet(u.order), x \in u.hidden => x \in s.hidden,
         x \in s.sticky => x \in u.sticky, u.view[s.mon[x]] = s.view[s.mon[x]]
  PROVE  x \in Focusable(u)
  BY DEF Focusable, is_client_visible_by_key, is_client_visible_on_monitor, Managed

\* Monitor m gets the stack e.
WithStack(s, m, e) == [s EXCEPT !.stack[m] = e]

\* Only the stack of one monitor is new.
LEMMA WithStackFacts ==
  ASSUME NEW s \in Desktops, NEW m \in Monitors, NEW e \in Seq(Clients), NEW t, t = WithStack(s, m, e)
  PROVE  /\ t \in Desktops /\ t.stack = [s.stack EXCEPT ![m] = e] /\ t.order = s.order
         /\ t.mon = s.mon /\ t.tags = s.tags /\ t.floating = s.floating /\ t.sticky = s.sticky
         /\ t.hidden = s.hidden /\ t.list = s.list /\ t.mons = s.mons /\ t.sel = s.sel
         /\ t.pertag = s.pertag /\ t.view = s.view /\ t.cur = s.cur /\ t.selmon = s.selmon
         /\ t.locked = s.locked
  BY DEF WithStack, Desktops

\* A client joins the stack of its monitor.
LEMMA AttachStackForm ==
  ASSUME NEW s \in Desktops, NEW c \in Clients, NEW m \in Monitors, s.mon[c] = m,
         NEW X, Enum(s.stack[m], X), c \notin X
  PROVE  \E e \in Seq(Clients) : /\ Enum(e, X \cup {c})
                                /\ attachstack(s, c) = WithStack(s, m, e)
  <1>1. s.stack[m] \in Seq(Clients)
    BY FieldTypes
  <1>2. PICK e : e = <<c>> \o s.stack[m]
    OBVIOUS
  <1>3. e \in Seq(Clients) /\ Enum(e, X \cup {c})
    BY <1>1, <1>2, ConsEnum
  <1>4. attachstack(s, c) = WithStack(s, m, e)
    BY <1>2, DesktopAssumption DEF attachstack, WithStack
  <1>5. QED BY <1>3, <1>4

\* New order, monitors, tags and floating group.
Filled(s, o, p, g, F) == [s EXCEPT !.order = o, !.mon = p, !.tags = g, !.floating = F]

\* Only these are new.
LEMMA FilledFacts ==
  ASSUME NEW s \in Desktops, NEW o \in Seq(Clients), NEW p \in [Clients -> Monitors \cup {None}],
         NEW g \in [Clients -> SUBSET Tags], NEW F \in SUBSET Clients,
         NEW t, t = Filled(s, o, p, g, F)
  PROVE  /\ t \in Desktops /\ t.order = o /\ t.mon = p
         /\ t.tags = g /\ t.floating = F /\ t.sticky = s.sticky
         /\ t.hidden = s.hidden /\ t.list = s.list /\ t.stack = s.stack /\ t.mons = s.mons
         /\ t.sel = s.sel /\ t.pertag = s.pertag /\ t.view = s.view /\ t.cur = s.cur
         /\ t.selmon = s.selmon /\ t.locked = s.locked
  BY DEF Filled, Desktops

\* A client's record is entered before it is attached.
Entered(s, c, m, T, F) ==
  [s EXCEPT !.order = Append(@, c), !.mon[c] = m, !.tags[c] = T, !.floating = F]

\* The desktop t after that.
HasEntered(s, c, m, T, F, t) ==
  /\ t \in Desktops /\ t.order = Append(s.order, c) /\ t.mon = [s.mon EXCEPT ![c] = m]
  /\ t.tags = [s.tags EXCEPT ![c] = T] /\ t.floating = F /\ t.sticky = s.sticky
  /\ t.hidden = s.hidden /\ t.list = s.list /\ t.stack = s.stack /\ t.mons = s.mons
  /\ t.sel = s.sel /\ t.pertag = s.pertag /\ t.view = s.view /\ t.cur = s.cur
  /\ t.selmon = s.selmon /\ t.locked = s.locked
  /\ Distinct(t.order) /\ ToSet(t.order) = ToSet(s.order) \cup {c}

\* Only that record is new.
LEMMA EnteredFacts ==
  ASSUME NEW s \in Desktops, NEW c \in Clients, c \notin ToSet(s.order), Distinct(s.order),
         NEW m \in Monitors \cup {None}, NEW T \in SUBSET Tags, NEW F \in SUBSET Clients
  PROVE  HasEntered(s, c, m, T, F, Entered(s, c, m, T, F))
  <1>1. PICK o, t : o = Append(s.order, c) /\ t = Entered(s, c, m, T, F)
    OBVIOUS
  <1>2. o \in Seq(Clients) /\ Enum(o, ToSet(s.order) \cup {c})
    BY <1>1, AppendEnum, FieldTypes DEF Enum
  <1>3. o \in Seq(Clients)
    BY <1>2
  <1>4. PICK p, g : p = [s.mon EXCEPT ![c] = m] /\ g = [s.tags EXCEPT ![c] = T]
    OBVIOUS
  <1>5. p \in [Clients -> Monitors \cup {None}] /\ g \in [Clients -> SUBSET Tags]
    BY <1>4, FieldTypes
  <1>6. t = Filled(s, o, p, g, F)
    BY <1>1, <1>4 DEF Entered, Filled
  <1>7. /\ t \in Desktops /\ t.order = o /\ t.mon = p
        /\ t.tags = g /\ t.floating = F /\ t.sticky = s.sticky
        /\ t.hidden = s.hidden /\ t.list = s.list /\ t.stack = s.stack /\ t.mons = s.mons
        /\ t.sel = s.sel /\ t.pertag = s.pertag /\ t.view = s.view /\ t.cur = s.cur
        /\ t.selmon = s.selmon /\ t.locked = s.locked
    BY <1>3, <1>5, <1>6, FilledFacts
  <1>8. Distinct(t.order) /\ ToSet(t.order) = ToSet(s.order) \cup {c}
    BY <1>2, <1>7 DEF Enum
  <1>9. QED BY <1>1, <1>4, <1>7, <1>8 DEF HasEntered

\* Where a new client may go.
Home(s, m) == IF s.mons = <<>> THEN m = None ELSE m \in ToSet(s.mons)

\* A client is selected on no monitor but its own, unless it is a bar.
LEMMA CoreUnselected ==
  ASSUME NEW s, Core(s), NEW c \in Clients, NEW m \in Monitors, s.mon[c] # m
  PROVE  (s.sel[m] # c \/ c \in Docks) /\ \A i \in 0..TagCount : s.pertag[m][i] # c
  <1>1. s \in Desktops /\ Selected(s.sel, s.pertag, s.mon) /\ c # None
    BY DesktopAssumption DEF Core
  <1>2. QED BY <1>1 DEF Selected

\* The desktop a with c newly admitted to monitor m of s.
Joined(s, a, c, m) ==
  /\ a.order = Append(s.order, c) /\ ToSet(a.order) = ToSet(s.order) \cup {c}
  /\ a.mon = [s.mon EXCEPT ![c] = m]
  /\ \A d \in Clients \ {c} : a.tags[d] = s.tags[d] /\ (d \in a.floating <=> d \in s.floating)
  /\ c \in Docks => c \in a.floating
  /\ a.sticky = s.sticky /\ a.hidden = s.hidden /\ a.mons = s.mons /\ a.sel = s.sel
  /\ a.pertag = s.pertag /\ a.view = s.view /\ a.cur = s.cur /\ a.selmon = s.selmon
  /\ a.locked = s.locked

\* Admitting a client keeps the invariant, the grouping and what is in view.
LEMMA AdmittedFacts ==
  ASSUME NEW s, Core(s), NEW c \in Clients, c \notin ToSet(s.order), NEW m, Home(s, m),
         NEW mask \in SUBSET Tags, NEW floats, NEW position,
         NEW a, a = Admitted(s, c, m, mask, floats, position)
  PROVE  Core(a) /\ Joined(s, a, c, m) /\ (Grouped(s) => Grouped(a))
  <1>1. /\ s \in Desktops /\ Placed(s.order, s.mon, s.mons) /\ Listed(s.list, s.mon)
        /\ Listed(s.stack, s.mon) /\ Selected(s.sel, s.pertag, s.mon) /\ Distinct(s.order)
        /\ s.floating \cup s.sticky \cup s.hidden \subseteq ToSet(s.order)
    BY DEF Core, Placed
  <1>2. /\ s.mons \in Seq(Monitors) /\ s.mon \in [Clients -> Monitors \cup {None}]
        /\ s.list \in [Monitors -> Seq(Clients)] /\ s.stack \in [Monitors -> Seq(Clients)]
        /\ s.sel \in [Monitors -> Clients \cup {None}] /\ s.tags \in [Clients -> SUBSET Tags]
        /\ s.pertag \in [Monitors -> [0..TagCount -> Clients \cup {None}]]
        /\ s.floating \in SUBSET Clients
    BY <1>1, FieldTypes
  <1>3. m \in Monitors \cup {None} /\ (m # None => m \in Monitors)
    BY <1>2, EntryFacts DEF Home
  <1>4. PICK T, F : /\ T = IF c \in Docks THEN Tags ELSE mask
                    /\ F = IF floats \/ c \in Docks THEN s.floating \cup {c} ELSE s.floating
    OBVIOUS
  <1>5. /\ T \in SUBSET Tags /\ F \in SUBSET Clients /\ F \subseteq s.floating \cup {c}
        /\ s.floating \subseteq F /\ (c \in Docks => c \in F)
    BY <1>2, <1>4
  <1>6. PICK t : t = Entered(s, c, m, T, F)
    OBVIOUS
  <1>7. /\ t \in Desktops /\ t.order = Append(s.order, c) /\ t.mon = [s.mon EXCEPT ![c] = m]
        /\ t.tags = [s.tags EXCEPT ![c] = T] /\ t.floating = F /\ t.sticky = s.sticky
        /\ t.hidden = s.hidden /\ t.list = s.list /\ t.stack = s.stack /\ t.mons = s.mons
        /\ t.sel = s.sel /\ t.pertag = s.pertag /\ t.view = s.view /\ t.cur = s.cur
        /\ t.selmon = s.selmon /\ t.locked = s.locked
        /\ Distinct(t.order) /\ ToSet(t.order) = ToSet(s.order) \cup {c}
    <2>1. s \in Desktops /\ Distinct(s.order)
      BY <1>1
    <2>2. T \in SUBSET Tags /\ F \in SUBSET Clients
      BY <1>5
    <2>3. HasEntered(s, c, m, T, F, t)
      BY <2>1, <2>2, <1>3, <1>6, EnteredFacts
    <2>4. QED BY <2>3 DEF HasEntered
  <1>8. a = attachstack(attach_new_client(t, c, position), c)
    BY <1>4, <1>6 DEF Admitted, Entered
  <1>9. s.mon[c] = None /\ t.mon[c] = m
    BY <1>1, <1>2, <1>7 DEF Placed
  <1>10. Placed(t.order, t.mon, t.mons)
    <2>1. Distinct(t.mons)
      BY <1>1, <1>7 DEF Placed
    <2>2. ASSUME NEW d \in Clients
          PROVE  IF d \in ToSet(t.order) /\ t.mons # <<>> THEN t.mon[d] \in ToSet(t.mons)
                                                        ELSE t.mon[d] = None
      <3>1. CASE d = c
        BY <3>1, <1>7, <1>9 DEF Home
      <3>2. CASE d # c
        <4>1. t.mon[d] = s.mon[d]
          BY <3>2, <1>2, <1>7
        <4>2. QED BY <4>1, <3>2, <1>1, <1>7 DEF Placed
      <3>3. QED BY <3>1, <3>2
    <2>3. QED BY <2>1, <2>2, <1>7 DEF Placed
  <1>11. Selected(s.sel, s.pertag, t.mon)
    <2>1. \A n \in Monitors : s.mon[c] # n
      BY <1>9, DesktopAssumption
    <2>2. /\ \A n \in Monitors : s.sel[n] # c \/ c \in Docks
          /\ \A n \in Monitors, i \in 0..TagCount : s.pertag[n][i] # c
      <3>1. ASSUME NEW n \in Monitors
            PROVE  (s.sel[n] # c \/ c \in Docks) /\ \A i \in 0..TagCount : s.pertag[n][i] # c
        BY <2>1, CoreUnselected
      <3>2. QED BY <3>1
    <2>3. \A d \in Clients \ {c} : t.mon[d] = s.mon[d]
      BY <1>2, <1>7
    <2>4. QED BY <2>2, <2>3, <1>1, <1>2, SelectedMoved
  <1>12. t.floating \cup t.sticky \cup t.hidden \subseteq ToSet(t.order)
    BY <1>1, <1>5, <1>7
  <1>13. \A d \in Clients \ {c} : t.tags[d] = s.tags[d] /\ (d \in t.floating <=> d \in s.floating)
    BY <1>2, <1>5, <1>7
  <1>14. CASE m = None
    <2>1. a = t
      <3>1. t.mon[c] = None
        BY <1>9, <1>14
      <3>2. attach_new_client(t, c, position) = t
        BY <3>1 DEF attach_new_client, attach_back
      <3>3. QED BY <3>1, <3>2, <1>8 DEF attachstack
    <2>2. t.mon = s.mon
      <3>1. [s.mon EXCEPT ![c] = None] = s.mon
        BY <1>2, <1>9
      <3>2. QED BY <3>1, <1>7, <1>14
    <2>3. Core(a)
      BY <2>1, <2>2, <1>7, <1>10, <1>12 DEF Core
    <2>4. Joined(s, a, c, m)
      BY <2>1, <1>5, <1>7, <1>13 DEF Joined
    <2>5. ASSUME Grouped(s) PROVE Grouped(a)
      <3>1. ASSUME NEW n \in Monitors PROVE Sorted(a.list[n], a.floating)
        <4>1. s.list[n] \in Seq(Clients) /\ ToSet(s.list[n]) = Owned(s.mon, n) /\ Sorted(s.list[n], s.floating)
          BY <1>1, <1>2, <2>5, GroupedForm DEF Listed, Enum
        <4>2. c \notin Owned(s.mon, n)
          BY <1>9, DesktopAssumption DEF Owned
        <4>3. \A x \in ToSet(s.list[n]) : x \in s.floating <=> x \in a.floating
          BY <4>1, <4>2, <2>1, <1>13, EntryFacts
        <4>4. QED BY <4>1, <4>3, <2>1, <1>7, SortedAgree
      <3>2. QED BY <3>1, GroupedForm
    <2>6. QED BY <2>3, <2>4, <2>5
  <1>15. CASE m # None
    <2>1. PICK X : X = Owned(s.mon, m)
      OBVIOUS
    <2>2. m \in Monitors /\ c \notin X /\ Enum(t.list[m], X) /\ Enum(t.stack[m], X)
      BY <1>1, <1>3, <1>7, <1>9, <1>15, <2>1 DEF Listed, Owned
    <2>3. PICK e \in Seq(Clients) :
            /\ Enum(e, X \cup {c})
            /\ Sorted(t.list[m], t.floating) => Sorted(e, t.floating)
            /\ attach_new_client(t, c, position) = WithList(t, m, e)
      <3>1. t \in Desktops /\ t.mon[c] = m
        BY <1>7, <1>9
      <3>2. Relisted(t, m, X \cup {c}, t.list[m], attach_new_client(t, c, position))
        BY <2>2, <3>1, AttachNewForm
      <3>3. QED BY <3>2 DEF Relisted
    <2>4. PICK b, h : b = WithList(t, m, e) /\ h = [s.list EXCEPT ![m] = e]
      OBVIOUS
    <2>5. /\ b \in Desktops /\ b.list = h /\ b.order = t.order
          /\ b.mon = t.mon /\ b.tags = t.tags /\ b.floating = t.floating /\ b.sticky = t.sticky
          /\ b.hidden = t.hidden /\ b.stack = t.stack /\ b.mons = t.mons /\ b.sel = t.sel
          /\ b.pertag = t.pertag /\ b.view = t.view /\ b.cur = t.cur /\ b.selmon = t.selmon
          /\ b.locked = t.locked
      BY <2>2, <2>3, <2>4, <1>7, WithListFacts
    <2>6. a = attachstack(b, c) /\ b.mon[c] = m /\ Enum(b.stack[m], X)
      BY <2>2, <2>3, <2>4, <2>5, <1>8, <1>9
    <2>6a. PICK g \in Seq(Clients) : Enum(g, X \cup {c}) /\ a = WithStack(b, m, g)
      <3>1. b \in Desktops
        BY <2>5
      <3>2. \E g \in Seq(Clients) : Enum(g, X \cup {c}) /\ attachstack(b, c) = WithStack(b, m, g)
        BY <3>1, <2>2, <2>6, AttachStackForm
      <3>3. QED BY <3>2, <2>6
    <2>7. /\ a \in Desktops /\ a.stack = [b.stack EXCEPT ![m] = g] /\ a.order = b.order
          /\ a.mon = b.mon /\ a.tags = b.tags /\ a.floating = b.floating /\ a.sticky = b.sticky
          /\ a.hidden = b.hidden /\ a.list = b.list /\ a.mons = b.mons /\ a.sel = b.sel
          /\ a.pertag = b.pertag /\ a.view = b.view /\ a.cur = b.cur /\ a.selmon = b.selmon
          /\ a.locked = b.locked
      <3>1. b \in Desktops
        BY <2>5
      <3>2. QED BY <3>1, <2>2, <2>6a, WithStackFacts
    <2>8. Listed(h, t.mon) /\ Listed(a.stack, t.mon)
      <3>1. Enum(e, Owned(s.mon, m) \cup {c}) /\ Enum(g, Owned(s.mon, m) \cup {c})
        BY <2>1, <2>3, <2>6a
      <3>2. a.stack = [s.stack EXCEPT ![m] = g]
        BY <1>7, <2>5, <2>7
      <3>3. Listed([s.list EXCEPT ![m] = e], [s.mon EXCEPT ![c] = m])
        BY <3>1, <2>2, <2>3, <1>1, <1>2, <1>9, ListedPut
      <3>4. Listed([s.stack EXCEPT ![m] = g], [s.mon EXCEPT ![c] = m])
        BY <3>1, <2>2, <2>6a, <1>1, <1>2, <1>9, ListedPut
      <3>5. QED BY <3>2, <3>3, <3>4, <2>4, <1>7
    <2>9. Core(a)
      BY <2>5, <2>7, <2>8, <1>7, <1>10, <1>11, <1>12 DEF Core
    <2>10. Joined(s, a, c, m)
      BY <2>5, <2>7, <1>5, <1>7, <1>13 DEF Joined
    <2>11. ASSUME Grouped(s) PROVE Grouped(a)
      <3>1. ASSUME NEW n \in Monitors PROVE Sorted(s.list[n], t.floating)
        <4>1. s.list[n] \in Seq(Clients) /\ ToSet(s.list[n]) = Owned(s.mon, n) /\ Sorted(s.list[n], s.floating)
          BY <1>1, <1>2, <2>11, GroupedForm DEF Listed, Enum
        <4>2. c \notin Owned(s.mon, n)
          BY <1>9, DesktopAssumption DEF Owned
        <4>3. \A x \in ToSet(s.list[n]) : x \in s.floating <=> x \in t.floating
          BY <4>1, <4>2, <1>13, EntryFacts
        <4>4. QED BY <4>1, <4>3, SortedAgree
      <3>2. ASSUME NEW n \in Monitors PROVE Sorted(a.list[n], a.floating)
        <4>1. CASE n = m
          <5>1. a.list[n] = e
            BY <4>1, <2>2, <2>4, <2>5, <2>7, <1>2
          <5>2. QED BY <5>1, <3>1, <2>2, <2>3, <2>5, <2>7, <1>7
        <4>2. CASE n # m
          <5>1. a.list[n] = s.list[n]
            BY <4>2, <2>2, <2>4, <2>5, <2>7, <1>2
          <5>2. QED BY <5>1, <3>1, <2>5, <2>7
        <4>3. QED BY <4>1, <4>2
      <3>3. QED BY <3>2, GroupedForm
    <2>12. QED BY <2>9, <2>10, <2>11
  <1>16. QED BY <1>14, <1>15

------------------------------------------------------------------------------
(* Focus moves in the middle of a handler *)

\* No shade covers the selected monitor.
Clear(s) == s.selmon = None \/ ~is_locked(s, s.selmon)

\* u is s after a focus command.
FocusDone(s, u) ==
  /\ Core(u) /\ Anchored(u) /\ Refocused(s, u)
  /\ Clear(s) => Seen(u)

\* u is s with other selections.
Moved(s, u) ==
  /\ Core(u) /\ Refocused(s, u)
  /\ Anchored(s) => Anchored(u)
  /\ Clear(s) => Clear(u)

\* A focus command is one.
LEMMA FocusIsDone ==
  ASSUME NEW s, Core(s), NEW c
  PROVE  FocusDone(s, focus(s, c))
  BY FocusFacts DEF FocusDone, Clear

\* A selection in view is not behind a shade, and focus keeps it so.
LEMMA MovedByFocus ==
  ASSUME NEW s, NEW u, FocusDone(s, u)
  PROVE  Moved(s, u)
  BY DEF FocusDone, Moved, Clear, Seen

\* Changes of selections add up.
LEMMA RefocusedTwice ==
  ASSUME NEW s, NEW t, NEW u, Refocused(s, t), Refocused(t, u)
  PROVE  Refocused(s, u)
  BY DEF Refocused

\* A focus command after a change of selections.
LEMMA FocusAfter ==
  ASSUME NEW s, NEW t, Moved(s, t), NEW c
  PROVE  FocusDone(s, focus(t, c))
  <1>1. FocusDone(t, focus(t, c))
    BY FocusIsDone DEF Moved
  <1>2. Refocused(s, focus(t, c))
    BY <1>1, RefocusedTwice DEF Moved, FocusDone
  <1>3. QED BY <1>1, <1>2 DEF Moved, FocusDone

\* The selected monitor changes.
LEMMA SelectMonitor ==
  ASSUME NEW s, Core(s), NEW m \in ToSet(s.mons), NEW u, u = [s EXCEPT !.selmon = m]
  PROVE  /\ Core(u) /\ Refocused(s, u) /\ u.selmon = m
         /\ u.stack = s.stack /\ u.sel = s.sel /\ u.pertag = s.pertag
  <1>1. s \in Desktops /\ m \in Monitors /\ m # None /\ s.mons # <<>>
    <2>1. s \in Desktops /\ s.mons \in Seq(Monitors)
      BY FieldTypes DEF Core
    <2>2. m \in Monitors
      BY <2>1, EntryFacts
    <2>3. QED BY <2>1, <2>2, DesktopAssumption DEF ToSet
  <1>2. /\ u \in Desktops /\ Refocused(s, u) /\ u.selmon = m
        /\ u.stack = s.stack /\ u.sel = s.sel /\ u.pertag = s.pertag
    BY <1>1 DEF Desktops, Refocused
  <1>3. Chosen(s.mons, u.selmon)
    BY <1>1, <1>2 DEF Chosen
  <1>4. Listed(u.stack, s.mon) /\ Selected(u.sel, u.pertag, s.mon)
    BY <1>2 DEF Core
  <1>5. Core(u)
    BY <1>2, <1>3, <1>4, RefocusedCore
  <1>6. QED BY <1>2, <1>5

\* A monitor selects one of its windows.
LEMMA SelectWindow ==
  ASSUME NEW s, Core(s), NEW m \in Monitors, NEW c \in Clients, s.mon[c] = m,
         NEW u, u = [s EXCEPT !.sel[m] = c]
  PROVE  Moved(s, u) /\ u.selmon = s.selmon
  <1>1. s \in Desktops /\ s.sel \in [Monitors -> Clients \cup {None}] /\ Selected(s.sel, s.pertag, s.mon)
    BY FieldTypes DEF Core
  <1>2. PICK y : y = [s.sel EXCEPT ![m] = c]
    OBVIOUS
  <1>3. y \in [Monitors -> Clients \cup {None}] /\ Selected(y, s.pertag, s.mon)
    BY <1>1, <1>2, SelectedSet
  <1>4. u = [s EXCEPT !.sel = y]
    BY <1>2
  <1>5. /\ u \in Desktops /\ Refocused(s, u) /\ u.selmon = s.selmon
        /\ u.stack = s.stack /\ u.sel = y /\ u.pertag = s.pertag
    BY <1>1, <1>3, <1>4 DEF Desktops, Refocused
  <1>6. Listed(u.stack, s.mon) /\ Selected(u.sel, u.pertag, s.mon) /\ Chosen(s.mons, u.selmon)
    BY <1>3, <1>5 DEF Core
  <1>7. Core(u)
    BY <1>5, <1>6, RefocusedCore
  <1>8. ASSUME Anchored(s) PROVE Anchored(u)
    <2>1. SUFFICES ASSUME s.selmon # None
                   PROVE  y[s.selmon] = None \/ s.mon[y[s.selmon]] = s.selmon
      BY <1>5 DEF Anchored, Refocused
    <2>2. s.selmon \in Monitors
      BY <1>1, <2>1, FieldTypes
    <2>3. CASE s.selmon = m
      <3>1. y[s.selmon] = c
        BY <2>3, <1>1, <1>2
      <3>2. QED BY <3>1, <2>3
    <2>4. CASE s.selmon # m
      <3>1. y[s.selmon] = s.sel[s.selmon]
        BY <2>2, <2>4, <1>1, <1>2
      <3>2. QED BY <3>1, <2>1, <1>8 DEF Anchored
    <2>5. QED BY <2>3, <2>4
  <1>9. Clear(s) => Clear(u)
    BY <1>5 DEF Clear, Refocused, is_locked
  <1>10. QED BY <1>5, <1>7, <1>8, <1>9 DEF Moved

\* Selecting another monitor, and one of its windows.
LEMMA SwitchIsMove ==
  ASSUME NEW s, Core(s), NEW m \in ToSet(s.mons), NEW c
  PROVE  /\ Moved(s, switch_monitor_focusing(s, m, c))
         /\ ~is_locked(s, m) => FocusDone(s, switch_monitor_focusing(s, m, c))
         /\ ~is_locked(s, m) => Seen(switch_monitor_focusing(s, m, c))
  <1>1. CASE is_locked(s, m)
    <2>1. switch_monitor_focusing(s, m, c) = s
      BY <1>1 DEF switch_monitor_focusing
    <2>2. QED BY <1>1, <2>1 DEF Moved, Refocused
  <1>2. CASE ~is_locked(s, m)
    <2>1. PICK t : t = [s EXCEPT !.selmon = m]
      OBVIOUS
    <2>2. Core(t) /\ Refocused(s, t) /\ t.selmon = m
      BY <2>1, SelectMonitor
    <2>3. Clear(t)
      BY <1>2, <2>2 DEF Clear, Refocused, is_locked
    <2>4. PICK u : u = focus(t, c)
      OBVIOUS
    <2>5. FocusDone(t, u)
      BY <2>2, <2>4, FocusIsDone
    <2>6. Seen(u) /\ Core(u) /\ Anchored(u) /\ Refocused(s, u)
      BY <2>2, <2>3, <2>5, RefocusedTwice DEF FocusDone
    <2>7. FocusDone(s, u)
      BY <2>6 DEF FocusDone
    <2>8. switch_monitor_focusing(s, m, c) = u
      BY <1>2, <2>1, <2>4 DEF switch_monitor_focusing
    <2>9. QED BY <2>6, <2>7, <2>8, MovedByFocus
  <1>3. QED BY <1>1, <1>2

\* A mapped window asks for attention: what is in view stays so, unless nothing
\* was selected.
LEMMA NewClientFocusFacts ==
  ASSUME NEW s, Core(s), NEW c \in Clients, Home(s, s.mon[c]),
         NEW popup \in BOOLEAN, NEW takes \in BOOLEAN, NEW follows \in BOOLEAN,
         NEW u, u = handle_new_client_focus(s, c, popup, takes, follows)
  PROVE  /\ Moved(s, u)
         /\ Seen(s) => Seen(u) \/ get_selected_client_key(s) = None
  <1>1. PICK m, prev, t : /\ m = s.mon[c] /\ prev = get_selected_client_key(s)
                          /\ t = IF popup \/ m = None THEN s ELSE [s EXCEPT !.sel[m] = c]
    OBVIOUS
  <1>2. m # None => m \in Monitors /\ m \in ToSet(s.mons)
    <2>1. s.mons \in Seq(Monitors)
      BY FieldTypes DEF Core
    <2>2. QED BY <2>1, <1>1, EntryFacts DEF Home
  <1>3. Moved(s, s)
    BY DEF Moved, Refocused
  <1>4. Moved(s, t) /\ t.selmon = s.selmon
    <2>1. CASE popup \/ m = None
      BY <2>1, <1>1, <1>3
    <2>2. CASE ~(popup \/ m = None)
      <3>1. t = [s EXCEPT !.sel[m] = c]
        BY <2>2, <1>1
      <3>2. QED BY <3>1, <2>2, <1>1, <1>2, SelectWindow
    <2>3. QED BY <2>1, <2>2
  <1>5. Seen(s) => Clear(s)
    BY DEF Seen, Clear
  <1>6. \A x : Moved(s, focus(t, x)) /\ (Seen(s) => Seen(focus(t, x)))
    <2>1. ASSUME NEW x PROVE FocusDone(s, focus(t, x))
      BY <1>4, FocusAfter
    <2>2. ASSUME NEW x PROVE Moved(s, focus(t, x)) /\ (Seen(s) => Seen(focus(t, x)))
      BY <2>1, <1>5, MovedByFocus DEF FocusDone
    <2>3. QED BY <2>2
  <1>7. /\ Moved(s, FocusAgain(t, prev))
        /\ Seen(s) => Seen(FocusAgain(t, prev)) \/ prev = None
    BY <1>4, <1>6 DEF FocusAgain
  <1>8. CASE u = FocusAgain(t, prev)
    BY <1>8, <1>7, <1>1
  <1>9. CASE u = focus(t, c)
    BY <1>9, <1>6
  <1>10. CASE m = None /\ u = t
    <2>1. t = s
      BY <1>10, <1>1
    <2>2. QED BY <2>1, <1>3, <1>10
  <1>11. CASE m # None /\ u = focus(switch_monitor_focusing(t, m, None), c)
    <2>1. PICK w : w = switch_monitor_focusing(t, m, None)
      OBVIOUS
    <2>2. m \in ToSet(t.mons) /\ Core(t)
      BY <1>2, <1>4, <1>11 DEF Moved, Refocused
    <2>3. Moved(t, w)
      BY <2>1, <2>2, SwitchIsMove
    <2>4. Moved(s, w)
      <3>1. Refocused(s, w)
        BY <2>3, <1>4, RefocusedTwice DEF Moved
      <3>2. QED BY <3>1, <2>3, <1>4 DEF Moved
    <2>5. FocusDone(s, u)
      BY <2>1, <2>4, <1>11, FocusAfter
    <2>6. QED BY <2>5, <1>5, MovedByFocus DEF FocusDone
  <1>12. QED BY <1>1, <1>8, <1>9, <1>10, <1>11 DEF handle_new_client_focus

------------------------------------------------------------------------------
(* Flags and tags *)

\* New flags and tags.
Flagged(s, F, S, H, g) == [s EXCEPT !.floating = F, !.sticky = S, !.hidden = H, !.tags = g]

\* u is s with these flags and tags.
Reflagged(s, F, S, H, g, u) ==
  /\ Core(u) /\ (Anchored(s) => Anchored(u))
  /\ u.floating = F /\ u.sticky = S /\ u.hidden = H /\ u.tags = g
  /\ u.order = s.order /\ u.mon = s.mon /\ u.list = s.list /\ u.stack = s.stack
  /\ u.mons = s.mons /\ u.sel = s.sel /\ u.pertag = s.pertag /\ u.view = s.view
  /\ u.cur = s.cur /\ u.selmon = s.selmon /\ u.locked = s.locked

\* Flags and tags may be anything that only names managed clients.
LEMMA FlaggedFacts ==
  ASSUME NEW s, Core(s), NEW F \in SUBSET ToSet(s.order), NEW S \in SUBSET ToSet(s.order),
         NEW H \in SUBSET ToSet(s.order), NEW g \in [Clients -> SUBSET Tags]
  PROVE  Reflagged(s, F, S, H, g, Flagged(s, F, S, H, g))
  <1>1. PICK u : u = Flagged(s, F, S, H, g)
    OBVIOUS
  <1>2. s \in Desktops /\ ToSet(s.order) \subseteq Clients
    BY FieldTypes, EntryFacts DEF Core
  <1>3. F \in SUBSET Clients /\ S \in SUBSET Clients /\ H \in SUBSET Clients
    BY <1>2
  <1>4. /\ u \in Desktops /\ u.floating = F /\ u.sticky = S /\ u.hidden = H /\ u.tags = g
        /\ u.order = s.order /\ u.mon = s.mon /\ u.list = s.list /\ u.stack = s.stack
        /\ u.mons = s.mons /\ u.sel = s.sel /\ u.pertag = s.pertag /\ u.view = s.view
        /\ u.cur = s.cur /\ u.selmon = s.selmon /\ u.locked = s.locked
    BY <1>1, <1>2, <1>3 DEF Flagged, Desktops
  <1>5. Core(u)
    BY <1>4 DEF Core
  <1>6. Anchored(s) => Anchored(u)
    BY <1>4 DEF Anchored
  <1>7. QED BY <1>1, <1>4, <1>5, <1>6 DEF Reflagged

\* The flags of a desktop name managed clients.
LEMMA FlagTypes ==
  ASSUME NEW s, Core(s)
  PROVE  /\ s \in Desktops /\ ToSet(s.order) \subseteq Clients
         /\ s.floating \in SUBSET ToSet(s.order) /\ s.sticky \in SUBSET ToSet(s.order)
         /\ s.hidden \in SUBSET ToSet(s.order) /\ s.tags \in [Clients -> SUBSET Tags]
  BY FieldTypes, EntryFacts DEF Core

\* A change of one of the flags.
LEMMA OneFlag ==
  ASSUME NEW s, s \in Desktops
  PROVE  /\ \A F : [s EXCEPT !.floating = F] = Flagged(s, F, s.sticky, s.hidden, s.tags)
         /\ \A S : [s EXCEPT !.sticky = S] = Flagged(s, s.floating, S, s.hidden, s.tags)
         /\ \A H : [s EXCEPT !.hidden = H] = Flagged(s, s.floating, s.sticky, H, s.tags)
         /\ \A g : [s EXCEPT !.tags = g] = Flagged(s, s.floating, s.sticky, s.hidden, g)
         /\ \A S, g : [s EXCEPT !.sticky = S, !.tags = g] = Flagged(s, s.floating, S, s.hidden, g)
  BY DEF Flagged, Desktops

\* The grouping depends on the lists and the floating group only.
LEMMA GroupedSame ==
  ASSUME NEW s, NEW u, u.list = s.list, u.floating = s.floating
  PROVE  Grouped(s) <=> Grouped(u)
  BY DEF Grouped

------------------------------------------------------------------------------
(* What every handler keeps *)

\* The bars float, and the lists are grouped.
Tidy(s) == Grouped(s) /\ Docks \cap Managed(s) \subseteq s.floating

\* u keeps the invariant, and the grouping of s.
Kept(s, u) ==
  /\ Core(u) /\ Anchored(u)
  /\ Tidy(s) => Grouped(u)

\* In u the keyboard is still on a window in view.
InView(s, u) ==
  Seen(s) => Seen(u) \/ (get_selected_client_key(s) = None /\ Managed(u) # Managed(s))

\* A handler that ends with a focus command.
LEMMA EndsWithFocus ==
  ASSUME NEW s, NEW t, Core(t), Tidy(s) => Grouped(t), Clear(s) => Clear(t), NEW c
  PROVE  Kept(s, focus(t, c)) /\ InView(s, focus(t, c))
  <1>1. FocusDone(t, focus(t, c))
    BY FocusIsDone
  <1>2. Grouped(t) => Grouped(focus(t, c))
    BY <1>1, GroupedSame DEF FocusDone, Refocused
  <1>3. Seen(s) => Clear(s)
    BY DEF Seen, Clear
  <1>4. QED BY <1>1, <1>2, <1>3 DEF FocusDone, Kept, InView

\* A handler that leaves the selection alone, and what decides on whether the
\* selected window is in view.
LEMMA SelectionStays ==
  ASSUME NEW s, NEW u, Core(s), u.selmon = s.selmon, u.sel = s.sel,
         s.selmon # None => (is_locked(u, s.selmon) => is_locked(s, s.selmon)),
         \A x \in Focusable(s) : s.selmon # None /\ x = s.sel[s.selmon] => x \in Focusable(u)
  PROVE  Seen(s) => Seen(u)
  BY DEF Seen

\* A new client does not disturb the selection.
LEMMA JoinedKeeps ==
  ASSUME NEW s, Core(s), NEW c \in Clients, c \notin ToSet(s.order), NEW a, NEW m, Core(a),
         Joined(s, a, c, m)
  PROVE  /\ Anchored(s) => Anchored(a)
         /\ Seen(s) => Seen(a)
         /\ Clear(s) => Clear(a)
         /\ get_selected_client_key(a) = get_selected_client_key(s)
         /\ Managed(a) # Managed(s)
         /\ a.mon[c] = m
  <1>1. s.mon \in [Clients -> Monitors \cup {None}] /\ s.mon[c] = None
    <2>1. s.mon \in [Clients -> Monitors \cup {None}]
      BY FieldTypes DEF Core
    <2>2. QED BY <2>1 DEF Core, Placed
  <1>2. \A d \in Clients \ {c} : a.mon[d] = s.mon[d]
    BY <1>1 DEF Joined
  <1>3. ASSUME Anchored(s) PROVE Anchored(a)
    <2>1. SUFFICES ASSUME s.selmon # None, s.sel[s.selmon] # None
                   PROVE  a.mon[s.sel[s.selmon]] = s.selmon
      BY DEF Anchored, Joined
    <2>2. s.selmon \in Monitors /\ s.sel[s.selmon] \in Clients
      BY <2>1, FieldTypes DEF Core
    <2>3. s.mon[s.sel[s.selmon]] = s.selmon
      BY <2>1, <1>3 DEF Anchored
    <2>4. s.sel[s.selmon] # c
      BY <2>1, <2>3, <1>1
    <2>5. QED BY <2>2, <2>3, <2>4, <1>2
  <1>4. ASSUME NEW x \in Focusable(s) PROVE x \in Focusable(a)
    <2>1. x \in Clients /\ x \in ToSet(s.order)
      BY DEF Focusable, is_client_visible_by_key, is_client_visible_on_monitor, Managed
    <2>2. x \in Clients \ {c}
      BY <2>1
    <2>3. /\ a.mon[x] = s.mon[x] /\ a.tags[x] = s.tags[x] /\ x \in ToSet(a.order)
          /\ a.hidden = s.hidden /\ a.sticky = s.sticky /\ a.view = s.view
      BY <2>1, <2>2, <1>2 DEF Joined
    <2>4. QED BY <2>3, FocusableKept
  <1>5. \A n : is_locked(a, n) <=> is_locked(s, n)
    BY DEF Joined, is_locked
  <1>6. a.selmon = s.selmon /\ a.sel = s.sel
    BY DEF Joined
  <1>7. Seen(s) => Seen(a)
    BY <1>4, <1>5, <1>6, SelectionStays
  <1>8. Managed(a) # Managed(s) /\ a.mon[c] = m
    BY <1>1 DEF Managed, Joined
  <1>9. QED BY <1>3, <1>5, <1>6, <1>7, <1>8 DEF Clear, get_selected_client_key

\* A window is mapped.
LEMMA ManageStep ==
  ASSUME NEW s, Core(s), Anchored(s), NEW c \in Clients, c \notin ToSet(s.order), NEW m, Home(s, m),
         NEW mask \in SUBSET Tags, NEW floats \in BOOLEAN, NEW position,
         NEW popup \in BOOLEAN, NEW takes \in BOOLEAN, NEW follows \in BOOLEAN, NEW u,
         u = handle_new_client_focus(Admitted(s, c, m, mask, floats, position), c, popup, takes, follows)
  PROVE  Kept(s, u) /\ InView(s, u)
  <1>1. PICK a : a = Admitted(s, c, m, mask, floats, position)
    OBVIOUS
  <1>2. Core(a) /\ Joined(s, a, c, m) /\ (Grouped(s) => Grouped(a))
    BY <1>1, AdmittedFacts
  <1>3. /\ Anchored(a) /\ (Seen(s) => Seen(a)) /\ a.mon[c] = m
        /\ get_selected_client_key(a) = get_selected_client_key(s) /\ Managed(a) # Managed(s)
    BY <1>2, JoinedKeeps
  <1>4. Home(a, a.mon[c])
    BY <1>2, <1>3 DEF Home, Joined
  <1>5. Moved(a, u) /\ (Seen(a) => Seen(u) \/ get_selected_client_key(a) = None)
    BY <1>1, <1>2, <1>4, NewClientFocusFacts
  <1>6. Grouped(a) => Grouped(u)
    BY <1>5, GroupedSame DEF Moved, Refocused
  <1>7. Managed(u) = Managed(a)
    BY <1>5 DEF Moved, Refocused, Managed
  <1>8. QED BY <1>2, <1>3, <1>5, <1>6, <1>7 DEF Moved, Kept, InView, Tidy

\* A minimized window is adopted.
LEMMA ManageMinimizedStep ==
  ASSUME NEW s, Core(s), Anchored(s), NEW c \in Clients, c \notin ToSet(s.order), NEW m, Home(s, m),
         NEW mask \in SUBSET Tags, NEW position,
         NEW u, u = [Admitted(s, c, m, mask, FALSE, position) EXCEPT !.hidden = @ \cup {c}]
  PROVE  Kept(s, u) /\ InView(s, u)
  <1>0. PICK b : b = FALSE
    OBVIOUS
  <1>1. PICK a, H : a = Admitted(s, c, m, mask, b, position) /\ H = a.hidden \cup {c}
    OBVIOUS
  <1>2. Core(a) /\ Joined(s, a, c, m) /\ (Grouped(s) => Grouped(a))
    BY <1>1, AdmittedFacts
  <1>3. Anchored(a) /\ (Seen(s) => Seen(a))
    BY <1>2, JoinedKeeps
  <1>4. /\ a \in Desktops /\ a.floating \in SUBSET ToSet(a.order)
        /\ a.sticky \in SUBSET ToSet(a.order) /\ a.hidden \in SUBSET ToSet(a.order)
        /\ a.tags \in [Clients -> SUBSET Tags]
    BY <1>2, FlagTypes
  <1>5. H \in SUBSET ToSet(a.order)
    <2>1. c \in ToSet(a.order)
      BY <1>2 DEF Joined
    <2>2. QED BY <2>1, <1>1, <1>4
  <1>6. u = [a EXCEPT !.hidden = H]
    BY <1>0, <1>1
  <1>7. u = Flagged(a, a.floating, a.sticky, H, a.tags)
    BY <1>4, <1>6, OneFlag
  <1>8. Reflagged(a, a.floating, a.sticky, H, a.tags, u)
    <2>1. Reflagged(a, a.floating, a.sticky, H, a.tags, Flagged(a, a.floating, a.sticky, H, a.tags))
      BY <1>2, <1>4, <1>5, FlaggedFacts
    <2>2. QED BY <2>1, <1>7
  <1>9. Grouped(a) => Grouped(u)
    BY <1>8, GroupedSame DEF Reflagged
  <1>10. Seen(s) => Seen(u)
    <2>1. u.selmon = s.selmon /\ u.sel = s.sel /\ \A n : is_locked(u, n) <=> is_locked(s, n)
      BY <1>2, <1>8 DEF Reflagged, Joined, is_locked
    <2>2. ASSUME NEW x \in Focusable(s) PROVE x \in Focusable(u)
      <3>1. x \in Clients /\ x \in ToSet(s.order)
        BY DEF Focusable, is_client_visible_by_key, is_client_visible_on_monitor, Managed
      <3>2. x \in Clients \ {c}
        BY <3>1
      <3>3. s.mon \in [Clients -> Monitors \cup {None}]
        BY FieldTypes DEF Core
      <3>4. /\ a.mon[x] = s.mon[x] /\ a.tags[x] = s.tags[x] /\ x \in ToSet(a.order)
            /\ a.hidden = s.hidden /\ a.sticky = s.sticky /\ a.view = s.view
        BY <3>1, <3>2, <3>3, <1>2 DEF Joined
      <3>6. /\ u.mon = a.mon /\ u.tags = a.tags /\ u.order = a.order /\ u.hidden = H
            /\ u.sticky = a.sticky /\ u.view = a.view
        BY <1>8 DEF Reflagged
      <3>7. x \in H => x \in a.hidden
        BY <3>2, <1>1
      <3>8. /\ u.mon[x] = s.mon[x] /\ u.tags[x] = s.tags[x] /\ x \in ToSet(u.order)
            /\ (x \in u.hidden => x \in s.hidden) /\ u.sticky = s.sticky
            /\ u.view[s.mon[x]] = s.view[s.mon[x]]
        BY <3>4, <3>6, <3>7
      <3>5. QED BY <3>8, FocusableKept
    <2>3. QED BY <2>1, <2>2, SelectionStays
  <1>11. QED BY <1>2, <1>3, <1>8, <1>9, <1>10 DEF Kept, InView, Tidy, Reflagged

\* The lowest tag of a mask.
LEMMA LowestTag ==
  ASSUME NEW mask \in SUBSET Tags, mask # {}
  PROVE  /\ (CHOOSE t \in mask : \A u \in mask : t <= u) \in mask
         /\ Tags \subseteq 0..TagCount /\ 0 \in 0..TagCount /\ 0 \notin Tags
  <1>1. Tags \subseteq 0..TagCount /\ 0 \in 0..TagCount /\ 0 \notin Tags /\ Tags \subseteq Nat
    BY DesktopAssumption DEF Tags
  <1>2. mask \in SUBSET Nat
    BY <1>1
  <1>3. \E t \in mask : \A u \in mask : t <= u
    BY <1>2, LeastNat
  <1>4. QED BY <1>1, <1>3

\* One tag of a monitor selects a window.
OnTag(s, m, i, c) == [s EXCEPT !.pertag[m][i] = c]

\* u is s with other selections, and the same selected monitor.
Reselected(s, u) == Core(u) /\ Refocused(s, u) /\ u.selmon = s.selmon

\* It may be a window of the monitor.
LEMMA SelectOnTag ==
  ASSUME NEW s, Core(s), NEW m \in Monitors, NEW i \in 0..TagCount, NEW c \in Clients \ Docks,
         s.mon[c] = m
  PROVE  Reselected(s, OnTag(s, m, i, c))
  <1>1. s \in Desktops
    BY DEF Core
  <1>9. PICK u : u = OnTag(s, m, i, c)
    OBVIOUS
  <1>2. PICK p : p = [s.pertag EXCEPT ![m][i] = c]
    OBVIOUS
  <1>3. p = Noted(s.pertag, m, i, c)
    BY <1>2 DEF Noted
  <1>4. p \in [Monitors -> [0..TagCount -> Clients \cup {None}]] /\ Selected(s.sel, p, s.mon)
    <2>1. /\ s.pertag \in [Monitors -> [0..TagCount -> Clients \cup {None}]]
          /\ Selected(s.sel, s.pertag, s.mon)
      BY <1>1, FieldTypes DEF Core
    <2>2. QED BY <2>1, <1>3, SelectedTag
  <1>5. u = [s EXCEPT !.pertag = p]
    BY <1>2, <1>9 DEF OnTag
  <1>6. /\ u \in Desktops /\ Refocused(s, u) /\ u.selmon = s.selmon
        /\ u.stack = s.stack /\ u.sel = s.sel /\ u.pertag = p
    BY <1>1, <1>4, <1>5 DEF Desktops, Refocused
  <1>7. Listed(u.stack, s.mon) /\ Selected(u.sel, u.pertag, s.mon) /\ Chosen(s.mons, u.selmon)
    BY <1>4, <1>6 DEF Core
  <1>8. Core(u)
    BY <1>6, <1>7, RefocusedCore
  <1>10. QED BY <1>6, <1>8, <1>9 DEF Reselected

\* A remembered window settles out of view.
LEMMA SettleStep ==
  ASSUME NEW s, Core(s), Anchored(s), NEW c \in Clients \ Docks, c \notin ToSet(s.order),
         NEW m, Home(s, m), NEW mask \in SUBSET Tags, NEW position,
         NEW a, a = Admitted(s, c, m, mask, FALSE, position), NEW slot \in 0..TagCount,
         NEW x, NEW u, u = IF m = None THEN a ELSE focus([a EXCEPT !.pertag[m][slot] = c], x)
  PROVE  Kept(s, u) /\ InView(s, u)
  <1>1. PICK b : b = FALSE
    OBVIOUS
  <1>2. a = Admitted(s, c, m, mask, b, position)
    BY <1>1
  <1>3. Core(a) /\ Joined(s, a, c, m) /\ (Grouped(s) => Grouped(a))
    BY <1>2, AdmittedFacts
  <1>4. Anchored(a) /\ (Seen(s) => Seen(a)) /\ (Clear(s) => Clear(a)) /\ a.mon[c] = m
    <2>1. c \in Clients /\ c \notin ToSet(s.order) /\ Core(a) /\ Joined(s, a, c, m)
      BY <1>3
    <2>2. /\ (Anchored(s) => Anchored(a)) /\ (Seen(s) => Seen(a)) /\ (Clear(s) => Clear(a))
          /\ a.mon[c] = m
      BY ONLY Core(s), <2>1, JoinedKeeps
    <2>3. QED BY <2>2
  <1>5. CASE m = None
    BY <1>3, <1>4, <1>5 DEF Kept, InView, Tidy
  <1>6. CASE m # None
    <2>1. m \in Monitors
      <3>1. s.mons \in Seq(Monitors)
        BY FieldTypes DEF Core
      <3>2. QED BY <3>1, <1>6, EntryFacts DEF Home
    <2>3i. PICK i \in 0..TagCount : i = slot
      OBVIOUS
    <2>3. PICK t : i = slot /\ t = OnTag(a, m, i, c)
      BY <2>3i
    <2>4. Core(t) /\ Refocused(a, t) /\ t.selmon = a.selmon
      <3>1. Core(a) /\ a.mon[c] = m /\ t = OnTag(a, m, i, c)
        BY <2>3, <1>3, <1>4
      <3>2. Reselected(a, OnTag(a, m, i, c))
        BY <3>1, <2>1, SelectOnTag
      <3>3. QED BY <3>1, <3>2 DEF Reselected
    <2>5. Grouped(a) => Grouped(t)
      BY <2>4, GroupedSame DEF Refocused
    <2>6. Clear(a) => Clear(t)
      BY <2>4 DEF Clear, Refocused, is_locked
    <2>7. u = focus(t, x)
      BY <1>6, <2>3 DEF OnTag
    <2>8. (Tidy(s) => Grouped(t)) /\ (Clear(s) => Clear(t))
      BY <2>5, <2>6, <1>3, <1>4 DEF Tidy
    <2>9. QED BY <2>4, <2>7, <2>8, EndsWithFocus
  <1>7. QED BY <1>5, <1>6

\* Another monitor is selected.
LEMMA FocusmonStep ==
  ASSUME NEW s, Core(s), Anchored(s), NEW m \in ToSet(s.mons)
  PROVE  Kept(s, switch_monitor_focusing(s, m, None)) /\ InView(s, switch_monitor_focusing(s, m, None))
  <1>1. PICK u : u = switch_monitor_focusing(s, m, None)
    OBVIOUS
  <1>2. Moved(s, u)
    BY <1>1, SwitchIsMove
  <1>3. Grouped(s) => Grouped(u)
    BY <1>2, GroupedSame DEF Moved, Refocused
  <1>4. Seen(s) => Seen(u)
    <2>1. CASE is_locked(s, m)
      BY <2>1, <1>1 DEF switch_monitor_focusing
    <2>2. CASE ~is_locked(s, m)
      BY <2>2, <1>1, SwitchIsMove
    <2>3. QED BY <2>1, <2>2
  <1>5. QED BY <1>1, <1>2, <1>3, <1>4 DEF Moved, Kept, InView, Tidy

\* A window is minimized.
LEMMA MinimizeStep ==
  ASSUME NEW s, Core(s), Anchored(s), NEW c \in ToSet(s.order),
         NEW t, t = [s EXCEPT !.hidden = @ \cup {c}],
         NEW u, u = IF get_selected_client_key(s) = c THEN focus(t, None) ELSE t
  PROVE  Kept(s, u) /\ InView(s, u)
  <1>1. PICK H : H = s.hidden \cup {c}
    OBVIOUS
  <1>2. /\ s \in Desktops /\ s.floating \in SUBSET ToSet(s.order)
        /\ s.sticky \in SUBSET ToSet(s.order) /\ s.hidden \in SUBSET ToSet(s.order)
        /\ s.tags \in [Clients -> SUBSET Tags]
    BY FlagTypes
  <1>3. H \in SUBSET ToSet(s.order)
    BY <1>1, <1>2
  <1>4. t = Flagged(s, s.floating, s.sticky, H, s.tags)
    <2>1. t = [s EXCEPT !.hidden = H]
      BY <1>1
    <2>2. QED BY <2>1, <1>2, OneFlag
  <1>5. Reflagged(s, s.floating, s.sticky, H, s.tags, t)
    <2>1. Reflagged(s, s.floating, s.sticky, H, s.tags, Flagged(s, s.floating, s.sticky, H, s.tags))
      BY <1>2, <1>3, FlaggedFacts
    <2>2. QED BY <2>1, <1>4
  <1>6. Core(t) /\ Anchored(t)
    BY <1>5 DEF Reflagged
  <1>7. Grouped(s) => Grouped(t)
    BY <1>5, GroupedSame DEF Reflagged
  <1>8. CASE get_selected_client_key(s) = c
    <2>1. Clear(s) => Clear(t)
      BY <1>5 DEF Clear, Reflagged, is_locked
    <2>2. u = focus(t, None) /\ (Tidy(s) => Grouped(t))
      BY <1>7, <1>8 DEF Tidy
    <2>3. QED BY <2>1, <2>2, <1>6, EndsWithFocus
  <1>9. CASE get_selected_client_key(s) # c
    <2>1. u = t
      BY <1>9
    <2>2. ASSUME NEW x \in Focusable(s), s.selmon # None, x = s.sel[s.selmon] PROVE x \in Focusable(t)
      <3>1. x # c
        BY <1>9, <2>2 DEF get_selected_client_key
      <3>2. x \in t.hidden => x \in s.hidden
        BY <3>1, <1>1, <1>5 DEF Reflagged
      <3>3. /\ t.mon = s.mon /\ t.tags = s.tags /\ t.order = s.order /\ t.sticky = s.sticky
            /\ t.view = s.view
        BY <1>5 DEF Reflagged
      <3>4. QED BY <3>2, <3>3, FocusableKept
    <2>3. t.selmon = s.selmon /\ t.sel = s.sel /\ \A n : is_locked(t, n) <=> is_locked(s, n)
      BY <1>5 DEF Reflagged, is_locked
    <2>4. Seen(s) => Seen(t)
      BY <2>2, <2>3, SelectionStays
    <2>5. QED BY <2>1, <2>4, <1>6, <1>7 DEF Kept, InView, Tidy
  <1>10. QED BY <1>8, <1>9

\* Flags or tags change, then focus.
LEMMA FlagsThenFocus ==
  ASSUME NEW s, Core(s), NEW S \in SUBSET ToSet(s.order), NEW H \in SUBSET ToSet(s.order),
         NEW g \in [Clients -> SUBSET Tags], NEW x
  PROVE  /\ Kept(s, focus(Flagged(s, s.floating, S, H, g), x))
         /\ InView(s, focus(Flagged(s, s.floating, S, H, g), x))
  <1>1. PICK t : t = Flagged(s, s.floating, S, H, g)
    OBVIOUS
  <1>2. Reflagged(s, s.floating, S, H, g, t)
    <2>1. s.floating \in SUBSET ToSet(s.order)
      BY FlagTypes
    <2>2. QED BY <2>1, <1>1, FlaggedFacts
  <1>3. Core(t)
    BY <1>2 DEF Reflagged
  <1>4. Tidy(s) => Grouped(t)
    BY <1>2, GroupedSame DEF Reflagged, Tidy
  <1>5. Clear(s) => Clear(t)
    BY <1>2 DEF Clear, Reflagged, is_locked
  <1>6. QED BY <1>1, <1>3, <1>4, <1>5, EndsWithFocus

\* A window is restored.
LEMMA RestoreStep ==
  ASSUME NEW s, Core(s), NEW c, NEW u, u = focus([s EXCEPT !.hidden = @ \ {c}], c)
  PROVE  Kept(s, u) /\ InView(s, u)
  <1>1. PICK H : H = s.hidden \ {c}
    OBVIOUS
  <1>2. /\ s \in Desktops /\ s.sticky \in SUBSET ToSet(s.order) /\ H \in SUBSET ToSet(s.order)
        /\ s.tags \in [Clients -> SUBSET Tags]
    BY <1>1, FlagTypes
  <1>3. u = focus([s EXCEPT !.hidden = H], c)
    BY <1>1
  <1>4. u = focus(Flagged(s, s.floating, s.sticky, H, s.tags), c)
    BY <1>2, <1>3, OneFlag
  <1>5. QED BY <1>2, <1>4, FlagsThenFocus

\* A window goes to other tags.
LEMMA RetagStep ==
  ASSUME NEW s, Core(s), NEW c \in Clients, NEW T \in SUBSET Tags,
         NEW u, u = focus([s EXCEPT !.tags[c] = T], None)
  PROVE  Kept(s, u) /\ InView(s, u)
  <1>1. PICK g : g = [s.tags EXCEPT ![c] = T]
    OBVIOUS
  <1>2. /\ s \in Desktops /\ s.sticky \in SUBSET ToSet(s.order) /\ s.hidden \in SUBSET ToSet(s.order)
        /\ s.tags \in [Clients -> SUBSET Tags]
    BY FlagTypes
  <1>3. g \in [Clients -> SUBSET Tags]
    BY <1>1, <1>2
  <1>4. u = focus([s EXCEPT !.tags = g], None)
    BY <1>1
  <1>5. u = focus(Flagged(s, s.floating, s.sticky, s.hidden, g), None)
    BY <1>2, <1>4, OneFlag
  <1>6. QED BY <1>2, <1>3, <1>5, FlagsThenFocus

\* A window becomes sticky.
LEMMA StickStep ==
  ASSUME NEW s, Core(s), Anchored(s), NEW c \in ToSet(s.order), NEW T \in SUBSET Tags,
         NEW u, u = [s EXCEPT !.sticky = @ \cup {c}, !.tags[c] = T]
  PROVE  Kept(s, u) /\ InView(s, u)
  <1>1. PICK g, S : g = [s.tags EXCEPT ![c] = T] /\ S = s.sticky \cup {c}
    OBVIOUS
  <1>2. /\ s \in Desktops /\ s.sticky \in SUBSET ToSet(s.order) /\ s.hidden \in SUBSET ToSet(s.order)
        /\ s.tags \in [Clients -> SUBSET Tags] /\ s.floating \in SUBSET ToSet(s.order)
        /\ c \in Clients
    BY FlagTypes
  <1>3. g \in [Clients -> SUBSET Tags] /\ S \in SUBSET ToSet(s.order)
    BY <1>1, <1>2
  <1>4. u = Flagged(s, s.floating, S, s.hidden, g)
    <2>1. u = [s EXCEPT !.sticky = S, !.tags = g]
      BY <1>1
    <2>2. QED BY <2>1, <1>2 DEF Flagged, Desktops
  <1>5. Reflagged(s, s.floating, S, s.hidden, g, u)
    <2>1. Reflagged(s, s.floating, S, s.hidden, g, Flagged(s, s.floating, S, s.hidden, g))
      BY <1>2, <1>3, FlaggedFacts
    <2>2. QED BY <2>1, <1>4
  <1>6. Grouped(s) => Grouped(u)
    BY <1>5, GroupedSame DEF Reflagged
  <1>7. ASSUME NEW x \in Focusable(s) PROVE x \in Focusable(u)
    <2>1. /\ u.mon = s.mon /\ u.order = s.order /\ u.hidden = s.hidden /\ u.view = s.view
          /\ u.sticky = S /\ u.tags = g
      BY <1>5 DEF Reflagged
    <2>2. CASE x = c
      BY <2>1, <2>2, <1>1 DEF Focusable, is_client_visible_by_key, is_client_visible_on_monitor, Managed
    <2>3. CASE x # c
      <3>1. x \in Clients
        BY DEF Focusable
      <3>2. u.tags[x] = s.tags[x] /\ (x \in s.sticky => x \in u.sticky)
        BY <3>1, <2>1, <2>3, <1>1, <1>2
      <3>3. QED BY <3>2, <2>1, FocusableKept
    <2>4. QED BY <2>2, <2>3
  <1>8. u.selmon = s.selmon /\ u.sel = s.sel /\ \A n : is_locked(u, n) <=> is_locked(s, n)
    BY <1>5 DEF Reflagged, is_locked
  <1>9. Seen(s) => Seen(u)
    BY <1>7, <1>8, SelectionStays
  <1>10. QED BY <1>5, <1>6, <1>9 DEF Kept, InView, Tidy, Reflagged

\* A window is no longer sticky.
LEMMA UnstickStep ==
  ASSUME NEW s, Core(s), Anchored(s), NEW c, NEW u, u = [s EXCEPT !.sticky = @ \ {c}]
  PROVE  Kept(s, u)
  <1>1. PICK S : S = s.sticky \ {c}
    OBVIOUS
  <1>2. /\ s \in Desktops /\ S \in SUBSET ToSet(s.order) /\ s.hidden \in SUBSET ToSet(s.order)
        /\ s.tags \in [Clients -> SUBSET Tags] /\ s.floating \in SUBSET ToSet(s.order)
    BY <1>1, FlagTypes
  <1>3. u = Flagged(s, s.floating, S, s.hidden, s.tags)
    <2>1. u = [s EXCEPT !.sticky = S]
      BY <1>1
    <2>2. QED BY <2>1, <1>2, OneFlag
  <1>4. Reflagged(s, s.floating, S, s.hidden, s.tags, u)
    <2>1. Reflagged(s, s.floating, S, s.hidden, s.tags, Flagged(s, s.floating, S, s.hidden, s.tags))
      BY <1>2, FlaggedFacts
    <2>2. QED BY <2>1, <1>3
  <1>5. Grouped(s) => Grouped(u)
    BY <1>4, GroupedSame DEF Reflagged
  <1>6. QED BY <1>4, <1>5 DEF Kept, Tidy, Reflagged

\* u is s with a list rearranged.
Rearranged(s, u) ==
  /\ Core(u) /\ (Anchored(s) => Anchored(u)) /\ (Clear(s) => Clear(u)) /\ (Seen(s) => Seen(u))
  /\ u.mon = s.mon /\ u.floating = s.floating

\* A monitor's list is rearranged.
LEMMA RearrangedFacts ==
  ASSUME NEW s, Core(s), NEW m \in Monitors, NEW e \in Seq(Clients), Enum(e, Owned(s.mon, m))
  PROVE  Rearranged(s, WithList(s, m, e))
  <1>1. PICK u, f : u = WithList(s, m, e) /\ f = [s.list EXCEPT ![m] = e]
    OBVIOUS
  <1>2. s \in Desktops /\ s.list \in [Monitors -> Seq(Clients)] /\ Listed(s.list, s.mon)
    BY FieldTypes DEF Core
  <1>3. /\ u \in Desktops /\ u.list = f /\ u.order = s.order
        /\ u.mon = s.mon /\ u.tags = s.tags /\ u.floating = s.floating /\ u.sticky = s.sticky
        /\ u.hidden = s.hidden /\ u.stack = s.stack /\ u.mons = s.mons /\ u.sel = s.sel
        /\ u.pertag = s.pertag /\ u.view = s.view /\ u.cur = s.cur /\ u.selmon = s.selmon
        /\ u.locked = s.locked
    BY <1>1, <1>2, WithListFacts
  <1>4. Listed(f, s.mon)
    BY <1>1, <1>2, ListedSame
  <1>5. Core(u)
    BY <1>3, <1>4 DEF Core
  <1>6. Focusable(u) = Focusable(s)
    BY <1>3 DEF Focusable, is_client_visible_by_key, is_client_visible_on_monitor, Managed
  <1>7. /\ Anchored(s) => Anchored(u)
        /\ Clear(s) => Clear(u)
        /\ Seen(s) => Seen(u)
    BY <1>3, <1>6 DEF Anchored, Clear, Seen, is_locked
  <1>8. QED BY <1>1, <1>3, <1>5, <1>7 DEF Rearranged

\* The grouping after one list is replaced.
LEMMA RegroupedFacts ==
  ASSUME NEW s \in Desktops, NEW m \in Monitors, NEW e \in Seq(Clients), Sorted(e, s.floating),
         \A n \in Monitors \ {m} : Sorted(s.list[n], s.floating)
  PROVE  Grouped(WithList(s, m, e))
  <1>1. PICK u : u = WithList(s, m, e)
    OBVIOUS
  <1>2. u.list = [s.list EXCEPT ![m] = e] /\ u.floating = s.floating
    BY <1>1 DEF WithList, Desktops
  <1>3. s.list \in [Monitors -> Seq(Clients)]
    BY FieldTypes
  <1>4. ASSUME NEW n \in Monitors PROVE Sorted(u.list[n], u.floating)
    <2>1. CASE n = m
      <3>1. u.list[n] = e
        BY <2>1, <1>2, <1>3
      <3>2. QED BY <3>1, <1>2
    <2>2. CASE n # m
      <3>1. u.list[n] = s.list[n]
        BY <2>2, <1>2, <1>3
      <3>2. QED BY <3>1, <2>2, <1>2
    <2>3. QED BY <2>1, <2>2
  <1>5. QED BY <1>1, <1>4, GroupedForm

\* The selected window is a managed one on the selected monitor.
LEMMA SelectedHome ==
  ASSUME NEW s, Core(s), Anchored(s), NEW c, c = get_selected_client_key(s), c # None
  PROVE  /\ s.selmon \in Monitors /\ s.selmon \in ToSet(s.mons) /\ c \in Clients
         /\ s.mon[c] = s.selmon /\ c \in ToSet(s.order) /\ c = s.sel[s.selmon]
         /\ c \in Owned(s.mon, s.selmon)
  <1>1. s.selmon # None /\ c = s.sel[s.selmon]
    BY DEF get_selected_client_key
  <1>2. s \in Desktops /\ s.selmon \in ToSet(s.mons)
    BY <1>1 DEF Core, Chosen
  <1>3. s.selmon \in Monitors /\ s.sel \in [Monitors -> Clients \cup {None}]
    BY <1>1, <1>2, FieldTypes
  <1>4. c \in Clients /\ s.mon[c] = s.selmon
    BY <1>1, <1>3 DEF Anchored
  <1>5. c \in ToSet(s.order)
    BY <1>1, <1>4 DEF Core, Placed
  <1>6. QED BY <1>1, <1>2, <1>3, <1>4, <1>5 DEF Owned

\* The list of a monitor names the clients that are on it.
LEMMA ListFacts ==
  ASSUME NEW s, Core(s), NEW m \in Monitors
  PROVE  /\ s \in Desktops
         /\ s.list[m] \in Seq(Clients) /\ Enum(s.list[m], Owned(s.mon, m))
         /\ s.stack[m] \in Seq(Clients) /\ Enum(s.stack[m], Owned(s.mon, m))
         /\ Distinct(s.list[m]) /\ ToSet(s.list[m]) = Owned(s.mon, m)
  <1>1. s \in Desktops /\ Listed(s.list, s.mon) /\ Listed(s.stack, s.mon)
    BY DEF Core
  <1>2. s.list \in [Monitors -> Seq(Clients)] /\ s.stack \in [Monitors -> Seq(Clients)]
    BY <1>1, FieldTypes
  <1>3. QED BY <1>1, <1>2 DEF Listed, Enum

\* A window joins or leaves the floating group.
LEMMA ToggleFloatingStep ==
  ASSUME NEW s, Core(s), Anchored(s), NEW c \in ToSet(s.order), c = get_selected_client_key(s),
         NEW G \in SUBSET ToSet(s.order), \A x \in Clients \ {c} : x \in G <=> x \in s.floating,
         NEW u, u = reorder_client_in_monitor_groups([s EXCEPT !.floating = G], c)
  PROVE  Kept(s, u) /\ InView(s, u)
  <1>1. /\ s \in Desktops /\ s.sticky \in SUBSET ToSet(s.order) /\ s.hidden \in SUBSET ToSet(s.order)
        /\ s.tags \in [Clients -> SUBSET Tags] /\ c \in Clients
    BY FlagTypes
  <1>2. PICK m \in Monitors : s.mon[c] = m /\ m = s.selmon
    <2>1. c # None
      BY <1>1, DesktopAssumption
    <2>2. QED BY <2>1, SelectedHome
  <1>3. PICK t : t = Flagged(s, G, s.sticky, s.hidden, s.tags)
    OBVIOUS
  <1>4. u = reorder_client_in_monitor_groups(t, c)
    <2>1. [s EXCEPT !.floating = G] = t
      BY <1>1, <1>3, OneFlag
    <2>2. QED BY <2>1
  <1>5. Reflagged(s, G, s.sticky, s.hidden, s.tags, t)
    <2>1. Reflagged(s, G, s.sticky, s.hidden, s.tags, Flagged(s, G, s.sticky, s.hidden, s.tags))
      BY <1>1, FlaggedFacts
    <2>2. QED BY <2>1, <1>3
  <1>6. Core(t) /\ Anchored(t) /\ t.mon = s.mon /\ t.list = s.list /\ t.floating = G
    BY <1>5 DEF Reflagged
  <1>7. t \in Desktops /\ t.list[m] \in Seq(Clients) /\ Enum(t.list[m], Owned(s.mon, m))
    BY <1>6, ListFacts
  <1>8. c \in Owned(s.mon, m)
    BY <1>1, <1>2 DEF Owned
  <1>9. Relisted(t, m, Owned(s.mon, m), Without(s.list[m], c), u)
    <2>1. PICK X : X = Owned(s.mon, m)
      OBVIOUS
    <2>2. t.mon[c] = m /\ Enum(t.list[m], X) /\ c \in X
      BY <2>1, <1>2, <1>6, <1>7, <1>8
    <2>3. Relisted(t, m, X, Without(t.list[m], c), reorder_client_in_monitor_groups(t, c))
      BY <1>1, <1>7, <2>2, ReorderForm
    <2>4. QED BY <2>1, <2>3, <1>4, <1>6
  <1>10. PICK e \in Seq(Clients) : /\ Enum(e, Owned(s.mon, m))
                                   /\ Sorted(Without(s.list[m], c), G) => Sorted(e, G)
                                   /\ u = WithList(t, m, e)
    BY <1>9, <1>6 DEF Relisted
  <1>11. Rearranged(t, u)
    <2>1. Rearranged(t, WithList(t, m, e))
      BY <1>6, <1>10, RearrangedFacts
    <2>2. QED BY <2>1, <1>10
  <1>12. Grouped(s) => Grouped(u)
    <2>1. SUFFICES ASSUME Grouped(s) PROVE Grouped(u)
      OBVIOUS
    <2>2. \A n \in Monitors : Sorted(s.list[n], s.floating)
      BY <2>1, GroupedForm
    <2>3. ASSUME NEW n \in Monitors \ {m} PROVE Sorted(t.list[n], G)
      <3>1. ToSet(s.list[n]) = Owned(s.mon, n)
        BY ListFacts
      <3>2. \A x \in ToSet(s.list[n]) : x \in s.floating <=> x \in G
        BY <3>1, <1>2 DEF Owned
      <3>3. Sorted(s.list[n], s.floating)
        BY <2>2
      <3>4. QED BY <3>2, <3>3, <1>6, SortedAgree
    <2>4. Sorted(Without(s.list[m], c), G)
      <3>1. s.list[m] \in Seq(Clients) /\ Enum(s.list[m], Owned(s.mon, m)) /\ Distinct(s.list[m])
        BY ListFacts
      <3>2. Sorted(Without(s.list[m], c), s.floating)
        BY <3>1, <2>2, WithoutSorted
      <3>3. Enum(Without(s.list[m], c), Owned(s.mon, m) \ {c})
        BY <3>1, WithoutEnum
      <3>4. \A x \in ToSet(Without(s.list[m], c)) : x \in s.floating <=> x \in G
        BY <3>3 DEF Enum, Owned
      <3>5. QED BY <3>2, <3>4, SortedAgree
    <2>5. Sorted(e, t.floating) /\ \A n \in Monitors \ {m} : Sorted(t.list[n], t.floating)
      BY <2>3, <2>4, <1>10, <1>6
    <2>6. Grouped(WithList(t, m, e))
      BY <2>5, <1>7, RegroupedFacts
    <2>7. QED BY <2>6, <1>10
  <1>13. Seen(s) => Seen(t)
    <2>1. t.selmon = s.selmon /\ t.sel = s.sel /\ \A n : is_locked(t, n) <=> is_locked(s, n)
      BY <1>5 DEF Reflagged, is_locked
    <2>2. \A x \in Focusable(s) : x \in Focusable(t)
      BY <1>5, FocusableKept DEF Reflagged
    <2>3. QED BY <2>1, <2>2, SelectionStays
  <1>14. QED BY <1>6, <1>11, <1>12, <1>13 DEF Rearranged, Kept, InView, Tidy

\* A list is rearranged, and then focus.
LEMMA RearrangeThenFocus ==
  ASSUME NEW s, Core(s), NEW m \in Monitors, NEW e \in Seq(Clients), Enum(e, Owned(s.mon, m)),
         Grouped(s) => Sorted(e, s.floating), NEW x
  PROVE  Kept(s, focus(WithList(s, m, e), x)) /\ InView(s, focus(WithList(s, m, e), x))
  <1>1. PICK t : t = WithList(s, m, e)
    OBVIOUS
  <1>2. Rearranged(s, t)
    BY <1>1, RearrangedFacts
  <1>3. Grouped(s) => Grouped(t)
    <2>1. s \in Desktops
      BY DEF Core
    <2>2. Grouped(s) => \A n \in Monitors : Sorted(s.list[n], s.floating)
      BY GroupedForm
    <2>3. QED BY <2>1, <2>2, <1>1, RegroupedFacts
  <1>4. Core(t) /\ (Tidy(s) => Grouped(t)) /\ (Clear(s) => Clear(t))
    BY <1>2, <1>3 DEF Rearranged, Tidy
  <1>5. Kept(s, focus(t, x)) /\ InView(s, focus(t, x))
    BY <1>4, EndsWithFocus
  <1>6. QED BY <1>5, <1>1

\* The selected tile changes places with another tile.
LEMMA ExchangeStep ==
  ASSUME NEW s, Core(s), Anchored(s), NEW m \in Monitors, NEW q, q = s.list[m],
         NEW i \in 1..Len(q), NEW j \in 1..Len(q),
         q[i] \notin s.floating, q[j] \notin s.floating,
         NEW u, u = WithList(s, m, Switched(q, i, j))
  PROVE  Kept(s, u) /\ InView(s, u)
  <1>1. q \in Seq(Clients) /\ Enum(q, Owned(s.mon, m)) /\ s \in Desktops
    BY ListFacts
  <1>2. PICK e : e = Switched(q, i, j)
    OBVIOUS
  <1>3. /\ e \in Seq(Clients) /\ Enum(e, Owned(s.mon, m))
        /\ \A F : Sorted(q, F) /\ q[i] \notin F /\ q[j] \notin F => Sorted(e, F)
    <2>1. PICK X : X = Owned(s.mon, m)
      OBVIOUS
    <2>2. Enum(q, X)
      BY <1>1, <2>1
    <2>3. /\ e \in Seq(Clients) /\ Enum(e, X)
          /\ \A F : Sorted(q, F) /\ q[i] \notin F /\ q[j] \notin F => Sorted(e, F)
      BY <1>1, <1>2, <2>2, ExchangeEnum
    <2>4. QED BY <2>1, <2>3
  <1>4. u = WithList(s, m, e)
    BY <1>2
  <1>5. Rearranged(s, u)
    <2>1. Rearranged(s, WithList(s, m, e))
      BY <1>3, RearrangedFacts
    <2>2. QED BY <2>1, <1>4
  <1>6. Grouped(s) => Grouped(u)
    <2>1. Grouped(s) => \A n \in Monitors : Sorted(s.list[n], s.floating)
      BY GroupedForm
    <2>2. Grouped(s) => Sorted(e, s.floating)
      BY <2>1, <1>3
    <2>3. Grouped(s) => Grouped(WithList(s, m, e))
      BY <2>1, <2>2, <1>1, <1>3, RegroupedFacts
    <2>4. QED BY <2>3, <1>4
  <1>7. QED BY <1>5, <1>6 DEF Rearranged, Kept, InView, Tidy

\* The entries of two sequences joined.
LEMMA JoinSet ==
  ASSUME NEW T, NEW a \in Seq(T), NEW b \in Seq(T), NEW S, ToSet(a) \subseteq S, ToSet(b) \subseteq S
  PROVE  a \o b \in Seq(T) /\ ToSet(a \o b) \subseteq S
  <1>1. a \o b \in Seq(T)
    BY JoinFacts
  <1>2. ASSUME NEW x \in ToSet(a \o b) PROVE x \in S
    <2>1. PICK k \in 1..Len(a \o b) : (a \o b)[k] = x
      BY <1>1, EntryFacts
    <2>2. Len(a \o b) = Len(a) + Len(b)
      BY JoinFacts
    <2>3. \/ k \in 1..Len(a) /\ (a \o b)[k] = a[k]
          \/ k - Len(a) \in 1..Len(b) /\ (a \o b)[k] = b[k - Len(a)]
      BY <2>1, <2>2, JoinFacts
    <2>4. CASE k \in 1..Len(a) /\ (a \o b)[k] = a[k]
      BY <2>4, <2>1, EntryFacts
    <2>5. CASE k - Len(a) \in 1..Len(b) /\ (a \o b)[k] = b[k - Len(a)]
      BY <2>5, <2>1, EntryFacts
    <2>6. QED BY <2>3, <2>4, <2>5
  <1>3. QED BY <1>1, <1>2

\* The entries of a sequence backwards.
LEMMA ReverseSet ==
  ASSUME NEW T, NEW q \in Seq(T)
  PROVE  Reverse(q) \in Seq(T) /\ ToSet(Reverse(q)) \subseteq ToSet(q)
  <1>1. Len(q) \in Nat /\ \A i \in 1..Len(q) : q[i] \in T /\ q[i] \in ToSet(q)
    BY EntryFacts
  <1>2. Reverse(q) = [i \in 1..Len(q) |-> q[Len(q) - i + 1]]
    BY DEF Reverse
  <1>3. \A i \in 1..Len(q) : Len(q) - i + 1 \in 1..Len(q)
    BY <1>1
  <1>4. Reverse(q) \in [1..Len(q) -> T]
    BY <1>1, <1>2, <1>3
  <1>5. Reverse(q) \in Seq(T)
    BY <1>1, <1>4
  <1>6. ASSUME NEW x \in ToSet(Reverse(q)) PROVE x \in ToSet(q)
    <2>1. PICK i \in 1..Len(q) : x = q[Len(q) - i + 1]
      BY <1>2 DEF ToSet
    <2>2. QED BY <2>1, <1>1, <1>3
  <1>7. QED BY <1>5, <1>6

\* All entries but the i-th, from there on.
Others(q, i) == SubSeq(q, i + 1, Len(q)) \o SubSeq(q, 1, i - 1)

\* They are entries, forwards and backwards.
LEMMA OthersFacts ==
  ASSUME NEW T, NEW q \in Seq(T), NEW X, Enum(q, X), NEW i \in 1..Len(q),
         NEW o, o = Others(q, i)
  PROVE  /\ o \in Seq(T) /\ ToSet(o) \subseteq X
         /\ Reverse(o) \in Seq(T) /\ ToSet(Reverse(o)) \subseteq X
  <1>1. Len(q) \in Nat
    BY EntryFacts
  <1>2. i \in 1..(Len(q) + 1) /\ i + 1 \in 1..(Len(q) + 1)
    BY <1>1
  <1>3. PICK a, b, n : a = SubSeq(q, 1, i - 1) /\ b = SubSeq(q, i + 1, Len(q)) /\ n = Len(q)
    OBVIOUS
  <1>4. a \in Seq(T) /\ Len(a) = i - 1 /\ \A k \in 1..(i - 1) : a[k] = q[k]
    BY <1>1, <1>2, <1>3
  <1>5. b \in Seq(T) /\ Len(b) = n - i /\ \A k \in 1..(n - i) : b[k] = q[i + k]
    BY <1>1, <1>2, <1>3, RestFacts
  <1>6. \A k \in 1..n : q[k] \in X
    BY <1>3, EntryFacts DEF Enum
  <1>7. ToSet(a) \subseteq X /\ ToSet(b) \subseteq X
    <2>1. ASSUME NEW x \in ToSet(a) PROVE x \in X
      <3>1. PICK k \in 1..(i - 1) : a[k] = x
        BY <1>4, EntryFacts
      <3>2. QED BY <3>1, <1>4, <1>6, <1>3, <1>1
    <2>2. ASSUME NEW x \in ToSet(b) PROVE x \in X
      <3>1. PICK k \in 1..(n - i) : b[k] = x
        BY <1>5, EntryFacts
      <3>2. i + k \in 1..n
        BY <1>1, <1>3
      <3>3. QED BY <3>1, <3>2, <1>5, <1>6
    <2>3. QED BY <2>1, <2>2
  <1>8. o \in Seq(T) /\ ToSet(o) \subseteq X
    BY <1>3, <1>4, <1>5, <1>7, JoinSet DEF Others
  <1>9. QED BY <1>8, ReverseSet

\* The next or the previous entry in a set is another entry.
LEMMA NeighbourFacts ==
  ASSUME NEW q \in Seq(Clients), NEW X, Enum(q, X), NEW i \in 1..Len(q), NEW forward, NEW G,
         NEW d, d = First(IF forward THEN Others(q, i) ELSE Reverse(Others(q, i)), G), d # None
  PROVE  d \in X \cap G
  <1>1. PICK o : o = Others(q, i)
    OBVIOUS
  <1>2. /\ o \in Seq(Clients) /\ ToSet(o) \subseteq X
        /\ Reverse(o) \in Seq(Clients) /\ ToSet(Reverse(o)) \subseteq X
    BY <1>1, OthersFacts
  <1>3. PICK r \in Seq(Clients) : ToSet(r) \subseteq X /\ d = First(r, G)
    BY <1>1, <1>2
  <1>4. None \notin Clients
    BY DesktopAssumption
  <1>5. QED BY <1>3, <1>4, FirstIn

\* The selected tile changes places with another one.
LEMMA MovestackStep ==
  ASSUME NEW s, Core(s), Anchored(s), NEW c, c = get_selected_client_key(s), c # None,
         c \notin s.floating, NEW q, q = s.list[s.selmon], NEW i, i = Position(q, c),
         NEW forward \in BOOLEAN, NEW d,
         d = First(IF forward THEN Others(q, i) ELSE Reverse(Others(q, i)), Tiled(s)), d # None,
         NEW u, u = [s EXCEPT !.list[s.selmon] = [q EXCEPT ![i] = d, ![Position(q, d)] = c]]
  PROVE  Kept(s, u) /\ InView(s, u)
  <1>1. PICK m \in Monitors : m = s.selmon /\ c \in Owned(s.mon, m)
    BY SelectedHome
  <1>2. q \in Seq(Clients) /\ Enum(q, Owned(s.mon, m)) /\ ToSet(q) = Owned(s.mon, m)
    BY <1>1, ListFacts
  <1>3. i \in 1..Len(q) /\ q[i] = c
    BY <1>1, <1>2, PositionFacts
  <1>4. PICK X, G : X = Owned(s.mon, m) /\ G = Tiled(s)
    OBVIOUS
  <1>5. Enum(q, X) /\ d = First(IF forward THEN Others(q, i) ELSE Reverse(Others(q, i)), G)
    BY <1>2, <1>4
  <1>6. d \in ToSet(q) /\ d \in Tiled(s)
    <2>1. d \in X \cap G
      BY <1>2, <1>3, <1>5, NeighbourFacts
    <2>2. QED BY <2>1, <1>2, <1>4
  <1>7. d \notin s.floating
    BY <1>6 DEF Tiled
  <1>8. PICK j : j = Position(q, d)
    OBVIOUS
  <1>9. j \in 1..Len(q) /\ q[j] = d
    BY <1>6, <1>8, <1>2, PositionFacts
  <1>10. u = WithList(s, m, Switched(q, i, j))
    BY <1>1, <1>3, <1>8, <1>9 DEF WithList, Switched
  <1>11. q = s.list[m] /\ q[i] \notin s.floating /\ q[j] \notin s.floating
    BY <1>1, <1>3, <1>7, <1>9
  <1>12. Kept(s, WithList(s, m, Switched(q, i, j))) /\ InView(s, WithList(s, m, Switched(q, i, j)))
    BY <1>3, <1>9, <1>11, ExchangeStep
  <1>13. QED BY <1>10, <1>12

\* A tile moves to the front of the selected monitor's list.
LEMMA ZoomStep ==
  ASSUME NEW s, Core(s), NEW m \in Monitors, NEW d \in Clients, s.mon[d] = m, d \notin s.floating,
         NEW u, u = focus([s EXCEPT !.list[s.mon[d]] = <<d>> \o Without(@, d)], d)
  PROVE  Kept(s, u) /\ InView(s, u)
  <1>1. PICK q, X : q = s.list[m] /\ X = Owned(s.mon, m)
    OBVIOUS
  <1>2. q \in Seq(Clients) /\ Enum(q, X) /\ Distinct(q)
    BY <1>1, ListFacts
  <1>3. PICK w : w = Without(q, d)
    OBVIOUS
  <1>4. w \in Seq(Clients) /\ Enum(w, X \ {d})
    BY <1>2, <1>3, WithoutEnum
  <1>5. PICK Y : Y = X \ {d}
    OBVIOUS
  <1>6. Enum(w, Y) /\ d \notin Y
    BY <1>4, <1>5
  <1>7. <<d>> \o w \in Seq(Clients) /\ Enum(<<d>> \o w, Y \cup {d})
    BY <1>4, <1>6, ConsEnum
  <1>8. Y \cup {d} = X
    BY <1>1, <1>5 DEF Owned
  <1>9. PICK e : e = <<d>> \o w
    OBVIOUS
  <1>10. e \in Seq(Clients) /\ Enum(e, Owned(s.mon, m))
    BY <1>1, <1>7, <1>8, <1>9
  <1>11. Grouped(s) => Sorted(e, s.floating)
    <2>1. SUFFICES ASSUME Grouped(s) PROVE Sorted(e, s.floating)
      OBVIOUS
    <2>2. Sorted(q, s.floating)
      BY <2>1, <1>1, GroupedForm
    <2>3. Sorted(w, s.floating)
      BY <2>2, <1>2, <1>3, WithoutSorted
    <2>4. PICK h : h = <<d>>
      OBVIOUS
    <2>5. h \in Seq(Clients) /\ Enum(h, {d}) /\ Sorted(h, s.floating)
      BY <2>4, OneEntry
    <2>6. ToSet(h) \cap s.floating = {}
      BY <2>5 DEF Enum
    <2>7. Sorted(h \o w, s.floating)
      BY <2>3, <2>5, <2>6, <1>4, JoinSorted
    <2>8. QED BY <2>7, <2>4, <1>9
  <1>12. u = focus(WithList(s, m, e), d)
    BY <1>1, <1>3, <1>9 DEF WithList
  <1>13. QED BY <1>10, <1>11, <1>12, RearrangeThenFocus

------------------------------------------------------------------------------
(* Views *)

\* t is s with another view on monitor m.
Turned(s, t, m) ==
  /\ Core(t)
  /\ t.order = s.order /\ t.mon = s.mon /\ t.tags = s.tags /\ t.floating = s.floating
  /\ t.sticky = s.sticky /\ t.hidden = s.hidden /\ t.list = s.list /\ t.mons = s.mons
  /\ t.sel = s.sel /\ t.selmon = s.selmon /\ t.locked = s.locked
  /\ \A n \in Monitors \ {m} : t.view[n] = s.view[n]

\* New views and slots.
Scoped(s, v, k) == [s EXCEPT !.view = v, !.cur = k]

\* Only these are new.
LEMMA ScopedFacts ==
  ASSUME NEW s, Core(s), NEW v \in [Monitors -> SUBSET Tags], NEW k \in [Monitors -> 0..TagCount],
         Viewed(v, k), NEW m, \A n \in Monitors \ {m} : v[n] = s.view[n], NEW t, t = Scoped(s, v, k)
  PROVE  Turned(s, t, m)
  <1>1. s \in Desktops
    BY DEF Core
  <1>2. /\ t \in Desktops /\ t.view = v /\ t.cur = k /\ t.order = s.order /\ t.mon = s.mon
        /\ t.tags = s.tags /\ t.floating = s.floating /\ t.sticky = s.sticky
        /\ t.hidden = s.hidden /\ t.list = s.list /\ t.stack = s.stack /\ t.mons = s.mons
        /\ t.sel = s.sel /\ t.pertag = s.pertag /\ t.selmon = s.selmon /\ t.locked = s.locked
    BY <1>1 DEF Scoped, Desktops
  <1>3. Core(t)
    BY <1>2 DEF Core
  <1>4. QED BY <1>2, <1>3 DEF Turned

\* A view and the slot that goes with it.
LEMMA SlotFacts ==
  ASSUME NEW s \in Desktops, NEW m \in Monitors, NEW mask \in SUBSET Tags, mask # {},
         NEW k, k = SlotFor(s, m, mask)
  PROVE  k \in 0..TagCount /\ IF k = 0 THEN mask = Tags ELSE k \in mask
  <1>1. /\ (CHOOSE t \in mask : \A u \in mask : t <= u) \in mask
        /\ Tags \subseteq 0..TagCount /\ 0 \in 0..TagCount /\ 0 \notin Tags
    BY LowestTag
  <1>2. QED BY <1>1 DEF SlotFor, is_all_tags

\* A monitor's view changes.
LEMMA ViewTagFacts ==
  ASSUME NEW s, Core(s), NEW m \in Monitors, NEW mask \in SUBSET Tags
  PROVE  Turned(s, view_tag(s, m, mask), m)
  <1>1. CASE mask = {}
    BY <1>1 DEF view_tag, Turned
  <1>2. CASE mask # {}
    <2>1. PICK k, v, w : /\ k = SlotFor(s, m, mask) /\ v = [s.view EXCEPT ![m] = mask]
                         /\ w = [s.cur EXCEPT ![m] = k]
      OBVIOUS
    <2>2. s \in Desktops /\ Viewed(s.view, s.cur)
      BY DEF Core
    <2>3. s.view \in [Monitors -> SUBSET Tags] /\ s.cur \in [Monitors -> 0..TagCount]
      BY <2>2, FieldTypes
    <2>4. k \in 0..TagCount /\ IF k = 0 THEN mask = Tags ELSE k \in mask
      BY <2>1, <2>2, <1>2, SlotFacts
    <2>5. v \in [Monitors -> SUBSET Tags] /\ w \in [Monitors -> 0..TagCount]
      BY <2>1, <2>3, <2>4
    <2>6. Viewed(v, w) /\ \A n \in Monitors \ {m} : v[n] = s.view[n]
      BY <2>1, <2>2, <2>3, <2>4 DEF Viewed
    <2>7. view_tag(s, m, mask) = Scoped(s, v, w)
      BY <2>1, <1>2 DEF view_tag, Scoped
    <2>8. QED BY <2>5, <2>6, <2>7, ScopedFacts
  <1>3. QED BY <1>1, <1>2

\* u is t with other tags on the sticky windows of monitor m.
Followed(t, u, m) ==
  /\ Core(u)
  /\ u.order = t.order /\ u.mon = t.mon /\ u.floating = t.floating /\ u.sticky = t.sticky
  /\ u.hidden = t.hidden /\ u.list = t.list /\ u.sel = t.sel /\ u.view = t.view
  /\ u.selmon = t.selmon /\ u.locked = t.locked
  /\ \A x \in Clients : t.mon[x] # m => u.tags[x] = t.tags[x]

\* Sticky windows follow the view.
LEMMA StickyFacts ==
  ASSUME NEW t, Core(t), NEW m \in Monitors
  PROVE  Followed(t, update_sticky_tags(t, m), m)
  <1>1. PICK g : g = [c \in Clients |-> IF c \in ToSet(t.list[m]) \cap t.sticky
                                         THEN t.view[m] ELSE t.tags[c]]
    OBVIOUS
  <1>2. /\ t \in Desktops /\ t.sticky \in SUBSET ToSet(t.order) /\ t.hidden \in SUBSET ToSet(t.order)
        /\ t.tags \in [Clients -> SUBSET Tags] /\ t.floating \in SUBSET ToSet(t.order)
    BY FlagTypes
  <1>3. t.view[m] \in SUBSET Tags
    BY <1>2, FieldTypes
  <1>4. g \in [Clients -> SUBSET Tags]
    BY <1>1, <1>2, <1>3
  <1>5. ToSet(t.list[m]) = Owned(t.mon, m)
    BY ListFacts
  <1>6. \A x \in Clients : t.mon[x] # m => g[x] = t.tags[x]
    BY <1>1, <1>5 DEF Owned
  <1>7. update_sticky_tags(t, m) = Flagged(t, t.floating, t.sticky, t.hidden, g)
    <2>1. update_sticky_tags(t, m) = [t EXCEPT !.tags = g]
      BY <1>1 DEF update_sticky_tags
    <2>2. QED BY <2>1, <1>2, OneFlag
  <1>8. Reflagged(t, t.floating, t.sticky, t.hidden, g, Flagged(t, t.floating, t.sticky, t.hidden, g))
    BY <1>2, <1>4, FlaggedFacts
  <1>9. QED BY <1>6, <1>7, <1>8 DEF Reflagged, Followed

\* A monitor views other tags; focus follows on the selected monitor.
LEMMA ViewStep ==
  ASSUME NEW s, Core(s), Anchored(s), NEW m \in Monitors, NEW mask \in SUBSET Tags, NEW t,
         t = update_sticky_tags(view_tag(s, m, mask), m), NEW x, NEW u,
         u = IF t.selmon # m THEN t ELSE focus(t, x)
  PROVE  Kept(s, u) /\ InView(s, u)
  <1>1. PICK v : v = view_tag(s, m, mask)
    OBVIOUS
  <1>2. Turned(s, v, m)
    BY <1>1, ViewTagFacts
  <1>3. Followed(v, t, m)
    <2>1. Core(v)
      BY <1>2 DEF Turned
    <2>2. QED BY <2>1, <1>1, StickyFacts
  <1>4. /\ Core(t) /\ t.order = s.order /\ t.mon = s.mon /\ t.floating = s.floating
        /\ t.sticky = s.sticky /\ t.hidden = s.hidden /\ t.list = s.list /\ t.sel = s.sel
        /\ t.selmon = s.selmon /\ t.locked = s.locked
        /\ \A n \in Monitors \ {m} : t.view[n] = s.view[n]
        /\ \A y \in Clients : s.mon[y] # m => t.tags[y] = s.tags[y]
    BY <1>2, <1>3 DEF Turned, Followed
  <1>5. (Tidy(s) => Grouped(t)) /\ (Clear(s) => Clear(t))
    BY <1>4, GroupedSame DEF Tidy, Clear, is_locked
  <1>6. CASE t.selmon = m
    BY <1>4, <1>5, <1>6, EndsWithFocus
  <1>7. CASE t.selmon # m
    <2>1. Anchored(t)
      BY <1>4 DEF Anchored
    <2>2. ASSUME NEW y \in Focusable(s), s.selmon # None, y = s.sel[s.selmon] PROVE y \in Focusable(t)
      <3>1. y \in Clients /\ None \notin Clients
        BY DesktopAssumption DEF Focusable
      <3>2. s.mon[y] = s.selmon /\ s.selmon \in Monitors \ {m}
        <4>1. y # None
          BY <3>1
        <4>2. y = get_selected_client_key(s)
          BY <2>2 DEF get_selected_client_key
        <4>3. QED BY <4>1, <4>2, <1>4, <1>7, SelectedHome
      <3>3. t.tags[y] = s.tags[y] /\ t.view[s.mon[y]] = s.view[s.mon[y]]
        BY <3>1, <3>2, <1>4, <1>7
      <3>4. QED BY <3>3, <1>4, FocusableKept
    <2>3. Seen(s) => Seen(t)
      <3>1. t.selmon = s.selmon /\ t.sel = s.sel /\ \A n : is_locked(t, n) <=> is_locked(s, n)
        BY <1>4 DEF is_locked
      <3>2. QED BY <2>2, <3>1, SelectionStays
    <2>4. QED BY <2>1, <2>3, <1>4, <1>5, <1>7 DEF Kept, InView
  <1>8. QED BY <1>6, <1>7

------------------------------------------------------------------------------
(* Windows leave a monitor *)

\* Monitor m selects x.
WithSel(s, m, x) == [s EXCEPT !.sel[m] = x]

\* The fields that neither detaching nor clearing touches.
SameRecords(s, t) ==
  /\ t.order = s.order /\ t.mon = s.mon /\ t.tags = s.tags /\ t.floating = s.floating
  /\ t.sticky = s.sticky /\ t.hidden = s.hidden /\ t.mons = s.mons /\ t.view = s.view
  /\ t.cur = s.cur /\ t.selmon = s.selmon /\ t.locked = s.locked

\* t is s with x selected on m.
HasSel(s, m, x, t) ==
  /\ t \in Desktops /\ t.sel = [s.sel EXCEPT ![m] = x] /\ SameRecords(s, t)
  /\ t.list = s.list /\ t.stack = s.stack /\ t.pertag = s.pertag

\* Only the selection of one monitor is new.
LEMMA WithSelFacts ==
  ASSUME NEW s \in Desktops, NEW m \in Monitors, NEW x \in Clients \cup {None}
  PROVE  HasSel(s, m, x, WithSel(s, m, x))
  <1>1. s.sel \in [Monitors -> Clients \cup {None}]
    BY FieldTypes
  <1>2. [s.sel EXCEPT ![m] = x] \in [Monitors -> Clients \cup {None}]
    BY <1>1
  <1>3. QED BY <1>2 DEF WithSel, HasSel, SameRecords, Desktops

\* In t client c is off the list and the stack of m, and no longer selected.
Detached(s, t, c, m) ==
  /\ t \in Desktops /\ SameRecords(s, t) /\ t.pertag = s.pertag
  /\ t.list = [s.list EXCEPT ![m] = Without(s.list[m], c)]
  /\ t.stack = [s.stack EXCEPT ![m] = Without(s.stack[m], c)]
  /\ \A n \in Monitors \ {m} : t.sel[n] = s.sel[n]
  /\ t.sel[m] # c
  /\ t.sel[m] = s.sel[m] \/ t.sel[m] = None \/ t.sel[m] \in Owned(s.mon, m)

\* Detaching a client from the list and the stack of its monitor.
LEMMA DetachForm ==
  ASSUME NEW s \in Desktops, Listed(s.list, s.mon), Listed(s.stack, s.mon),
         NEW c \in Clients, NEW m \in Monitors, s.mon[c] = m
  PROVE  Detached(s, detachstack(detach(s, c), c), c, m)
  <1>1. m # None /\ c # None /\ None \notin Clients
    BY DesktopAssumption
  <1>2. PICK w, v : w = Without(s.list[m], c) /\ v = Without(s.stack[m], c)
    OBVIOUS
  <1>3. /\ s.list \in [Monitors -> Seq(Clients)] /\ s.stack \in [Monitors -> Seq(Clients)]
        /\ s.sel \in [Monitors -> Clients \cup {None}]
    BY FieldTypes
  <1>4. Enum(s.list[m], Owned(s.mon, m)) /\ Enum(s.stack[m], Owned(s.mon, m))
    BY DEF Listed
  <1>5. w \in Seq(Clients)
    BY <1>2, <1>3, <1>4, WithoutEnum
  <1>6. v \in Seq(Clients) /\ Enum(v, Owned(s.mon, m) \ {c})
    BY <1>2, <1>3, <1>4, WithoutEnum
  <1>7. PICK a : a = WithList(s, m, w)
    OBVIOUS
  <1>8. detach(s, c) = a
    BY <1>1, <1>2, <1>7 DEF detach, WithList
  <1>9. /\ a \in Desktops /\ a.list = [s.list EXCEPT ![m] = w] /\ SameRecords(s, a)
        /\ a.stack = s.stack /\ a.sel = s.sel /\ a.pertag = s.pertag
    BY <1>5, <1>7, WithListFacts DEF SameRecords
  <1>10. PICK b : b = WithStack(a, m, v)
    OBVIOUS
  <1>11. /\ b \in Desktops /\ b.stack = [a.stack EXCEPT ![m] = v] /\ SameRecords(a, b)
         /\ b.list = a.list /\ b.sel = a.sel /\ b.pertag = a.pertag
    BY <1>6, <1>9, <1>10, WithStackFacts DEF SameRecords
  <1>12. PICK y : y = find_next_visible_client_by_mon(b, m)
    OBVIOUS
  <1>13. y = None \/ y \in Owned(s.mon, m) \ {c}
    <2>1. PICK G : y = First(b.stack[m], G)
      BY <1>12 DEF find_next_visible_client_by_mon
    <2>2. b.stack[m] = v
      BY <1>3, <1>9, <1>11
    <2>3. y = None \/ y \in ToSet(v) \cap G \cap Clients
      BY <2>1, <2>2, <1>1, <1>6, FirstIn
    <2>4. QED BY <2>3, <1>6 DEF Enum
  <1>14. detachstack(a, c) = IF s.sel[m] = c THEN WithSel(b, m, y) ELSE b
    <2>1. a.mon[c] = m
      BY <1>9 DEF SameRecords
    <2>2. [a EXCEPT !.stack[m] = Without(@, c)] = b
      BY <1>2, <1>9, <1>10 DEF WithStack
    <2>3. QED BY <1>1, <1>9, <1>12, <2>1, <2>2 DEF detachstack, WithSel
  <1>15. CASE s.sel[m] # c
    <2>1. b.sel = s.sel /\ SameRecords(s, b) /\ b.pertag = s.pertag /\ b.list = a.list
      BY <1>9, <1>11 DEF SameRecords
    <2>2. Detached(s, b, c, m)
      BY <2>1, <1>15, <1>2, <1>9, <1>11 DEF Detached
    <2>3. QED BY <2>2, <1>8, <1>14, <1>15
  <1>16. CASE s.sel[m] = c
    <2>1. PICK t : t = WithSel(b, m, y)
      OBVIOUS
    <2>2. y \in Clients \cup {None} /\ y # c
      BY <1>13, <1>1 DEF Owned
    <2>3. /\ t \in Desktops /\ t.sel = [b.sel EXCEPT ![m] = y] /\ SameRecords(b, t)
          /\ t.list = b.list /\ t.stack = b.stack /\ t.pertag = b.pertag
      <3>1. HasSel(b, m, y, WithSel(b, m, y))
        BY <2>2, <1>11, WithSelFacts
      <3>2. QED BY <2>1, <3>1 DEF HasSel
    <2>4. b.sel = s.sel /\ SameRecords(s, t) /\ t.pertag = s.pertag
      BY <2>3, <1>9, <1>11 DEF SameRecords
    <2>5. t.sel[m] = y /\ \A n \in Monitors \ {m} : t.sel[n] = s.sel[n]
      BY <2>3, <2>4, <1>3
    <2>6. Detached(s, t, c, m)
      BY <2>2, <2>3, <2>4, <2>5, <1>2, <1>9, <1>11, <1>13 DEF Detached
    <2>7. QED BY <2>1, <2>6, <1>8, <1>14, <1>16
  <1>17. QED BY <1>15, <1>16

\* In t no selection of m is c.
Cleared(s, t, c, m) ==
  /\ t \in Desktops /\ SameRecords(s, t) /\ t.list = s.list /\ t.stack = s.stack
  /\ \A n \in Monitors \ {m} : t.sel[n] = s.sel[n] /\ t.pertag[n] = s.pertag[n]
  /\ t.sel[m] # c /\ (t.sel[m] = s.sel[m] \/ t.sel[m] = None)
  /\ \A i \in 0..TagCount : /\ t.pertag[m][i] # c
                            /\ t.pertag[m][i] = s.pertag[m][i] \/ t.pertag[m][i] = None

\* New selections.
Chose(s, x, y) == [s EXCEPT !.sel = x, !.pertag = y]

\* Only these are new.
LEMMA ChoseFacts ==
  ASSUME NEW s \in Desktops, NEW x \in [Monitors -> Clients \cup {None}],
         NEW y \in [Monitors -> [0..TagCount -> Clients \cup {None}]], NEW t, t = Chose(s, x, y)
  PROVE  /\ t \in Desktops /\ SameRecords(s, t) /\ t.list = s.list /\ t.stack = s.stack
         /\ t.sel = x /\ t.pertag = y
  BY DEF Chose, Desktops, SameRecords

\* Clearing the selections of a client.
LEMMA ClearForm ==
  ASSUME NEW s \in Desktops, NEW c \in Clients, NEW m \in Monitors
  PROVE  Cleared(s, clear_selection_of(s, m, c), c, m)
  <1>1. c # None
    BY DesktopAssumption
  <1>2. /\ s.sel \in [Monitors -> Clients \cup {None}]
        /\ s.pertag \in [Monitors -> [0..TagCount -> Clients \cup {None}]]
    BY FieldTypes
  <1>3. PICK k : k = [i \in 0..TagCount |-> IF s.pertag[m][i] = c THEN None ELSE s.pertag[m][i]]
    OBVIOUS
  <1>4. s.pertag[m] \in [0..TagCount -> Clients \cup {None}]
    BY <1>2
  <1>5. k \in [0..TagCount -> Clients \cup {None}]
    BY <1>3, <1>4
  <1>6. PICK x, y : /\ x = [s.sel EXCEPT ![m] = IF s.sel[m] = c THEN None ELSE s.sel[m]]
                    /\ y = [s.pertag EXCEPT ![m] = k]
    OBVIOUS
  <1>7. x \in [Monitors -> Clients \cup {None}]
    BY <1>2, <1>6
  <1>8. y \in [Monitors -> [0..TagCount -> Clients \cup {None}]]
    BY <1>2, <1>5, <1>6
  <1>9. clear_selection_of(s, m, c) = Chose(s, x, y)
    BY <1>3, <1>6 DEF clear_selection_of, Chose
  <1>10. PICK t : t = Chose(s, x, y)
    OBVIOUS
  <1>11. /\ t \in Desktops /\ SameRecords(s, t) /\ t.list = s.list /\ t.stack = s.stack
         /\ t.sel = x /\ t.pertag = y
    BY <1>7, <1>8, <1>10, ChoseFacts
  <1>12. \A n \in Monitors \ {m} : x[n] = s.sel[n] /\ y[n] = s.pertag[n]
    BY <1>2, <1>6
  <1>13. x[m] # c /\ (x[m] = s.sel[m] \/ x[m] = None)
    BY <1>1, <1>2, <1>6
  <1>14. y[m] = k
    BY <1>2, <1>6
  <1>15. \A i \in 0..TagCount : k[i] # c /\ (k[i] = s.pertag[m][i] \/ k[i] = None)
    BY <1>1, <1>3
  <1>16. Cleared(s, t, c, m)
    BY <1>11, <1>12, <1>13, <1>14, <1>15 DEF Cleared
  <1>17. QED BY <1>16, <1>9, <1>10

\* Nobody selects c, and what is selected is where it was.
Dropped(s, t, c, m) ==
  /\ \A n \in Monitors \ {m} : t.sel[n] = s.sel[n] /\ t.pertag[n] = s.pertag[n]
  /\ t.sel[m] # c
  /\ t.sel[m] = s.sel[m] \/ t.sel[m] = None \/ t.sel[m] \in Owned(s.mon, m)
  /\ \A i \in 0..TagCount : /\ t.pertag[m][i] # c
                            /\ t.pertag[m][i] = s.pertag[m][i] \/ t.pertag[m][i] = None

\* The monitor of each client but c.
Off(mon, c) == [mon EXCEPT ![c] = None]

\* Nobody selects client c, unless it is a bar.
Ignored(t, c) ==
  /\ \A n \in Monitors : t.sel[n] # c \/ c \in Docks
  /\ \A n \in Monitors, i \in 0..TagCount : t.pertag[n][i] # c

\* Selections after c was dropped from them.
LEMMA DroppedFacts ==
  ASSUME NEW s, NEW t, s \in Desktops, t \in Desktops, Selected(s.sel, s.pertag, s.mon),
         NEW c \in Clients, NEW m \in Monitors, s.mon[c] = m, Dropped(s, t, c, m)
  PROVE  Ignored(t, c) /\ Selected(t.sel, t.pertag, Off(s.mon, c))
  <1>1. /\ s.sel \in [Monitors -> Clients \cup {None}] /\ t.sel \in [Monitors -> Clients \cup {None}]
        /\ s.pertag \in [Monitors -> [0..TagCount -> Clients \cup {None}]]
        /\ t.pertag \in [Monitors -> [0..TagCount -> Clients \cup {None}]]
        /\ s.mon \in [Clients -> Monitors \cup {None}]
    BY FieldTypes
  <1>2. \A d \in Clients \ {c} : Off(s.mon, c)[d] = s.mon[d]
    BY <1>1 DEF Off
  <1>3. Ignored(t, c)
    <2>0. ASSUME NEW n \in Monitors, n # m
          PROVE  (s.sel[n] # c \/ c \in Docks) /\ \A i \in 0..TagCount : s.pertag[n][i] # c
      <3>1. c # None
        BY DesktopAssumption
      <3>2. s.sel[n] # c \/ c \in Docks
        BY <2>0, <3>1 DEF Selected
      <3>3. ASSUME NEW i \in 0..TagCount PROVE s.pertag[n][i] # c
        BY <2>0, <3>1 DEF Selected
      <3>4. QED BY <3>2, <3>3
    <2>1. ASSUME NEW n \in Monitors PROVE t.sel[n] # c \/ c \in Docks
      <3>1. CASE n = m
        BY <3>1 DEF Dropped
      <3>2. CASE n # m
        <4>1. s.sel[n] # c \/ c \in Docks
          BY <3>2, <2>0
        <4>2. QED BY <4>1, <3>2 DEF Dropped
      <3>3. QED BY <3>1, <3>2
    <2>2. ASSUME NEW n \in Monitors, NEW i \in 0..TagCount PROVE t.pertag[n][i] # c
      <3>1. CASE n = m
        BY <3>1 DEF Dropped
      <3>2. CASE n # m
        <4>1. s.pertag[n][i] # c
          BY <3>2, <2>0
        <4>2. QED BY <4>1, <3>2 DEF Dropped
      <3>3. QED BY <3>1, <3>2
    <2>3. QED BY <2>1, <2>2 DEF Ignored
  <1>4. Selected(t.sel, t.pertag, s.mon)
    <2>1. ASSUME NEW n \in Monitors, t.sel[n] \notin Docks \cup {None} PROVE s.mon[t.sel[n]] = n
      <3>1. CASE n = m
        <4>1. CASE t.sel[m] = s.sel[m]
          BY <2>1, <3>1, <4>1 DEF Selected
        <4>2. CASE t.sel[m] \in Owned(s.mon, m)
          BY <3>1, <4>2 DEF Owned
        <4>3. QED BY <2>1, <3>1, <4>1, <4>2 DEF Dropped
      <3>2. CASE n # m
        BY <2>1, <3>2 DEF Dropped, Selected
      <3>3. QED BY <3>1, <3>2
    <2>2. ASSUME NEW n \in Monitors, NEW i \in 0..TagCount, t.pertag[n][i] # None
          PROVE  t.pertag[n][i] \notin Docks /\ s.mon[t.pertag[n][i]] = n
      <3>1. t.pertag[n][i] = s.pertag[n][i]
        BY <2>2 DEF Dropped
      <3>2. QED BY <3>1, <2>2 DEF Selected
    <2>3. QED BY <2>1, <2>2 DEF Selected
  <1>5. PICK p : p = Off(s.mon, c)
    OBVIOUS
  <1>6. Selected(t.sel, t.pertag, p)
    <2>1. /\ \A d \in Clients \ {c} : p[d] = s.mon[d]
          /\ \A n \in Monitors : t.sel[n] # c \/ c \in Docks
          /\ \A n \in Monitors, i \in 0..TagCount : t.pertag[n][i] # c
      BY <1>2, <1>3, <1>5 DEF Ignored
    <2>2. QED BY <2>1, <1>1, <1>4, SelectedMoved
  <1>7. QED BY <1>3, <1>5, <1>6

\* In t client c is on no list, no stack and not selected; its record is as in s.
Lifted(s, t, c) ==
  /\ t \in Desktops /\ SameRecords(s, t) /\ Ignored(t, c)
  /\ Listed(t.list, Off(s.mon, c)) /\ Listed(t.stack, Off(s.mon, c))
  /\ Selected(t.sel, t.pertag, Off(s.mon, c))
  /\ Grouped(s) => Grouped(t)

\* The lists and stacks after c left those of monitor m.
LEMMA ListsLifted ==
  ASSUME NEW s, Core(s), NEW c \in Clients, NEW m \in Monitors, s.mon[c] = m,
         NEW l, l = [s.list EXCEPT ![m] = Without(s.list[m], c)],
         NEW k, k = [s.stack EXCEPT ![m] = Without(s.stack[m], c)]
  PROVE  /\ Listed(l, Off(s.mon, c)) /\ Listed(k, Off(s.mon, c))
         /\ Grouped(s) => \A n \in Monitors : Sorted(l[n], s.floating)
  <1>1. /\ s \in Desktops /\ s.list[m] \in Seq(Clients) /\ Enum(s.list[m], Owned(s.mon, m))
        /\ s.stack[m] \in Seq(Clients) /\ Enum(s.stack[m], Owned(s.mon, m)) /\ Distinct(s.list[m])
    BY ListFacts
  <1>2. /\ s.list \in [Monitors -> Seq(Clients)] /\ s.stack \in [Monitors -> Seq(Clients)]
        /\ s.mon \in [Clients -> Monitors \cup {None}]
    BY <1>1, FieldTypes
  <1>3. Listed(s.list, s.mon) /\ Listed(s.stack, s.mon)
    BY DEF Core
  <1>4. PICK w, v : w = Without(s.list[m], c) /\ v = Without(s.stack[m], c)
    OBVIOUS
  <1>5. w \in Seq(Clients) /\ Enum(w, Owned(s.mon, m) \ {c})
    BY <1>1, <1>4, WithoutEnum
  <1>6. v \in Seq(Clients) /\ Enum(v, Owned(s.mon, m) \ {c})
    BY <1>1, <1>4, WithoutEnum
  <1>7. Listed(l, Off(s.mon, c))
    <2>1. Listed([s.list EXCEPT ![m] = w], [s.mon EXCEPT ![c] = None])
      BY <1>2, <1>3, <1>5, ListedDrop
    <2>2. QED BY <2>1, <1>4 DEF Off
  <1>8. Listed(k, Off(s.mon, c))
    <2>1. Listed([s.stack EXCEPT ![m] = v], [s.mon EXCEPT ![c] = None])
      BY <1>2, <1>3, <1>6, ListedDrop
    <2>2. QED BY <2>1, <1>4 DEF Off
  <1>9. Grouped(s) => \A n \in Monitors : Sorted(l[n], s.floating)
    <2>1. SUFFICES ASSUME Grouped(s), NEW n \in Monitors PROVE Sorted(l[n], s.floating)
      OBVIOUS
    <2>2. Sorted(s.list[n], s.floating)
      BY <2>1, GroupedForm
    <2>3. CASE n = m
      <3>1. Sorted(Without(s.list[m], c), s.floating)
        BY <2>2, <2>3, <1>1, WithoutSorted
      <3>2. QED BY <3>1, <2>3, <1>2
    <2>4. CASE n # m
      BY <2>2, <2>4, <1>2
    <2>5. QED BY <2>3, <2>4
  <1>10. QED BY <1>7, <1>8, <1>9

\* A client without a monitor is on no list anyway.
LEMMA LiftedNowhere ==
  ASSUME NEW s, Core(s), NEW c \in Clients, s.mon[c] = None
  PROVE  Lifted(s, s, c)
  <1>1. s \in Desktops /\ Listed(s.list, s.mon) /\ Listed(s.stack, s.mon) /\ Selected(s.sel, s.pertag, s.mon)
    BY DEF Core
  <1>2. s.mon \in [Clients -> Monitors \cup {None}]
    BY <1>1, FieldTypes
  <1>3. Off(s.mon, c) = s.mon
    BY <1>2 DEF Off
  <1>4. \A n \in Monitors : s.mon[c] # n
    BY DesktopAssumption
  <1>5. Ignored(s, c)
    BY <1>4, CoreUnselected DEF Ignored
  <1>6. SameRecords(s, s)
    BY DEF SameRecords
  <1>7. QED BY <1>1, <1>3, <1>5, <1>6 DEF Lifted

\* What detaching a client leaves.
LEMMA LiftedFacts ==
  ASSUME NEW s, Core(s), NEW t \in Desktops, NEW c \in Clients, NEW m \in Monitors, s.mon[c] = m,
         SameRecords(s, t), Dropped(s, t, c, m),
         t.list = [s.list EXCEPT ![m] = Without(s.list[m], c)],
         t.stack = [s.stack EXCEPT ![m] = Without(s.stack[m], c)]
  PROVE  Lifted(s, t, c)
  <1>1. s \in Desktops /\ Selected(s.sel, s.pertag, s.mon)
    BY DEF Core
  <1>2. Ignored(t, c) /\ Selected(t.sel, t.pertag, Off(s.mon, c))
    BY <1>1, DroppedFacts
  <1>3. PICK l, k : l = t.list /\ k = t.stack
    OBVIOUS
  <1>4. /\ Listed(l, Off(s.mon, c)) /\ Listed(k, Off(s.mon, c))
        /\ Grouped(s) => \A n \in Monitors : Sorted(l[n], s.floating)
    BY <1>3, ListsLifted
  <1>5. t.floating = s.floating
    BY DEF SameRecords
  <1>6. Grouped(s) => Grouped(t)
    BY <1>3, <1>4, <1>5, GroupedForm
  <1>7. QED BY <1>2, <1>3, <1>4, <1>6 DEF Lifted

\* A window that closes is first forgotten, then detached.
LEMMA ClosedLifted ==
  ASSUME NEW s, Core(s), NEW c \in Clients, NEW a,
         a = IF s.mon[c] = None THEN s ELSE clear_selection_of(s, s.mon[c], c)
  PROVE  Lifted(s, detachstack(detach(a, c), c), c)
  <1>1. s \in Desktops /\ Listed(s.list, s.mon) /\ Listed(s.stack, s.mon)
    BY DEF Core
  <1>2. s.mon[c] \in Monitors \cup {None}
    BY <1>1, FieldTypes
  <1>3. CASE s.mon[c] = None
    <2>1. detachstack(detach(a, c), c) = s
      BY <1>3 DEF detach, detachstack
    <2>2. QED BY <2>1, <1>3, LiftedNowhere
  <1>4. CASE s.mon[c] # None
    <2>1. PICK m \in Monitors : s.mon[c] = m
      BY <1>2, <1>4
    <2>2. Cleared(s, a, c, m)
      BY <2>1, <1>1, <1>4, ClearForm
    <2>3. /\ a \in Desktops /\ SameRecords(s, a) /\ a.list = s.list /\ a.stack = s.stack
          /\ a.mon = s.mon
      BY <2>2 DEF Cleared, SameRecords
    <2>4. PICK t : t = detachstack(detach(a, c), c)
      OBVIOUS
    <2>5. Detached(a, t, c, m)
      BY <2>1, <2>3, <2>4, <1>1, DetachForm
    <2>6. /\ t \in Desktops /\ SameRecords(s, t)
          /\ t.list = [s.list EXCEPT ![m] = Without(s.list[m], c)]
          /\ t.stack = [s.stack EXCEPT ![m] = Without(s.stack[m], c)]
      BY <2>3, <2>5 DEF Detached, SameRecords
    <2>7. Dropped(s, t, c, m)
      <3>1. \A n \in Monitors \ {m} : t.sel[n] = s.sel[n] /\ t.pertag[n] = s.pertag[n]
        BY <2>2, <2>5 DEF Detached, Cleared
      <3>2. t.sel[m] # c /\ (t.sel[m] = s.sel[m] \/ t.sel[m] = None \/ t.sel[m] \in Owned(s.mon, m))
        BY <2>2, <2>3, <2>5 DEF Detached, Cleared
      <3>3. t.pertag = a.pertag
        BY <2>5 DEF Detached
      <3>4. QED BY <3>1, <3>2, <3>3, <2>2 DEF Cleared, Dropped
    <2>8. Lifted(s, t, c)
      BY <2>1, <2>6, <2>7, LiftedFacts
    <2>9. QED BY <2>4, <2>8
  <1>5. QED BY <1>3, <1>4

\* A window that changes monitors is first detached, then forgotten.
LEMMA SentLifted ==
  ASSUME NEW s, Core(s), NEW c \in Clients, NEW t, t = detachstack(detach(s, c), c),
         NEW a, a = IF s.mon[c] = None THEN t ELSE clear_selection_of(t, s.mon[c], c)
  PROVE  Lifted(s, a, c)
  <1>1. s \in Desktops /\ Listed(s.list, s.mon) /\ Listed(s.stack, s.mon)
    BY DEF Core
  <1>2. s.mon[c] \in Monitors \cup {None}
    BY <1>1, FieldTypes
  <1>3. CASE s.mon[c] = None
    <2>1. a = s
      BY <1>3 DEF detach, detachstack
    <2>2. QED BY <2>1, <1>3, LiftedNowhere
  <1>4. CASE s.mon[c] # None
    <2>1. PICK m \in Monitors : s.mon[c] = m
      BY <1>2, <1>4
    <2>2. Detached(s, t, c, m)
      BY <2>1, <1>1, DetachForm
    <2>3. t \in Desktops /\ SameRecords(s, t)
      BY <2>2 DEF Detached
    <2>4. Cleared(t, a, c, m)
      BY <2>1, <2>3, <1>4, ClearForm
    <2>5. /\ a \in Desktops /\ SameRecords(s, a)
          /\ a.list = [s.list EXCEPT ![m] = Without(s.list[m], c)]
          /\ a.stack = [s.stack EXCEPT ![m] = Without(s.stack[m], c)]
      BY <2>2, <2>4 DEF Detached, Cleared, SameRecords
    <2>6. Dropped(s, a, c, m)
      <3>1. \A n \in Monitors \ {m} : a.sel[n] = s.sel[n] /\ a.pertag[n] = s.pertag[n]
        BY <2>2, <2>4 DEF Detached, Cleared
      <3>2. a.sel[m] # c /\ (a.sel[m] = s.sel[m] \/ a.sel[m] = None \/ a.sel[m] \in Owned(s.mon, m))
        <4>1. t.sel[m] # c /\ (t.sel[m] = s.sel[m] \/ t.sel[m] = None \/ t.sel[m] \in Owned(s.mon, m))
          BY <2>2 DEF Detached
        <4>2. a.sel[m] # c /\ (a.sel[m] = t.sel[m] \/ a.sel[m] = None)
          BY <2>4 DEF Cleared
        <4>3. QED BY <4>1, <4>2
      <3>3. t.pertag = s.pertag
        BY <2>2 DEF Detached
      <3>4. QED BY <3>1, <3>2, <3>3, <2>4 DEF Cleared, Dropped
    <2>7. QED BY <2>1, <2>5, <2>6, LiftedFacts
  <1>5. QED BY <1>3, <1>4

\* New order, monitors, tags and flags.
Erased(s, o, p, g, F, S, H) ==
  [s EXCEPT !.order = o, !.mon = p, !.tags = g, !.floating = F, !.sticky = S, !.hidden = H]

\* Only these are new.
LEMMA ErasedFacts ==
  ASSUME NEW s \in Desktops, NEW o \in Seq(Clients), NEW p \in [Clients -> Monitors \cup {None}],
         NEW g \in [Clients -> SUBSET Tags], NEW F \in SUBSET Clients, NEW S \in SUBSET Clients,
         NEW H \in SUBSET Clients, NEW t, t = Erased(s, o, p, g, F, S, H)
  PROVE  /\ t \in Desktops /\ t.order = o /\ t.mon = p
         /\ t.tags = g /\ t.floating = F /\ t.sticky = S
         /\ t.hidden = H /\ t.list = s.list /\ t.stack = s.stack /\ t.mons = s.mons
         /\ t.sel = s.sel /\ t.pertag = s.pertag /\ t.view = s.view /\ t.cur = s.cur
         /\ t.selmon = s.selmon /\ t.locked = s.locked
  BY DEF Erased, Desktops

\* A window closes.
LEMMA UnmanageStep ==
  ASSUME NEW s, Core(s), NEW c \in ToSet(s.order), NEW t, Lifted(s, t, c),
         NEW u, u = focus(Removed(t, c), None)
  PROVE  Kept(s, u) /\ InView(s, u)
  <1>1. s \in Desktops /\ t \in Desktops /\ SameRecords(s, t) /\ Placed(s.order, s.mon, s.mons)
    BY DEF Core, Lifted
  <1>2. /\ s.order \in Seq(Clients) /\ s.mon \in [Clients -> Monitors \cup {None}]
        /\ s.tags \in [Clients -> SUBSET Tags]
    BY <1>1, FieldTypes
  <1>3. /\ c \in Clients /\ s.floating \in SUBSET ToSet(s.order)
        /\ s.sticky \in SUBSET ToSet(s.order) /\ s.hidden \in SUBSET ToSet(s.order)
        /\ ToSet(s.order) \subseteq Clients
    BY FlagTypes
  <1>4. PICK o, p, g, F, S, H : /\ o = Without(s.order, c) /\ p = Off(s.mon, c)
                                /\ g = [s.tags EXCEPT ![c] = {}] /\ F = s.floating \ {c}
                                /\ S = s.sticky \ {c} /\ H = s.hidden \ {c}
    OBVIOUS
  <1>5. PICK X : X = ToSet(s.order)
    OBVIOUS
  <1>6. Enum(s.order, X)
    BY <1>1, <1>5 DEF Enum, Placed
  <1>7. o \in Seq(Clients) /\ Enum(o, X \ {c})
    BY <1>2, <1>4, <1>6, WithoutEnum
  <1>8. Distinct(o) /\ ToSet(o) = ToSet(s.order) \ {c}
    BY <1>5, <1>7 DEF Enum
  <1>9. p \in [Clients -> Monitors \cup {None}] /\ g \in [Clients -> SUBSET Tags]
    BY <1>2, <1>4 DEF Off
  <1>10. F \in SUBSET Clients /\ S \in SUBSET Clients /\ H \in SUBSET Clients
    BY <1>3, <1>4
  <1>11. PICK r : r = Removed(t, c)
    OBVIOUS
  <1>12. r = Erased(t, o, p, g, F, S, H)
    BY <1>1, <1>4, <1>11 DEF Removed, Erased, SameRecords, Off
  <1>13. /\ r \in Desktops /\ r.order = o /\ r.mon = p /\ r.tags = g /\ r.floating = F
         /\ r.sticky = S /\ r.hidden = H /\ r.list = t.list /\ r.stack = t.stack /\ r.mons = t.mons
         /\ r.sel = t.sel /\ r.pertag = t.pertag /\ r.view = t.view /\ r.cur = t.cur
         /\ r.selmon = t.selmon /\ r.locked = t.locked
    BY <1>1, <1>7, <1>9, <1>10, <1>12, ErasedFacts
  <1>14. p[c] = None /\ \A d \in Clients \ {c} : p[d] = s.mon[d]
    BY <1>2, <1>3, <1>4 DEF Off
  <1>15. Placed(r.order, r.mon, r.mons)
    <2>1. Distinct(r.order) /\ Distinct(r.mons) /\ r.mons = s.mons
      BY <1>1, <1>8, <1>13 DEF Placed, SameRecords
    <2>2. ASSUME NEW d \in Clients
          PROVE  IF d \in ToSet(r.order) /\ r.mons # <<>> THEN r.mon[d] \in ToSet(r.mons)
                                                        ELSE r.mon[d] = None
      BY <2>1, <1>1, <1>8, <1>13, <1>14 DEF Placed
    <2>3. QED BY <2>1, <2>2 DEF Placed
  <1>16. Core(r)
    <2>1. Chosen(r.mons, r.selmon) /\ Viewed(r.view, r.cur) /\ Distinct(r.locked)
      BY <1>1, <1>13 DEF Core, SameRecords
    <2>2. r.floating \cup r.sticky \cup r.hidden \subseteq ToSet(r.order)
      BY <1>3, <1>4, <1>8, <1>13
    <2>3. Listed(r.list, r.mon) /\ Listed(r.stack, r.mon) /\ Selected(r.sel, r.pertag, r.mon)
      BY <1>4, <1>13 DEF Lifted
    <2>4. QED BY <2>1, <2>2, <2>3, <1>13, <1>15 DEF Core
  <1>17. Tidy(s) => Grouped(r)
    <2>1. SUFFICES ASSUME Grouped(s), NEW n \in Monitors PROVE Sorted(r.list[n], r.floating)
      BY GroupedForm DEF Tidy
    <2>2. Grouped(t)
      BY <2>1 DEF Lifted
    <2>3. Sorted(t.list[n], s.floating)
      BY <2>2, <1>1, GroupedForm DEF SameRecords
    <2>4. ToSet(r.list[n]) = Owned(p, n)
      BY <1>13, <1>16, ListFacts
    <2>5. c \notin ToSet(r.list[n])
      BY <2>4, <1>14, DesktopAssumption DEF Owned
    <2>6. \A x \in ToSet(t.list[n]) : x \in s.floating <=> x \in F
      BY <2>5, <1>4, <1>13
    <2>7. QED BY <2>3, <2>6, <1>13, SortedAgree
  <1>18. Clear(s) => Clear(r)
    BY <1>1, <1>13 DEF Clear, is_locked, SameRecords
  <1>19. QED BY <1>11, <1>16, <1>17, <1>18, EndsWithFocus

\* u is s with a client on another monitor.
Transferred(s, u) ==
  /\ Core(u) /\ u.selmon = s.selmon /\ u.locked = s.locked /\ u.mons = s.mons
  /\ Grouped(s) => Grouped(u)

\* A window's record moves before the window is attached.
Rehomed(s, c, m) == [s EXCEPT !.mon[c] = m, !.tags[c] = s.view[m]]

\* The record, and nothing else, is new.
LEMMA RehomedFacts ==
  ASSUME NEW s \in Desktops, NEW c \in Clients, NEW m \in Monitors, NEW r, r = Rehomed(s, c, m)
  PROVE  /\ r \in Desktops /\ r.mon = [s.mon EXCEPT ![c] = m] /\ r.order = s.order
         /\ r.floating = s.floating /\ r.sticky = s.sticky
         /\ r.hidden = s.hidden /\ r.list = s.list /\ r.stack = s.stack /\ r.mons = s.mons
         /\ r.sel = s.sel /\ r.pertag = s.pertag /\ r.view = s.view /\ r.cur = s.cur
         /\ r.selmon = s.selmon /\ r.locked = s.locked
  <1>1. /\ s.order \in Seq(Clients) /\ s.mon \in [Clients -> Monitors \cup {None}]
        /\ s.tags \in [Clients -> SUBSET Tags] /\ s.floating \in SUBSET Clients
        /\ s.view \in [Monitors -> SUBSET Tags]
    BY FieldTypes
  <1>2. PICK p, g : p = [s.mon EXCEPT ![c] = m] /\ g = [s.tags EXCEPT ![c] = s.view[m]]
    OBVIOUS
  <1>3. p \in [Clients -> Monitors \cup {None}] /\ g \in [Clients -> SUBSET Tags]
    BY <1>1, <1>2
  <1>4. r = Filled(s, s.order, p, g, s.floating)
    BY <1>2 DEF Rehomed, Filled, Desktops
  <1>5. QED BY <1>1, <1>2, <1>3, <1>4, FilledFacts

\* A lifted window is attached to monitor m.
LEMMA LiftedAttached ==
  ASSUME NEW s, Core(s), NEW c \in ToSet(s.order), NEW m \in ToSet(s.mons), NEW t, Lifted(s, t, c),
         NEW u, u = attachstack(attach_back(Rehomed(t, c, m), c), c)
  PROVE  Transferred(s, u)
  <1>1. /\ s \in Desktops /\ t \in Desktops /\ SameRecords(s, t) /\ Placed(s.order, s.mon, s.mons)
        /\ Listed(t.list, Off(s.mon, c)) /\ Listed(t.stack, Off(s.mon, c))
        /\ Selected(t.sel, t.pertag, Off(s.mon, c)) /\ Ignored(t, c)
    BY DEF Core, Lifted
  <1>2. /\ s.order \in Seq(Clients) /\ s.mon \in [Clients -> Monitors \cup {None}]
        /\ s.mons \in Seq(Monitors) /\ t.list \in [Monitors -> Seq(Clients)]
        /\ t.stack \in [Monitors -> Seq(Clients)] /\ t.sel \in [Monitors -> Clients \cup {None}]
        /\ t.pertag \in [Monitors -> [0..TagCount -> Clients \cup {None}]]
    BY <1>1, FieldTypes
  <1>3. c \in Clients /\ m \in Monitors
    BY <1>2, EntryFacts
  <1>4. PICK r : r = Rehomed(t, c, m)
    OBVIOUS
  <1>5. /\ r \in Desktops /\ r.mon = [t.mon EXCEPT ![c] = m] /\ r.order = t.order
        /\ r.floating = t.floating /\ r.sticky = t.sticky
        /\ r.hidden = t.hidden /\ r.list = t.list /\ r.stack = t.stack /\ r.mons = t.mons
        /\ r.sel = t.sel /\ r.pertag = t.pertag /\ r.view = t.view /\ r.cur = t.cur
        /\ r.selmon = t.selmon /\ r.locked = t.locked
    BY <1>1, <1>3, <1>4, RehomedFacts
  <1>6. PICK p, X : p = Off(s.mon, c) /\ X = Owned(p, m)
    OBVIOUS
  <1>7. p \in [Clients -> Monitors \cup {None}] /\ p[c] = None
    BY <1>2, <1>3, <1>6 DEF Off
  <1>8. c \notin X
    BY <1>3, <1>6, <1>7, DesktopAssumption DEF Owned
  <1>9. Enum(r.list[m], X) /\ Enum(r.stack[m], X)
    BY <1>1, <1>3, <1>5, <1>6 DEF Listed
  <1>10. r.mon[c] = m
    BY <1>1, <1>2, <1>3, <1>5 DEF SameRecords
  <1>11. Relisted(r, m, X \cup {c}, r.list[m], attach_back(r, c))
    BY <1>3, <1>5, <1>8, <1>9, <1>10, AttachBackForm
  <1>12. PICK e \in Seq(Clients) : /\ Enum(e, X \cup {c})
                                   /\ Sorted(r.list[m], r.floating) => Sorted(e, r.floating)
                                   /\ attach_back(r, c) = WithList(r, m, e)
    BY <1>11 DEF Relisted
  <1>13. PICK b : b = WithList(r, m, e)
    OBVIOUS
  <1>14. /\ b \in Desktops /\ b.list = [r.list EXCEPT ![m] = e] /\ b.order = r.order
         /\ b.mon = r.mon /\ b.tags = r.tags /\ b.floating = r.floating /\ b.sticky = r.sticky
         /\ b.hidden = r.hidden /\ b.stack = r.stack /\ b.mons = r.mons /\ b.sel = r.sel
         /\ b.pertag = r.pertag /\ b.view = r.view /\ b.cur = r.cur /\ b.selmon = r.selmon
         /\ b.locked = r.locked
    BY <1>3, <1>5, <1>12, <1>13, WithListFacts
  <1>15. PICK k \in Seq(Clients) : Enum(k, X \cup {c}) /\ attachstack(b, c) = WithStack(b, m, k)
    <2>1. b.mon[c] = m /\ Enum(b.stack[m], X)
      BY <1>9, <1>10, <1>14
    <2>2. b \in Desktops
      BY <1>14
    <2>3. \E k \in Seq(Clients) : Enum(k, X \cup {c}) /\ attachstack(b, c) = WithStack(b, m, k)
      BY <2>1, <2>2, <1>3, <1>8, AttachStackForm
    <2>4. QED BY <2>3
  <1>16. u = WithStack(b, m, k)
    BY <1>4, <1>12, <1>13, <1>15
  <1>17. /\ u \in Desktops /\ u.stack = [b.stack EXCEPT ![m] = k] /\ u.order = b.order
         /\ u.mon = b.mon /\ u.tags = b.tags /\ u.floating = b.floating /\ u.sticky = b.sticky
         /\ u.hidden = b.hidden /\ u.list = b.list /\ u.mons = b.mons /\ u.sel = b.sel
         /\ u.pertag = b.pertag /\ u.view = b.view /\ u.cur = b.cur /\ u.selmon = b.selmon
         /\ u.locked = b.locked
    BY <1>3, <1>14, <1>15, <1>16, WithStackFacts
  <1>18. u.mon = [p EXCEPT ![c] = m]
    BY <1>1, <1>2, <1>3, <1>5, <1>6, <1>14, <1>17 DEF SameRecords, Off
  <1>19. Listed(u.list, u.mon)
    <2>1. Listed(t.list, p) /\ Enum(e, Owned(p, m) \cup {c})
      BY <1>1, <1>6, <1>12
    <2>2. Listed([t.list EXCEPT ![m] = e], [p EXCEPT ![c] = m])
      BY <2>1, <1>2, <1>3, <1>7, <1>12, ListedPut
    <2>3. QED BY <2>2, <1>5, <1>14, <1>17, <1>18
  <1>20. Listed(u.stack, u.mon)
    <2>1. Listed(t.stack, p) /\ Enum(k, Owned(p, m) \cup {c})
      BY <1>1, <1>6, <1>15
    <2>2. Listed([t.stack EXCEPT ![m] = k], [p EXCEPT ![c] = m])
      BY <2>1, <1>2, <1>3, <1>7, <1>15, ListedPut
    <2>3. QED BY <2>2, <1>5, <1>14, <1>17, <1>18
  <1>21. Selected(u.sel, u.pertag, u.mon)
    <2>1. PICK v : v = u.mon
      OBVIOUS
    <2>2. /\ Selected(t.sel, t.pertag, p) /\ \A d \in Clients \ {c} : v[d] = p[d]
          /\ \A n \in Monitors : t.sel[n] # c \/ c \in Docks
          /\ \A n \in Monitors, i \in 0..TagCount : t.pertag[n][i] # c
      BY <2>1, <1>1, <1>6, <1>7, <1>18 DEF Ignored
    <2>3. Selected(t.sel, t.pertag, v)
      BY <2>2, <1>2, <1>3, SelectedMoved
    <2>4. QED BY <2>1, <2>3, <1>5, <1>14, <1>17
  <1>22. /\ u.order = s.order /\ u.mons = s.mons /\ u.selmon = s.selmon /\ u.locked = s.locked
         /\ u.floating = s.floating /\ u.sticky = s.sticky /\ u.hidden = s.hidden
         /\ u.view = s.view /\ u.cur = s.cur
    BY <1>1, <1>5, <1>14, <1>17 DEF SameRecords
  <1>23. Placed(u.order, u.mon, u.mons)
    <2>1. s.mons # <<>>
      BY <1>2, EntryFacts
    <2>2. u.mon[c] = m /\ \A d \in Clients \ {c} : u.mon[d] = s.mon[d]
      BY <1>2, <1>3, <1>6, <1>7, <1>18 DEF Off
    <2>3. ASSUME NEW d \in Clients
          PROVE  IF d \in ToSet(u.order) /\ u.mons # <<>> THEN u.mon[d] \in ToSet(u.mons)
                                                        ELSE u.mon[d] = None
      BY <2>1, <2>2, <1>1, <1>22 DEF Placed
    <2>4. QED BY <2>3, <1>1, <1>22 DEF Placed
  <1>24. Core(u)
    BY <1>17, <1>19, <1>20, <1>21, <1>22, <1>23 DEF Core
  <1>25. Grouped(s) => Grouped(u)
    <2>1. SUFFICES ASSUME Grouped(s), NEW n \in Monitors PROVE Sorted(u.list[n], u.floating)
      BY GroupedForm
    <2>2. Grouped(t)
      BY <2>1 DEF Lifted
    <2>3. \A l \in Monitors : Sorted(r.list[l], r.floating)
      BY <2>2, <1>5, GroupedForm
    <2>4. CASE n = m
      BY <2>3, <2>4, <1>2, <1>3, <1>5, <1>12, <1>14, <1>17
    <2>5. CASE n # m
      BY <2>3, <2>5, <1>2, <1>3, <1>5, <1>14, <1>17
    <2>6. QED BY <2>4, <2>5
  <1>26. QED BY <1>22, <1>24, <1>25 DEF Transferred

\* A window changes monitors.
LEMMA SentFacts ==
  ASSUME NEW s, Core(s), NEW c \in ToSet(s.order), NEW m \in ToSet(s.mons)
  PROVE  Transferred(s, Sent(s, c, m))
  <1>1. PICK t, a : /\ t = detachstack(detach(s, c), c)
                    /\ a = IF s.mon[c] = None THEN t ELSE clear_selection_of(t, s.mon[c], c)
    OBVIOUS
  <1>2. c \in Clients
    BY FlagTypes
  <1>3. Lifted(s, a, c)
    BY <1>1, <1>2, SentLifted
  <1>4. Sent(s, c, m) = attachstack(attach_back(Rehomed(a, c, m), c), c)
    BY <1>1 DEF Sent, Rehomed
  <1>5. QED BY <1>3, <1>4, LiftedAttached

\* A window is sent to another monitor.
LEMMA SendmonStep ==
  ASSUME NEW s, Core(s), NEW c \in ToSet(s.order), NEW m \in ToSet(s.mons)
  PROVE  Kept(s, focus(Sent(s, c, m), None)) /\ InView(s, focus(Sent(s, c, m), None))
  <1>1. PICK t : t = Sent(s, c, m)
    OBVIOUS
  <1>2. Transferred(s, t)
    BY <1>1, SentFacts
  <1>3. Core(t) /\ (Tidy(s) => Grouped(t)) /\ (Clear(s) => Clear(t))
    BY <1>2 DEF Transferred, Tidy, Clear, is_locked
  <1>4. QED BY <1>1, <1>3, EndsWithFocus

\* A window is dropped on another monitor.
LEMMA DropStep ==
  ASSUME NEW s, Core(s), NEW c \in ToSet(s.order), NEW m \in ToSet(s.mons), ~is_locked(s, m),
         NEW u, u = focus([focus(Sent(s, c, m), None) EXCEPT !.selmon = m], None)
  PROVE  Kept(s, u) /\ InView(s, u)
  <1>1. PICK a, b, t : /\ a = Sent(s, c, m) /\ b = focus(a, None)
                       /\ t = [b EXCEPT !.selmon = m]
    OBVIOUS
  <1>2. Core(a) /\ a.locked = s.locked /\ a.mons = s.mons /\ (Grouped(s) => Grouped(a))
    BY <1>1, SentFacts DEF Transferred
  <1>3. Core(b) /\ Refocused(a, b)
    BY <1>1, <1>2, FocusFacts
  <1>4. Core(t) /\ Refocused(b, t) /\ t.selmon = m
    <2>1. m \in ToSet(b.mons)
      BY <1>2, <1>3 DEF Refocused
    <2>2. QED BY <2>1, <1>1, <1>3, SelectMonitor
  <1>5. Tidy(s) => Grouped(t)
    <2>1. t.list = a.list /\ t.floating = a.floating
      BY <1>3, <1>4 DEF Refocused
    <2>2. QED BY <2>1, <1>2, GroupedSame DEF Tidy
  <1>6. Clear(t)
    BY <1>2, <1>3, <1>4 DEF Clear, Refocused, is_locked
  <1>7. u = focus(t, None)
    BY <1>1
  <1>8. QED BY <1>4, <1>5, <1>6, <1>7, EndsWithFocus

------------------------------------------------------------------------------
(* Locks *)

\* u is s with the locks l.
Relocked(s, l, u) ==
  /\ Core(u) /\ u.locked = l
  /\ u.order = s.order /\ u.mon = s.mon /\ u.tags = s.tags /\ u.floating = s.floating
  /\ u.sticky = s.sticky /\ u.hidden = s.hidden /\ u.list = s.list /\ u.stack = s.stack
  /\ u.mons = s.mons /\ u.sel = s.sel /\ u.pertag = s.pertag /\ u.view = s.view
  /\ u.cur = s.cur /\ u.selmon = s.selmon

\* Other locks.
WithLocks(s, l) == [s EXCEPT !.locked = l]

\* Only the locks are new.
LEMMA RelockedFacts ==
  ASSUME NEW s, Core(s), NEW l \in Seq(Monitors), Distinct(l)
  PROVE  Relocked(s, l, WithLocks(s, l))
  <1>1. PICK u : u = WithLocks(s, l)
    OBVIOUS
  <1>2. s \in Desktops
    BY DEF Core
  <1>3. /\ u \in Desktops /\ u.locked = l
        /\ u.order = s.order /\ u.mon = s.mon /\ u.tags = s.tags /\ u.floating = s.floating
        /\ u.sticky = s.sticky /\ u.hidden = s.hidden /\ u.list = s.list /\ u.stack = s.stack
        /\ u.mons = s.mons /\ u.sel = s.sel /\ u.pertag = s.pertag /\ u.view = s.view
        /\ u.cur = s.cur /\ u.selmon = s.selmon
    BY <1>1, <1>2 DEF WithLocks, Desktops
  <1>4. Core(u)
    BY <1>3 DEF Core
  <1>5. QED BY <1>1, <1>3, <1>4 DEF Relocked

\* The keyboard is on no window, or on one in view, shade or not.
OnView(s) ==
  s.selmon = None \/ s.sel[s.selmon] = None \/ s.sel[s.selmon] \in Focusable(s)

\* What does not depend on the locks.
LEMMA RelockedSame ==
  ASSUME NEW s, NEW l, NEW u, Relocked(s, l, u)
  PROVE  /\ Core(u) /\ (Anchored(s) <=> Anchored(u)) /\ (Grouped(s) <=> Grouped(u))
         /\ Focusable(u) = Focusable(s) /\ (OnView(s) <=> OnView(u))
  <1>1. Focusable(u) = Focusable(s)
    BY DEF Relocked, Focusable, is_client_visible_by_key, is_client_visible_on_monitor, Managed
  <1>2. Grouped(s) <=> Grouped(u)
    BY GroupedSame DEF Relocked
  <1>3. QED BY <1>1, <1>2 DEF Relocked, Anchored, OnView

\* In view is on view and without a shade.
LEMMA SeenForm ==
  ASSUME NEW s
  PROVE  Seen(s) <=> OnView(s) /\ Clear(s)
  BY DEF Seen, OnView, Clear

\* With fewer locks than monitors there is an unlocked one.
LEMMA UnlockedExists ==
  ASSUME NEW s, Core(s), Len(s.locked) < Len(s.mons), NEW f, f = first_unlocked_monitor(s)
  PROVE  f # None /\ f \in ToSet(s.mons) /\ ~is_locked(s, f)
  <1>1. s.mons \in Seq(Monitors) /\ s.locked \in Seq(Monitors) /\ Distinct(s.mons)
    BY FieldTypes DEF Core, Placed
  <1>2. PICK x \in ToSet(s.mons) : x \notin ToSet(s.locked)
    BY <1>1, Pigeonhole
  <1>3. PICK G : G = Monitors \ ToSet(s.locked)
    OBVIOUS
  <1>4. x \in G
    BY <1>1, <1>2, <1>3, EntryFacts
  <1>5. None \notin Monitors
    BY DesktopAssumption
  <1>6. f = First(s.mons, G)
    BY <1>3 DEF first_unlocked_monitor
  <1>7. f # None
    <2>1. SUFFICES ASSUME f = None PROVE FALSE
      OBVIOUS
    <2>2. \/ First(s.mons, G) = None /\ ToSet(s.mons) \cap G = {}
          \/ \E i \in 1..Len(s.mons) : /\ First(s.mons, G) = s.mons[i] /\ s.mons[i] \in G
                                       /\ \A j \in 1..Len(s.mons) : s.mons[j] \in G => i <= j
      BY <1>1, <1>5, FirstFacts
    <2>3. QED BY <2>1, <2>2, <1>2, <1>3, <1>4, <1>5, <1>6
  <1>8. f \in ToSet(s.mons) \cap G
    BY <1>1, <1>5, <1>6, <1>7, FirstIn
  <1>9. QED BY <1>3, <1>7, <1>8 DEF is_locked

\* A shade is lifted.
LEMMA LiftStep ==
  ASSUME NEW s, Core(s), Anchored(s), NEW m, NEW u, u = [s EXCEPT !.locked = Without(@, m)]
  PROVE  Kept(s, u) /\ InView(s, u)
  <1>1. PICK l, X : l = Without(s.locked, m) /\ X = ToSet(s.locked)
    OBVIOUS
  <1>2. s.locked \in Seq(Monitors) /\ Enum(s.locked, X)
    BY <1>1, FieldTypes DEF Core, Enum
  <1>3. l \in Seq(Monitors) /\ Enum(l, X \ {m})
    BY <1>1, <1>2, WithoutEnum
  <1>4. Distinct(l) /\ ToSet(l) \subseteq ToSet(s.locked)
    BY <1>1, <1>3 DEF Enum
  <1>5. u = WithLocks(s, l)
    BY <1>1 DEF WithLocks
  <1>6. Relocked(s, l, u)
    <2>1. Relocked(s, l, WithLocks(s, l))
      BY <1>3, <1>4, RelockedFacts
    <2>2. QED BY <2>1, <1>5
  <1>7. Core(u) /\ Anchored(u) /\ (Grouped(s) => Grouped(u)) /\ (OnView(s) => OnView(u))
    BY <1>6, RelockedSame
  <1>8. Clear(s) => Clear(u)
    BY <1>4, <1>6 DEF Clear, Relocked, is_locked
  <1>9. QED BY <1>7, <1>8, SeenForm DEF Kept, InView, Tidy

\* A monitor is locked, but not the last clear one.
LEMMA LockStep ==
  ASSUME NEW s, Core(s), Anchored(s), NEW m \in ToSet(s.mons), ~is_locked(s, m),
         Len(s.locked) + 1 < Len(s.mons), NEW t, t = [s EXCEPT !.locked = Append(@, m)], NEW u,
         u = IF t.selmon = m THEN switch_monitor_focusing(t, first_unlocked_monitor(t), None) ELSE t
  PROVE  Kept(s, u) /\ InView(s, u)
  <1>1. PICK l, X : l = Append(s.locked, m) /\ X = ToSet(s.locked)
    OBVIOUS
  <1>2. s.locked \in Seq(Monitors) /\ s.mons \in Seq(Monitors) /\ Enum(s.locked, X)
    BY <1>1, FieldTypes DEF Core, Enum
  <1>3. m \in Monitors /\ m \notin X
    BY <1>1, <1>2, EntryFacts DEF is_locked
  <1>4. l \in Seq(Monitors) /\ Enum(l, X \cup {m})
    BY <1>1, <1>2, <1>3, AppendEnum
  <1>5. Distinct(l) /\ ToSet(l) = ToSet(s.locked) \cup {m}
    BY <1>1, <1>4 DEF Enum
  <1>6. t = WithLocks(s, l)
    BY <1>1 DEF WithLocks
  <1>7. Relocked(s, l, t)
    <2>1. Relocked(s, l, WithLocks(s, l))
      BY <1>4, <1>5, RelockedFacts
    <2>2. QED BY <2>1, <1>6
  <1>8. Core(t) /\ Anchored(t) /\ (Grouped(s) => Grouped(t)) /\ (OnView(s) => OnView(t))
    BY <1>7, RelockedSame
  <1>9. CASE t.selmon = m
    <2>1. Len(t.locked) < Len(t.mons)
      <3>1. Len(l) = Len(s.locked) + 1
        BY <1>1, <1>2
      <3>2. QED BY <3>1, <1>7 DEF Relocked
    <2>2. PICK f : f = first_unlocked_monitor(t)
      OBVIOUS
    <2>3. f \in ToSet(t.mons) /\ ~is_locked(t, f)
      BY <2>1, <2>2, <1>8, UnlockedExists
    <2>4. PICK v : v = switch_monitor_focusing(t, f, None)
      OBVIOUS
    <2>5. FocusDone(t, v) /\ Seen(v)
      BY <2>3, <2>4, <1>8, SwitchIsMove
    <2>6. Core(v) /\ Anchored(v) /\ Refocused(t, v)
      BY <2>5 DEF FocusDone
    <2>7. Grouped(t) => Grouped(v)
      BY <2>6, GroupedSame DEF Refocused
    <2>8. u = v
      BY <2>2, <2>4, <1>9
    <2>9. QED BY <2>5, <2>6, <2>7, <2>8, <1>8 DEF Kept, InView, Tidy
  <1>10. CASE t.selmon # m
    <2>1. Clear(s) => Clear(t)
      BY <1>5, <1>7, <1>10 DEF Clear, Relocked, is_locked
    <2>2. QED BY <2>1, <1>8, <1>10, SeenForm DEF Kept, InView, Tidy
  <1>11. QED BY <1>9, <1>10

\* The locks that pruning leaves.
PrunedLocks(s) ==
  LET kept  == Keep(s.locked, Present(s))
      spare == IF Len(kept) >= Len(s.mons) /\ kept # <<>>
                 THEN Len(kept) - Len(s.mons) + 1 ELSE 0
  IN  SubSeq(kept, spare + 1, Len(kept))

\* They are fewer than the outputs.
LEMMA PrunedLocksFacts ==
  ASSUME NEW s, Core(s), NEW l, l = PrunedLocks(s)
  PROVE  /\ l \in Seq(Monitors) /\ Distinct(l) /\ ToSet(l) \subseteq ToSet(s.locked)
         /\ s.mons # <<>> => Len(l) < Len(s.mons)
  <1>1. PICK k, X, P, n : k = Keep(s.locked, P) /\ X = ToSet(s.locked) /\ P = Present(s) /\ n = Len(s.mons)
    OBVIOUS
  <1>2. s.locked \in Seq(Monitors) /\ s.mons \in Seq(Monitors) /\ Enum(s.locked, X)
    BY <1>1, FieldTypes DEF Core, Enum
  <1>3. k \in Seq(Monitors) /\ Enum(k, X \cap P)
    BY <1>1, <1>2, KeepEnum
  <1>4. n \in Nat /\ Len(k) \in Nat /\ (s.mons # <<>> => n > 0)
    BY <1>1, <1>2, <1>3
  <1>5. k # <<>> => s.mons # <<>>
    <2>1. SUFFICES ASSUME k # <<>> PROVE s.mons # <<>>
      OBVIOUS
    <2>2. 1 \in 1..Len(k)
      BY <2>1, <1>3
    <2>3. k[1] \in ToSet(k)
      BY <2>2, <1>3, EntryFacts
    <2>4. k[1] \in ToSet(s.mons)
      BY <2>3, <1>1, <1>3 DEF Enum, Present
    <2>5. PICK i \in 1..Len(s.mons) : TRUE
      BY <2>4, <1>2, EntryFacts
    <2>6. QED BY <2>5, <1>2
  <1>6. PICK d : d = IF Len(k) >= n /\ k # <<>> THEN Len(k) - n + 1 ELSE 0
    OBVIOUS
  <1>7. d \in 0..Len(k)
    BY <1>4, <1>5, <1>6
  <1>8. l = SubSeq(k, d + 1, Len(k))
    BY <1>1, <1>6 DEF PrunedLocks
  <1>9. l \in Seq(Monitors) /\ Len(l) = Len(k) - d /\ \A i \in 1..(Len(k) - d) : l[i] = k[d + i]
    BY <1>3, <1>7, <1>8, RestFacts
  <1>10. DOMAIN l = 1..(Len(k) - d) /\ DOMAIN k = 1..Len(k)
    BY <1>3, <1>4, <1>7, <1>9
  <1>11. \A i \in 1..(Len(k) - d) : d + i \in 1..Len(k)
    BY <1>4, <1>7
  <1>12. Distinct(l)
    <2>1. ASSUME NEW i \in 1..(Len(k) - d), NEW j \in 1..(Len(k) - d), l[i] = l[j] PROVE i = j
      <3>1. k[d + i] = k[d + j]
        BY <2>1, <1>9
      <3>2. d + i = d + j
        BY <3>1, <1>3, <1>10, <1>11 DEF Enum, Distinct
      <3>3. QED BY <3>2, <1>4, <1>7
    <2>2. QED BY <2>1, <1>10 DEF Distinct
  <1>13. ASSUME NEW x \in ToSet(l) PROVE x \in ToSet(s.locked)
    <2>1. PICK i \in 1..(Len(k) - d) : x = l[i]
      BY <1>10 DEF ToSet
    <2>2. x = k[d + i] /\ d + i \in 1..Len(k)
      BY <2>1, <1>9, <1>11
    <2>3. x \in ToSet(k)
      BY <2>2, <1>3, EntryFacts
    <2>4. QED BY <2>3, <1>1, <1>3 DEF Enum
  <1>14. s.mons # <<>> => Len(l) < n
    <2>1. k = <<>> => Len(k) = 0
      OBVIOUS
    <2>2. QED BY <2>1, <1>4, <1>6, <1>9
  <1>15. QED BY <1>1, <1>9, <1>12, <1>13, <1>14

\* u is s after its locks were pruned.
Pruned(s, u) ==
  /\ Core(u) /\ (Anchored(s) => Anchored(u)) /\ (Grouped(s) => Grouped(u))
  /\ Clear(u) /\ (OnView(s) => Seen(u))

\* After pruning the selected monitor is clear.
LEMMA PruneFacts ==
  ASSUME NEW s, Core(s)
  PROVE  Pruned(s, prune_monitor_locks(s))
  <1>1. PICK l, t, f : l = PrunedLocks(s) /\ t = WithLocks(s, l) /\ f = first_unlocked_monitor(t)
    OBVIOUS
  <1>2. /\ l \in Seq(Monitors) /\ Distinct(l)
        /\ s.mons # <<>> => Len(l) < Len(s.mons)
    BY <1>1, PrunedLocksFacts
  <1>3. Relocked(s, l, t)
    BY <1>1, <1>2, RelockedFacts
  <1>4. Core(t) /\ (Anchored(s) => Anchored(t)) /\ (Grouped(s) => Grouped(t)) /\ (OnView(s) => OnView(t))
    BY <1>3, RelockedSame
  <1>5. PICK u : u = prune_monitor_locks(s)
    OBVIOUS
  <1>6. u = IF t.selmon # None /\ is_locked(t, t.selmon) /\ f # None
              THEN switch_monitor_focusing(t, f, None) ELSE t
    BY <1>1, <1>5 DEF prune_monitor_locks, PrunedLocks, WithLocks
  <1>7. CASE t.selmon = None \/ ~is_locked(t, t.selmon)
    <2>1. u = t /\ Clear(t)
      BY <1>6, <1>7 DEF Clear
    <2>2. QED BY <2>1, <1>4, <1>5, SeenForm DEF Pruned
  <1>8. CASE t.selmon # None /\ is_locked(t, t.selmon)
    <2>1. t.mons = s.mons /\ t.locked = l /\ t.mons # <<>>
      BY <1>3, <1>4, <1>8 DEF Relocked, Core, Chosen
    <2>2. Len(t.locked) < Len(t.mons)
      BY <2>1, <1>2
    <2>3. f # None /\ f \in ToSet(t.mons) /\ ~is_locked(t, f)
      BY <2>2, <1>1, <1>4, UnlockedExists
    <2>4. PICK v : v = switch_monitor_focusing(t, f, None)
      OBVIOUS
    <2>5. FocusDone(t, v) /\ Seen(v)
      BY <2>3, <2>4, <1>4, SwitchIsMove
    <2>6. Core(v) /\ Anchored(v) /\ Refocused(t, v)
      BY <2>5 DEF FocusDone
    <2>7. Grouped(t) => Grouped(v)
      BY <2>6, GroupedSame DEF Refocused
    <2>8. u = v /\ Clear(v)
      BY <2>3, <2>4, <2>5, <1>6, <1>8, SeenForm
    <2>9. QED BY <2>5, <2>6, <2>7, <2>8, <1>4, <1>5 DEF Pruned
  <1>9. QED BY <1>7, <1>8

------------------------------------------------------------------------------
(* Outputs come and go *)

\* A sequence of one group only is grouped.
LEMMA OneGroup ==
  ASSUME NEW T, NEW q \in Seq(T), NEW F, ToSet(q) \cap F = {} \/ ToSet(q) \subseteq F
  PROVE  Sorted(q, F)
  <1>1. \A i \in DOMAIN q : q[i] \in ToSet(q)
    BY DEF ToSet
  <1>2. QED BY <1>1 DEF Sorted

\* The list that q is merged into: tiles before the floating windows.
Merged(old, at, q, F) ==
  Before(old, at) \o Keep(q, Clients \ F) \o Onward(old, at) \o Keep(q, F)

\* In desktop s.
MergedInto(s, old, q) == Merged(old, FirstFloating(s, old), q, s.floating)

\* The merged list names the members of both, each once, and is grouped.
LEMMA MergedFacts ==
  ASSUME NEW s, NEW old \in Seq(Clients), NEW X, Enum(old, X), NEW q \in Seq(Clients), NEW Q,
         Enum(q, Q), X \cap Q = {}, NEW e, e = MergedInto(s, old, q)
  PROVE  /\ e \in Seq(Clients) /\ Enum(e, X \cup Q)
         /\ Sorted(old, s.floating) => Sorted(e, s.floating)
  <1>0. PICK at, F : at = FirstFloating(s, old) /\ F = s.floating
    OBVIOUS
  <1>1. PICK a, b, c, d : /\ a = Before(old, at) /\ b = Keep(q, Clients \ F)
                          /\ c = Onward(old, at) /\ d = Keep(q, F)
    OBVIOUS
  <1>2. /\ at \in 1..(Len(old) + 1)
        /\ \A k \in 1..(at - 1) : old[k] \notin F
        /\ Sorted(old, F) => \A k \in at..Len(old) : old[k] \in F
    BY <1>0, FirstFloatingFacts DEF Enum
  <1>3. PICK A, C : A = ToSet(a) /\ C = ToSet(c)
    OBVIOUS
  <1>4. /\ a \in Seq(Clients) /\ c \in Seq(Clients) /\ Enum(a, A) /\ Enum(c, C)
        /\ A \cup C = X /\ A \cap C = {}
    <2>1. /\ a \in Seq(Clients) /\ c \in Seq(Clients)
          /\ Distinct(a) /\ Distinct(c) /\ ToSet(a) \cup ToSet(c) = X /\ ToSet(a) \cap ToSet(c) = {}
      BY <1>1, <1>2, CutFacts
    <2>2. QED BY <2>1, <1>3 DEF Enum
  <1>5. A \cap F = {} /\ (Sorted(old, F) => C \subseteq F)
    <2>1. ToSet(Before(old, at)) \cap F = {}
      BY <1>2, CutFacts
    <2>2. (\A k \in at..Len(old) : old[k] \in F) => ToSet(Onward(old, at)) \subseteq F
      BY <1>2, CutFacts
    <2>3. QED BY <2>1, <2>2, <1>1, <1>2, <1>3
  <1>6. PICK B, D, G : B = Q \cap G /\ D = Q \cap F /\ G = Clients \ F
    OBVIOUS
  <1>7. b \in Seq(Clients) /\ Enum(b, B)
    BY <1>1, <1>6, KeepEnum
  <1>8. d \in Seq(Clients) /\ Enum(d, D)
    BY <1>1, <1>6, KeepEnum
  <1>9. Q \subseteq Clients /\ B \cup D = Q /\ B \cap D = {} /\ A \cap B = {}
    <2>1. Q \subseteq Clients
      BY EntryFacts DEF Enum
    <2>2. QED BY <2>1, <1>4, <1>6
  <1>10. a \o b \in Seq(Clients) /\ Enum(a \o b, A \cup B)
    BY <1>4, <1>7, <1>9, JoinEnum
  <1>11. PICK ab, E : ab = a \o b /\ E = A \cup B
    OBVIOUS
  <1>12. ab \in Seq(Clients) /\ Enum(ab, E) /\ E \cap C = {}
    BY <1>4, <1>6, <1>10, <1>11
  <1>13. ab \o c \in Seq(Clients) /\ Enum(ab \o c, E \cup C)
    BY <1>4, <1>12, JoinEnum
  <1>14. PICK abc, H : abc = ab \o c /\ H = E \cup C
    OBVIOUS
  <1>15. abc \in Seq(Clients) /\ Enum(abc, H) /\ H \cap D = {} /\ H \cup D = X \cup Q
    BY <1>4, <1>6, <1>9, <1>11, <1>13, <1>14
  <1>16. abc \o d \in Seq(Clients) /\ Enum(abc \o d, H \cup D)
    BY <1>8, <1>15, JoinEnum
  <1>17. e = abc \o d
    BY <1>0, <1>1, <1>11, <1>14 DEF Merged, MergedInto
  <1>18. Sorted(old, F) => Sorted(e, F)
    <2>1. SUFFICES ASSUME Sorted(old, F) PROVE Sorted(abc \o d, F)
      BY <1>17
    <2>2. ToSet(a) \cap F = {} /\ ToSet(b) \cap F = {} /\ ToSet(c) \subseteq F /\ ToSet(d) \subseteq F
      BY <2>1, <1>3, <1>5, <1>6, <1>7, <1>8 DEF Enum
    <2>3. Sorted(a, F) /\ Sorted(b, F) /\ Sorted(c, F) /\ Sorted(d, F)
      BY <2>2, <1>4, <1>7, <1>8, OneGroup
    <2>4. ToSet(ab) \cap F = {}
      BY <2>2, <1>3, <1>5, <1>6, <1>11, <1>12 DEF Enum
    <2>5. Sorted(ab, F)
      BY <2>4, <1>12, OneGroup
    <2>6. Sorted(abc, F)
      BY <2>3, <2>4, <2>5, <1>4, <1>12, <1>14, JoinSorted
    <2>7. QED BY <2>2, <2>3, <2>6, <1>8, <1>15, JoinSorted
  <1>19. QED BY <1>0, <1>15, <1>16, <1>17, <1>18

\* The selections of all monitors but h are of their own windows.
SelectedBut(sel, pertag, mon, h) ==
  \A m \in Monitors \ {h} :
    /\ sel[m] \notin Docks \cup {None} => mon[sel[m]] = m
    /\ \A i \in 0..TagCount :
         pertag[m][i] # None => pertag[m][i] \notin Docks /\ mon[pertag[m][i]] = m

\* The clients of Q are on m, the others where they were.
Taken(mon, Q, m) == [c \in Clients |-> IF c \in Q THEN m ELSE mon[c]]

\* Neither the records nor the selections of s and t differ, but for monitors.
SameChoice(s, t) ==
  /\ t.order = s.order /\ t.tags = s.tags /\ t.floating = s.floating /\ t.sticky = s.sticky
  /\ t.hidden = s.hidden /\ t.mons = s.mons /\ t.view = s.view /\ t.cur = s.cur
  /\ t.selmon = s.selmon /\ t.locked = s.locked /\ t.sel = s.sel /\ t.pertag = s.pertag

\* In t the clients of Q are on m.
Gathered(s, t, Q, m, h) ==
  /\ t \in Desktops /\ SameChoice(s, t) /\ t.mon = Taken(s.mon, Q, m)
  /\ Listed(t.list, t.mon) /\ Listed(t.stack, t.mon) /\ SelectedBut(t.sel, t.pertag, t.mon, h)
  /\ Grouped(s) => Grouped(t)

\* New monitors, lists and stacks.
Regathered(s, p, l, k) == [s EXCEPT !.mon = p, !.list = l, !.stack = k]

\* The desktop t after that.
HasRegathered(s, p, l, k, t) ==
  t \in Desktops /\ SameChoice(s, t) /\ t.mon = p /\ t.list = l /\ t.stack = k

\* Only these are new.
LEMMA RegatheredFacts ==
  ASSUME NEW s \in Desktops, NEW p \in [Clients -> Monitors \cup {None}],
         NEW l \in [Monitors -> Seq(Clients)], NEW k \in [Monitors -> Seq(Clients)],
         NEW t, t = Regathered(s, p, l, k)
  PROVE  HasRegathered(s, p, l, k, t)
  BY DEF Regathered, Desktops, SameChoice, HasRegathered

\* One list after the clients of Q entered it.
LEMMA ListedGather ==
  ASSUME NEW f \in [Monitors -> Seq(Clients)], NEW mon \in [Clients -> Monitors \cup {None}],
         Listed(f, mon), NEW Q \in SUBSET Clients, \A c \in Q : mon[c] = None, NEW m \in Monitors,
         NEW e \in Seq(Clients), Enum(e, Owned(mon, m) \cup Q)
  PROVE  /\ [f EXCEPT ![m] = e] \in [Monitors -> Seq(Clients)]
         /\ Listed([f EXCEPT ![m] = e], Taken(mon, Q, m))
  <1>1. [f EXCEPT ![m] = e] \in [Monitors -> Seq(Clients)]
    OBVIOUS
  <1>2. ASSUME NEW n \in Monitors PROVE Enum([f EXCEPT ![m] = e][n], Owned(Taken(mon, Q, m), n))
    <2>1. CASE n = m
      <3>1. Owned(Taken(mon, Q, m), m) = Owned(mon, m) \cup Q
        BY DEF Owned, Taken
      <3>2. QED BY <2>1, <3>1
    <2>2. CASE n # m
      <3>1. n # None
        BY DesktopAssumption
      <3>2. Owned(Taken(mon, Q, m), n) = Owned(mon, n)
        BY <2>2, <3>1 DEF Owned, Taken
      <3>3. QED BY <2>2, <3>2 DEF Listed
    <2>3. QED BY <2>1, <2>2
  <1>3. QED BY <1>1, <1>2 DEF Listed

\* Windows without a monitor go to monitor m.
LEMMA AttachAllFacts ==
  ASSUME NEW s \in Desktops, Listed(s.list, s.mon), Listed(s.stack, s.mon), NEW h,
         SelectedBut(s.sel, s.pertag, s.mon, h), NEW q \in Seq(Clients), NEW Q, Enum(q, Q),
         \A c \in Q : s.mon[c] = None, NEW m \in Monitors
  PROVE  Gathered(s, AttachAll(s, q, m), Q, m, h)
  <1>1. /\ s.list \in [Monitors -> Seq(Clients)] /\ s.stack \in [Monitors -> Seq(Clients)]
        /\ s.mon \in [Clients -> Monitors \cup {None}]
    BY FieldTypes
  <1>2. PICK old, at, F, X : /\ old = s.list[m] /\ at = FirstFloating(s, old)
                             /\ F = s.floating /\ X = Owned(s.mon, m)
    OBVIOUS
  <1>3. old \in Seq(Clients) /\ Enum(old, X) /\ s.stack[m] \in Seq(Clients) /\ Enum(s.stack[m], X)
    BY <1>1, <1>2 DEF Listed
  <1>4. Q \in SUBSET Clients /\ X \cap Q = {} /\ ToSet(q) = Q
    <2>1. Q \in SUBSET Clients /\ ToSet(q) = Q
      BY EntryFacts DEF Enum
    <2>2. m # None
      BY DesktopAssumption
    <2>3. QED BY <2>1, <2>2, <1>2 DEF Owned
  <1>5. PICK e : e = MergedInto(s, old, q)
    OBVIOUS
  <1>6. e \in Seq(Clients) /\ Enum(e, X \cup Q) /\ (Sorted(old, F) => Sorted(e, F))
    <2>1. /\ e \in Seq(Clients) /\ Enum(e, X \cup Q)
          /\ Sorted(old, s.floating) => Sorted(e, s.floating)
      BY <1>3, <1>4, <1>5, MergedFacts
    <2>2. QED BY <2>1, <1>2
  <1>7. PICK k : k = Reverse(q) \o s.stack[m]
    OBVIOUS
  <1>8. k \in Seq(Clients) /\ Enum(k, X \cup Q)
    <2>1. PICK r : r = Reverse(q)
      OBVIOUS
    <2>2. r \in Seq(Clients) /\ Enum(r, Q)
      BY <2>1, ReverseEnum
    <2>3. r \o s.stack[m] \in Seq(Clients) /\ Enum(r \o s.stack[m], Q \cup X)
      BY <2>2, <1>3, <1>4, JoinEnum
    <2>4. Q \cup X = X \cup Q
      OBVIOUS
    <2>5. QED BY <2>1, <2>3, <2>4, <1>7
  <1>9. PICK p, l, w : /\ p = Taken(s.mon, Q, m) /\ l = [s.list EXCEPT ![m] = e]
                       /\ w = [s.stack EXCEPT ![m] = k]
    OBVIOUS
  <1>10. l \in [Monitors -> Seq(Clients)] /\ Listed(l, p)
    <2>1. Enum(e, Owned(s.mon, m) \cup Q)
      BY <1>2, <1>6
    <2>2. QED BY <2>1, <1>1, <1>4, <1>6, <1>9, ListedGather
  <1>11. w \in [Monitors -> Seq(Clients)] /\ Listed(w, p)
    <2>1. Enum(k, Owned(s.mon, m) \cup Q)
      BY <1>2, <1>8
    <2>2. QED BY <2>1, <1>1, <1>4, <1>8, <1>9, ListedGather
  <1>12. p \in [Clients -> Monitors \cup {None}]
    BY <1>1, <1>9 DEF Taken
  <1>13. PICK t : t = AttachAll(s, q, m)
    OBVIOUS
  <1>14. t = Regathered(s, p, l, w)
    BY <1>2, <1>4, <1>5, <1>7, <1>9, <1>13 DEF AttachAll, Regathered, Merged, MergedInto, Taken, Before, Onward
  <1>15. t \in Desktops /\ SameChoice(s, t) /\ t.mon = p /\ t.list = l /\ t.stack = w
    <2>1. HasRegathered(s, p, l, w, t)
      BY <1>10, <1>11, <1>12, <1>14, RegatheredFacts
    <2>2. QED BY <2>1 DEF HasRegathered
  <1>16. SelectedBut(t.sel, t.pertag, t.mon, h)
    <2>1. t.sel = s.sel /\ t.pertag = s.pertag
      BY <1>15 DEF SameChoice
    <2>2. ASSUME NEW c, NEW n \in Monitors, c \in Clients, s.mon[c] = n PROVE p[c] = n
      <3>1. n # None
        BY DesktopAssumption
      <3>2. c \notin Q
        BY <2>2, <3>1
      <3>3. QED BY <2>2, <3>2, <1>9 DEF Taken
    <2>3. /\ s.sel \in [Monitors -> Clients \cup {None}]
          /\ s.pertag \in [Monitors -> [0..TagCount -> Clients \cup {None}]]
      BY FieldTypes
    <2>4. ASSUME NEW n \in Monitors \ {h}, s.sel[n] \notin Docks \cup {None} PROVE p[s.sel[n]] = n
      <3>1. s.sel[n] \in Clients /\ s.mon[s.sel[n]] = n
        BY <2>3, <2>4 DEF SelectedBut
      <3>2. QED BY <3>1, <2>2
    <2>5. ASSUME NEW n \in Monitors \ {h}, NEW i \in 0..TagCount, s.pertag[n][i] # None
          PROVE  s.pertag[n][i] \notin Docks /\ p[s.pertag[n][i]] = n
      <3>1. s.pertag[n] \in [0..TagCount -> Clients \cup {None}]
        BY <2>3
      <3>2. s.pertag[n][i] \in Clients
        BY <3>1, <2>5
      <3>3. s.pertag[n][i] \notin Docks /\ s.mon[s.pertag[n][i]] = n
        BY <2>5 DEF SelectedBut
      <3>4. QED BY <3>2, <3>3, <2>2
    <2>6. QED BY <2>1, <2>4, <2>5, <1>15 DEF SelectedBut
  <1>17. Grouped(s) => Grouped(t)
    <2>1. SUFFICES ASSUME Grouped(s), NEW n \in Monitors PROVE Sorted(t.list[n], t.floating)
      BY GroupedForm
    <2>2. Sorted(s.list[n], s.floating) /\ t.floating = s.floating
      BY <2>1, <1>15, GroupedForm DEF SameChoice
    <2>3. CASE n = m
      BY <2>2, <2>3, <1>1, <1>2, <1>6, <1>9, <1>15
    <2>4. CASE n # m
      BY <2>2, <2>4, <1>1, <1>9, <1>15
    <2>5. QED BY <2>3, <2>4
  <1>18. Gathered(s, t, Q, m, h)
    BY <1>9, <1>10, <1>11, <1>15, <1>16, <1>17 DEF Gathered
  <1>19. QED BY <1>13, <1>18

\* New lists, stacks, selections, views and slots.
Refitted(s, l, k, x, y, v, w) ==
  [s EXCEPT !.list = l, !.stack = k, !.sel = x, !.pertag = y, !.view = v, !.cur = w]

\* The desktop t after that.
HasRefitted(s, l, k, x, y, v, w, t) ==
  /\ t \in Desktops /\ t.list = l /\ t.stack = k /\ t.sel = x /\ t.pertag = y /\ t.view = v
  /\ t.cur = w /\ t.order = s.order /\ t.mon = s.mon /\ t.tags = s.tags
  /\ t.floating = s.floating /\ t.sticky = s.sticky /\ t.hidden = s.hidden /\ t.mons = s.mons
  /\ t.selmon = s.selmon /\ t.locked = s.locked

\* Only these are new.
LEMMA RefittedFacts ==
  ASSUME NEW s \in Desktops, NEW l \in [Monitors -> Seq(Clients)],
         NEW k \in [Monitors -> Seq(Clients)], NEW x \in [Monitors -> Clients \cup {None}],
         NEW y \in [Monitors -> [0..TagCount -> Clients \cup {None}]],
         NEW v \in [Monitors -> SUBSET Tags], NEW w \in [Monitors -> 0..TagCount]
  PROVE  HasRefitted(s, l, k, x, y, v, w, Refitted(s, l, k, x, y, v, w))
  BY DEF Refitted, HasRefitted, Desktops

\* t is s with a fresh record of monitor m, on which nobody is.
Blanked(s, t, m) ==
  /\ t \in Desktops
  /\ Listed(t.list, t.mon) /\ Listed(t.stack, t.mon) /\ Selected(t.sel, t.pertag, t.mon)
  /\ Viewed(t.view, t.cur) /\ t.sel[m] = None
  /\ \A n \in Monitors \ {m} : t.sel[n] = s.sel[n] /\ t.view[n] = s.view[n]
  /\ t.order = s.order /\ t.mon = s.mon /\ t.tags = s.tags /\ t.floating = s.floating
  /\ t.sticky = s.sticky /\ t.hidden = s.hidden /\ t.mons = s.mons /\ t.selmon = s.selmon
  /\ t.locked = s.locked
  /\ Grouped(s) => Grouped(t)

\* No entry.
LEMMA EmptyEnum ==
  <<>> \in Seq(Clients) /\ Enum(<<>>, {}) /\ \A F : Sorted(<<>>, F)
  <1>1. DOMAIN <<>> = {} /\ <<>> \in Seq(Clients)
    OBVIOUS
  <1>2. QED BY <1>1 DEF Enum, Distinct, ToSet, Sorted

\* A monitor's record is cleared.
LEMMA BlankFacts ==
  ASSUME NEW s \in Desktops, NEW m \in Monitors, Listed(s.list, s.mon), Listed(s.stack, s.mon),
         SelectedBut(s.sel, s.pertag, s.mon, m), Viewed(s.view, s.cur), Owned(s.mon, m) = {}
  PROVE  Blanked(s, blank_monitor(s, m), m)
  <1>1. /\ s.list \in [Monitors -> Seq(Clients)] /\ s.stack \in [Monitors -> Seq(Clients)]
        /\ s.sel \in [Monitors -> Clients \cup {None}]
        /\ s.pertag \in [Monitors -> [0..TagCount -> Clients \cup {None}]]
        /\ s.view \in [Monitors -> SUBSET Tags] /\ s.cur \in [Monitors -> 0..TagCount]
    BY FieldTypes
  <1>2. PICK z : z = [i \in 0..TagCount |-> None]
    OBVIOUS
  <1>3. PICK l, k, x, y, v, w :
          /\ l = [s.list EXCEPT ![m] = <<>>] /\ k = [s.stack EXCEPT ![m] = <<>>]
          /\ x = [s.sel EXCEPT ![m] = None] /\ y = [s.pertag EXCEPT ![m] = z]
          /\ v = [s.view EXCEPT ![m] = {1}] /\ w = [s.cur EXCEPT ![m] = 1]
    OBVIOUS
  <1>4. <<>> \in Seq(Clients) /\ Enum(<<>>, Owned(s.mon, m)) /\ \A F : Sorted(<<>>, F)
    BY EmptyEnum
  <1>5. 1 \in Tags /\ 1 \in 0..TagCount
    BY DesktopAssumption DEF Tags
  <1>6. l \in [Monitors -> Seq(Clients)] /\ Listed(l, s.mon)
    BY <1>1, <1>3, <1>4, ListedSame
  <1>7. k \in [Monitors -> Seq(Clients)] /\ Listed(k, s.mon)
    BY <1>1, <1>3, <1>4, ListedSame
  <1>8. x \in [Monitors -> Clients \cup {None}]
    BY <1>1, <1>3
  <1>9. z \in [0..TagCount -> Clients \cup {None}]
    BY <1>2
  <1>10. y \in [Monitors -> [0..TagCount -> Clients \cup {None}]]
    BY <1>1, <1>3, <1>9
  <1>11. v \in [Monitors -> SUBSET Tags] /\ w \in [Monitors -> 0..TagCount]
    BY <1>1, <1>3, <1>5
  <1>12. Viewed(v, w)
    BY <1>1, <1>3 DEF Viewed
  <1>13. /\ x[m] = None /\ y[m] = z
         /\ \A n \in Monitors \ {m} : x[n] = s.sel[n] /\ v[n] = s.view[n] /\ y[n] = s.pertag[n]
    BY <1>1, <1>3
  <1>14. Selected(x, y, s.mon)
    <2>1. ASSUME NEW n \in Monitors, x[n] \notin Docks \cup {None} PROVE s.mon[x[n]] = n
      <3>1. n # m
        BY <2>1, <1>13
      <3>2. QED BY <2>1, <3>1, <1>13 DEF SelectedBut
    <2>2. ASSUME NEW n \in Monitors, NEW i \in 0..TagCount, y[n][i] # None
          PROVE  y[n][i] \notin Docks /\ s.mon[y[n][i]] = n
      <3>0. z[i] = None
        BY <1>2
      <3>1. n # m
        BY <2>2, <3>0, <1>13
      <3>2. QED BY <2>2, <3>1, <1>13 DEF SelectedBut
    <2>3. QED BY <2>1, <2>2 DEF Selected
  <1>15. PICK t : t = blank_monitor(s, m)
    OBVIOUS
  <1>16. t = Refitted(s, l, k, x, y, v, w)
    BY <1>2, <1>3, <1>15 DEF blank_monitor, Refitted
  <1>17. HasRefitted(s, l, k, x, y, v, w, t)
    <2>1. HasRefitted(s, l, k, x, y, v, w, Refitted(s, l, k, x, y, v, w))
      BY <1>6, <1>7, <1>8, <1>10, <1>11, RefittedFacts
    <2>2. QED BY <2>1, <1>16
  <1>18. Grouped(s) => Grouped(t)
    <2>1. SUFFICES ASSUME Grouped(s), NEW n \in Monitors PROVE Sorted(t.list[n], t.floating)
      BY GroupedForm
    <2>2. Sorted(s.list[n], s.floating) /\ t.floating = s.floating /\ t.list = l
      BY <2>1, <1>17, GroupedForm DEF HasRefitted
    <2>3. CASE n = m
      BY <2>2, <2>3, <1>1, <1>3, <1>4
    <2>4. CASE n # m
      BY <2>2, <2>4, <1>1, <1>3
    <2>5. QED BY <2>3, <2>4
  <1>19. Blanked(s, t, m)
    BY <1>6, <1>7, <1>12, <1>13, <1>14, <1>17, <1>18 DEF Blanked, HasRefitted
  <1>20. QED BY <1>15, <1>19

\* New outputs, and the selected one.
Plugged(s, o, x) == [s EXCEPT !.mons = o, !.selmon = x]

\* The desktop t after that.
HasPlugged(s, o, x, t) ==
  /\ t \in Desktops /\ t.mons = o /\ t.selmon = x
  /\ t.order = s.order /\ t.mon = s.mon /\ t.tags = s.tags /\ t.floating = s.floating
  /\ t.sticky = s.sticky /\ t.hidden = s.hidden /\ t.list = s.list /\ t.stack = s.stack
  /\ t.sel = s.sel /\ t.pertag = s.pertag /\ t.view = s.view /\ t.cur = s.cur
  /\ t.locked = s.locked

\* Only these are new.
LEMMA PluggedFacts ==
  ASSUME NEW s \in Desktops, NEW o \in Seq(Monitors), NEW x \in Monitors \cup {None}
  PROVE  HasPlugged(s, o, x, Plugged(s, o, x))
  BY DEF Plugged, HasPlugged, Desktops

\* Nobody is on an output that is not plugged in.
LEMMA NobodyThere ==
  ASSUME NEW s, Core(s), NEW m \in Monitors, m \notin ToSet(s.mons)
  PROVE  Owned(s.mon, m) = {}
  <1>1. m # None
    BY DesktopAssumption
  <1>2. QED BY <1>1 DEF Core, Placed, Owned

\* All but one monitor's selections, from all.
LEMMA SelectedWeak ==
  ASSUME NEW sel, NEW pertag, NEW mon, NEW h, Selected(sel, pertag, mon)
  PROVE  SelectedBut(sel, pertag, mon, h)
  BY DEF Selected, SelectedBut

\* All, when the one is not a monitor.
LEMMA SelectedStrong ==
  ASSUME NEW sel, NEW pertag, NEW mon, SelectedBut(sel, pertag, mon, None)
  PROVE  Selected(sel, pertag, mon)
  <1>1. Monitors \ {None} = Monitors
    BY DesktopAssumption
  <1>2. QED BY <1>1 DEF Selected, SelectedBut

\* The desktop with the new output, before the orphans are taken in.
LEMMA PluggedIn ==
  ASSUME NEW s, Core(s), NEW m \in Monitors, m \notin ToSet(s.mons), NEW t,
         t = [blank_monitor(s, m) EXCEPT !.mons = Append(@, m), !.selmon = IF @ = None THEN m ELSE @]
  PROVE  /\ Blanked(s, blank_monitor(s, m), m)
         /\ HasPlugged(blank_monitor(s, m), Append(s.mons, m),
                       IF s.selmon = None THEN m ELSE s.selmon, t)
  <1>1. PICK b : b = blank_monitor(s, m)
    OBVIOUS
  <1>2. Blanked(s, b, m)
    <2>1. /\ s \in Desktops /\ Listed(s.list, s.mon) /\ Listed(s.stack, s.mon)
          /\ Selected(s.sel, s.pertag, s.mon) /\ Viewed(s.view, s.cur)
      BY DEF Core
    <2>2. SelectedBut(s.sel, s.pertag, s.mon, m)
      BY <2>1, SelectedWeak
    <2>3. Owned(s.mon, m) = {}
      BY NobodyThere
    <2>4. QED BY <2>1, <2>2, <2>3, <1>1, BlankFacts
  <1>3. PICK o, x : o = Append(s.mons, m) /\ x = IF s.selmon = None THEN m ELSE s.selmon
    OBVIOUS
  <1>4. b \in Desktops /\ b.mons = s.mons /\ b.selmon = s.selmon
    BY <1>2 DEF Blanked
  <1>5. o \in Seq(Monitors) /\ x \in Monitors \cup {None}
    <2>1. s.mons \in Seq(Monitors) /\ s.selmon \in Monitors \cup {None}
      BY FieldTypes DEF Core
    <2>2. QED BY <2>1, <1>3
  <1>6. t = Plugged(b, o, x)
    BY <1>1, <1>3, <1>4 DEF Plugged
  <1>7. HasPlugged(b, o, x, Plugged(b, o, x))
    BY <1>4, <1>5, PluggedFacts
  <1>8. QED BY <1>1, <1>2, <1>3, <1>6, <1>7

\* Managed clients without a monitor.
Orphans(s) == Keep(s.order, {c \in Clients : s.mon[c] = None})

\* An output is plugged in.
LEMMA OutputAddedStep ==
  ASSUME NEW s, Core(s), Anchored(s), NEW m \in Monitors, m \notin ToSet(s.mons), NEW t,
         t = [blank_monitor(s, m) EXCEPT !.mons = Append(@, m), !.selmon = IF @ = None THEN m ELSE @],
         NEW u, u = prune_monitor_locks(AttachAll(t, Orphans(t), t.selmon))
  PROVE  Kept(s, u) /\ InView(s, u)
  <1>1. PICK b, o, x : /\ b = blank_monitor(s, m) /\ o = Append(s.mons, m)
                       /\ x = IF s.selmon = None THEN m ELSE s.selmon
    OBVIOUS
  <1>2. Blanked(s, b, m) /\ HasPlugged(b, o, x, t)
    BY <1>1, PluggedIn
  <1>3. /\ t \in Desktops /\ t.mons = o /\ t.selmon = x /\ t.order = s.order /\ t.mon = s.mon
        /\ t.tags = s.tags /\ t.floating = s.floating /\ t.sticky = s.sticky
        /\ t.hidden = s.hidden /\ t.locked = s.locked
        /\ Listed(t.list, t.mon) /\ Listed(t.stack, t.mon) /\ Selected(t.sel, t.pertag, t.mon)
        /\ Viewed(t.view, t.cur) /\ t.sel[m] = None
        /\ \A n \in Monitors \ {m} : t.sel[n] = s.sel[n] /\ t.view[n] = s.view[n]
    BY <1>2 DEF Blanked, HasPlugged
  <1>4. Grouped(s) => Grouped(t)
    <2>1. Grouped(s) => Grouped(b)
      BY <1>2 DEF Blanked
    <2>2. t.list = b.list /\ t.floating = b.floating
      BY <1>2 DEF HasPlugged
    <2>3. QED BY <2>1, <2>2, GroupedSame
  <1>5. /\ s \in Desktops /\ Placed(s.order, s.mon, s.mons) /\ Chosen(s.mons, s.selmon)
        /\ Distinct(s.order) /\ Distinct(s.mons)
    BY DEF Core, Placed
  <1>6. /\ s.mons \in Seq(Monitors) /\ s.order \in Seq(Clients)
        /\ s.mon \in [Clients -> Monitors \cup {None}] /\ s.selmon \in Monitors \cup {None}
        /\ s.sel \in [Monitors -> Clients \cup {None}]
    BY <1>5, FieldTypes
  <1>7. Distinct(o) /\ ToSet(o) = ToSet(s.mons) \cup {m} /\ o # <<>>
    <2>1. PICK X : X = ToSet(s.mons)
      OBVIOUS
    <2>2. Enum(s.mons, X) /\ m \notin X
      BY <2>1, <1>5 DEF Enum
    <2>3. Append(s.mons, m) \in Seq(Monitors) /\ Enum(Append(s.mons, m), X \cup {m})
      BY <2>2, <1>6, AppendEnum
    <2>4. o # <<>>
      BY <1>1, <1>6
    <2>5. QED BY <2>1, <2>3, <2>4, <1>1 DEF Enum
  <1>8. x \in ToSet(o) /\ x \in Monitors /\ x # None
    BY <1>1, <1>5, <1>6, <1>7, DesktopAssumption DEF Chosen
  <1>9. PICK q, N, Q : /\ q = Orphans(t) /\ N = {c \in Clients : s.mon[c] = None}
                       /\ Q = ToSet(s.order) \cap N
    OBVIOUS
  <1>10. q \in Seq(Clients) /\ Enum(q, Q)
    <2>1. q = Keep(s.order, N)
      BY <1>3, <1>9 DEF Orphans
    <2>2. PICK X : X = ToSet(s.order)
      OBVIOUS
    <2>3. Enum(s.order, X)
      BY <2>2, <1>5 DEF Enum
    <2>4. Keep(s.order, N) \in Seq(Clients) /\ Enum(Keep(s.order, N), X \cap N)
      BY <2>3, <1>6, KeepEnum
    <2>5. QED BY <2>1, <2>2, <2>4, <1>9
  <1>11. PICK a : a = AttachAll(t, q, x)
    OBVIOUS
  <1>12. Gathered(t, a, Q, x, None)
    <2>1. PICK h : h = None
      OBVIOUS
    <2>2. SelectedBut(t.sel, t.pertag, t.mon, h)
      BY <1>3, SelectedWeak
    <2>3. \A c \in Q : t.mon[c] = None
      BY <1>3, <1>9
    <2>4. t \in Desktops /\ Listed(t.list, t.mon) /\ Listed(t.stack, t.mon)
      BY <1>3
    <2>5. Gathered(t, AttachAll(t, q, x), Q, x, h)
      BY <2>2, <2>3, <2>4, <1>8, <1>10, AttachAllFacts
    <2>6. QED BY <2>1, <2>5, <1>11
  <1>13. /\ a \in Desktops /\ SameChoice(t, a) /\ a.mon = Taken(s.mon, Q, x)
         /\ Listed(a.list, a.mon) /\ Listed(a.stack, a.mon)
         /\ Grouped(s) => Grouped(a)
    BY <1>3, <1>4, <1>12 DEF Gathered
  <1>14. Selected(a.sel, a.pertag, a.mon)
    BY <1>12, SelectedStrong DEF Gathered
  <1>15. /\ a.order = s.order /\ a.tags = s.tags /\ a.floating = s.floating /\ a.sticky = s.sticky
         /\ a.hidden = s.hidden /\ a.locked = s.locked /\ a.mons = o /\ a.selmon = x
         /\ a.sel = t.sel /\ a.view = t.view /\ a.cur = t.cur
    BY <1>3, <1>13 DEF SameChoice
  <1>16. \A c \in Clients : a.mon[c] = IF c \in Q THEN x ELSE s.mon[c]
    BY <1>13 DEF Taken
  <1>17. Placed(a.order, a.mon, a.mons)
    <2>1. ASSUME NEW c \in Clients
          PROVE  IF c \in ToSet(a.order) /\ a.mons # <<>> THEN a.mon[c] \in ToSet(a.mons)
                                                        ELSE a.mon[c] = None
      <3>1. CASE c \in Q
        BY <3>1, <1>7, <1>8, <1>9, <1>15, <1>16
      <3>2. CASE c \notin Q
        BY <3>2, <1>5, <1>7, <1>9, <1>15, <1>16 DEF Placed
      <3>3. QED BY <3>1, <3>2
    <2>2. QED BY <2>1, <1>5, <1>7, <1>15 DEF Placed
  <1>18. Chosen(a.mons, a.selmon)
    BY <1>7, <1>8, <1>15 DEF Chosen
  <1>19. Core(a)
    <2>1. a.floating \cup a.sticky \cup a.hidden \subseteq ToSet(a.order) /\ Distinct(a.locked)
      BY <1>15 DEF Core
    <2>2. Viewed(a.view, a.cur)
      BY <1>3, <1>15
    <2>3. QED BY <2>1, <2>2, <1>13, <1>14, <1>17, <1>18 DEF Core
  <1>20. Anchored(a) /\ (Seen(s) => OnView(a))
    <2>1. CASE s.selmon = None
      <3>1. a.sel[a.selmon] = None
        BY <2>1, <1>1, <1>3, <1>15
      <3>2. QED BY <3>1 DEF Anchored, OnView
    <2>2. CASE s.selmon # None
      <3>1. x = s.selmon /\ x \in Monitors \ {m}
        BY <2>2, <1>1, <1>5, <1>8 DEF Chosen
      <3>2. a.sel[x] = s.sel[x] /\ a.view[x] = s.view[x]
        BY <3>1, <1>3, <1>15
      <3>3. CASE s.sel[x] = None
        BY <3>2, <3>3, <1>15 DEF Anchored, OnView
      <3>4. CASE s.sel[x] # None
        <4>1. PICK c \in Clients : c = s.sel[x] /\ s.mon[c] = x
          BY <3>1, <3>4, <2>2, <1>6 DEF Anchored
        <4>2. a.mon[c] = x
          BY <4>1, <1>8, <1>9, <1>16
        <4>3. c \in Focusable(s) => c \in Focusable(a)
          BY <4>1, <4>2, <3>2, <1>15, FocusableKept
        <4>4. Seen(s) => c \in Focusable(s)
          BY <4>1, <3>1, <3>4, <2>2 DEF Seen
        <4>5. QED BY <4>1, <4>2, <4>3, <4>4, <3>2, <1>15 DEF Anchored, OnView
      <3>5. QED BY <3>3, <3>4
    <2>3. QED BY <2>1, <2>2
  <1>21. Pruned(a, u)
    BY <1>3, <1>9, <1>11, <1>19, PruneFacts
  <1>22. QED BY <1>13, <1>20, <1>21 DEF Pruned, Kept, InView, Tidy

\* The clients of a monitor, in the order of its list.
LEMMA OwnedByFacts ==
  ASSUME NEW s, Core(s), NEW m \in Monitors, NEW q, q = clients_owned_by_monitor(s, m)
  PROVE  /\ q \in Seq(Clients) /\ Enum(q, Owned(s.mon, m))
         /\ \A F : Sorted(s.list[m], F) => Sorted(q, F)
  <1>1. PICK W, V, X, l, r : /\ W = Owned(s.mon, m) /\ V = W \ ToSet(s.list[m])
                             /\ X = ToSet(s.order) /\ l = s.list[m] /\ r = s.order
    OBVIOUS
  <1>2. l \in Seq(Clients) /\ Enum(l, W) /\ ToSet(l) = W
    BY <1>1, ListFacts
  <1>3. r \in Seq(Clients) /\ Enum(r, X)
    BY <1>1, FieldTypes DEF Core, Placed, Enum
  <1>4. PICK a, b : a = Keep(l, W) /\ b = Keep(r, V)
    OBVIOUS
  <1>5. a \in Seq(Clients) /\ Enum(a, W \cap W)
    BY <1>2, <1>4, KeepEnum
  <1>6. b \in Seq(Clients) /\ Enum(b, X \cap V)
    BY <1>3, <1>4, KeepEnum
  <1>7. W \cap W = W /\ X \cap V = {}
    BY <1>1, <1>2
  <1>8. PICK E : E = {}
    OBVIOUS
  <1>9. Enum(a, W) /\ Enum(b, E) /\ W \cap E = {}
    BY <1>5, <1>6, <1>7, <1>8
  <1>10. a \o b \in Seq(Clients) /\ Enum(a \o b, W \cup E)
    BY <1>5, <1>6, <1>9, JoinEnum
  <1>11. q = a \o b
    BY <1>1, <1>4 DEF clients_owned_by_monitor, Owned
  <1>12. W \cup E = W
    BY <1>8
  <1>13. ASSUME NEW F, Sorted(l, F) PROVE Sorted(a \o b, F)
    <2>1. Part(l, W, a)
      BY <1>2, <1>4, KeepFacts
    <2>2. Sorted(a, F)
      BY <2>1, <1>2, <1>5, <1>13, PartSorted
    <2>3. ToSet(b) \subseteq F
      BY <1>8, <1>9 DEF Enum
    <2>4. Sorted(b, F)
      BY <2>3, <1>6, OneGroup
    <2>5. QED BY <2>2, <2>3, <2>4, <1>5, <1>6, JoinSorted
  <1>14. QED BY <1>1, <1>10, <1>11, <1>12, <1>13

\* The windows of monitor m are taken off it.
Orphaned(s, q, m) ==
  [s EXCEPT !.mon = [c \in Clients |-> IF c \in ToSet(q) THEN None ELSE @[c]],
            !.list[m] = Keep(@, Clients \ ToSet(q)),
            !.stack[m] = Keep(@, Clients \ ToSet(q))]

\* A list of what is on m without what is on m is empty.
LEMMA KeepNothing ==
  ASSUME NEW l \in Seq(Clients), NEW Q, Enum(l, Q)
  PROVE  Keep(l, Clients \ Q) \in Seq(Clients) /\ Enum(Keep(l, Clients \ Q), {})
  <1>1. PICK S : S = Clients \ Q
    OBVIOUS
  <1>2. Keep(l, S) \in Seq(Clients) /\ Enum(Keep(l, S), Q \cap S)
    BY KeepEnum
  <1>3. Q \cap S = {}
    BY <1>1
  <1>4. QED BY <1>1, <1>2, <1>3

\* One list after the clients of m left it.
LEMMA ListedLeave ==
  ASSUME NEW f \in [Monitors -> Seq(Clients)], NEW mon \in [Clients -> Monitors \cup {None}],
         Listed(f, mon), NEW m \in Monitors, NEW Q, Q = Owned(mon, m),
         NEW e \in Seq(Clients), Enum(e, {})
  PROVE  /\ [f EXCEPT ![m] = e] \in [Monitors -> Seq(Clients)]
         /\ Listed([f EXCEPT ![m] = e], Taken(mon, Q, None))
  <1>1. [f EXCEPT ![m] = e] \in [Monitors -> Seq(Clients)]
    OBVIOUS
  <1>2. ASSUME NEW n \in Monitors PROVE Enum([f EXCEPT ![m] = e][n], Owned(Taken(mon, Q, None), n))
    <2>0. n # None /\ m # None
      BY DesktopAssumption
    <2>1. CASE n = m
      <3>1. Owned(Taken(mon, Q, None), m) = {}
        BY <2>0 DEF Owned, Taken
      <3>2. QED BY <2>1, <3>1
    <2>2. CASE n # m
      <3>2. Owned(Taken(mon, Q, None), n) = Owned(mon, n)
        BY <2>0, <2>2 DEF Owned, Taken
      <3>3. QED BY <2>2, <3>2 DEF Listed
    <2>3. QED BY <2>1, <2>2
  <1>3. QED BY <1>1, <1>2 DEF Listed

\* The windows of a monitor are orphaned; its own selections still name them.
LEMMA OrphanedFacts ==
  ASSUME NEW s, Core(s), NEW m \in Monitors, NEW q \in Seq(Clients), NEW Q, Q = Owned(s.mon, m),
         Enum(q, Q)
  PROVE  Gathered(s, Orphaned(s, q, m), Q, None, m)
  <1>1. /\ s \in Desktops /\ Listed(s.list, s.mon) /\ Listed(s.stack, s.mon)
        /\ Selected(s.sel, s.pertag, s.mon)
    BY DEF Core
  <1>2. /\ s.list \in [Monitors -> Seq(Clients)] /\ s.stack \in [Monitors -> Seq(Clients)]
        /\ s.mon \in [Clients -> Monitors \cup {None}]
        /\ s.sel \in [Monitors -> Clients \cup {None}]
        /\ s.pertag \in [Monitors -> [0..TagCount -> Clients \cup {None}]]
    BY <1>1, FieldTypes
  <1>3. /\ s.list[m] \in Seq(Clients) /\ Enum(s.list[m], Q) /\ s.stack[m] \in Seq(Clients)
        /\ Enum(s.stack[m], Q)
    BY ListFacts
  <1>4. PICK e, k : e = Keep(s.list[m], Clients \ Q) /\ k = Keep(s.stack[m], Clients \ Q)
    OBVIOUS
  <1>5. e \in Seq(Clients) /\ Enum(e, {}) /\ k \in Seq(Clients) /\ Enum(k, {})
    BY <1>3, <1>4, KeepNothing
  <1>6. PICK p, l, w : /\ p = Taken(s.mon, Q, None) /\ l = [s.list EXCEPT ![m] = e]
                       /\ w = [s.stack EXCEPT ![m] = k]
    OBVIOUS
  <1>7. l \in [Monitors -> Seq(Clients)] /\ Listed(l, p)
    BY <1>1, <1>2, <1>5, <1>6, ListedLeave
  <1>8. w \in [Monitors -> Seq(Clients)] /\ Listed(w, p)
    BY <1>1, <1>2, <1>5, <1>6, ListedLeave
  <1>9. p \in [Clients -> Monitors \cup {None}]
    BY <1>2, <1>6 DEF Taken
  <1>10. PICK t : t = Orphaned(s, q, m)
    OBVIOUS
  <1>11. t = Regathered(s, p, l, w)
    <2>1. ToSet(q) = Q
      BY DEF Enum
    <2>2. QED BY <2>1, <1>4, <1>6, <1>10 DEF Orphaned, Regathered, Taken
  <1>12. t \in Desktops /\ SameChoice(s, t) /\ t.mon = p /\ t.list = l /\ t.stack = w
    <2>1. HasRegathered(s, p, l, w, t)
      BY <1>1, <1>7, <1>8, <1>9, <1>11, RegatheredFacts
    <2>2. QED BY <2>1 DEF HasRegathered
  <1>13. SelectedBut(t.sel, t.pertag, t.mon, m)
    <2>1. t.sel = s.sel /\ t.pertag = s.pertag
      BY <1>12 DEF SameChoice
    <2>2. ASSUME NEW c \in Clients, NEW n \in Monitors \ {m}, s.mon[c] = n PROVE p[c] = n
      BY <2>2, <1>6 DEF Taken, Owned
    <2>4. ASSUME NEW n \in Monitors \ {m}, s.sel[n] \notin Docks \cup {None} PROVE p[s.sel[n]] = n
      <3>1. s.sel[n] \in Clients /\ s.mon[s.sel[n]] = n
        BY <2>4, <1>1, <1>2 DEF Selected
      <3>2. QED BY <3>1, <2>2
    <2>5. ASSUME NEW n \in Monitors \ {m}, NEW i \in 0..TagCount, s.pertag[n][i] # None
          PROVE  s.pertag[n][i] \notin Docks /\ p[s.pertag[n][i]] = n
      <3>1. s.pertag[n] \in [0..TagCount -> Clients \cup {None}]
        BY <1>2
      <3>2. s.pertag[n][i] \in Clients
        BY <3>1, <2>5
      <3>3. s.pertag[n][i] \notin Docks /\ s.mon[s.pertag[n][i]] = n
        BY <2>5, <1>1 DEF Selected
      <3>4. QED BY <3>2, <3>3, <2>2
    <2>6. QED BY <2>1, <2>4, <2>5, <1>12 DEF SelectedBut
  <1>14. Grouped(s) => Grouped(t)
    <2>1. SUFFICES ASSUME Grouped(s), NEW n \in Monitors PROVE Sorted(t.list[n], t.floating)
      BY GroupedForm
    <2>2. Sorted(s.list[n], s.floating) /\ t.floating = s.floating
      BY <2>1, <1>12, GroupedForm DEF SameChoice
    <2>3. CASE n = m
      <3>1. ToSet(e) \cap t.floating = {}
        BY <1>5 DEF Enum
      <3>2. Sorted(e, t.floating)
        BY <3>1, <1>5, OneGroup
      <3>3. QED BY <3>2, <2>3, <1>2, <1>6, <1>12
    <2>4. CASE n # m
      BY <2>2, <2>4, <1>2, <1>6, <1>12
    <2>5. QED BY <2>3, <2>4
  <1>15. Gathered(s, t, Q, None, m)
    BY <1>6, <1>7, <1>8, <1>12, <1>13, <1>14 DEF Gathered
  <1>16. QED BY <1>10, <1>15

\* A survivor takes over, if there is one.
LEMMA TakesOverFacts ==
  ASSUME NEW s, Core(s), NEW m, NEW f, f = TakesOver(s, m)
  PROVE  \/ f = None /\ ToSet(s.mons) \subseteq {m}
         \/ f \in ToSet(s.mons) /\ f \in Monitors /\ f # m
  <1>1. s.mons \in Seq(Monitors) /\ None \notin Monitors
    BY FieldTypes, DesktopAssumption DEF Core
  <1>2. PICK G, H, g, h : /\ G = Monitors \ ({m} \cup ToSet(s.locked)) /\ H = Monitors \ {m}
                          /\ g = First(s.mons, G) /\ h = First(s.mons, H)
    OBVIOUS
  <1>3. f = IF g # None THEN g ELSE h
    BY <1>2 DEF TakesOver
  <1>4. g = None \/ g \in ToSet(s.mons) \cap G \cap Monitors
    BY <1>1, <1>2, FirstIn
  <1>5. h = None \/ h \in ToSet(s.mons) \cap H \cap Monitors
    BY <1>1, <1>2, FirstIn
  <1>6. h = None => ToSet(s.mons) \cap H = {}
    <2>1. \/ First(s.mons, H) = None /\ ToSet(s.mons) \cap H = {}
          \/ \E i \in 1..Len(s.mons) : /\ First(s.mons, H) = s.mons[i] /\ s.mons[i] \in H
                                       /\ \A j \in 1..Len(s.mons) : s.mons[j] \in H => i <= j
      BY <1>1, FirstFacts
    <2>2. QED BY <2>1, <1>1, <1>2
  <1>7. ToSet(s.mons) \subseteq Monitors
    BY <1>1, EntryFacts
  <1>8. QED BY <1>2, <1>3, <1>4, <1>5, <1>6, <1>7

\* In t the clients of m are on f, or nowhere.
Evacuated(s, t, m, f) ==
  /\ t \in Desktops /\ SameChoice(s, t)
  /\ \A c \in Clients : t.mon[c] = IF s.mon[c] = m THEN f ELSE s.mon[c]
  /\ Listed(t.list, t.mon) /\ Listed(t.stack, t.mon) /\ SelectedBut(t.sel, t.pertag, t.mon, m)
  /\ Grouped(s) => Grouped(t)

\* The windows of a monitor that goes away move.
LEMMA EvacuatedFacts ==
  ASSUME NEW s, Core(s), NEW m \in Monitors
  PROVE  Evacuated(s, move_clients_to_first_monitor(s, m), m, TakesOver(s, m))
  <1>1. PICK q, Q, f, t, u : /\ q = clients_owned_by_monitor(s, m) /\ Q = Owned(s.mon, m)
                             /\ f = TakesOver(s, m) /\ t = Orphaned(s, q, m)
                             /\ u = IF f = None THEN t ELSE AttachAll(t, q, f)
    OBVIOUS
  <1>2. move_clients_to_first_monitor(s, m) = u
    BY <1>1 DEF move_clients_to_first_monitor, Orphaned
  <1>3. q \in Seq(Clients) /\ Enum(q, Q)
    BY <1>1, OwnedByFacts
  <1>4. Gathered(s, t, Q, None, m)
    BY <1>1, <1>3, OrphanedFacts
  <1>5. f = None \/ f \in Monitors
    BY <1>1, TakesOverFacts
  <1>6. \A c \in Clients : c \in Q <=> s.mon[c] = m
    BY <1>1 DEF Owned
  <1>7. /\ t \in Desktops /\ SameChoice(s, t) /\ t.mon = Taken(s.mon, Q, None)
        /\ Listed(t.list, t.mon) /\ Listed(t.stack, t.mon) /\ SelectedBut(t.sel, t.pertag, t.mon, m)
        /\ Grouped(s) => Grouped(t)
    BY <1>4 DEF Gathered
  <1>8. \A c \in Clients : t.mon[c] = IF s.mon[c] = m THEN None ELSE s.mon[c]
    BY <1>6, <1>7 DEF Taken
  <1>9. CASE f = None
    <2>1. Evacuated(s, t, m, f)
      BY <1>7, <1>8, <1>9 DEF Evacuated
    <2>2. QED BY <2>1, <1>1, <1>2, <1>9
  <1>10. CASE f # None
    <2>1. PICK v : v = AttachAll(t, q, f)
      OBVIOUS
    <2>2. Gathered(t, v, Q, f, m)
      <3>1. \A c \in Q : t.mon[c] = None
        BY <1>1, <1>8 DEF Owned
      <3>2. f \in Monitors
        BY <1>5, <1>10
      <3>3. Gathered(t, AttachAll(t, q, f), Q, f, m)
        BY <3>1, <3>2, <1>3, <1>7, AttachAllFacts
      <3>4. QED BY <3>3, <2>1
    <2>3. /\ v \in Desktops /\ SameChoice(t, v) /\ v.mon = Taken(t.mon, Q, f)
          /\ Listed(v.list, v.mon) /\ Listed(v.stack, v.mon) /\ SelectedBut(v.sel, v.pertag, v.mon, m)
          /\ Grouped(t) => Grouped(v)
      BY <2>2 DEF Gathered
    <2>4. \A c \in Clients : v.mon[c] = IF s.mon[c] = m THEN f ELSE s.mon[c]
      BY <2>3, <1>6, <1>8 DEF Taken
    <2>5. SameChoice(s, v)
      BY <2>3, <1>7 DEF SameChoice
    <2>6. Evacuated(s, v, m, f)
      BY <2>3, <2>4, <2>5, <1>7 DEF Evacuated
    <2>7. QED BY <2>1, <2>6, <1>1, <1>2, <1>10
  <1>11. QED BY <1>9, <1>10

\* The outputs that stay, and which of them is selected.
LEMMA SurvivorFacts ==
  ASSUME NEW s, Core(s), NEW m \in ToSet(s.mons), NEW o, o = Without(s.mons, m),
         NEW x, x = IF s.selmon # m THEN s.selmon ELSE IF o = <<>> THEN None ELSE Head(o)
  PROVE  /\ o \in Seq(Monitors) /\ Distinct(o) /\ ToSet(o) = ToSet(s.mons) \ {m}
         /\ x \in Monitors \cup {None} /\ Chosen(o, x) /\ (o # <<>> <=> ToSet(o) # {})
  <1>1. /\ s.mons \in Seq(Monitors) /\ Distinct(s.mons) /\ Chosen(s.mons, s.selmon)
        /\ s.selmon \in Monitors \cup {None}
    BY FieldTypes DEF Core, Placed
  <1>2. PICK X : X = ToSet(s.mons)
    OBVIOUS
  <1>3. Enum(s.mons, X)
    BY <1>1, <1>2 DEF Enum
  <1>4. o \in Seq(Monitors) /\ Enum(o, X \ {m})
    BY <1>1, <1>3, WithoutEnum
  <1>5. Distinct(o) /\ ToSet(o) = ToSet(s.mons) \ {m}
    BY <1>2, <1>4 DEF Enum
  <1>6. o # <<>> => Head(o) \in ToSet(o) /\ Head(o) \in Monitors
    <2>1. SUFFICES ASSUME o # <<>> PROVE Head(o) \in ToSet(o) /\ Head(o) \in Monitors
      OBVIOUS
    <2>2. 1 \in 1..Len(o) /\ Head(o) = o[1]
      BY <2>1, <1>4
    <2>3. QED BY <2>2, <1>4, EntryFacts
  <1>7. o = <<>> => ToSet(o) = {}
    BY DEF ToSet
  <1>8. m \in Monitors /\ None \notin Monitors /\ s.selmon # None /\ ToSet(o) \subseteq Monitors
    BY <1>1, <1>4, EntryFacts, DesktopAssumption DEF Chosen
  <1>9. x \in ToSet(o) \cup {None} /\ (x = None <=> o = <<>>)
    <2>1. CASE s.selmon # m
      <3>1. x \in ToSet(o)
        BY <2>1, <1>1, <1>5, <1>8 DEF Chosen
      <3>2. QED BY <3>1, <1>7, <1>8
    <2>2. CASE s.selmon = m
      BY <2>2, <1>6, <1>8
    <2>3. QED BY <2>1, <2>2
  <1>10. QED BY <1>4, <1>5, <1>6, <1>7, <1>8, <1>9 DEF Chosen

\* The desktop without output m.
LEMMA RemovedFacts ==
  ASSUME NEW s, Core(s), NEW m \in ToSet(s.mons), NEW u,
         u = remove_monitor_state(move_clients_to_first_monitor(s, m), m)
  PROVE  /\ Core(u) /\ (Grouped(s) => Grouped(u))
         /\ s.selmon # m => (Anchored(s) => Anchored(u)) /\ (Anchored(s) /\ Seen(s) => OnView(u))
  <1>1. PICK f, t, b, o, x :
          /\ f = TakesOver(s, m) /\ t = move_clients_to_first_monitor(s, m)
          /\ b = blank_monitor(t, m) /\ o = Without(s.mons, m)
          /\ x = IF s.selmon # m THEN s.selmon ELSE IF o = <<>> THEN None ELSE Head(o)
    OBVIOUS
  <1>2. /\ s \in Desktops /\ Placed(s.order, s.mon, s.mons) /\ Viewed(s.view, s.cur)
        /\ s.floating \cup s.sticky \cup s.hidden \subseteq ToSet(s.order) /\ Distinct(s.locked)
        /\ Chosen(s.mons, s.selmon)
    BY DEF Core
  <1>3. /\ s.mons \in Seq(Monitors) /\ s.sel \in [Monitors -> Clients \cup {None}]
        /\ s.selmon \in Monitors \cup {None}
    BY <1>2, FieldTypes
  <1>4. m \in Monitors /\ None \notin Monitors /\ None \notin Clients /\ s.mons # <<>>
    <2>1. m \in Monitors
      BY <1>3, EntryFacts
    <2>2. s.mons # <<>>
      BY <1>3, EntryFacts
    <2>3. QED BY <2>1, <2>2, DesktopAssumption
  <1>5. Evacuated(s, t, m, f)
    BY <1>1, <1>4, EvacuatedFacts
  <1>6. \/ f = None /\ ToSet(s.mons) \subseteq {m}
        \/ f \in ToSet(s.mons) /\ f \in Monitors /\ f # m
    BY <1>1, TakesOverFacts
  <1>7. /\ o \in Seq(Monitors) /\ Distinct(o) /\ ToSet(o) = ToSet(s.mons) \ {m}
        /\ x \in Monitors \cup {None} /\ Chosen(o, x) /\ (o # <<>> <=> ToSet(o) # {})
    BY <1>1, SurvivorFacts, SMTT(30)
  <1>8. /\ t \in Desktops /\ SameChoice(s, t)
        /\ \A c \in Clients : t.mon[c] = IF s.mon[c] = m THEN f ELSE s.mon[c]
        /\ Listed(t.list, t.mon) /\ Listed(t.stack, t.mon) /\ SelectedBut(t.sel, t.pertag, t.mon, m)
        /\ Grouped(s) => Grouped(t)
    BY <1>5 DEF Evacuated
  <1>9. Owned(t.mon, m) = {}
    BY <1>4, <1>6, <1>8 DEF Owned
  <1>10. Viewed(t.view, t.cur)
    BY <1>2, <1>8 DEF SameChoice
  <1>11. Blanked(t, b, m)
    BY <1>1, <1>4, <1>8, <1>9, <1>10, BlankFacts
  <1>12. /\ b \in Desktops /\ b.mons = s.mons /\ b.selmon = s.selmon
    BY <1>8, <1>11 DEF Blanked, SameChoice
  <1>13. u = Plugged(b, o, x)
    BY <1>1, <1>12 DEF remove_monitor_state, Plugged, Desktops
  <1>14. HasPlugged(b, o, x, u)
    <2>1. HasPlugged(b, o, x, Plugged(b, o, x))
      BY <1>7, <1>12, PluggedFacts
    <2>2. QED BY <2>1, <1>13
  <1>15. /\ u \in Desktops /\ u.mons = o /\ u.selmon = x /\ u.order = s.order /\ u.mon = t.mon
         /\ u.tags = s.tags /\ u.floating = s.floating /\ u.sticky = s.sticky
         /\ u.hidden = s.hidden /\ u.locked = s.locked
         /\ Listed(u.list, u.mon) /\ Listed(u.stack, u.mon) /\ Selected(u.sel, u.pertag, u.mon)
         /\ Viewed(u.view, u.cur)
         /\ \A n \in Monitors \ {m} : u.sel[n] = s.sel[n] /\ u.view[n] = s.view[n]
    BY <1>8, <1>11, <1>14 DEF Blanked, HasPlugged, SameChoice
  <1>16. Placed(u.order, u.mon, u.mons)
    <2>1. ASSUME NEW c \in Clients
          PROVE  IF c \in ToSet(u.order) /\ u.mons # <<>> THEN u.mon[c] \in ToSet(u.mons)
                                                        ELSE u.mon[c] = None
      <3>1. u.mon[c] = IF s.mon[c] = m THEN f ELSE s.mon[c]
        BY <1>8, <1>15
      <3>2. CASE c \in ToSet(s.order)
        <4>1. s.mon[c] \in ToSet(s.mons)
          BY <3>2, <1>2, <1>4 DEF Placed
        <4>2. QED BY <3>1, <3>2, <4>1, <1>6, <1>7, <1>15
      <3>3. CASE c \notin ToSet(s.order)
        <4>1. s.mon[c] = None
          BY <3>3, <1>2 DEF Placed
        <4>2. QED BY <3>1, <3>3, <4>1, <1>4, <1>15
      <3>4. QED BY <3>2, <3>3
    <2>2. QED BY <2>1, <1>2, <1>7, <1>15 DEF Placed
  <1>17. Core(u)
    BY <1>2, <1>7, <1>15, <1>16 DEF Core
  <1>18. Grouped(s) => Grouped(u)
    <2>1. Grouped(s) => Grouped(b)
      BY <1>8, <1>11 DEF Blanked
    <2>2. u.list = b.list /\ u.floating = b.floating
      BY <1>14 DEF HasPlugged
    <2>3. QED BY <2>1, <2>2, GroupedSame
  <1>19. ASSUME s.selmon # m, Anchored(s) PROVE Anchored(u) /\ (Seen(s) => OnView(u))
    <2>1. x = s.selmon /\ x \in Monitors \ {m}
      BY <1>1, <1>2, <1>3, <1>4, <1>19 DEF Chosen
    <2>2. u.sel[x] = s.sel[x] /\ u.view[x] = s.view[x] /\ x # None
      BY <2>1, <1>4, <1>15
    <2>3. CASE s.sel[x] = None
      BY <2>2, <2>3, <1>15 DEF Anchored, OnView
    <2>4. CASE s.sel[x] # None
      <3>1. PICK c \in Clients : c = s.sel[x] /\ s.mon[c] = x
        BY <2>1, <2>2, <2>4, <1>3, <1>19 DEF Anchored
      <3>2. u.mon[c] = x
        BY <3>1, <2>1, <1>8, <1>15
      <3>3. c \in Focusable(s) => c \in Focusable(u)
        BY <3>1, <3>2, <2>2, <1>15, FocusableKept
      <3>4. Seen(s) => c \in Focusable(s)
        BY <3>1, <2>1, <2>2, <2>4 DEF Seen
      <3>5. QED BY <3>1, <3>2, <3>3, <3>4, <2>2, <1>15 DEF Anchored, OnView
    <2>5. QED BY <2>3, <2>4
  <1>20. QED BY <1>17, <1>18, <1>19

\* An output is unplugged.
LEMMA OutputRemovedStep ==
  ASSUME NEW s, Core(s), Anchored(s), NEW m \in ToSet(s.mons), NEW t,
         t = prune_monitor_locks(remove_monitor_state(move_clients_to_first_monitor(s, m), m)),
         NEW u, u = IF s.selmon = m THEN focus(t, None) ELSE t
  PROVE  Kept(s, u) /\ InView(s, u)
  <1>1. PICK r : r = remove_monitor_state(move_clients_to_first_monitor(s, m), m)
    OBVIOUS
  <1>2. /\ Core(r) /\ (Grouped(s) => Grouped(r))
        /\ s.selmon # m => Anchored(r) /\ (Seen(s) => OnView(r))
    BY <1>1, RemovedFacts
  <1>3. Pruned(r, t)
    BY <1>1, <1>2, PruneFacts
  <1>4. /\ Core(t) /\ (Anchored(r) => Anchored(t)) /\ (Grouped(r) => Grouped(t)) /\ Clear(t)
        /\ (OnView(r) => Seen(t))
    BY <1>3 DEF Pruned
  <1>5. CASE s.selmon = m
    BY <1>2, <1>4, <1>5, EndsWithFocus DEF Tidy
  <1>6. CASE s.selmon # m
    BY <1>2, <1>4, <1>6 DEF Kept, InView, Tidy
  <1>7. QED BY <1>5, <1>6

------------------------------------------------------------------------------
(* Two monitors exchange their windows *)

\* The focus stack that takes part in an exchange names the monitor's clients.
LEMMA StackedOnFacts ==
  ASSUME NEW s, Core(s), NEW m \in Monitors, NEW q, q = StackedOn(s, m)
  PROVE  q \in Seq(Clients) /\ Enum(q, Owned(s.mon, m))
  <1>1. PICK W, k, o : W = Owned(s.mon, m) /\ k = s.stack[m] /\ o = clients_owned_by_monitor(s, m)
    OBVIOUS
  <1>2. k \in Seq(Clients) /\ Enum(k, W)
    BY <1>1, ListFacts
  <1>3. o \in Seq(Clients) /\ Enum(o, W)
    BY <1>1, OwnedByFacts
  <1>4. PICK a : a = Keep(k, W)
    OBVIOUS
  <1>5. a \in Seq(Clients) /\ Enum(a, W \cap W)
    BY <1>2, <1>4, KeepEnum
  <1>6. Enum(a, W) /\ ToSet(a) = W
    <2>1. W \cap W = W
      OBVIOUS
    <2>2. QED BY <2>1, <1>5 DEF Enum
  <1>7. PICK b : b = Keep(o, Clients \ W)
    OBVIOUS
  <1>8. b \in Seq(Clients) /\ Enum(b, {})
    BY <1>3, <1>7, KeepNothing
  <1>9. PICK E : E = {}
    OBVIOUS
  <1>10. Enum(b, E) /\ W \cap E = {} /\ W \cup E = W
    BY <1>8, <1>9
  <1>11. a \o b \in Seq(Clients) /\ Enum(a \o b, W \cup E)
    BY <1>5, <1>6, <1>8, <1>10, JoinEnum
  <1>12. q = a \o b
    BY <1>1, <1>4, <1>6, <1>7 DEF StackedOn, Owned
  <1>13. QED BY <1>1, <1>10, <1>11, <1>12

\* An exchanged list names the applications of one and the bars of the other;
\* it is grouped if the bars float.
LEMMA ExchangedFacts ==
  ASSUME NEW q \in Seq(Clients), NEW r \in Seq(Clients), NEW X \in SUBSET Clients,
         NEW Y \in SUBSET Clients, Enum(q, X), Enum(r, Y), NEW e, e = Exchanged(q, r)
  PROVE  /\ e \in Seq(Clients) /\ Enum(e, (X \ Docks) \cup (Y \cap Docks))
         /\ \A F : Sorted(q, F) /\ Y \cap Docks \subseteq F => Sorted(e, F)
  <1>1. PICK S : S = Clients \ Docks
    OBVIOUS
  <1>2. PICK a, b : a = Keep(q, S) /\ b = Keep(r, Docks)
    OBVIOUS
  <1>3. a \in Seq(Clients) /\ Enum(a, X \cap S)
    BY <1>2, KeepEnum
  <1>4. b \in Seq(Clients) /\ Enum(b, Y \cap Docks)
    BY <1>2, KeepEnum
  <1>5. PICK U, V : U = X \cap S /\ V = Y \cap Docks
    OBVIOUS
  <1>6. Enum(a, U) /\ Enum(b, V) /\ U \cap V = {}
    BY <1>1, <1>3, <1>4, <1>5
  <1>7. a \o b \in Seq(Clients) /\ Enum(a \o b, U \cup V)
    BY <1>3, <1>4, <1>6, JoinEnum
  <1>8. e = a \o b
    BY <1>1, <1>2 DEF Exchanged
  <1>9. U \cup V = (X \ Docks) \cup (Y \cap Docks)
    BY <1>1, <1>5
  <1>10. ASSUME NEW F, Sorted(q, F), V \subseteq F PROVE Sorted(a \o b, F)
    <2>1. Part(q, S, a)
      BY <1>2, KeepFacts
    <2>2. Sorted(a, F)
      BY <2>1, <1>3, <1>10, PartSorted
    <2>3. ToSet(b) \subseteq F
      BY <1>6, <1>10 DEF Enum
    <2>4. Sorted(b, F)
      BY <2>3, <1>4, OneGroup
    <2>5. QED BY <2>2, <2>3, <2>4, <1>3, <1>4, JoinSorted
  <1>11. QED BY <1>5, <1>7, <1>8, <1>9, <1>10

\* Two monitors get new entries.
Crossed(f, a, b, x, y) == [f EXCEPT ![a] = x, ![b] = y]

\* The function g after that.
HasCrossed(T, f, a, b, x, y, g) ==
  /\ g \in [Monitors -> T] /\ g[a] = x /\ g[b] = y
  /\ \A n \in Monitors \ {a, b} : g[n] = f[n]

\* The others keep theirs.
LEMMA CrossedFacts ==
  ASSUME NEW T, NEW f \in [Monitors -> T], NEW a \in Monitors, NEW b \in Monitors, a # b,
         NEW x \in T, NEW y \in T
  PROVE  HasCrossed(T, f, a, b, x, y, Crossed(f, a, b, x, y))
  BY DEF Crossed, HasCrossed

\* Where clients are once monitors a and b exchanged theirs.
Traded(mon, a, b) ==
  [c \in Clients |-> IF c \in Docks THEN mon[c] ELSE IF mon[c] = a THEN b
                     ELSE IF mon[c] = b THEN a ELSE mon[c]]

\* Who is where then.
HasTraded(mon, a, b, p) ==
  /\ p \in [Clients -> Monitors \cup {None}]
  /\ Owned(p, a) = (Owned(mon, b) \ Docks) \cup (Owned(mon, a) \cap Docks)
  /\ Owned(p, b) = (Owned(mon, a) \ Docks) \cup (Owned(mon, b) \cap Docks)
  /\ \A n \in Monitors \ {a, b} : Owned(p, n) = Owned(mon, n)
  /\ \A c \in Clients \ Docks : (mon[c] = a => p[c] = b) /\ (mon[c] = b => p[c] = a)
  /\ \A c \in Clients : mon[c] \notin {a, b} => p[c] = mon[c]
  /\ \A c \in Clients : mon[c] \in {a, b} => p[c] \in {a, b}

\* The bars stay, the applications change places.
LEMMA TradedFacts ==
  ASSUME NEW mon \in [Clients -> Monitors \cup {None}], NEW a \in Monitors, NEW b \in Monitors,
         a # b
  PROVE  HasTraded(mon, a, b, Traded(mon, a, b))
  BY DEF Traded, HasTraded, Owned

\* The lists of two monitors after the exchange.
LEMMA ListedTraded ==
  ASSUME NEW f \in [Monitors -> Seq(Clients)], NEW mon \in [Clients -> Monitors \cup {None}],
         Listed(f, mon), NEW a \in Monitors, NEW b \in Monitors, a # b,
         NEW p, p = Traded(mon, a, b), NEW d \in Seq(Clients), NEW e \in Seq(Clients),
         Enum(d, Owned(p, a)), Enum(e, Owned(p, b)), NEW g, g = Crossed(f, a, b, d, e)
  PROVE  g \in [Monitors -> Seq(Clients)] /\ Listed(g, p)
  <1>1. /\ g \in [Monitors -> Seq(Clients)] /\ g[a] = d /\ g[b] = e
        /\ \A n \in Monitors \ {a, b} : g[n] = f[n]
    <2>1. HasCrossed(Seq(Clients), f, a, b, d, e, g)
      BY CrossedFacts
    <2>2. QED BY <2>1 DEF HasCrossed
  <1>2. \A n \in Monitors \ {a, b} : Owned(p, n) = Owned(mon, n)
    <2>1. HasTraded(mon, a, b, p)
      BY TradedFacts
    <2>2. QED BY <2>1 DEF HasTraded
  <1>3. ASSUME NEW n \in Monitors PROVE Enum(g[n], Owned(p, n))
    <2>1. CASE n \in {a, b}
      BY <2>1, <1>1
    <2>2. CASE n \notin {a, b}
      BY <2>2, <1>1, <1>2 DEF Listed
    <2>3. QED BY <2>1, <2>2
  <1>4. QED BY <1>1, <1>3 DEF Listed

\* What one monitor selects is its own.
OwnChoice(m, x, y, mon) ==
  /\ x \notin Docks \cup {None} => mon[x] = m
  /\ \A i \in 0..TagCount : y[i] # None => y[i] \notin Docks /\ mon[y[i]] = m

\* Selections travel with the windows.
LEMMA ChoiceTraded ==
  ASSUME NEW mon \in [Clients -> Monitors \cup {None}], NEW m, NEW n,
         NEW x \in Clients \cup {None}, NEW y \in [0..TagCount -> Clients \cup {None}],
         OwnChoice(m, x, y, mon), NEW p, \A c \in Clients \ Docks : mon[c] = m => p[c] = n
  PROVE  OwnChoice(n, x, y, p)
  <1>1. x \notin Docks \cup {None} => p[x] = n
    BY DEF OwnChoice
  <1>2. ASSUME NEW i \in 0..TagCount, y[i] # None PROVE y[i] \notin Docks /\ p[y[i]] = n
    <2>1. y[i] \in Clients
      BY <1>2
    <2>2. QED BY <2>1, <1>2 DEF OwnChoice
  <1>3. QED BY <1>1, <1>2 DEF OwnChoice

\* The selections of all monitors, one by one.
LEMMA SelectedForm ==
  ASSUME NEW sel, NEW pertag, NEW mon
  PROVE  Selected(sel, pertag, mon) <=> \A m \in Monitors : OwnChoice(m, sel[m], pertag[m], mon)
  BY DEF Selected, OwnChoice

\* The selections after the exchange.
LEMMA SelectedTraded ==
  ASSUME NEW sel \in [Monitors -> Clients \cup {None}],
         NEW pertag \in [Monitors -> [0..TagCount -> Clients \cup {None}]],
         NEW mon \in [Clients -> Monitors \cup {None}], Selected(sel, pertag, mon),
         NEW a \in Monitors, NEW b \in Monitors, a # b, NEW p, p = Traded(mon, a, b),
         NEW x, x = Crossed(sel, a, b, sel[b], sel[a]),
         NEW y, y = Crossed(pertag, a, b, pertag[b], pertag[a])
  PROVE  /\ x \in [Monitors -> Clients \cup {None}]
         /\ y \in [Monitors -> [0..TagCount -> Clients \cup {None}]]
         /\ Selected(x, y, p)
  <1>1. PICK T, U : T = Clients \cup {None} /\ U = [0..TagCount -> Clients \cup {None}]
    OBVIOUS
  <1>2. \A n \in Monitors : sel[n] \in T /\ pertag[n] \in U
    BY <1>1
  <1>3. /\ x \in [Monitors -> T] /\ x[a] = sel[b] /\ x[b] = sel[a]
        /\ \A n \in Monitors \ {a, b} : x[n] = sel[n]
    <2>1. sel \in [Monitors -> T] /\ sel[a] \in T /\ sel[b] \in T
      BY <1>1, <1>2
    <2>2. HasCrossed(T, sel, a, b, sel[b], sel[a], x)
      BY <2>1, CrossedFacts
    <2>3. QED BY <2>2 DEF HasCrossed
  <1>4. /\ y \in [Monitors -> U] /\ y[a] = pertag[b] /\ y[b] = pertag[a]
        /\ \A n \in Monitors \ {a, b} : y[n] = pertag[n]
    <2>1. pertag \in [Monitors -> U] /\ pertag[a] \in U /\ pertag[b] \in U
      BY <1>1, <1>2
    <2>2. HasCrossed(U, pertag, a, b, pertag[b], pertag[a], y)
      BY <2>1, CrossedFacts
    <2>3. QED BY <2>2 DEF HasCrossed
  <1>5. \A n \in Monitors : OwnChoice(n, sel[n], pertag[n], mon)
    BY SelectedForm
  <1>6. /\ \A c \in Clients \ Docks : mon[c] = a => p[c] = b
        /\ \A c \in Clients \ Docks : mon[c] = b => p[c] = a
        /\ \A c \in Clients : mon[c] \notin {a, b} => p[c] = mon[c]
    <2>1. HasTraded(mon, a, b, p)
      BY TradedFacts
    <2>2. QED BY <2>1 DEF HasTraded
  <1>7. ASSUME NEW m \in Monitors, NEW n \in Monitors,
               \A c \in Clients \ Docks : mon[c] = m => p[c] = n
        PROVE  OwnChoice(n, sel[m], pertag[m], p)
    <2>1. sel[m] \in Clients \cup {None} /\ pertag[m] \in [0..TagCount -> Clients \cup {None}]
      BY <1>1, <1>2
    <2>2. OwnChoice(m, sel[m], pertag[m], mon)
      BY <1>5
    <2>3. PICK g, h : g = sel[m] /\ h = pertag[m]
      OBVIOUS
    <2>4. OwnChoice(n, g, h, p)
      BY <2>1, <2>2, <2>3, <1>7, ChoiceTraded
    <2>5. QED BY <2>3, <2>4
  <1>8. ASSUME NEW n \in Monitors PROVE OwnChoice(n, x[n], y[n], p)
    <2>1. CASE n = a
      <3>1. OwnChoice(a, sel[b], pertag[b], p)
        BY <1>6, <1>7
      <3>2. QED BY <2>1, <3>1, <1>3, <1>4
    <2>2. CASE n = b
      <3>1. OwnChoice(b, sel[a], pertag[a], p)
        BY <1>6, <1>7
      <3>2. QED BY <2>2, <3>1, <1>3, <1>4
    <2>3. CASE n \notin {a, b}
      <3>1. \A c \in Clients \ Docks : mon[c] = n => p[c] = n
        BY <2>3, <1>6
      <3>2. OwnChoice(n, sel[n], pertag[n], p)
        BY <3>1, <1>7
      <3>3. QED BY <2>3, <3>2, <1>3, <1>4
    <2>4. QED BY <2>1, <2>2, <2>3
  <1>9. Selected(x, y, p)
    BY <1>8, SelectedForm
  <1>10. QED BY <1>1, <1>3, <1>4, <1>9

\* The views after the exchange.
LEMMA ViewedTraded ==
  ASSUME NEW view \in [Monitors -> SUBSET Tags], NEW cur \in [Monitors -> 0..TagCount],
         Viewed(view, cur), NEW a \in Monitors, NEW b \in Monitors, a # b,
         NEW v, v = Crossed(view, a, b, view[b], view[a]),
         NEW w, w = Crossed(cur, a, b, cur[b], cur[a])
  PROVE  /\ v \in [Monitors -> SUBSET Tags] /\ w \in [Monitors -> 0..TagCount] /\ Viewed(v, w)
  <1>1. PICK T, U : T = SUBSET Tags /\ U = 0..TagCount
    OBVIOUS
  <1>2. /\ view \in [Monitors -> T] /\ view[a] \in T /\ view[b] \in T
        /\ cur \in [Monitors -> U] /\ cur[a] \in U /\ cur[b] \in U
    BY <1>1
  <1>3. /\ v \in [Monitors -> T] /\ v[a] = view[b] /\ v[b] = view[a]
        /\ \A n \in Monitors \ {a, b} : v[n] = view[n]
    <2>1. HasCrossed(T, view, a, b, view[b], view[a], v)
      BY <1>2, CrossedFacts
    <2>2. QED BY <2>1 DEF HasCrossed
  <1>4. /\ w \in [Monitors -> U] /\ w[a] = cur[b] /\ w[b] = cur[a]
        /\ \A n \in Monitors \ {a, b} : w[n] = cur[n]
    <2>1. HasCrossed(U, cur, a, b, cur[b], cur[a], w)
      BY <1>2, CrossedFacts
    <2>2. QED BY <2>1 DEF HasCrossed
  <1>5. Viewed(v, w)
    BY <1>3, <1>4 DEF Viewed
  <1>6. QED BY <1>1, <1>3, <1>4, <1>5

\* New monitors, then lists, stacks, selections, views and slots.
Swapped(s, p, l, k, x, y, v, w) ==
  [s EXCEPT !.mon = p, !.list = l, !.stack = k, !.sel = x, !.pertag = y, !.view = v, !.cur = w]

\* The desktop t after that.
HasSwapped(s, p, l, k, x, y, v, w, t) ==
  /\ t \in Desktops /\ t.mon = p /\ t.list = l /\ t.stack = k /\ t.sel = x /\ t.pertag = y
  /\ t.view = v /\ t.cur = w /\ t.order = s.order /\ t.tags = s.tags
  /\ t.floating = s.floating /\ t.sticky = s.sticky /\ t.hidden = s.hidden /\ t.mons = s.mons
  /\ t.selmon = s.selmon /\ t.locked = s.locked

\* Only these are new.
LEMMA SwappedFacts ==
  ASSUME NEW s \in Desktops, NEW p \in [Clients -> Monitors \cup {None}],
         NEW l \in [Monitors -> Seq(Clients)],
         NEW k \in [Monitors -> Seq(Clients)], NEW x \in [Monitors -> Clients \cup {None}],
         NEW y \in [Monitors -> [0..TagCount -> Clients \cup {None}]],
         NEW v \in [Monitors -> SUBSET Tags], NEW w \in [Monitors -> 0..TagCount]
  PROVE  HasSwapped(s, p, l, k, x, y, v, w, Swapped(s, p, l, k, x, y, v, w))
  BY DEF Swapped, HasSwapped, Desktops

\* What an exchange keeps.
LEMMA SwapFacts ==
  ASSUME NEW s, Core(s), NEW a \in ToSet(s.mons), NEW b \in ToSet(s.mons), a # b,
         NEW u, u = swap_monitor_contents(s, a, b)
  PROVE  /\ Core(u) /\ (Tidy(s) => Grouped(u)) /\ u.selmon = s.selmon /\ u.locked = s.locked
  <1>1. /\ s \in Desktops /\ Placed(s.order, s.mon, s.mons) /\ Chosen(s.mons, s.selmon)
        /\ s.floating \cup s.sticky \cup s.hidden \subseteq ToSet(s.order)
        /\ Listed(s.list, s.mon) /\ Listed(s.stack, s.mon) /\ Selected(s.sel, s.pertag, s.mon)
        /\ Viewed(s.view, s.cur) /\ Distinct(s.locked)
    BY DEF Core
  <1>2. /\ s.order \in Seq(Clients) /\ s.mon \in [Clients -> Monitors \cup {None}]
        /\ s.list \in [Monitors -> Seq(Clients)] /\ s.stack \in [Monitors -> Seq(Clients)]
        /\ s.mons \in Seq(Monitors) /\ s.sel \in [Monitors -> Clients \cup {None}]
        /\ s.pertag \in [Monitors -> [0..TagCount -> Clients \cup {None}]]
        /\ s.view \in [Monitors -> SUBSET Tags] /\ s.cur \in [Monitors -> 0..TagCount]
    BY <1>1, FieldTypes
  <1>3. a \in Monitors /\ b \in Monitors /\ s.mons # <<>>
    BY <1>2, EntryFacts
  <1>4. PICK la, lb, sa, sb : /\ la = clients_owned_by_monitor(s, a)
                              /\ lb = clients_owned_by_monitor(s, b)
                              /\ sa = StackedOn(s, a) /\ sb = StackedOn(s, b)
    OBVIOUS
  <1>5. PICK A, B : A = Owned(s.mon, a) /\ B = Owned(s.mon, b)
    OBVIOUS
  <1>6. A \in SUBSET Clients /\ B \in SUBSET Clients
    BY <1>5 DEF Owned
  <1>7. /\ la \in Seq(Clients) /\ Enum(la, A) /\ \A F : Sorted(s.list[a], F) => Sorted(la, F)
        /\ lb \in Seq(Clients) /\ Enum(lb, B) /\ \A F : Sorted(s.list[b], F) => Sorted(lb, F)
    BY <1>3, <1>4, <1>5, OwnedByFacts
  <1>8. sa \in Seq(Clients) /\ Enum(sa, A) /\ sb \in Seq(Clients) /\ Enum(sb, B)
    BY <1>3, <1>4, <1>5, StackedOnFacts
  <1>9. PICK ea, eb, ka, kb : /\ ea = Exchanged(lb, la) /\ eb = Exchanged(la, lb)
                              /\ ka = Exchanged(sb, sa) /\ kb = Exchanged(sa, sb)
    OBVIOUS
  <1>10. PICK p : p = Traded(s.mon, a, b)
    OBVIOUS
  <1>11. /\ p \in [Clients -> Monitors \cup {None}]
         /\ Owned(p, a) = (B \ Docks) \cup (A \cap Docks)
         /\ Owned(p, b) = (A \ Docks) \cup (B \cap Docks)
         /\ \A c \in Clients : s.mon[c] \notin {a, b} => p[c] = s.mon[c]
         /\ \A c \in Clients : s.mon[c] \in {a, b} => p[c] \in {a, b}
    <2>1. HasTraded(s.mon, a, b, p)
      BY <1>2, <1>3, <1>10, TradedFacts
    <2>2. QED BY <2>1, <1>5 DEF HasTraded
  <1>12. /\ ea \in Seq(Clients) /\ Enum(ea, Owned(p, a))
         /\ \A F : Sorted(lb, F) /\ A \cap Docks \subseteq F => Sorted(ea, F)
    <2>1. /\ ea \in Seq(Clients) /\ Enum(ea, (B \ Docks) \cup (A \cap Docks))
          /\ \A F : Sorted(lb, F) /\ A \cap Docks \subseteq F => Sorted(ea, F)
      BY <1>6, <1>7, <1>9, ExchangedFacts
    <2>2. QED BY <2>1, <1>11
  <1>13. /\ eb \in Seq(Clients) /\ Enum(eb, Owned(p, b))
         /\ \A F : Sorted(la, F) /\ B \cap Docks \subseteq F => Sorted(eb, F)
    <2>1. /\ eb \in Seq(Clients) /\ Enum(eb, (A \ Docks) \cup (B \cap Docks))
          /\ \A F : Sorted(la, F) /\ B \cap Docks \subseteq F => Sorted(eb, F)
      BY <1>6, <1>7, <1>9, ExchangedFacts
    <2>2. QED BY <2>1, <1>11
  <1>14. ka \in Seq(Clients) /\ Enum(ka, Owned(p, a))
    <2>1. ka \in Seq(Clients) /\ Enum(ka, (B \ Docks) \cup (A \cap Docks))
      BY <1>6, <1>8, <1>9, ExchangedFacts
    <2>2. QED BY <2>1, <1>11
  <1>15. kb \in Seq(Clients) /\ Enum(kb, Owned(p, b))
    <2>1. kb \in Seq(Clients) /\ Enum(kb, (A \ Docks) \cup (B \cap Docks))
      BY <1>6, <1>8, <1>9, ExchangedFacts
    <2>2. QED BY <2>1, <1>11
  <1>16. PICK l, k, x, y, v, w :
           /\ l = Crossed(s.list, a, b, ea, eb) /\ k = Crossed(s.stack, a, b, ka, kb)
           /\ x = Crossed(s.sel, a, b, s.sel[b], s.sel[a])
           /\ y = Crossed(s.pertag, a, b, s.pertag[b], s.pertag[a])
           /\ v = Crossed(s.view, a, b, s.view[b], s.view[a])
           /\ w = Crossed(s.cur, a, b, s.cur[b], s.cur[a])
    OBVIOUS
  <1>17. l \in [Monitors -> Seq(Clients)] /\ Listed(l, p)
    BY <1>1, <1>2, <1>3, <1>10, <1>12, <1>13, <1>16, ListedTraded
  <1>18. k \in [Monitors -> Seq(Clients)] /\ Listed(k, p)
    BY <1>1, <1>2, <1>3, <1>10, <1>14, <1>15, <1>16, ListedTraded
  <1>19. /\ x \in [Monitors -> Clients \cup {None}]
         /\ y \in [Monitors -> [0..TagCount -> Clients \cup {None}]] /\ Selected(x, y, p)
    <2>1. PICK sel, pertag, mon : sel = s.sel /\ pertag = s.pertag /\ mon = s.mon
      OBVIOUS
    <2>2. /\ sel \in [Monitors -> Clients \cup {None}]
          /\ pertag \in [Monitors -> [0..TagCount -> Clients \cup {None}]]
          /\ mon \in [Clients -> Monitors \cup {None}] /\ Selected(sel, pertag, mon)
          /\ p = Traded(mon, a, b) /\ x = Crossed(sel, a, b, sel[b], sel[a])
          /\ y = Crossed(pertag, a, b, pertag[b], pertag[a])
      BY <2>1, <1>1, <1>2, <1>10, <1>16
    <2>3. QED BY <2>2, <1>3, SelectedTraded
  <1>20. v \in [Monitors -> SUBSET Tags] /\ w \in [Monitors -> 0..TagCount] /\ Viewed(v, w)
    <2>1. PICK view, cur : view = s.view /\ cur = s.cur
      OBVIOUS
    <2>2. /\ view \in [Monitors -> SUBSET Tags] /\ cur \in [Monitors -> 0..TagCount]
          /\ Viewed(view, cur) /\ v = Crossed(view, a, b, view[b], view[a])
          /\ w = Crossed(cur, a, b, cur[b], cur[a])
      BY <2>1, <1>1, <1>2, <1>16
    <2>3. QED BY <2>2, <1>3, ViewedTraded
  <1>21. u = Swapped(s, p, l, k, x, y, v, w)
    BY <1>1, <1>4, <1>9, <1>10, <1>16
    DEF swap_monitor_contents, Swapped, Traded, Crossed, Desktops
  <1>22. HasSwapped(s, p, l, k, x, y, v, w, u)
    <2>1. HasSwapped(s, p, l, k, x, y, v, w, Swapped(s, p, l, k, x, y, v, w))
      BY <1>1, <1>11, <1>17, <1>18, <1>19, <1>20, SwappedFacts
    <2>2. QED BY <2>1, <1>21
  <1>23. Placed(u.order, u.mon, u.mons)
    <2>1. ASSUME NEW c \in Clients
          PROVE  IF c \in ToSet(s.order) THEN p[c] \in ToSet(s.mons) ELSE p[c] = None
      <3>1. IF c \in ToSet(s.order) THEN s.mon[c] \in ToSet(s.mons) ELSE s.mon[c] = None
        BY <1>1, <1>3 DEF Placed
      <3>2. a # None /\ b # None
        BY <1>3, DesktopAssumption
      <3>3. QED BY <3>1, <3>2, <1>11
    <2>2. QED BY <2>1, <1>1, <1>3, <1>22 DEF Placed, HasSwapped
  <1>24. Core(u)
    BY <1>1, <1>17, <1>18, <1>19, <1>20, <1>22, <1>23 DEF Core, HasSwapped
  <1>25. ASSUME Tidy(s) PROVE Grouped(u)
    <2>1. \A n \in Monitors : Sorted(s.list[n], s.floating)
      BY <1>25, GroupedForm DEF Tidy
    <2>2. A \cap Docks \subseteq s.floating /\ B \cap Docks \subseteq s.floating
      <3>1. A \cup B \subseteq ToSet(s.order)
        <4>1. a # None /\ b # None
          BY <1>3, DesktopAssumption
        <4>2. QED BY <4>1, <1>1, <1>5 DEF Owned, Placed
      <3>2. QED BY <3>1, <1>25 DEF Tidy, Managed
    <2>3. Sorted(ea, s.floating) /\ Sorted(eb, s.floating)
      BY <2>1, <2>2, <1>3, <1>7, <1>12, <1>13
    <2>4. /\ l[a] = ea /\ l[b] = eb /\ \A n \in Monitors \ {a, b} : l[n] = s.list[n]
      <3>1. HasCrossed(Seq(Clients), s.list, a, b, ea, eb, l)
        BY <1>2, <1>3, <1>12, <1>13, <1>16, CrossedFacts
      <3>2. QED BY <3>1 DEF HasCrossed
    <2>5. \A n \in Monitors : Sorted(l[n], s.floating)
      BY <2>1, <2>3, <2>4
    <2>6. u.list = l /\ u.floating = s.floating
      BY <1>22 DEF HasSwapped
    <2>7. QED BY <2>5, <2>6, GroupedForm
  <1>26. QED BY <1>22, <1>24, <1>25 DEF HasSwapped

\* Two monitors exchange their workspaces.
LEMMA SwapStep ==
  ASSUME NEW s, Core(s), NEW a \in ToSet(s.mons), NEW b \in ToSet(s.mons), a # b,
         NEW x, NEW u, u = focus(swap_monitor_contents(s, a, b), x)
  PROVE  Kept(s, u) /\ InView(s, u)
  <1>1. PICK t : t = swap_monitor_contents(s, a, b)
    OBVIOUS
  <1>2. Core(t) /\ (Tidy(s) => Grouped(t)) /\ t.selmon = s.selmon /\ t.locked = s.locked
    BY <1>1, SwapFacts
  <1>3. Clear(s) => Clear(t)
    BY <1>2 DEF Clear, is_locked
  <1>4. QED BY <1>1, <1>2, <1>3, EndsWithFocus

------------------------------------------------------------------------------
(* The actions *)

\* What a step from s to u keeps.
Sound(s, u) == Kept(s, u) /\ InView(s, u)

\* A mask of a command is a set of tags, and not empty.
LEMMA MaskFacts ==
  ASSUME NEW mask \in Masks
  PROVE  mask \in SUBSET Tags /\ mask # {}
  BY MasksAssumption

\* Where a new window may go.
LEMMA HomesFacts ==
  ASSUME NEW m \in Homes
  PROVE  Home(wm, m)
  BY DEF Homes, Home, Present

\* A window is mapped.
LEMMA ManageSound ==
  ASSUME Core(wm), Anchored(wm), NEW c \in Clients, NEW m, NEW mask \in Masks, NEW position,
         Manage(c, m, mask, position)
  PROVE  Sound(wm, wm')
  <1>1. c \notin ToSet(wm.order) /\ Home(wm, m) /\ mask \in SUBSET Tags
    BY HomesFacts, MaskFacts DEF Manage, Managed
  <1>2. PICK floats, popup, takes, follows \in BOOLEAN :
          wm' = handle_new_client_focus(Admitted(wm, c, m, mask, floats, position), c, popup,
                                        takes, follows)
    BY DEF Manage, Handle
  <1>3. QED BY <1>1, <1>2, ManageStep DEF Sound

\* A window is found at start-up.
LEMMA InitialSound ==
  ASSUME Core(wm), Anchored(wm), NEW c \in Clients, NEW position, setup_initial_windows(c, position)
  PROVE  Sound(wm, wm')
  <1>1. c \notin ToSet(wm.order)
    BY DEF setup_initial_windows, Managed
  <1>2. Home(wm, wm.selmon)
    BY DEF Core, Chosen, Home
  <1>3. PICK mask, floats, popup, takes, follows :
          /\ mask = {1} /\ floats = FALSE /\ popup = FALSE /\ takes = (c \notin Docks)
          /\ follows = TRUE
    OBVIOUS
  <1>4. /\ mask \in SUBSET Tags /\ floats \in BOOLEAN /\ popup \in BOOLEAN /\ takes \in BOOLEAN
        /\ follows \in BOOLEAN
    <2>1. mask \in SUBSET Tags
      BY <1>3, DesktopAssumption DEF Tags
    <2>2. /\ floats \in BOOLEAN /\ popup \in BOOLEAN /\ takes \in BOOLEAN
          /\ follows \in BOOLEAN
      BY <1>3, Zenon
    <2>3. QED BY <2>1, <2>2
  <1>5. PICK m : m = wm.selmon
    OBVIOUS
  <1>6. wm' = handle_new_client_focus(Admitted(wm, c, m, mask, floats, position), c, popup,
                                      takes, follows)
    BY <1>3, <1>5 DEF setup_initial_windows, Adopted
  <1>7. Home(wm, m)
    BY <1>2, <1>5
  <1>8. QED BY <1>1, <1>4, <1>6, <1>7, ManageStep DEF Sound

\* A minimized window is adopted.
LEMMA MinimizedSound ==
  ASSUME Core(wm), Anchored(wm), NEW c \in Clients, NEW m, NEW mask \in Masks, NEW position,
         ManageMinimized(c, m, mask, position)
  PROVE  Sound(wm, wm')
  <1>1. c \notin ToSet(wm.order) /\ Home(wm, m) /\ mask \in SUBSET Tags
    BY HomesFacts, MaskFacts DEF ManageMinimized, Managed
  <1>2. wm' = [Admitted(wm, c, m, mask, FALSE, position) EXCEPT !.hidden = @ \cup {c}]
    BY DEF ManageMinimized, Handle
  <1>3. QED BY <1>1, <1>2, ManageMinimizedStep DEF Sound

\* A remembered window settles out of view.
LEMMA SettleSound ==
  ASSUME Core(wm), Anchored(wm), NEW c \in Clients, NEW m, NEW mask \in Masks, NEW position,
         settle_remembered_placement_elsewhere(c, m, mask, position)
  PROVE  Sound(wm, wm')
  <1>1. /\ c \notin ToSet(wm.order) /\ c \in Clients \ Docks /\ Home(wm, m)
        /\ mask \in SUBSET Tags /\ mask # {}
    BY HomesFacts, MaskFacts DEF settle_remembered_placement_elsewhere, Managed
  <1>2. PICK a : a = Admitted(wm, c, m, mask, FALSE, position)
    OBVIOUS
  <1>6. PICK slot \in 0..TagCount : slot = slot_for_mask(mask)
    BY <1>1, LowestTag DEF slot_for_mask, is_all_tags
  <1>3. PICK x : x = get_selected_client_key(a)
    OBVIOUS
  <1>4. wm' = IF m = None THEN a ELSE focus([a EXCEPT !.pertag[m][slot] = c], x)
    BY <1>2, <1>6, <1>3 DEF settle_remembered_placement_elsewhere, Handle
  <1>5. QED BY <1>1, <1>2, <1>6, <1>4, SettleStep DEF Sound

\* A window closes.
LEMMA UnmanageSound ==
  ASSUME Core(wm), NEW c \in Clients, unmanage_regular_client(c)
  PROVE  Sound(wm, wm')
  <1>1. c \in ToSet(wm.order)
    BY DEF unmanage_regular_client, Managed
  <1>2. PICK a : a = IF wm.mon[c] = None THEN wm ELSE clear_selection_of(wm, wm.mon[c], c)
    OBVIOUS
  <1>3. PICK t : t = detachstack(detach(a, c), c)
    OBVIOUS
  <1>4. Lifted(wm, t, c)
    BY <1>2, <1>3, ClosedLifted
  <1>5. wm' = focus(Removed(t, c), None)
    BY <1>2, <1>3 DEF unmanage_regular_client, Handle
  <1>6. QED BY <1>1, <1>4, <1>5, UnmanageStep DEF Sound

\* A focus command.
LEMMA FocusSound ==
  ASSUME Core(wm), NEW c, Focus(c)
  PROVE  Sound(wm, wm')
  <1>1. wm' = focus(wm, c)
    BY DEF Focus, Handle
  <1>2. QED BY <1>1, EndsWithFocus DEF Sound, Tidy

\* A window is minimized.
LEMMA MinimizeSound ==
  ASSUME Core(wm), Anchored(wm), NEW c, Minimize(c)
  PROVE  Sound(wm, wm')
  <1>1. c \in ToSet(wm.order)
    BY DEF Minimize, Managed
  <1>2. PICK t : t = [wm EXCEPT !.hidden = @ \cup {c}]
    OBVIOUS
  <1>3. wm' = IF get_selected_client_key(wm) = c THEN focus(t, None) ELSE t
    BY <1>2 DEF Minimize, Handle
  <1>4. QED BY <1>1, <1>2, <1>3, MinimizeStep DEF Sound

\* A window is restored.
LEMMA RestoreSound ==
  ASSUME Core(wm), NEW c, Restore(c)
  PROVE  Sound(wm, wm')
  BY RestoreStep DEF Restore, Handle, Sound

\* A window joins or leaves the floating group.
LEMMA FloatSound ==
  ASSUME Core(wm), Anchored(wm), NEW c, togglefloating(c)
  PROVE  Sound(wm, wm')
  <1>1. c \in ToSet(wm.order) /\ c = get_selected_client_key(wm)
    BY DEF togglefloating, Managed
  <1>2. PICK G : G = IF c \in wm.floating THEN wm.floating \ {c} ELSE wm.floating \cup {c}
    OBVIOUS
  <1>3. wm.floating \subseteq ToSet(wm.order) /\ wm \in Desktops
    BY DEF Core
  <1>4. G \in SUBSET ToSet(wm.order) /\ \A x \in Clients \ {c} : x \in G <=> x \in wm.floating
    BY <1>1, <1>2, <1>3
  <1>5. wm' = reorder_client_in_monitor_groups([wm EXCEPT !.floating = G], c)
    BY <1>2, <1>3 DEF togglefloating, Handle, Desktops
  <1>6. QED BY <1>1, <1>4, <1>5, ToggleFloatingStep DEF Sound

\* A window becomes sticky.
LEMMA StickSound ==
  ASSUME Core(wm), Anchored(wm), NEW c \in Clients, Stick(c)
  PROVE  Sound(wm, wm')
  <1>1. c \in ToSet(wm.order)
    BY DEF Stick, Managed
  <1>2. /\ wm \in Desktops /\ wm.tags \in [Clients -> SUBSET Tags]
        /\ wm.view \in [Monitors -> SUBSET Tags] /\ wm.mon \in [Clients -> Monitors \cup {None}]
    BY FieldTypes DEF Core
  <1>3. PICK T : T = IF wm.mon[c] = None THEN wm.tags[c] ELSE wm.view[wm.mon[c]]
    OBVIOUS
  <1>4. T \in SUBSET Tags
    <2>1. wm.mon[c] # None => wm.mon[c] \in Monitors
      BY <1>2
    <2>2. QED BY <2>1, <1>2, <1>3
  <1>5. wm' = [wm EXCEPT !.sticky = @ \cup {c}, !.tags[c] = T]
    BY <1>2, <1>3 DEF Stick, Handle, Desktops
  <1>6. QED BY <1>1, <1>4, <1>5, StickStep DEF Sound

\* A window is no longer sticky.
LEMMA UnstickSound ==
  ASSUME Core(wm), Anchored(wm), NEW c, Unstick(c)
  PROVE  Kept(wm, wm')
  BY UnstickStep DEF Unstick, Handle

\* The selected tile changes places with a neighbour.
LEMMA MovestackSound ==
  ASSUME Core(wm), Anchored(wm), NEW forward \in BOOLEAN, movestack(forward)
  PROVE  Sound(wm, wm')
  <1>1. PICK c : c = get_selected_client_key(wm)
    OBVIOUS
  <1>2. PICK q : q = wm.list[wm.selmon]
    OBVIOUS
  <1>3. PICK i : i = Position(q, c)
    OBVIOUS
  <1>4. PICK d : d = First(IF forward THEN Others(q, i) ELSE Reverse(Others(q, i)), Tiled(wm))
    OBVIOUS
  <1>5. /\ c # None /\ c \notin wm.floating /\ d # None
        /\ wm' = [wm EXCEPT !.list[wm.selmon] = [q EXCEPT ![i] = d, ![Position(q, d)] = c]]
    BY <1>1, <1>2, <1>3, <1>4 DEF movestack, Handle, Others
  <1>6. QED BY <1>1, <1>2, <1>3, <1>4, <1>5, MovestackStep DEF Sound

\* What follows an entry is in the list.
LEMMA AfterFacts ==
  ASSUME NEW q \in Seq(Clients), NEW X, Enum(q, X), NEW c \in X, NEW G,
         NEW d, d = First(SubSeq(q, Position(q, c) + 1, Len(q)), G), d # None
  PROVE  d \in X \cap G
  <1>1. PICK k : k = Position(q, c)
    OBVIOUS
  <1>2. k \in 1..Len(q) /\ Len(q) \in Nat
    BY <1>1, PositionFacts, EntryFacts DEF Enum
  <1>3. PICK r : r = SubSeq(q, k + 1, Len(q))
    OBVIOUS
  <1>4. /\ r \in Seq(Clients) /\ Len(r) = Len(q) - k
        /\ \A i \in 1..(Len(q) - k) : r[i] = q[k + i]
    BY <1>2, <1>3, RestFacts
  <1>5. d \in ToSet(r) \cap G
    BY <1>1, <1>3, <1>4, FirstIn, DesktopAssumption
  <1>6. PICK i \in 1..Len(r) : r[i] = d
    BY <1>4, <1>5, EntryFacts
  <1>7. k + i \in 1..Len(q) /\ q[k + i] = d
    BY <1>2, <1>4, <1>6
  <1>8. q[k + i] \in ToSet(q)
    BY <1>7, EntryFacts
  <1>9. QED BY <1>5, <1>7, <1>8 DEF Enum

\* A tile moves to the front.
LEMMA ZoomSound ==
  ASSUME Core(wm), Anchored(wm), zoom
  PROVE  Sound(wm, wm')
  <1>1. PICK c : c = get_selected_client_key(wm)
    OBVIOUS
  <1>2. c # None /\ c \notin wm.floating
    BY <1>1 DEF zoom
  <1>3. PICK m : m = wm.selmon
    OBVIOUS
  <1>4. m \in Monitors /\ c \in Clients /\ wm.mon[c] = m /\ c \in Owned(wm.mon, m)
    BY <1>1, <1>2, <1>3, SelectedHome
  <1>5. PICK q : q = wm.list[m]
    OBVIOUS
  <1>6. PICK X : X = Owned(wm.mon, m)
    OBVIOUS
  <1>7. q \in Seq(Clients) /\ Enum(q, X) /\ c \in X /\ c \in ToSet(q)
    BY <1>4, <1>5, <1>6, ListFacts
  <1>8. PICK G : G = {d \in Clients : is_client_visible_on_monitor(wm, d, m)} \ wm.floating
    OBVIOUS
  <1>9. PICK e : e = First(SubSeq(q, Position(q, c) + 1, Len(q)), G)
    OBVIOUS
  <1>10. PICK d : d = IF c = First(q, G) THEN e ELSE c
    OBVIOUS
  <1>11. d # None /\ wm' = focus([wm EXCEPT !.list[wm.mon[d]] = <<d>> \o Without(@, d)], d)
    BY <1>1, <1>3, <1>5, <1>7, <1>8, <1>9, <1>10 DEF zoom, Handle
  <1>12. e # None => e \in X \cap G
    BY <1>7, <1>9, AfterFacts
  <1>13. d \in Clients /\ wm.mon[d] = m /\ d \notin wm.floating
    BY <1>2, <1>4, <1>6, <1>8, <1>10, <1>11, <1>12 DEF Owned
  <1>14. QED BY <1>4, <1>11, <1>13, ZoomStep DEF Sound

\* A window goes to a tag.
LEMMA MoveToTagSound ==
  ASSUME Core(wm), NEW c \in Clients, NEW mask \in Masks, move_client_to_tag(c, mask)
  PROVE  Sound(wm, wm')
  <1>1. mask \in SUBSET Tags
    BY MaskFacts
  <1>2. wm' = focus([wm EXCEPT !.tags[c] = mask], None)
    BY DEF move_client_to_tag, Handle
  <1>3. QED BY <1>1, <1>2, RetagStep DEF Sound

\* The selected window's tags are toggled.
LEMMA ToggletagSound ==
  ASSUME Core(wm), Anchored(wm), NEW mask \in Masks, toggletag(mask)
  PROVE  Sound(wm, wm')
  <1>1. PICK c : c = get_selected_client_key(wm)
    OBVIOUS
  <1>2. c # None
    BY <1>1 DEF toggletag
  <1>3. c \in Clients
    BY <1>1, <1>2, SelectedHome
  <1>4. PICK T : T = (wm.tags[c] \ mask) \cup (mask \ wm.tags[c])
    OBVIOUS
  <1>5. T \in SUBSET Tags
    <2>1. wm.tags \in [Clients -> SUBSET Tags]
      BY FieldTypes DEF Core
    <2>2. wm.tags[c] \in SUBSET Tags /\ mask \in SUBSET Tags
      BY <2>1, <1>3, MaskFacts
    <2>3. QED BY <2>2, <1>4
  <1>6. wm' = focus([wm EXCEPT !.tags[c] = T], None)
    BY <1>1, <1>4 DEF toggletag, Handle
  <1>7. QED BY <1>3, <1>5, <1>6, RetagStep DEF Sound

\* A monitor views other tags.
LEMMA ViewSound ==
  ASSUME Core(wm), Anchored(wm), NEW m \in Monitors, NEW mask \in Masks, view_on_monitor(m, mask)
  PROVE  Sound(wm, wm')
  <1>1. mask \in SUBSET Tags
    BY MaskFacts
  <1>2. PICK t : t = update_sticky_tags(view_tag(wm, m, mask), m)
    OBVIOUS
  <1>3. PICK x : x = IF t.pertag[m][t.cur[m]] # None /\ t.mon[t.pertag[m][t.cur[m]]] = m
                     THEN t.pertag[m][t.cur[m]] ELSE None
    OBVIOUS
  <1>4. wm' = IF t.selmon # m THEN t ELSE focus(t, x)
    BY <1>2, <1>3 DEF view_on_monitor, Handle
  <1>5. QED BY <1>1, <1>2, <1>4, ViewStep DEF Sound

\* The selected monitor's view is toggled.
LEMMA ToggleviewSound ==
  ASSUME Core(wm), Anchored(wm), NEW mask \in Masks, toggleview(mask)
  PROVE  Sound(wm, wm')
  <1>1. PICK m : m = wm.selmon
    OBVIOUS
  <1>2. m \in Monitors /\ m # None
    <2>1. wm.selmon \in Monitors \cup {None}
      BY FieldTypes DEF Core
    <2>2. QED BY <2>1, <1>1 DEF toggleview
  <1>3. PICK v : v = (wm.view[m] \ mask) \cup (mask \ wm.view[m])
    OBVIOUS
  <1>4. v \in SUBSET Tags
    <2>1. wm.view \in [Monitors -> SUBSET Tags]
      BY FieldTypes DEF Core
    <2>2. wm.view[m] \in SUBSET Tags /\ mask \in SUBSET Tags
      BY <2>1, <1>2, MaskFacts
    <2>3. QED BY <2>2, <1>3
  <1>5. PICK r : r = view_tag(wm, m, v)
    OBVIOUS
  <1>6. PICK t : t = update_sticky_tags(r, m)
    OBVIOUS
  <1>7. t.selmon = m
    <2>1. Turned(wm, r, m)
      BY <1>2, <1>4, <1>5, ViewTagFacts
    <2>2. Core(r) /\ r.selmon = wm.selmon
      BY <2>1 DEF Turned
    <2>3. Followed(r, t, m)
      BY <2>2, <1>2, <1>6, StickyFacts
    <2>4. QED BY <2>2, <2>3, <1>1 DEF Followed
  <1>8. PICK x : x = None
    OBVIOUS
  <1>9. wm' = focus(t, x)
    BY <1>1, <1>3, <1>5, <1>6, <1>8 DEF toggleview, Handle
  <1>10. wm' = IF t.selmon # m THEN t ELSE focus(t, x)
    BY <1>7, <1>9
  <1>11. QED BY <1>2, <1>4, <1>5, <1>6, <1>10, ViewStep DEF Sound

\* Another monitor is selected.
LEMMA FocusmonSound ==
  ASSUME Core(wm), Anchored(wm), NEW m, focusmon(m)
  PROVE  Sound(wm, wm')
  <1>1. m \in ToSet(wm.mons) /\ wm' = switch_monitor_focusing(wm, m, None)
    BY DEF focusmon, Handle, Present
  <1>2. QED BY <1>1, FocusmonStep DEF Sound

\* A window is sent to another monitor.
LEMMA SendmonSound ==
  ASSUME Core(wm), NEW c, NEW m, sendmon(c, m)
  PROVE  Sound(wm, wm')
  <1>1. c \in ToSet(wm.order) /\ m \in ToSet(wm.mons) /\ wm' = focus(Sent(wm, c, m), None)
    BY DEF sendmon, Handle, Present, Managed
  <1>2. QED BY <1>1, SendmonStep DEF Sound

\* A window is dropped on another monitor.
LEMMA DropSound ==
  ASSUME Core(wm), Anchored(wm), NEW m, check_monitor_consistency(m)
  PROVE  Sound(wm, wm')
  <1>1. PICK c : c = get_selected_client_key(wm)
    OBVIOUS
  <1>2. /\ c # None /\ m \in ToSet(wm.mons) /\ ~is_locked(wm, m)
        /\ wm' = focus([focus(Sent(wm, c, m), None) EXCEPT !.selmon = m], None)
    BY <1>1 DEF check_monitor_consistency, Handle, Present
  <1>3. c \in ToSet(wm.order)
    BY <1>1, <1>2, SelectedHome
  <1>4. QED BY <1>2, <1>3, DropStep DEF Sound

\* Two monitors exchange their workspaces.
LEMMA SwapmonSound ==
  ASSUME Core(wm), NEW m, swapmon(m)
  PROVE  Sound(wm, wm')
  <1>1. PICK a : a = wm.selmon
    OBVIOUS
  <1>2. a # None /\ m \in ToSet(wm.mons) /\ a # m
    BY <1>1 DEF swapmon, Present
  <1>3. a \in ToSet(wm.mons)
    BY <1>1, <1>2 DEF Core, Chosen
  <1>4. PICK t : t = swap_monitor_contents(wm, a, m)
    OBVIOUS
  <1>5. PICK x : x = IF t.sel[a] # None /\ t.mon[t.sel[a]] = a THEN t.sel[a] ELSE None
    OBVIOUS
  <1>6. wm' = focus(t, x)
    BY <1>1, <1>4, <1>5 DEF swapmon, Handle
  <1>7. wm' = focus(swap_monitor_contents(wm, a, m), x)
    BY <1>4, <1>6
  <1>8. QED BY <1>2, <1>3, <1>7, SwapStep DEF Sound

\* An output is plugged in.
LEMMA AddedSound ==
  ASSUME Core(wm), Anchored(wm), NEW m \in Monitors, handle_output_added(m)
  PROVE  Sound(wm, wm')
  <1>1. m \notin ToSet(wm.mons)
    BY DEF handle_output_added, Present
  <1>2. PICK t : t = [blank_monitor(wm, m) EXCEPT !.mons = Append(@, m),
                          !.selmon = IF @ = None THEN m ELSE @]
    OBVIOUS
  <1>3. wm' = prune_monitor_locks(AttachAll(t, Orphans(t), t.selmon))
    BY <1>2 DEF handle_output_added, Handle, Orphans
  <1>4. QED BY <1>1, <1>2, <1>3, OutputAddedStep DEF Sound

\* An output is unplugged.
LEMMA RemovedSound ==
  ASSUME Core(wm), Anchored(wm), NEW m, handle_output_removed(m)
  PROVE  Sound(wm, wm')
  <1>1. m \in ToSet(wm.mons)
    BY DEF handle_output_removed, Present
  <1>2. PICK t : t = prune_monitor_locks(
                       remove_monitor_state(move_clients_to_first_monitor(wm, m), m))
    OBVIOUS
  <1>3. wm' = IF wm.selmon = m THEN focus(t, None) ELSE t
    BY <1>2 DEF handle_output_removed, Handle
  <1>4. QED BY <1>1, <1>2, <1>3, OutputRemovedStep DEF Sound

\* A monitor is locked.
LEMMA LockSound ==
  ASSUME Core(wm), Anchored(wm), NEW m, lock_monitor(m)
  PROVE  Sound(wm, wm')
  <1>1. m \in ToSet(wm.mons) /\ ~is_locked(wm, m) /\ Len(wm.locked) + 1 < Len(wm.mons)
    BY DEF lock_monitor, Present
  <1>2. PICK t : t = [wm EXCEPT !.locked = Append(@, m)]
    OBVIOUS
  <1>3. wm' = IF t.selmon = m THEN switch_monitor_focusing(t, first_unlocked_monitor(t), None) ELSE t
    BY <1>2 DEF lock_monitor, Handle
  <1>4. QED BY <1>1, <1>2, <1>3, LockStep DEF Sound

\* A shade is lifted.
LEMMA LiftSound ==
  ASSUME Core(wm), Anchored(wm), NEW m, lift_monitor_lock(m)
  PROVE  Sound(wm, wm')
  BY LiftStep DEF lift_monitor_lock, Handle, Sound

\* A command, or the start-up scan, keeps the invariant and the grouping; and
\* what is in view, unless it ends stickiness.
LEMMA StepSound ==
  ASSUME Core(wm), Anchored(wm), Next
  PROVE  \/ Sound(wm, wm')
         \/ Kept(wm, wm') /\ \E c \in Clients : Unstick(c)
  <1>1. CASE \E c \in Clients, p \in Positions : setup_initial_windows(c, p)
    BY <1>1, InitialSound
  <1>2. ASSUME NEW c \in Clients, NEW m \in Monitors \cup {None}, NEW mask \in Masks,
               NEW p \in Positions,
               \/ Manage(c, m, mask, p)
               \/ ManageMinimized(c, m, mask, p)
               \/ settle_remembered_placement_elsewhere(c, m, mask, p)
        PROVE  Sound(wm, wm')
    <2>1. CASE Manage(c, m, mask, p)
      BY <2>1, ManageSound
    <2>2. CASE ManageMinimized(c, m, mask, p)
      BY <2>2, MinimizedSound
    <2>3. CASE settle_remembered_placement_elsewhere(c, m, mask, p)
      BY <2>3, SettleSound
    <2>4. QED BY <1>2, <2>1, <2>2, <2>3
  <1>3. ASSUME NEW c \in Clients,
               \/ unmanage_regular_client(c) \/ Focus(c) \/ Minimize(c) \/ Restore(c)
               \/ togglefloating(c) \/ Stick(c)
        PROVE  Sound(wm, wm')
    BY <1>3, UnmanageSound, FocusSound, MinimizeSound, RestoreSound, FloatSound, StickSound
  <1>4. ASSUME NEW c \in Clients, Unstick(c) PROVE Kept(wm, wm') /\ \E d \in Clients : Unstick(d)
    BY <1>4, UnstickSound
  <1>5. CASE (\E forward \in BOOLEAN : movestack(forward)) \/ zoom
    BY <1>5, MovestackSound, ZoomSound
  <1>6. ASSUME NEW mask \in Masks,
               \/ \E c \in Clients : move_client_to_tag(c, mask)
               \/ \E m \in Monitors : view_on_monitor(m, mask)
               \/ toggletag(mask) \/ toggleview(mask)
        PROVE  Sound(wm, wm')
    BY <1>6, MoveToTagSound, ViewSound, ToggletagSound, ToggleviewSound
  <1>7. ASSUME NEW m \in Monitors,
               \/ focusmon(m) \/ check_monitor_consistency(m) \/ swapmon(m)
               \/ handle_output_added(m) \/ handle_output_removed(m)
               \/ lock_monitor(m) \/ lift_monitor_lock(m)
               \/ \E c \in Clients : sendmon(c, m)
        PROVE  Sound(wm, wm')
    BY <1>7, FocusmonSound, DropSound, SwapmonSound, AddedSound, RemovedSound, LockSound,
       LiftSound, SendmonSound
  <1>8. QED BY <1>1, <1>2, <1>3, <1>4, <1>5, <1>6, <1>7 DEF Next, Command

------------------------------------------------------------------------------
(* The theorems *)

\* The inductive invariant.
Inv == Core(wm) /\ Anchored(wm)

\* The fields of an empty desktop.
LEMMA EmptyFacts ==
  /\ Empty \in Desktops /\ Empty.order = <<>> /\ Empty.floating = {} /\ Empty.sticky = {}
  /\ Empty.hidden = {} /\ Empty.locked = <<>>
  /\ \A c \in Clients : Empty.mon[c] = None
  /\ \A m \in Monitors : /\ Empty.list[m] = <<>> /\ Empty.stack[m] = <<>>
                         /\ Empty.sel[m] = None /\ Empty.view[m] = {1} /\ Empty.cur[m] = 1
                         /\ \A i \in 0..TagCount : Empty.pertag[m][i] = None
  <1>1. 1 \in Tags /\ 1 \in 0..TagCount
    BY DesktopAssumption DEF Tags
  <1>2. <<>> \in Seq(Clients) /\ <<>> \in Seq(Monitors)
    OBVIOUS
  <1>3. Empty \in Desktops
    BY <1>1, <1>2 DEF Empty, Desktops
  <1>4. QED BY <1>3 DEF Empty

\* The outputs found at start-up, and which of them is selected.
LEMMA OutputsFacts ==
  ASSUME NEW n \in Nat, NEW o \in [1..n -> Monitors], \A i, j \in 1..n : o[i] = o[j] => i = j,
         NEW x, x = IF o = <<>> THEN None ELSE Head(o)
  PROVE  /\ o \in Seq(Monitors) /\ Distinct(o) /\ x \in Monitors \cup {None} /\ Chosen(o, x)
  <1>1. o \in Seq(Monitors) /\ DOMAIN o = 1..n /\ Len(o) = n
    OBVIOUS
  <1>2. Distinct(o)
    BY <1>1 DEF Distinct
  <1>3. None \notin Monitors
    BY DesktopAssumption
  <1>4. CASE o = <<>>
    BY <1>1, <1>2, <1>4 DEF Chosen
  <1>5. CASE o # <<>>
    <2>1. n > 0 /\ Head(o) = o[1] /\ x = o[1]
      BY <1>1, <1>5
    <2>2. o[1] \in ToSet(o) /\ o[1] \in Monitors
      BY <2>1, <1>1, EntryFacts
    <2>3. QED BY <2>1, <2>2, <1>1, <1>2, <1>3, <1>5 DEF Chosen
  <1>6. QED BY <1>4, <1>5

\* The invariant holds at start-up.
LEMMA InitInv ==
  ASSUME Init
  PROVE  Inv
  <1>1. PICK n \in 0..MaxOutputs : \E q \in [1..n -> Monitors] :
          /\ \A i, j \in 1..n : q[i] = q[j] => i = j
          /\ wm = [Empty EXCEPT !.mons = q, !.selmon = IF q = <<>> THEN None ELSE Head(q)]
    BY DEF Init
  <1>2. PICK o \in [1..n -> Monitors] :
          /\ \A i, j \in 1..n : o[i] = o[j] => i = j
          /\ wm = [Empty EXCEPT !.mons = o, !.selmon = IF o = <<>> THEN None ELSE Head(o)]
    BY <1>1
  <1>2a. PICK m : m = IF o = <<>> THEN None ELSE Head(o)
    OBVIOUS
  <1>3. /\ o \in Seq(Monitors) /\ Distinct(o) /\ m \in Monitors \cup {None} /\ Chosen(o, m)
    <2>1. n \in Nat
      BY OutputsAssumption
    <2>2. QED BY <2>1, <1>2, <1>2a, OutputsFacts
  <1>4. PICK e : e = Empty
    OBVIOUS
  <1>5. /\ e \in Desktops /\ e.order = <<>> /\ e.floating = {} /\ e.sticky = {}
        /\ e.hidden = {} /\ e.locked = <<>>
        /\ \A c \in Clients : e.mon[c] = None
        /\ \A k \in Monitors : /\ e.list[k] = <<>> /\ e.stack[k] = <<>>
                               /\ e.sel[k] = None /\ e.view[k] = {1} /\ e.cur[k] = 1
                               /\ \A i \in 0..TagCount : e.pertag[k][i] = None
    BY <1>4, EmptyFacts
  <1>6. wm = Plugged(e, o, m)
    BY <1>2, <1>4, <1>2a DEF Plugged
  <1>7. HasPlugged(e, o, m, wm)
    <2>1. HasPlugged(e, o, m, Plugged(e, o, m))
      BY <1>3, <1>5, PluggedFacts
    <2>2. QED BY <2>1, <1>6
  <1>8. /\ wm \in Desktops /\ wm.mons = o /\ wm.selmon = m /\ wm.order = <<>>
        /\ wm.floating = {} /\ wm.sticky = {} /\ wm.hidden = {} /\ wm.locked = <<>>
        /\ \A c \in Clients : wm.mon[c] = None
        /\ \A k \in Monitors : /\ wm.list[k] = <<>> /\ wm.stack[k] = <<>>
                               /\ wm.sel[k] = None /\ wm.view[k] = {1} /\ wm.cur[k] = 1
                               /\ \A i \in 0..TagCount : wm.pertag[k][i] = None
    BY <1>5, <1>7 DEF HasPlugged
  <1>9. Distinct(<<>>) /\ ToSet(<<>>) = {}
    BY EmptyEnum DEF Enum
  <1>10. Placed(wm.order, wm.mon, wm.mons)
    BY <1>3, <1>8, <1>9 DEF Placed
  <1>11. \A k \in Monitors : k # None
    BY DesktopAssumption
  <1>12. Chosen(wm.mons, wm.selmon)
    BY <1>3, <1>8
  <1>13. Listed(wm.list, wm.mon) /\ Listed(wm.stack, wm.mon)
    <2>1. \A k \in Monitors : Owned(wm.mon, k) = {}
      BY <1>8, <1>11 DEF Owned
    <2>2. QED BY <2>1, <1>8, EmptyEnum DEF Listed
  <1>14. Selected(wm.sel, wm.pertag, wm.mon)
    BY <1>8 DEF Selected
  <1>15. Viewed(wm.view, wm.cur)
    BY <1>8 DEF Viewed
  <1>16. Core(wm)
    <2>1. wm.floating \cup wm.sticky \cup wm.hidden \subseteq ToSet(wm.order)
      BY <1>8
    <2>2. Distinct(wm.locked)
      BY <1>8, <1>9
    <2>3. QED BY <2>1, <2>2, <1>8, <1>10, <1>12, <1>13, <1>14, <1>15 DEF Core
  <1>17. Anchored(wm)
    <2>1. wm.selmon # None => wm.selmon \in Monitors
      BY <1>3, <1>8
    <2>2. QED BY <2>1, <1>8 DEF Anchored
  <1>18. QED BY <1>16, <1>17 DEF Inv

\* Every step keeps the invariant.
LEMMA NextInv ==
  ASSUME Inv, [Next]_vars
  PROVE  Inv'
  <1>1. CASE Next
    <2>1. Kept(wm, wm')
      BY <1>1, StepSound DEF Inv, Sound
    <2>2. QED BY <2>1 DEF Kept, Inv
  <1>2. CASE UNCHANGED vars
    BY <1>2 DEF Inv, vars
  <1>3. QED BY <1>1, <1>2

\* The invariant implies that fields have their types and slots are in view.
LEMMA InvTypeOK ==
  ASSUME Inv
  PROVE  TypeOK
  <1>1. /\ wm \in Desktops /\ Chosen(wm.mons, wm.selmon)
        /\ wm.floating \cup wm.sticky \cup wm.hidden \subseteq ToSet(wm.order)
        /\ Viewed(wm.view, wm.cur)
    BY DEF Inv, Core
  <1>2. /\ wm.mon \in [Clients -> Monitors \cup {None}] /\ wm.tags \in [Clients -> SUBSET Tags]
        /\ wm.view \in [Monitors -> SUBSET Tags]
    BY <1>1, FieldTypes
  <1>3. \A m \in Monitors : wm.view[m] \subseteq Tags
    BY <1>2
  <1>4. QED BY <1>1, <1>2, <1>3 DEF TypeOK, Managed, Present, Chosen, Viewed

\* How often a sequence without repetitions names c.
LEMMA CountFacts ==
  ASSUME NEW q \in Seq(Clients), NEW X, Enum(q, X), NEW c
  PROVE  Cardinality({i \in DOMAIN q : q[i] = c}) = IF c \in X THEN 1 ELSE 0
  <1>1. CASE c \in X
    <2>1. PICK k \in DOMAIN q : q[k] = c
      BY <1>1, EntryFacts DEF Enum
    <2>2. {i \in DOMAIN q : q[i] = c} = {k}
      BY <2>1 DEF Enum, Distinct
    <2>3. Cardinality({k}) = 1
      BY FS_Singleton
    <2>4. QED BY <1>1, <2>2, <2>3
  <1>2. CASE c \notin X
    <2>1. {i \in DOMAIN q : q[i] = c} = {}
      BY <1>2, EntryFacts DEF Enum
    <2>2. Cardinality({}) = 0
      BY FS_EmptySet
    <2>3. QED BY <1>2, <2>1, <2>2
  <1>3. QED BY <1>1, <1>2

\* The invariant implies that clients are listed once.
LEMMA InvListedOnce ==
  ASSUME Inv
  PROVE  ListedOnce
  <1>1. Core(wm) /\ Placed(wm.order, wm.mon, wm.mons)
    BY DEF Inv, Core
  <1>2. wm.order \in Seq(Clients) /\ ToSet(wm.order) \subseteq Clients
    BY <1>1, FieldTypes, EntryFacts DEF Core
  <1>3. ASSUME NEW c \in Managed(wm)
        PROVE  wm.mon[c] \in Present(wm) \/ (wm.mon[c] = None /\ wm.mons = <<>>)
    BY <1>1, <1>2, <1>3 DEF Managed, Present, Placed
  <1>4. ASSUME NEW c \in Managed(wm), NEW m \in Monitors
        PROVE  LET n == IF wm.mon[c] = m THEN 1 ELSE 0 IN
                 /\ Cardinality({i \in DOMAIN wm.list[m] : wm.list[m][i] = c}) = n
                 /\ Cardinality({i \in DOMAIN wm.stack[m] : wm.stack[m][i] = c}) = n
    <2>1. PICK l, k, X : l = wm.list[m] /\ k = wm.stack[m] /\ X = Owned(wm.mon, m)
      OBVIOUS
    <2>2. l \in Seq(Clients) /\ k \in Seq(Clients) /\ Enum(l, X) /\ Enum(k, X)
      BY <2>1, <1>1, ListFacts
    <2>3. c \in X <=> wm.mon[c] = m
      BY <2>1, <1>2, <1>4 DEF Owned, Managed
    <2>4. Cardinality({i \in DOMAIN l : l[i] = c}) = IF c \in X THEN 1 ELSE 0
      BY <2>2, CountFacts
    <2>5. Cardinality({i \in DOMAIN k : k[i] = c}) = IF c \in X THEN 1 ELSE 0
      BY <2>2, CountFacts
    <2>6. QED BY <2>1, <2>3, <2>4, <2>5
  <1>5. ASSUME NEW m \in Monitors
        PROVE  ToSet(wm.list[m]) \cup ToSet(wm.stack[m]) \subseteq Managed(wm)
    <2>1. ToSet(wm.list[m]) = Owned(wm.mon, m) /\ ToSet(wm.stack[m]) = Owned(wm.mon, m)
      BY <1>1, ListFacts DEF Enum
    <2>2. m # None
      BY DesktopAssumption
    <2>3. Owned(wm.mon, m) \subseteq Managed(wm)
      BY <2>2, <1>1 DEF Owned, Managed, Placed
    <2>4. QED BY <2>1, <2>3
  <1>6. QED BY <1>3, <1>4, <1>5 DEF ListedOnce

\* The invariant implies that selections are a monitor's own.
LEMMA InvSelectionOwned ==
  ASSUME Inv
  PROVE  SelectionOwned
  BY DEF Inv, Core, Selected, SelectionOwned

\* The invariant holds in every state: the fields have their types; every
\* managed client is listed and stacked, once, where its record says; selections
\* are of a monitor's own windows; slots are in view; no lock is held twice; and
\* the selected window is on the selected monitor (every handler of the manager).
THEOREM WorkspaceInvariant == Spec => []Inv
  <1>1. Init => Inv
    BY InitInv
  <1>2. Inv /\ [Next]_vars => Inv'
    BY NextInv
  <1>3. QED BY <1>1, <1>2, PTL DEF Spec

\* Every field keeps its type, and the per-tag slot in use is always that of a
\* tag in view (view_tag, blank_monitor, swap_monitor_contents).
THEOREM WorkspaceTypes == Spec => []TypeOK
  BY WorkspaceInvariant, InvTypeOK, PTL

\* A client is in the list and in the stack of the monitor its record names, once
\* in each, and of no other; it is on a plugged-in output whenever there is one
\* (attach, detach, sendmon, swapmon, output removal and return).
THEOREM WindowsListedOnce == Spec => []ListedOnce
  BY WorkspaceInvariant, InvListedOnce, PTL

\* What a monitor or a tag remembers as selected is on that monitor
\* (clear_selection_of, swap_monitor_contents, remove_monitor_state).
THEOREM SelectionsOwned == Spec => []SelectionOwned
  BY WorkspaceInvariant, InvSelectionOwned, PTL

\* No handler leaves a tiled window behind a floating one while the bars float
\* (attach_new_client, reorder_client_in_monitor_groups, movestack, zoom).
THEOREM TilesStayFirst == Spec => TiledFirst
  <1>1. Inv /\ [Next]_vars =>
          [(Grouped(wm) /\ Docks \cap Managed(wm) \subseteq wm.floating) => Grouped(wm')]_vars
    <2>1. ASSUME Inv, Next, Grouped(wm), Docks \cap Managed(wm) \subseteq wm.floating
          PROVE  Grouped(wm')
      <3>1. Kept(wm, wm')
        BY <2>1, StepSound DEF Inv, Sound
      <3>2. QED BY <2>1, <3>1 DEF Kept, Tidy
    <2>2. QED BY <2>1
  <1>2. QED BY <1>1, WorkspaceInvariant, PTL DEF Spec, TiledFirst

\* A step never leaves the keyboard on a window nobody can see, but for the two
\* handlers that do not hand focus on (focus, prune_monitor_locks, lock_monitor).
THEOREM KeyboardStaysInView == Spec => FocusStaysInView
  <1>1. Inv /\ [Next]_vars =>
          [Seen(wm) => \/ Seen(wm')
                       \/ \E c \in Clients : Unstick(c)
                       \/ /\ get_selected_client_key(wm) = None
                          /\ Managed(wm') # Managed(wm)]_vars
    <2>1. ASSUME Inv, Next, Seen(wm)
          PROVE  \/ Seen(wm')
                 \/ \E c \in Clients : Unstick(c)
                 \/ get_selected_client_key(wm) = None /\ Managed(wm') # Managed(wm)
      BY <2>1, StepSound DEF Inv, Sound, InView
    <2>2. QED BY <2>1
  <1>2. QED BY <1>1, WorkspaceInvariant, PTL DEF Spec, FocusStaysInView

=============================================================================
