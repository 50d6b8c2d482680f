-------------------------- MODULE IpcClientProofs --------------------------
(***************************************************************************)
(* What the operators of IpcClient compute, for every input: framing takes *)
(* the frames of the buffer in order and leaves the rest untouched, output *)
(* moves to the wire in order, and parse errors come out in their turn.    *)
(***************************************************************************)
EXTENDS IpcClient, FiniteSetTheorems, WellFoundedInduction, TLAPS

-----------------------------------------------------------------------------
(* Sets of numbers *)

\* A set of naturals has a least element.
LEMMA LeastNat ==
  ASSUME NEW S \in SUBSET Nat, S # {}
  PROVE  \E x \in S : \A y \in S : x <= y
  <1> DEFINE R == {ss \in Nat \X Nat : ss[1] < ss[2]}
  <1>1. IsWellFoundedOn(R, Nat)
    BY NatLessThanWellFounded DEF OpToRel
  <1>2. PICK x \in S : \A y \in S : ~(<<y, x>> \in R)
    <2> HIDE DEF R
    <2> QED BY <1>1, WFMin
  <1>3. ASSUME NEW y \in S PROVE x <= y
    <2>1. x \in Nat /\ y \in Nat /\ <<y, x>> \in Nat \X Nat
      OBVIOUS
    <2>2. ~(<<y, x>>[1] < <<y, x>>[2])
      BY <1>2, <2>1
    <2>3. QED BY <2>1, <2>2
  <1>4. QED BY <1>2, <1>3

\* A set of numbers up to n has a greatest element.
LEMMA GreatestNat ==
  ASSUME NEW n \in Nat, NEW S \in SUBSET (0..n), S # {}
  PROVE  \E x \in S : \A y \in S : y <= x
  <1> DEFINE T == {n - x : x \in S}
  <1>1. T \in SUBSET Nat /\ T # {}
    <2>1. \A x \in S : x \in 0..n /\ n - x \in Nat
      OBVIOUS
    <2>2. \A t \in T : t \in Nat
      BY <2>1
    <2>3. T # {}
      OBVIOUS
    <2>4. QED BY <2>2, <2>3
  <1>2. PICK t \in T : \A u \in T : t <= u
    BY <1>1, LeastNat
  <1>3. PICK x \in S : t = n - x
    BY <1>2
  <1>4. ASSUME NEW y \in S PROVE y <= x
    <2>1. n - y \in T
      OBVIOUS
    <2>2. t <= n - y
      BY <1>2, <2>1
    <2>3. QED BY <2>2, <1>3
  <1>5. QED BY <1>3, <1>4

\* The lesser of two integers.
LEMMA MinPair ==
  ASSUME NEW a \in Int, NEW b \in Int
  PROVE  /\ Min({a, b}) \in {a, b}
         /\ Min({a, b}) <= a /\ Min({a, b}) <= b
  <1>1. \E x \in {a, b} : \A y \in {a, b} : x <= y
    <2>1. CASE a <= b
      BY <2>1
    <2>2. CASE b <= a
      BY <2>2
    <2>3. QED BY <2>1, <2>2
  <1>2. QED BY <1>1 DEF Min

\* The greater of two naturals.
LEMMA MaxPair ==
  ASSUME NEW a \in Nat, NEW b \in Nat
  PROVE  Max({a, b}) \in {a, b} /\ a <= Max({a, b}) /\ b <= Max({a, b})
  <1>1. \E x \in {a, b} : \A y \in {a, b} : x >= y
    <2>1. a >= b \/ b >= a
      OBVIOUS
    <2>2. QED BY <2>1
  <1>2. PICK m : m = Max({a, b})
    OBVIOUS
  <1>3. m = CHOOSE x \in {a, b} : \A y \in {a, b} : x >= y
    BY <1>2 DEF Max
  <1>4. m \in {a, b} /\ \A y \in {a, b} : m >= y
    BY <1>1, <1>3
  <1>5. QED BY <1>2, <1>4

\* The greatest of a set of positions, 0 when there are none.
LEMMA MaxNat ==
  ASSUME NEW n \in Nat, NEW S \in SUBSET (1..n)
  PROVE  /\ Max({0} \cup S) \in {0} \cup S
         /\ \A y \in S : y <= Max({0} \cup S)
         /\ Max({0} \cup S) \in 0..n
  <1>1. {0} \cup S \in SUBSET (0..n) /\ {0} \cup S # {}
    OBVIOUS
  <1>2. \E x \in {0} \cup S : \A y \in {0} \cup S : y <= x
    BY <1>1, GreatestNat
  <1>3. /\ Max({0} \cup S) \in {0} \cup S
        /\ \A y \in {0} \cup S : Max({0} \cup S) >= y
    BY <1>1, <1>2 DEF Max
  <1>4. QED BY <1>1, <1>3

\* The n-th smallest element of S.
Rank(S, e) == Cardinality({x \in S : x <= e})

\* Ranks number a finite set of positions in increasing order.
LEMMA RankFacts ==
  ASSUME NEW n \in Nat, NEW S \in SUBSET (1..n)
  PROVE  /\ IsFiniteSet(S) /\ Cardinality(S) \in 0..n
         /\ \A e \in S : Rank(S, e) \in 1..Cardinality(S)
         /\ \A d, e \in S : d < e => Rank(S, d) < Rank(S, e)
  <1>1. IsFiniteSet(1..n) /\ Cardinality(1..n) = n
    BY FS_Interval
  <1>2. IsFiniteSet(S) /\ Cardinality(S) <= n /\ Cardinality(S) \in Nat
    BY <1>1, FS_Subset, FS_CardinalityType
  <1>3. ASSUME NEW e \in S PROVE Rank(S, e) \in 1..Cardinality(S)
    <2> DEFINE B == {x \in S : x <= e}
    <2>1. B \in SUBSET S /\ e \in B
      OBVIOUS
    <2>2. IsFiniteSet(B) /\ Cardinality(B) <= Cardinality(S) /\ Cardinality(B) \in Nat
      BY <1>2, <2>1, FS_Subset, FS_CardinalityType
    <2>3. Cardinality(B) # 0
      BY <2>1, <2>2, FS_EmptySet
    <2>4. QED BY <2>2, <2>3, <1>2 DEF Rank
  <1>4. ASSUME NEW d \in S, NEW e \in S, d < e PROVE Rank(S, d) < Rank(S, e)
    <2> DEFINE A == {x \in S : x <= d}
               B == {x \in S : x <= e}
    <2>0. \A x \in S : x \in Int
      OBVIOUS
    <2>1. A \in SUBSET B /\ B \in SUBSET S /\ e \in B /\ e \notin A
      <3>1. \A x \in A : x \in B
        BY <1>4, <2>0
      <3>2. e \notin A
        BY <1>4, <2>0
      <3>3. e \in B
        BY <2>0
      <3>4. QED BY <3>1, <3>2, <3>3
    <2>2. IsFiniteSet(B)
      BY <1>2, <2>1, FS_Subset
    <2>3. Cardinality(A) < Cardinality(B)
      <3>1. Cardinality(A) <= Cardinality(B) /\ Cardinality(A) # Cardinality(B)
        BY <2>1, <2>2, FS_Subset
      <3>2. Cardinality(A) \in Nat /\ Cardinality(B) \in Nat
        BY <2>1, <2>2, FS_Subset, FS_CardinalityType
      <3>3. QED BY <3>1, <3>2
    <2>4. QED BY <2>3 DEF Rank
  <1>5. QED BY <1>2, <1>3, <1>4

\* Each rank up to the size of the set belongs to an element.
LEMMA NthFacts ==
  ASSUME NEW n \in Nat, NEW S \in SUBSET (1..n), NEW k \in 1..Cardinality(S)
  PROVE  Nth(S, k) \in S /\ Rank(S, Nth(S, k)) = k
  <1> DEFINE T == {e \in S : Rank(S, e) >= k}
  <1>0. \A x \in S : x \in 1..n /\ x \in Nat
    OBVIOUS
  <1>1. IsFiniteSet(S) /\ Cardinality(S) \in Nat /\ S # {}
    <2>1. IsFiniteSet(S) /\ Cardinality(S) \in 0..n
      BY RankFacts
    <2>2. Cardinality(S) # 0
      BY <2>1
    <2>3. QED BY <2>1, <2>2, FS_EmptySet
  <1>2. S \in SUBSET (0..n)
    OBVIOUS
  <1>3. PICK top \in S : \A y \in S : y <= top
    BY <1>1, <1>2, GreatestNat
  <1>4. {x \in S : x <= top} = S
    BY <1>3
  <1>5. top \in T
    BY <1>4, <1>1 DEF Rank
  <1>6. T \in SUBSET Nat /\ T # {}
    <2>1. \A x \in T : x \in Nat
      BY <1>0
    <2>2. QED BY <2>1, <1>5
  <1>7. PICK e \in T : \A y \in T : e <= y
    BY <1>6, LeastNat
  <1>8. e \in S /\ e \in 1..n
    BY <1>7
  <1>9. Rank(S, e) <= k
    <2> SUFFICES ASSUME Rank(S, e) > k PROVE FALSE
      BY <1>8, RankFacts
    <2> DEFINE B == {x \in S : x <= e}
               A == B \ {e}
    <2>1. B \in SUBSET S /\ IsFiniteSet(B) /\ e \in B
      BY <1>1, <1>8, FS_Subset
    <2>2. IsFiniteSet(A) /\ Cardinality(A) = Cardinality(B) - 1
      BY <2>1, FS_RemoveElement
    <2>3. Cardinality(B) \in Nat /\ Cardinality(B) > k
      BY <2>1, FS_CardinalityType DEF Rank
    <2>4. Cardinality(A) >= k /\ k >= 1
      BY <2>2, <2>3
    <2>5. A # {}
      BY <2>4, FS_EmptySet
    <2>6. A \in SUBSET (0..n)
      <3>1. \A x \in A : x \in 0..n
        BY <1>0
      <3>2. QED BY <3>1
    <2>7. PICK d \in A : \A y \in A : y <= d
      BY <2>5, <2>6, GreatestNat
    <2>8. d \in S /\ d < e
      BY <2>7, <1>8
    <2>9. {x \in S : x <= d} = A
      <3>1. ASSUME NEW x \in S PROVE x <= d <=> x \in A
        <4>1. x \in Nat /\ d \in Nat /\ e \in Nat
          BY <1>0, <1>8, <2>8
        <4>2. CASE x <= d
          BY <4>1, <4>2, <2>8
        <4>3. CASE x \in A
          BY <4>3, <2>7
        <4>4. QED BY <4>2, <4>3
      <3>2. \A x \in A : x \in S
        OBVIOUS
      <3>3. QED BY <3>1, <3>2
    <2>10. d \in T
      BY <2>8, <2>9, <2>4 DEF Rank
    <2>11. QED BY <2>8, <2>10, <1>7, <1>8
  <1>10. Rank(S, e) = k
    BY <1>7, <1>8, <1>9, RankFacts
  <1>11. QED BY <1>8, <1>10 DEF Nth, Rank

-----------------------------------------------------------------------------
(* Sequences *)

Suffix(s, k) == SubSeq(s, k + 1, Len(s))

\* The elements of a sequence are where its length says.
LEMMA ElementFacts ==
  ASSUME NEW T, NEW s \in Seq(T)
  PROVE  Len(s) \in Nat /\ DOMAIN s = 1..Len(s) /\ \A i \in 1..Len(s) : s[i] \in T
  OBVIOUS

\* What is left of a sequence when its first k elements are taken.
LEMMA SuffixFacts ==
  ASSUME NEW T, NEW s \in Seq(T), NEW k \in 0..Len(s)
  PROVE  /\ Suffix(s, k) \in Seq(T)
         /\ Len(Suffix(s, k)) = Len(s) - k
         /\ \A i \in 1..(Len(s) - k) : Suffix(s, k)[i] = s[k + i]
  BY DEF Suffix

\* The first k elements of a sequence.
LEMMA PrefixFacts ==
  ASSUME NEW T, NEW s \in Seq(T), NEW k \in 0..Len(s)
  PROVE  /\ SubSeq(s, 1, k) \in Seq(T)
         /\ Len(SubSeq(s, 1, k)) = k
         /\ \A i \in 1..k : SubSeq(s, 1, k)[i] = s[i]
  OBVIOUS

\* Where the elements of a concatenation come from.
LEMMA ConcatFacts ==
  ASSUME NEW T, NEW s \in Seq(T), NEW t \in Seq(T)
  PROVE  /\ s \o t \in Seq(T)
         /\ Len(s \o t) = Len(s) + Len(t)
         /\ DOMAIN (s \o t) = 1..(Len(s) + Len(t))
         /\ \A i \in 1..Len(s) : (s \o t)[i] = s[i]
         /\ \A i \in 1..Len(t) : (s \o t)[Len(s) + i] = t[i]
         /\ \A i \in (Len(s) + 1)..(Len(s) + Len(t)) : (s \o t)[i] = t[i - Len(s)]
  OBVIOUS

\* Sequences are equal when their lengths and elements are.
LEMMA SeqsEqual ==
  ASSUME NEW T, NEW s \in Seq(T), NEW t \in Seq(T), Len(s) = Len(t),
         \A i \in 1..Len(s) : s[i] = t[i]
  PROVE  s = t
  OBVIOUS

\* Cutting a sequence and joining the halves gives it back.
LEMMA SplitJoin ==
  ASSUME NEW T, NEW s \in Seq(T), NEW k \in 0..Len(s)
  PROVE  SubSeq(s, 1, k) \o Suffix(s, k) = s
  <1> DEFINE a == SubSeq(s, 1, k)
             b == Suffix(s, k)
  <1>1. a \in Seq(T) /\ b \in Seq(T) /\ Len(a) = k /\ Len(b) = Len(s) - k
    BY SuffixFacts, PrefixFacts
  <1>2. a \o b \in Seq(T) /\ Len(a \o b) = Len(s)
    BY <1>1, ConcatFacts
  <1>3. ASSUME NEW i \in 1..Len(s) PROVE (a \o b)[i] = s[i]
    <2>1. CASE i <= k
      BY <2>1, <1>1, ConcatFacts, PrefixFacts
    <2>2. CASE i > k
      <3>1. i - k \in 1..Len(b) /\ i \in (Len(a) + 1)..(Len(a) + Len(b))
        BY <2>2, <1>1
      <3>2. (a \o b)[i] = b[i - k]
        BY <3>1, <1>1, ConcatFacts
      <3>3. b[i - k] = s[k + (i - k)]
        BY <3>1, <1>1, SuffixFacts
      <3>4. k + (i - k) = i
        BY <3>1
      <3>5. QED BY <3>2, <3>3, <3>4
    <2>3. i <= k \/ i > k
      OBVIOUS
    <2>4. QED BY <2>1, <2>2, <2>3
  <1>4. a \o b = s
    <2> HIDE DEF a, b
    <2>1. QED BY <1>2, <1>3, SeqsEqual
  <1>5. QED BY <1>4

\* What is cut from the front of s \o t while s lasts is cut from s.
LEMMA SuffixOfConcat ==
  ASSUME NEW T, NEW s \in Seq(T), NEW t \in Seq(T), NEW k \in 0..Len(s)
  PROVE  Suffix(s \o t, k) = Suffix(s, k) \o t
  <1> DEFINE a == Suffix(s \o t, k)
             b == Suffix(s, k) \o t
             n == Len(s) + Len(t) - k
  <1>1. s \o t \in Seq(T) /\ Len(s \o t) = Len(s) + Len(t) /\ k \in 0..Len(s \o t)
    BY ConcatFacts
  <1>2. a \in Seq(T) /\ Len(a) = n /\ \A i \in 1..n : a[i] = (s \o t)[k + i]
    <2>1. \A q \in Seq(T) : k \in 0..Len(q) =>
             /\ Suffix(q, k) \in Seq(T) /\ Len(Suffix(q, k)) = Len(q) - k
             /\ \A i \in 1..(Len(q) - k) : Suffix(q, k)[i] = q[k + i]
      BY SuffixFacts
    <2>2. a \in Seq(T) /\ Len(a) = Len(s \o t) - k
      BY <2>1, <1>1
    <2>3. \A i \in 1..(Len(s \o t) - k) : a[i] = (s \o t)[k + i]
      BY <2>1, <1>1
    <2>4. Len(s \o t) - k = n
      BY <1>1
    <2>5. QED BY <2>2, <2>3, <2>4
  <1>3. Suffix(s, k) \in Seq(T) /\ Len(Suffix(s, k)) = Len(s) - k
    BY SuffixFacts
  <1>4. b \in Seq(T) /\ Len(b) = n
    <2>1. b \in Seq(T) /\ Len(b) = (Len(s) - k) + Len(t)
      BY <1>3, ConcatFacts
    <2>2. QED BY <2>1
  <1>5. ASSUME NEW i \in 1..n PROVE a[i] = b[i]
    <2>1. CASE i <= Len(s) - k
      <3>1. b[i] = Suffix(s, k)[i] /\ i \in 1..(Len(s) - k)
        BY <2>1, <1>3, ConcatFacts
      <3>2. Suffix(s, k)[i] = s[k + i]
        BY <3>1, SuffixFacts
      <3>3. (s \o t)[k + i] = s[k + i]
        BY <3>1, ConcatFacts
      <3>4. QED BY <3>1, <3>2, <3>3, <1>2
    <2>2. CASE i > Len(s) - k
      <3>1. b[i] = t[i - (Len(s) - k)]
        BY <2>2, <1>3, ConcatFacts
      <3>2. (s \o t)[k + i] = t[k + i - Len(s)]
        BY <2>2, ConcatFacts
      <3>3. i - (Len(s) - k) = k + i - Len(s)
        OBVIOUS
      <3>4. QED BY <3>1, <3>2, <3>3, <1>2
    <2>3. i <= Len(s) - k \/ i > Len(s) - k
      BY ConcatFacts
    <2>4. QED BY <2>1, <2>2, <2>3
  <1>6. a = b
    <2> HIDE DEF a, b
    <2>1. QED BY <1>2, <1>4, <1>5, SeqsEqual
  <1>7. QED BY <1>6

\* Concatenation is associative.
LEMMA ConcatAssociates ==
  ASSUME NEW T, NEW a \in Seq(T), NEW b \in Seq(T), NEW c \in Seq(T)
  PROVE  (a \o b) \o c = a \o (b \o c)
  <1>1. a \o b \in Seq(T) /\ b \o c \in Seq(T)
    OBVIOUS
  <1>2. (a \o b) \o c \in Seq(T) /\ a \o (b \o c) \in Seq(T)
    BY <1>1
  <1>3. Len((a \o b) \o c) = Len(a \o (b \o c))
    BY <1>1
  <1>4. \A i \in 1..Len((a \o b) \o c) : ((a \o b) \o c)[i] = (a \o (b \o c))[i]
    BY <1>1
  <1>5. QED BY <1>2, <1>3, <1>4, SeqsEqual

-----------------------------------------------------------------------------
(* Framing *)

\* No newline at positions i to j of s.
Plain(s, i, j) == \A k \in i..j : s[k] # Newline

\* What the scan has passed holds no newline.
Scanned(c) == c.scan <= Len(c.buf) /\ Plain(c.buf, 1, c.scan)

\* The bytes of s belong to the frames b + 1 to m: their numbers ascend, and
\* change exactly where there is a newline in between.
Numbered(s, b, m) ==
  /\ {s[i].n : i \in DOMAIN s} \ {Newline.n} = (b + 1)..m
  /\ \A i \in DOMAIN s : s[i] # Newline => s[i].n > 0
  /\ \A i, j \in DOMAIN s :
       i < j /\ s[i] # Newline /\ s[j] # Newline =>
         s[i].n <= s[j].n /\ (s[i].n = s[j].n <=> Plain(s, i, j))

\* Where the first k positions of s have the end of a non-empty line.
LineEnds(s, k) == {e \in 2..k : s[e] = Newline /\ s[e - 1] # Newline}

\* A token is a newline or a frame with its number.
LEMMA TokenFacts ==
  ASSUME NEW x \in Token
  PROVE  x.n \in Nat /\ (x # Newline => x \in Frame) /\ Newline.n = 0
  BY DEF Token, Frame, Newline

\* Starting at the scan position misses no newline of the buffer.
LEMMA EndsFacts ==
  ASSUME NEW c \in ClientType, Scanned(c)
  PROVE  /\ Newlines(c) = {i \in 1..Len(c.buf) : c.buf[i] = Newline}
         /\ FrameEnds(c) = LineEnds(c.buf, Len(c.buf))
  <1>1. c.scan \in Nat /\ c.buf \in Seq(Token) /\ Len(c.buf) \in Nat
    BY DEF ClientType
  <1>2. \A i \in 1..Len(c.buf) : c.buf[i] = Newline => i \in (c.scan + 1)..Len(c.buf)
    BY <1>1 DEF Scanned, Plain
  <1>3. \A i \in (c.scan + 1)..Len(c.buf) : i \in 1..Len(c.buf)
    BY <1>1
  <1>4. Newlines(c) = {i \in 1..Len(c.buf) : c.buf[i] = Newline}
    BY <1>2, <1>3 DEF Newlines
  <1>5. \A i \in 1..Len(c.buf) : i > 1 <=> i \in 2..Len(c.buf)
    BY <1>1
  <1>6. QED BY <1>1, <1>4, <1>5 DEF FrameEnds, LineEnds

\* What consuming k tokens leaves in the buffer and of the scan position.
LEMMA ConsumeFacts ==
  ASSUME NEW c \in ClientType, NEW k \in 0..Len(c.buf), NEW scanned \in Nat,
         k <= scanned
  PROVE  /\ Consume(c, k, scanned) \in ClientType
         /\ Consume(c, k, scanned) =
              [c EXCEPT !.buf = Suffix(c.buf, k), !.scan = scanned - k]
         /\ Consume(c, k, scanned).buf = Suffix(c.buf, k)
         /\ Consume(c, k, scanned).scan = scanned - k
  <1>1. Suffix(c.buf, k) \in Seq(Token)
    BY SuffixFacts DEF ClientType
  <1>2. Consume(c, k, scanned) = [c EXCEPT !.buf = Suffix(c.buf, k), !.scan = scanned - k]
    BY DEF Consume, Suffix
  <1>3. scanned - k \in Nat
    OBVIOUS
  <1>4. PICK b, j : b = Suffix(c.buf, k) /\ j = scanned - k
    OBVIOUS
  <1>5. /\ [c EXCEPT !.buf = b, !.scan = j] \in ClientType
        /\ [c EXCEPT !.buf = b, !.scan = j].buf = b
        /\ [c EXCEPT !.buf = b, !.scan = j].scan = j
    <2>1. b \in Seq(Token) /\ j \in Nat
      BY <1>1, <1>3, <1>4
    <2>2. QED BY <2>1 DEF ClientType
  <1>6. QED BY <1>2, <1>4, <1>5, Zenon

\* take_complete_messages takes the lines that end within some prefix of the
\* buffer, which ends with a newline, at most "limit"; unless it stops at the
\* limit no newline is left.
TakenUpTo(c, limit, t, k) ==
  LET E == LineEnds(c.buf, k)
  IN  /\ k = 0 \/ c.buf[k] = Newline
      /\ t.frames = [i \in 1..Cardinality(E) |-> c.buf[Nth(E, i) - 1]]
      /\ t.client \in ClientType
      /\ t.client = [c EXCEPT !.buf = Suffix(c.buf, k), !.scan = t.client.scan]
      /\ Scanned(t.client)
      /\ Cardinality(E) <= limit
      /\ Cardinality(E) < limit => Plain(c.buf, k + 1, Len(c.buf))

\* take_complete_messages takes the lines up to some position, in order, and no
\* more than the limit.
LEMMA TakeFacts ==
  ASSUME NEW c \in ClientType, Scanned(c), NEW limit \in Nat
  PROVE  \E k \in 0..Len(c.buf) :
           TakenUpTo(c, limit, take_complete_messages(c, limit), k)
  <1> DEFINE t == take_complete_messages(c, limit)
             ends == FrameEnds(c)
             len == Len(c.buf)
  <1>1. c.buf \in Seq(Token) /\ c.scan \in Nat /\ len \in Nat
    BY DEF ClientType
  <1>2. ends = LineEnds(c.buf, len) /\ ends \in SUBSET (1..len)
    <2>1. ends = LineEnds(c.buf, len)
      BY EndsFacts
    <2>2. \A e \in LineEnds(c.buf, len) : e \in 1..len
      BY <1>1 DEF LineEnds
    <2>3. QED BY <2>1, <2>2
  <1>3. IsFiniteSet(ends) /\ Cardinality(ends) \in Nat
    BY <1>1, <1>2, RankFacts
  <1>4. CASE limit = 0
    <2> DEFINE E == LineEnds(c.buf, 0)
    <2>1. t.frames = <<>> /\ t.client = c
      BY <1>4, SMTT(60) DEF take_complete_messages
    <2>2. E = {} /\ Cardinality(E) = 0
      BY FS_EmptySet DEF LineEnds
    <2>3. [i \in 1..Cardinality(E) |-> c.buf[Nth(E, i) - 1]] = <<>>
      BY <2>2
    <2>4. Suffix(c.buf, 0) = c.buf
      <3>1. 0 \in 0..len
        BY <1>1
      <3>2. Suffix(c.buf, 0) \in Seq(Token) /\ Len(Suffix(c.buf, 0)) = len
        BY <1>1, <3>1, SuffixFacts
      <3>3. \A i \in 1..len : Suffix(c.buf, 0)[i] = c.buf[i]
        BY <1>1, <3>1, SuffixFacts
      <3>4. QED BY <1>1, <3>2, <3>3, SeqsEqual
    <2>5. c = [c EXCEPT !.buf = Suffix(c.buf, 0), !.scan = c.scan]
      BY <2>4 DEF ClientType
    <2>6. TakenUpTo(c, limit, t, 0)
      BY <2>1, <2>2, <2>3, <2>5, <1>4 DEF TakenUpTo
    <2>7. QED BY <2>6, <1>1
  <1>5. CASE limit > 0 /\ Cardinality(ends) >= limit
    <2>1. PICK k : k = Nth(ends, limit)
      OBVIOUS
    <2> DEFINE E == LineEnds(c.buf, k)
               taken == {e \in ends : e <= k}
    <2>2. limit \in 1..Cardinality(ends)
      BY <1>3, <1>5
    <2>3. k \in ends /\ Rank(ends, k) = limit
      BY <1>1, <1>2, <2>1, <2>2, NthFacts
    <2>4. k \in 2..len /\ c.buf[k] = Newline
      BY <2>3, <1>2 DEF LineEnds
    <2>5. taken = E
      <3> HIDE DEF ends, len
      <3>1. ASSUME NEW e \in 2..k PROVE e \in 2..len /\ e <= k
        BY <1>1, <2>4
      <3>2. ASSUME NEW e \in 2..len, e <= k PROVE e \in 2..k
        BY <1>1, <2>4, <3>2
      <3>3. QED BY <3>1, <3>2, <1>2 DEF LineEnds
    <2>6. Cardinality(E) = limit
      BY <2>3, <2>5 DEF Rank
    <2>7. t.client = Consume(c, k, k)
      BY <1>5, <2>1, SMTT(60) DEF take_complete_messages
    <2>8. t.frames = [i \in 1..Cardinality(taken) |-> c.buf[Nth(taken, i) - 1]]
      BY <1>5, <2>1, SMTT(60) DEF take_complete_messages
    <2>9. k \in 0..len /\ k \in Nat /\ k - k = 0 /\ k <= k
      BY <2>4, <1>1
    <2>10. /\ t.client \in ClientType
           /\ t.client = [c EXCEPT !.buf = Suffix(c.buf, k), !.scan = 0]
           /\ t.client.scan = 0
      <3>1. Consume(c, k, k) = [c EXCEPT !.buf = Suffix(c.buf, k), !.scan = k - k]
        BY <2>9, ConsumeFacts, ZenonT(40)
      <3>2. Consume(c, k, k) \in ClientType /\ Consume(c, k, k).scan = k - k
        BY <2>9, ConsumeFacts
      <3>3. QED BY <3>1, <3>2, <2>7, <2>9
    <2>11. Scanned(t.client)
      BY <2>10 DEF Scanned, Plain, ClientType
    <2>12. TakenUpTo(c, limit, t, k)
      <3> HIDE DEF t, taken
      <3>1. t.frames = [i \in 1..Cardinality(E) |-> c.buf[Nth(E, i) - 1]]
        BY <2>5, <2>8
      <3>2. Cardinality(E) <= limit /\ ~(Cardinality(E) < limit)
        BY <2>6
      <3>3. QED BY <2>4, <3>1, <3>2, <2>10, <2>11 DEF TakenUpTo
    <2>13. QED BY <2>12, <2>9
  <1>6. CASE limit > 0 /\ ~(Cardinality(ends) >= limit)
    <2> DEFINE N == Newlines(c)
    <2>1. N = {i \in 1..len : c.buf[i] = Newline} /\ N \in SUBSET (1..len)
      BY EndsFacts
    <2>2. PICK k : k = Max({0} \cup N)
      OBVIOUS
    <2> DEFINE E == LineEnds(c.buf, k)
    <2>3. k \in {0} \cup N /\ k \in 0..len /\ \A y \in N : y <= k
      BY <2>1, <2>2, <1>1, MaxNat
    <2>4. k = 0 \/ c.buf[k] = Newline
      BY <2>1, <2>3
    <2>5. Plain(c.buf, k + 1, len)
      <3> HIDE DEF N, len
      <3>1. ASSUME NEW i \in (k + 1)..len PROVE c.buf[i] # Newline
        <4>1. i \in 1..len /\ ~(i <= k)
          BY <2>3, <1>1
        <4>2. QED BY <4>1, <2>1, <2>3
      <3>2. QED BY <3>1 DEF Plain
    <2>6. E = ends
      <3> HIDE DEF N, len, ends
      <3>1. ASSUME NEW e \in 2..len, c.buf[e] = Newline PROVE e \in 2..k
        <4>1. e \in N
          BY <3>1, <2>1, <1>1
        <4>2. QED BY <4>1, <2>3, <1>1
      <3>2. ASSUME NEW e \in 2..k PROVE e \in 2..len
        BY <2>3, <1>1
      <3>3. QED BY <3>1, <3>2, <1>2 DEF LineEnds
    <2>7. t.client = Consume(c, k, len)
      BY <1>6, <2>2, SMTT(60) DEF take_complete_messages
    <2>8. t.frames = [i \in 1..Cardinality(ends) |-> c.buf[Nth(ends, i) - 1]]
      BY <1>6, SMTT(60) DEF take_complete_messages
    <2>9. /\ t.client \in ClientType
          /\ t.client = [c EXCEPT !.buf = Suffix(c.buf, k), !.scan = len - k]
          /\ t.client.buf = Suffix(c.buf, k) /\ t.client.scan = len - k
      <3>1. k <= len
        BY <2>3, <1>1
      <3>2. /\ Consume(c, k, len) \in ClientType
            /\ Consume(c, k, len) = [c EXCEPT !.buf = Suffix(c.buf, k), !.scan = len - k]
            /\ Consume(c, k, len).buf = Suffix(c.buf, k)
            /\ Consume(c, k, len).scan = len - k
        BY <3>1, <2>3, <1>1, ConsumeFacts
      <3>3. QED BY <3>2, <2>7
    <2>10. Scanned(t.client)
      <3>1. Len(Suffix(c.buf, k)) = len - k
        BY <1>1, <2>3, SuffixFacts
      <3>2. \A i \in 1..(len - k) : Suffix(c.buf, k)[i] = c.buf[k + i]
        BY <1>1, <2>3, SuffixFacts
      <3>3. \A i \in 1..(len - k) : k + i \in (k + 1)..len
        BY <1>1, <2>3
      <3>4. Plain(Suffix(c.buf, k), 1, len - k)
        BY <3>2, <3>3, <2>5 DEF Plain
      <3>5. len - k <= len - k
        BY <1>1, <2>3
      <3>6. QED BY <3>1, <3>4, <3>5, <2>9 DEF Scanned
    <2>11. Cardinality(E) <= limit
      BY <2>6, <1>3, <1>6
    <2>12. TakenUpTo(c, limit, t, k)
      <3> HIDE DEF t, ends
      <3>1. QED BY <2>4, <2>5, <2>6, <2>8, <2>9, <2>10, <2>11 DEF TakenUpTo
    <2>13. QED BY <2>12, <2>3
  <1>7. limit = 0 \/ limit > 0
    OBVIOUS
  <1>8. QED BY <1>4, <1>5, <1>6, <1>7

\* The number of the frame that a line ends.
LEMMA LineNumbers ==
  ASSUME NEW s \in Seq(Token), NEW b \in Nat, NEW m \in Nat, b <= m, Numbered(s, b, m),
         NEW k \in 0..Len(s), k = 0 \/ s[k] = Newline
  PROVE  LET E == LineEnds(s, k)
         IN  /\ \A i \in 1..k : s[i] # Newline => \E e \in E : s[e - 1].n = s[i].n
             /\ \A e \in E : s[e - 1].n \in (b + 1)..m
             /\ \A e \in E : \A i \in 1..Len(s) :
                  i > e /\ s[i] # Newline => s[e - 1].n < s[i].n
  <1> DEFINE E == LineEnds(s, k)
  <1>1. /\ Len(s) \in Nat /\ DOMAIN s = 1..Len(s)
        /\ \A i \in 1..Len(s) : s[i] \in Token /\ s[i].n \in Nat
    BY TokenFacts
  <1>2. \A i \in 1..Len(s) : s[i] # Newline => s[i].n \in (b + 1)..m
    BY <1>1, TokenFacts DEF Numbered
  <1>3. ASSUME NEW e \in E
        PROVE  e \in 2..Len(s) /\ e - 1 \in 1..Len(s) /\ s[e] = Newline /\ s[e - 1] # Newline
    BY <1>1 DEF LineEnds
  <1>4. ASSUME NEW i \in 1..k, s[i] # Newline
        PROVE  \E e \in E : s[e - 1].n = s[i].n
    <2> DEFINE N == {j \in (i + 1)..k : s[j] = Newline}
    <2>1. i < k /\ k \in N
      <3>1. s[k] = Newline /\ i # k
        BY <1>4
      <3>2. QED BY <3>1, <1>1
    <2>2. N \in SUBSET Nat /\ N # {}
      <3>1. \A j \in N : j \in Nat
        BY <1>1
      <3>2. QED BY <3>1, <2>1
    <2>3. PICK e \in N : \A j \in N : e <= j
      BY <2>2, LeastNat
    <2>4. e \in (i + 1)..k /\ s[e] = Newline /\ e - 1 \in i..k /\ e - 1 \in 1..Len(s)
          /\ i \in 1..Len(s) /\ e \in 2..k
      BY <2>3, <1>1
    <2>5. Plain(s, i, e - 1)
      <3>1. ASSUME NEW j \in i..(e - 1), s[j] = Newline PROVE FALSE
        <4>1. j # i
          BY <3>1, <1>4
        <4>2. j \in N
          BY <4>1, <3>1, <2>4, <1>1
        <4>3. e <= j
          BY <4>2, <2>3
        <4>4. QED BY <4>3, <2>4, <1>1
      <3>2. QED BY <3>1 DEF Plain
    <2>6. s[e - 1] # Newline
      <3>1. e - 1 \in i..(e - 1)
        BY <2>4, <1>1
      <3>2. QED BY <3>1, <2>5 DEF Plain
    <2>7. e \in E
      BY <2>4, <2>6 DEF LineEnds
    <2>8. s[e - 1].n = s[i].n
      <3>1. CASE i = e - 1
        BY <3>1
      <3>2. CASE i # e - 1
        <4>1. i < e - 1
          BY <3>2, <2>4, <1>1
        <4>2. QED BY <4>1, <2>4, <2>5, <2>6, <1>1, <1>4 DEF Numbered
      <3>3. QED BY <3>1, <3>2
    <2>9. QED BY <2>7, <2>8
  <1>5. ASSUME NEW e \in E, NEW i \in 1..Len(s), i > e, s[i] # Newline
        PROVE  s[e - 1].n < s[i].n
    <2>1. e - 1 < i /\ e \in (e - 1)..i
      BY <1>3, <1>5, <1>1
    <2>2. ~Plain(s, e - 1, i)
      BY <2>1, <1>3 DEF Plain
    <2>3. s[e - 1].n <= s[i].n /\ s[e - 1].n # s[i].n
      BY <2>1, <2>2, <1>1, <1>3, <1>5 DEF Numbered
    <2>4. QED BY <2>3, <1>1, <1>3
  <1>6. \A e \in E : s[e - 1].n \in (b + 1)..m
    BY <1>2, <1>3
  <1>7. QED BY <1>4, <1>5, <1>6

\* The lines of a prefix carry the frames b + 1, b + 2, ... in this order.
LEMMA LinesInOrder ==
  ASSUME NEW s \in Seq(Token), NEW b \in Nat, NEW m \in Nat, b <= m, Numbered(s, b, m),
         NEW k \in 0..Len(s), k = 0 \/ s[k] = Newline,
         NEW e \in LineEnds(s, k)
  PROVE  Rank(LineEnds(s, k), e) = s[e - 1].n - b
  <1> DEFINE E == LineEnds(s, k)
             B == {x \in E : x <= e}
             I == (b + 1)..(s[e - 1].n)
             g == [x \in B |-> s[x - 1].n]
  <1>1. /\ Len(s) \in Nat /\ \A i \in 1..Len(s) : s[i].n \in Nat
        /\ e \in E /\ \A x \in E : x \in 2..k /\ x \in Nat /\ x - 1 \in 1..Len(s) /\ x \in 1..Len(s)
    BY TokenFacts DEF LineEnds
  <1>2. \A x, y \in E : x < y => s[x - 1].n < s[y - 1].n
    <2>1. ASSUME NEW x \in E, NEW y \in E, x < y PROVE s[x - 1].n < s[y - 1].n
      <3>1. s[x] = Newline /\ s[y - 1] # Newline
        BY DEF LineEnds
      <3>2. y - 1 > x /\ y - 1 \in 1..Len(s)
        <4>1. y - 1 # x
          BY <3>1
        <4>2. QED BY <4>1, <2>1, <1>1
      <3>3. QED BY <3>1, <3>2, LineNumbers
    <2>2. QED BY <2>1
  <1>3. \A x \in E : s[x - 1].n \in (b + 1)..m
    BY LineNumbers
  <1>4. ASSUME NEW x \in B PROVE g[x] \in I
    <2>1. x \in E /\ (x = e \/ x < e)
      BY <1>1
    <2>2. s[x - 1].n \in (b + 1)..m /\ s[e - 1].n \in (b + 1)..m
      BY <1>3, <2>1
    <2>3. s[x - 1].n <= s[e - 1].n
      BY <2>1, <2>2, <1>2, <1>1
    <2>4. QED BY <2>2, <2>3
  <1>5. ASSUME NEW x \in B, NEW y \in B, g[x] = g[y] PROVE x = y
    <2>1. x \in E /\ y \in E /\ x \in Nat /\ y \in Nat
      BY <1>1
    <2>2. s[x - 1].n = s[y - 1].n /\ s[x - 1].n \in Nat
      BY <1>5, <2>1, <1>1
    <2>3. ~(x < y) /\ ~(y < x)
      BY <2>1, <2>2, <1>2
    <2>4. QED BY <2>1, <2>3
  <1>6. ASSUME NEW v \in I PROVE \E x \in B : g[x] = v
    <2>1. v \in (b + 1)..m /\ v # 0
      BY <1>1, <1>3
    <2>2. PICK i \in 1..Len(s) : s[i].n = v
      BY <2>1 DEF Numbered
    <2>3. s[i] # Newline
      BY <2>1, <2>2, TokenFacts DEF Newline
    <2>4. i <= e
      <3>1. ASSUME i > e PROVE FALSE
        <4>1. s[e - 1].n < v
          BY <3>1, <2>2, <2>3, <1>1, LineNumbers
        <4>2. QED BY <4>1, <1>1
      <3>2. QED BY <3>1, <1>1
    <2>5. i \in 1..k
      BY <2>4, <1>1
    <2>6. PICK x \in E : s[x - 1].n = v
      BY <2>5, <2>2, <2>3, LineNumbers
    <2>7. x <= e
      <3>1. ASSUME e < x PROVE FALSE
        <4>1. s[e - 1].n < v
          BY <3>1, <2>6, <1>1, <1>2
        <4>2. QED BY <4>1, <1>1
      <3>2. QED BY <3>1, <1>1, <2>6
    <2>8. QED BY <2>6, <2>7
  <1>7. g \in Bijection(B, I)
    <2> HIDE DEF B, I
    <2>1. g \in [B -> I]
      BY <1>4
    <2>2. QED BY <2>1, <1>5, <1>6 DEF Bijection, Injection, Surjection, IsInjective
  <1>8. IsFiniteSet(B)
    <2>1. E \in SUBSET (1..Len(s))
      <3>1. \A x \in E : x \in 1..Len(s)
        BY <1>1
      <3>2. QED BY <3>1
    <2>2. IsFiniteSet(E)
      BY <2>1, <1>1, RankFacts
    <2>3. B \in SUBSET E
      OBVIOUS
    <2>4. QED BY <2>2, <2>3, FS_Subset
  <1>9. Cardinality(I) = Cardinality(B)
    BY <1>7, <1>8, FS_Bijection DEF ExistsBijection
  <1>10. s[e - 1].n \in Nat /\ s[e - 1].n >= b + 1
    BY <1>1, <1>3
  <1>11. Cardinality(I) = s[e - 1].n - b
    <2>1. b + 1 \in Int /\ s[e - 1].n \in Int /\ ~(b + 1 > s[e - 1].n)
      BY <1>10
    <2>2. Cardinality(I) = s[e - 1].n - (b + 1) + 1
      BY <2>1, FS_Interval
    <2>3. QED BY <2>2, <1>10
  <1>12. QED BY <1>9, <1>11 DEF Rank

\* Without the lines of a prefix, the rest is numbered from where they end.
LEMMA RestNumbered ==
  ASSUME NEW s \in Seq(Token), NEW b \in Nat, NEW m \in Nat, b <= m, Numbered(s, b, m),
         NEW k \in 0..Len(s), k = 0 \/ s[k] = Newline
  PROVE  LET h == Cardinality(LineEnds(s, k))
         IN  h \in Nat /\ b + h <= m /\ Numbered(Suffix(s, k), b + h, m)
  <1> DEFINE E == LineEnds(s, k)
             h == Cardinality(E)
             u == Suffix(s, k)
             len == Len(s)
  <1>1. /\ len \in Nat /\ DOMAIN s = 1..len
        /\ \A i \in 1..len : s[i] \in Token /\ s[i].n \in Nat
        /\ \A x \in E : x \in 2..k /\ x \in 1..len
    BY TokenFacts DEF LineEnds
  <1>2. E \in SUBSET (1..len)
    <2>1. \A x \in E : x \in 1..len
      BY <1>1
    <2>2. QED BY <2>1
  <1>3. IsFiniteSet(E) /\ h \in Nat /\ \A e \in E : Rank(E, e) \in 1..h
    BY <1>1, <1>2, RankFacts, SMTT(30)
  <1>4. \A e \in E : Rank(E, e) = s[e - 1].n - b /\ s[e - 1].n \in (b + 1)..m
    BY LinesInOrder, LineNumbers
  <1>5. ASSUME NEW i \in 1..k, s[i] # Newline PROVE s[i].n <= b + h
    <2>1. PICK e \in E : s[e - 1].n = s[i].n
      BY <1>5, LineNumbers
    <2>2. Rank(E, e) \in 1..h /\ Rank(E, e) = s[i].n - b
      BY <2>1, <1>3, <1>4
    <2>3. i \in 1..len
      BY <1>1
    <2>4. s[i].n \in Nat
      BY <2>3, <1>1
    <2>5. QED BY <2>2, <2>4, <1>3
  <1>6. /\ b + h <= m
        /\ \A i \in (k + 1)..len : s[i] # Newline => s[i].n > b + h
    <2>1. CASE E = {}
      <3>1. h = 0
        BY <2>1, FS_EmptySet
      <3>2. ASSUME NEW i \in (k + 1)..len, s[i] # Newline PROVE s[i].n > b + h
        <4>1. i \in 1..len
          BY <1>1
        <4>2. s[i].n > 0 /\ s[i].n # Newline.n
          BY <4>1, <3>2, <1>1, TokenFacts DEF Numbered
        <4>3. s[i].n \in (b + 1)..m
          BY <4>1, <4>2, <1>1 DEF Numbered
        <4>4. QED BY <4>3, <3>1
      <3>3. QED BY <3>1, <3>2
    <2>2. CASE E # {}
      <3>1. E \in SUBSET (0..len)
        BY <1>2, <1>1
      <3>2. PICK e \in E : \A x \in E : x <= e
        BY <2>2, <3>1, <1>1, GreatestNat
      <3>3. {x \in E : x <= e} = E
        BY <3>2
      <3>4. h = s[e - 1].n - b /\ s[e - 1].n \in (b + 1)..m
        BY <3>3, <1>4 DEF Rank
      <3>5. ASSUME NEW i \in (k + 1)..len, s[i] # Newline PROVE s[i].n > b + h
        <4>1. i \in 1..len /\ i > e
          BY <1>1
        <4>2. s[e - 1].n < s[i].n /\ s[i].n \in Nat
          BY <4>1, <3>5, <1>1, LineNumbers
        <4>3. QED BY <4>2, <3>4
      <3>6. QED BY <3>4, <3>5
    <2>3. QED BY <2>1, <2>2
  <1>7. /\ u \in Seq(Token) /\ Len(u) = len - k /\ DOMAIN u = 1..(len - k)
        /\ \A i \in 1..(len - k) : u[i] = s[k + i] /\ k + i \in (k + 1)..len /\ k + i \in 1..len
    <2>1. \A i \in 1..(len - k) : k + i \in (k + 1)..len /\ k + i \in 1..len
      BY <1>1
    <2>2. u \in Seq(Token) /\ Len(u) = len - k
      BY SuffixFacts
    <2>3. \A i \in 1..(len - k) : u[i] = s[k + i]
      BY SuffixFacts
    <2>4. DOMAIN u = 1..Len(u)
      BY <2>2
    <2>5. QED BY <2>1, <2>2, <2>3, <2>4
  <1> HIDE DEF u, E
  <1>8. {u[i].n : i \in DOMAIN u} \ {Newline.n} = (b + h + 1)..m
    <2>1. ASSUME NEW i \in DOMAIN u, u[i].n # Newline.n PROVE u[i].n \in (b + h + 1)..m
      <3>1. s[k + i] # Newline /\ u[i] = s[k + i] /\ k + i \in (k + 1)..len /\ k + i \in 1..len
        BY <2>1, <1>7
      <3>2. u[i].n > b + h
        BY <3>1, <1>6
      <3>3. u[i].n \in (b + 1)..m
        BY <3>1, <2>1, <1>1 DEF Numbered
      <3>4. QED BY <3>2, <3>3, <1>3
    <2>2. ASSUME NEW v \in (b + h + 1)..m
          PROVE  v # Newline.n /\ \E i \in DOMAIN u : u[i].n = v
      <3>1. v \in (b + 1)..m /\ v # 0
        BY <1>3
      <3>2. PICK i \in 1..len : s[i].n = v
        BY <3>1, <1>1 DEF Numbered
      <3>3. s[i] # Newline
        BY <3>1, <3>2 DEF Newline
      <3>4. ~(i \in 1..k)
        BY <3>2, <3>3, <1>5, <1>3
      <3>5. i - k \in 1..(len - k) /\ k + (i - k) = i
        BY <3>4, <1>1
      <3>6. u[i - k] = s[i]
        BY <3>5, <1>7
      <3>7. QED BY <3>1, <3>2, <3>5, <3>6, <1>7 DEF Newline
    <2>3. QED BY <2>1, <2>2
  <1>9. \A i \in DOMAIN u : u[i] # Newline => u[i].n > 0
    BY <1>1, <1>7 DEF Numbered
  <1>10. ASSUME NEW i \in DOMAIN u, NEW j \in DOMAIN u, i < j, u[i] # Newline, u[j] # Newline
         PROVE  u[i].n <= u[j].n /\ (u[i].n = u[j].n <=> Plain(u, i, j))
    <2>1. /\ k + i \in DOMAIN s /\ k + j \in DOMAIN s /\ k + i < k + j
          /\ u[i] = s[k + i] /\ u[j] = s[k + j]
      BY <1>1, <1>7, <1>10
    <2>2. Plain(u, i, j) <=> Plain(s, k + i, k + j)
      <3>1. ASSUME NEW x \in i..j PROVE k + x \in (k + i)..(k + j) /\ u[x] = s[k + x]
        <4>1. x \in 1..(len - k)
          <5>1. i \in 1..(len - k) /\ j \in 1..(len - k)
            BY <1>7
          <5>2. QED BY <5>1, <1>1
        <4>2. u[x] = s[k + x]
          BY <4>1, <1>7
        <4>3. i \in Int /\ j \in Int /\ x \in Int /\ k \in Int
          BY <1>7, <1>1
        <4>4. QED BY <4>2, <4>3
      <3>2. ASSUME NEW x \in (k + i)..(k + j) PROVE x - k \in i..j /\ k + (x - k) = x
        BY <1>1, <1>7
      <3>3. QED BY <3>1, <3>2 DEF Plain
    <2>3. QED BY <2>1, <2>2, <1>10 DEF Numbered
  <1>11. Numbered(u, b + h, m)
    BY <1>8, <1>9, <1>10 DEF Numbered
  <1>12. QED BY <1>3, <1>6, <1>11 DEF u, E

\* A single unfinished line is one frame.
LEMMA LastLine ==
  ASSUME NEW s \in Seq(Token), NEW b \in Nat, NEW m \in Nat, Numbered(s, b, m),
         s # <<>>, Plain(s, 1, Len(s))
  PROVE  /\ s[Len(s)] \in Frame /\ s[Len(s)].n = b + 1
         /\ m = b + 1 /\ Numbered(<<>>, b + 1, m)
  <1> DEFINE v == s[Len(s)].n
  <1>1. /\ Len(s) \in Nat /\ Len(s) >= 1 /\ DOMAIN s = 1..Len(s) /\ Len(s) \in 1..Len(s)
        /\ \A i \in 1..Len(s) : s[i] \in Token /\ s[i].n \in Nat /\ s[i] # Newline
    BY TokenFacts DEF Plain
  <1>2. ASSUME NEW i \in 1..Len(s) PROVE s[i].n = v
    <2>1. CASE i = Len(s)
      BY <2>1
    <2>2. CASE i # Len(s)
      <3>1. i < Len(s)
        <4>1. i \in Nat /\ i <= Len(s) /\ Len(s) \in Nat
          BY <1>1
        <4>2. QED BY <4>1, <2>2
      <3>2. Plain(s, i, Len(s))
        BY <1>1 DEF Plain
      <3>3. QED BY <3>1, <3>2, <1>1 DEF Numbered
    <2>3. QED BY <2>1, <2>2
  <1>3. v > 0 /\ v \in Nat /\ s[Len(s)] \in Frame
    BY <1>1, TokenFacts DEF Numbered
  <1>4. {v} = (b + 1)..m
    <2>1. {s[i].n : i \in DOMAIN s} \ {Newline.n} = {v}
      BY <1>1, <1>2, <1>3 DEF Newline
    <2>2. QED BY <2>1 DEF Numbered
  <1>5. v \in (b + 1)..m /\ (b + 1 \in (b + 1)..m) /\ (m \in (b + 1)..m)
    <2>1. v \in (b + 1)..m
      BY <1>4
    <2>2. QED BY <2>1
  <1>6. v = b + 1 /\ v = m
    BY <1>4, <1>5
  <1>7. Numbered(<<>>, b + 1, m)
    BY <1>6 DEF Numbered
  <1>8. QED BY <1>3, <1>6, <1>7

-----------------------------------------------------------------------------
(* Reading *)

\* From input s the frames were taken, in order, which left t.
Took(s, t, frames) ==
  /\ \E k \in 0..Len(s) : t = Suffix(s, k)
  /\ \A b, m \in Nat :
       b <= m /\ Numbered(s, b, m) =>
         /\ b + Len(frames) <= m
         /\ \A i \in 1..Len(frames) : frames[i].n = b + i
         /\ Numbered(t, b + Len(frames), m)

\* Taking nothing leaves all of a sequence, taking all of it nothing.
LEMMA SuffixEnds ==
  ASSUME NEW T, NEW s \in Seq(T)
  PROVE  Suffix(s, 0) = s /\ Suffix(s, Len(s)) = <<>>
  <1>1. 0 \in 0..Len(s) /\ Len(s) \in 0..Len(s)
    OBVIOUS
  <1>2. /\ Suffix(s, 0) \in Seq(T) /\ Len(Suffix(s, 0)) = Len(s)
        /\ \A i \in 1..Len(s) : Suffix(s, 0)[i] = s[i]
    BY <1>1, SuffixFacts
  <1>3. Suffix(s, Len(s)) \in Seq(T) /\ Len(Suffix(s, Len(s))) = 0
    BY <1>1, SuffixFacts
  <1>4. Suffix(s, 0) = s
    BY <1>2, SeqsEqual
  <1>5. Suffix(s, Len(s)) = <<>>
    BY <1>3
  <1>6. QED BY <1>4, <1>5

\* A read that takes no frame leaves the input.
LEMMA TookNothing ==
  ASSUME NEW s \in Seq(Token)
  PROVE  Took(s, s, <<>>)
  <1>1. 0 \in 0..Len(s) /\ Suffix(s, 0) = s
    BY SuffixEnds
  <1>2. \A b \in Nat : b + Len(<<>>) = b
    OBVIOUS
  <1>3. \A i \in 1..Len(<<>>) : FALSE
    OBVIOUS
  <1>4. QED BY <1>1, <1>2, <1>3 DEF Took

\* Two reads in a row take the frames of one after those of the other.
LEMMA TookMore ==
  ASSUME NEW s \in Seq(Token), NEW t, NEW u, NEW f \in Seq(Frame), NEW g \in Seq(Frame),
         Took(s, t, f), Took(t, u, g)
  PROVE  Took(s, u, f \o g) /\ t \in Seq(Token) /\ u \in Seq(Token)
  <1>1. PICK k \in 0..Len(s) : t = Suffix(s, k)
    BY DEF Took
  <1>2. /\ t \in Seq(Token) /\ Len(t) = Len(s) - k
        /\ \A i \in 1..(Len(s) - k) : t[i] = s[k + i]
    BY <1>1, SuffixFacts
  <1>3. PICK j \in 0..Len(t) : u = Suffix(t, j)
    BY DEF Took
  <1>4. /\ u \in Seq(Token) /\ Len(u) = Len(t) - j
        /\ \A i \in 1..(Len(t) - j) : u[i] = t[j + i]
    BY <1>2, <1>3, SuffixFacts, ZenonT(40)
  <1>5. k + j \in 0..Len(s)
    BY <1>2
  <1>6. u = Suffix(s, k + j)
    <2>1. /\ Suffix(s, k + j) \in Seq(Token) /\ Len(Suffix(s, k + j)) = Len(s) - (k + j)
          /\ \A i \in 1..(Len(s) - (k + j)) : Suffix(s, k + j)[i] = s[(k + j) + i]
      BY <1>5, SuffixFacts
    <2>2. Len(u) = Len(s) - (k + j)
      BY <1>2, <1>4
    <2>3. ASSUME NEW i \in 1..Len(u) PROVE u[i] = Suffix(s, k + j)[i]
      <3>1. i \in 1..(Len(t) - j) /\ j + i \in 1..(Len(s) - k) /\ k + (j + i) = (k + j) + i
            /\ i \in 1..(Len(s) - (k + j))
        BY <2>2, <1>2, <1>4
      <3>2. u[i] = t[j + i] /\ t[j + i] = s[k + (j + i)]
        BY <3>1, <1>2, <1>4
      <3>3. QED BY <3>1, <3>2, <2>1
    <2>4. QED BY <1>4, <2>1, <2>2, <2>3, SeqsEqual
  <1>7. ASSUME NEW b \in Nat, NEW m \in Nat, b <= m, Numbered(s, b, m)
        PROVE  /\ b + Len(f \o g) <= m
               /\ \A i \in 1..Len(f \o g) : (f \o g)[i].n = b + i
               /\ Numbered(u, b + Len(f \o g), m)
    <2>1. /\ b + Len(f) <= m /\ \A i \in 1..Len(f) : f[i].n = b + i
          /\ Numbered(t, b + Len(f), m)
      BY <1>7 DEF Took
    <2>2. b + Len(f) \in Nat
      OBVIOUS
    <2>3. /\ (b + Len(f)) + Len(g) <= m /\ \A i \in 1..Len(g) : g[i].n = (b + Len(f)) + i
          /\ Numbered(u, (b + Len(f)) + Len(g), m)
      BY <2>1, <2>2 DEF Took
    <2>4. Len(f \o g) = Len(f) + Len(g) /\ (b + Len(f)) + Len(g) = b + Len(f \o g)
      BY ConcatFacts
    <2>5. ASSUME NEW i \in 1..Len(f \o g) PROVE (f \o g)[i].n = b + i
      <3>1. CASE i <= Len(f)
        BY <3>1, <2>1, <2>4, ConcatFacts
      <3>2. CASE i > Len(f)
        <4>1. (f \o g)[i] = g[i - Len(f)] /\ i - Len(f) \in 1..Len(g)
          BY <3>2, <2>4, ConcatFacts
        <4>2. g[i - Len(f)].n = (b + Len(f)) + (i - Len(f))
          BY <4>1, <2>3
        <4>3. (b + Len(f)) + (i - Len(f)) = b + i
          OBVIOUS
        <4>4. QED BY <4>1, <4>2, <4>3
      <3>3. i <= Len(f) \/ i > Len(f)
        BY <2>4
      <3>4. QED BY <3>1, <3>2, <3>3
    <2>6. QED BY <2>3, <2>4, <2>5
  <1>8. QED BY <1>2, <1>4, <1>5, <1>6, <1>7 DEF Took

\* The input ends in the middle of a line.
Unfinished(s) == s # <<>> /\ s[Len(s)] # Newline

\* take_complete_messages takes frames in order.
LEMMA TakeTook ==
  ASSUME NEW c \in ClientType, NEW limit \in Nat, NEW t, NEW k \in 0..Len(c.buf),
         TakenUpTo(c, limit, t, k), NEW after \in Seq(Token)
  PROVE  /\ t.frames \in Seq(Frame) /\ Len(t.frames) <= limit
         /\ Len(t.frames) < limit => Plain(t.client.buf, 1, Len(t.client.buf))
         /\ t.client.buf = Suffix(c.buf, k)
         /\ Took(c.buf \o after, t.client.buf \o after, t.frames)
         /\ Unfinished(c.buf \o after) => Unfinished(t.client.buf \o after)
  <1> DEFINE E == LineEnds(c.buf, k)
             h == Cardinality(E)
             s == c.buf \o after
  <1>1. c.buf \in Seq(Token) /\ Len(c.buf) \in Nat
    BY DEF ClientType
  <1>2. E \in SUBSET (1..Len(c.buf))
    <2>1. \A e \in E : e \in 1..Len(c.buf)
      BY <1>1 DEF LineEnds
    <2>2. QED BY <2>1
  <1>3. h \in Nat
    BY <1>1, <1>2, RankFacts
  <1>4. \A i \in 1..h : Nth(E, i) \in E /\ Rank(E, Nth(E, i)) = i
    BY <1>1, <1>2, NthFacts
  <1>5. t.frames = [i \in 1..h |-> c.buf[Nth(E, i) - 1]]
    BY DEF TakenUpTo
  <1>6. t.frames \in Seq(Frame) /\ Len(t.frames) = h
    <2> HIDE DEF E, h
    <2>1. ASSUME NEW i \in 1..h PROVE c.buf[Nth(E, i) - 1] \in Frame
      <3>1. Nth(E, i) \in E
        BY <1>4
      <3>2. Nth(E, i) - 1 \in 1..Len(c.buf) /\ c.buf[Nth(E, i) - 1] # Newline
        BY <3>1, <1>1 DEF E, LineEnds
      <3>3. c.buf[Nth(E, i) - 1] \in Token
        BY <3>2, <1>1
      <3>4. QED BY <3>2, <3>3, TokenFacts
    <2>2. QED BY <2>1, <1>3, <1>5
  <1>7. t.client.buf = Suffix(c.buf, k)
    <2>1. t.client = [c EXCEPT !.buf = Suffix(c.buf, k), !.scan = t.client.scan]
      BY DEF TakenUpTo
    <2>2. [c EXCEPT !.buf = Suffix(c.buf, k), !.scan = t.client.scan].buf = Suffix(c.buf, k)
      BY DEF ClientType
    <2>3. QED BY <2>1, <2>2, Zenon
  <1>8. ASSUME h < limit PROVE Plain(t.client.buf, 1, Len(t.client.buf))
    <2>1. Plain(c.buf, k + 1, Len(c.buf))
      BY <1>8 DEF TakenUpTo
    <2>2. Len(Suffix(c.buf, k)) = Len(c.buf) - k
      BY <1>1, SuffixFacts
    <2>3. \A i \in 1..(Len(c.buf) - k) : Suffix(c.buf, k)[i] = c.buf[k + i]
      BY <1>1, SuffixFacts
    <2>4. \A i \in 1..(Len(c.buf) - k) : k + i \in (k + 1)..Len(c.buf)
      BY <1>1
    <2>5. QED BY <2>1, <2>2, <2>3, <2>4, <1>7 DEF Plain
  <1>9. h <= limit
    BY DEF TakenUpTo
  <1>10. /\ s \in Seq(Token) /\ Len(s) = Len(c.buf) + Len(after) /\ k \in 0..Len(s)
         /\ \A i \in 1..Len(c.buf) : s[i] = c.buf[i]
    BY <1>1, ConcatFacts
  <1>11. LineEnds(s, k) = E
    <2>1. ASSUME NEW e \in 2..k PROVE s[e] = c.buf[e] /\ s[e - 1] = c.buf[e - 1]
      <3>1. e \in 1..Len(c.buf) /\ e - 1 \in 1..Len(c.buf)
        BY <1>1
      <3>2. QED BY <3>1, <1>10
    <2>2. QED BY <2>1 DEF LineEnds
  <1>12. k = 0 \/ s[k] = Newline
    <2>1. k = 0 \/ c.buf[k] = Newline
      BY DEF TakenUpTo
    <2>2. CASE k # 0
      <3>1. k \in 1..Len(c.buf)
        BY <2>2, <1>1
      <3>2. QED BY <3>1, <2>1, <2>2, <1>10
    <2>3. QED BY <2>2
  <1>13. Suffix(s, k) = t.client.buf \o after
    BY <1>1, <1>7, SuffixOfConcat
  <1>14. ASSUME NEW b \in Nat, NEW m \in Nat, b <= m, Numbered(s, b, m)
         PROVE  /\ b + h <= m /\ Numbered(Suffix(s, k), b + h, m)
                /\ \A i \in 1..h : t.frames[i].n = b + i
    <2>1. b + h <= m /\ Numbered(Suffix(s, k), b + h, m)
      BY <1>14, <1>10, <1>11, <1>12, RestNumbered
    <2>2. ASSUME NEW i \in 1..h PROVE t.frames[i].n = b + i
      <3>1. PICK e : e = Nth(E, i)
        OBVIOUS
      <3>2. e \in E /\ Rank(E, e) = i
        BY <3>1, <1>4
      <3>3. Rank(LineEnds(s, k), e) = s[e - 1].n - b
        BY <3>2, <1>14, <1>10, <1>11, <1>12, LinesInOrder, Zenon
      <3>4. s[e - 1] = c.buf[e - 1] /\ e - 1 \in 1..Len(s)
        <4>1. e - 1 \in 1..Len(c.buf)
          BY <3>2, <1>1 DEF LineEnds
        <4>2. QED BY <4>1, <1>10
      <3>5. t.frames[i] = s[e - 1] /\ s[e - 1].n \in Nat
        BY <3>1, <3>4, <1>5, <1>10, TokenFacts
      <3>6. i = s[e - 1].n - b
        BY <3>2, <3>3, <1>11
      <3>7. t.frames[i].n = s[e - 1].n
        BY <3>5
      <3>8. s[e - 1].n = b + i
        <4> HIDE DEF s
        <4>1. QED BY <3>5, <3>6
      <3>9. QED BY <3>7, <3>8
    <2>3. QED BY <2>1, <2>2
  <1>15. Took(s, t.client.buf \o after, t.frames)
    <2> HIDE DEF h, s, E
    <2>1. QED BY <1>6, <1>10, <1>13, <1>14 DEF Took
  <1>16. Unfinished(s) => Unfinished(t.client.buf \o after)
    <2> HIDE DEF s
    <2>0. s \in Seq(Token) /\ k \in 0..Len(s) /\ Len(s) \in Nat
      BY <1>10
    <2>1. Len(Suffix(s, k)) = Len(s) - k /\ Len(s) \in Nat /\ Suffix(s, k) \in Seq(Token)
      BY <2>0, SuffixFacts
    <2>2. \A i \in 1..(Len(s) - k) : Suffix(s, k)[i] = s[k + i]
      BY <1>10, SuffixFacts
    <2>3. ASSUME Unfinished(s) PROVE Unfinished(Suffix(s, k))
      <3>0. s # <<>> /\ s[Len(s)] # Newline /\ s \in Seq(Token)
        BY <2>3, <1>10 DEF Unfinished
      <3>1. k # Len(s) /\ k <= Len(s) /\ k \in Nat
        <4>1. Len(s) # 0
          BY <3>0
        <4>2. k # Len(s)
          BY <4>1, <3>0, <1>12
        <4>3. QED BY <4>2, <1>10
      <3>2. Len(s) - k \in 1..(Len(s) - k) /\ k + (Len(s) - k) = Len(s)
        BY <3>1, <2>1
      <3>3. Suffix(s, k)[Len(s) - k] = s[Len(s)]
        BY <2>2, <3>2
      <3>4. Suffix(s, k) # <<>>
        BY <2>1, <3>2
      <3>5. QED BY <3>3, <3>4, <2>1, <2>3 DEF Unfinished
    <2>4. QED BY <2>3, <1>13
  <1>17. QED BY <1>6, <1>7, <1>8, <1>9, <1>15, <1>16

\* take_unterminated_final_frame adds the frame that is left in the buffer, if
\* any, with the unread "after" behind it.
FinalTook(c, limit, frames, after, last) ==
  /\ last.client \in ClientType /\ Scanned(last.client)
  /\ last.client = [c EXCEPT !.buf = last.client.buf, !.scan = last.client.scan]
  /\ \E g \in Seq(Frame) :
       /\ last.frames = frames \o g
       /\ Took(c.buf \o after, last.client.buf \o after, g)
  /\ c.read_closed /\ Len(last.frames) < limit => last.client.buf = <<>>
  /\ ~c.read_closed => last.client = c

\* What is left of the buffer after end-of-stream is the last frame.
LEMMA FinalFrameFacts ==
  ASSUME NEW c \in ClientType, Scanned(c), NEW limit \in Nat, NEW frames \in Seq(Frame),
         Len(frames) < limit => Plain(c.buf, 1, Len(c.buf)),
         NEW after \in Seq(Token), c.read_closed => after = <<>>
  PROVE  FinalTook(c, limit, frames, after, take_unterminated_final_frame(c, limit, frames))
  <1> DEFINE last == take_unterminated_final_frame(c, limit, frames)
  <1>1. c.buf \in Seq(Token) /\ Len(c.buf) \in Nat /\ c.scan \in Nat /\ c.read_closed \in BOOLEAN
    BY DEF ClientType
  <1>2. CASE ~c.read_closed \/ Len(frames) >= limit \/ c.buf = <<>>
    <2>1. last = [frames |-> frames, client |-> c]
      BY <1>2, Zenon DEF take_unterminated_final_frame
    <2>2. last.client = c /\ last.frames = frames
      BY <2>1
    <2>3. c = [c EXCEPT !.buf = c.buf, !.scan = c.scan]
      BY DEF ClientType
    <2>4. c.buf \o after \in Seq(Token)
      BY <1>1, ConcatFacts
    <2>5. Took(c.buf \o after, c.buf \o after, <<>>)
      BY <2>4, TookNothing
    <2>6. frames \o <<>> = frames /\ <<>> \in Seq(Frame)
      OBVIOUS
    <2>7. Len(frames) < limit => ~(Len(frames) >= limit)
      OBVIOUS
    <2>8. c.read_closed /\ Len(frames) < limit => c.buf = <<>>
      BY <1>2, <2>7
    <2> HIDE DEF last
    <2>9. FinalTook(c, limit, frames, after, last)
      BY <2>2, <2>3, <2>5, <2>6, <2>8, <1>1 DEF FinalTook
    <2>10. QED BY <2>9 DEF last
  <1>3. CASE ~(~c.read_closed \/ Len(frames) >= limit \/ c.buf = <<>>)
    <2> DEFINE x == c.buf[Len(c.buf)]
    <2>1. last = [frames |-> Append(frames, x), client |-> Consume(c, Len(c.buf), Len(c.buf))]
      BY <1>3, Zenon DEF take_unterminated_final_frame
    <2>2. c.read_closed /\ Len(frames) < limit /\ c.buf # <<>> /\ after = <<>>
      BY <1>3
    <2>3. Plain(c.buf, 1, Len(c.buf))
      BY <2>2
    <2>4. x \in Frame
      <3>1. Len(c.buf) \in 1..Len(c.buf)
        BY <1>1, <2>2
      <3>2. x \in Token /\ x # Newline
        BY <3>1, <1>1, <2>3 DEF Plain
      <3>3. QED BY <3>2, TokenFacts
    <2>5. /\ last.client \in ClientType
          /\ last.client = [c EXCEPT !.buf = Suffix(c.buf, Len(c.buf)),
                                     !.scan = Len(c.buf) - Len(c.buf)]
          /\ last.client.buf = Suffix(c.buf, Len(c.buf))
          /\ last.client.scan = Len(c.buf) - Len(c.buf)
      <3>1. Len(c.buf) \in 0..Len(c.buf) /\ Len(c.buf) <= Len(c.buf)
        BY <1>1
      <3>2. last.client = Consume(c, Len(c.buf), Len(c.buf))
        BY <2>1
      <3>3. PICK d : d = Consume(c, Len(c.buf), Len(c.buf))
        OBVIOUS
      <3>4. /\ d \in ClientType
            /\ d = [c EXCEPT !.buf = Suffix(c.buf, Len(c.buf)),
                             !.scan = Len(c.buf) - Len(c.buf)]
            /\ d.buf = Suffix(c.buf, Len(c.buf))
            /\ d.scan = Len(c.buf) - Len(c.buf)
        BY <3>1, <3>3, <1>1, ConsumeFacts
      <3>5. last.client = d
        BY <3>2, <3>3
      <3>6. QED BY <3>4, <3>5, Zenon
    <2>6. last.client.buf = <<>> /\ last.client.scan = 0
      BY <2>5, <1>1, SuffixEnds
    <2>7. Scanned(last.client)
      BY <2>6 DEF Scanned, Plain
    <2>8. last.frames = frames \o <<x>> /\ <<x>> \in Seq(Frame)
      BY <2>1, <2>4
    <2>9. c.buf \o after = c.buf /\ last.client.buf \o after = <<>>
      BY <2>2, <2>6, <1>1
    <2>10. Took(c.buf, <<>>, <<x>>)
      <3>1. Len(c.buf) \in 0..Len(c.buf) /\ Suffix(c.buf, Len(c.buf)) = <<>>
        BY <1>1, SuffixEnds
      <3>2. ASSUME NEW b \in Nat, NEW m \in Nat, b <= m, Numbered(c.buf, b, m)
            PROVE  b + 1 <= m /\ x.n = b + 1 /\ Numbered(<<>>, b + 1, m)
        <4>1. x.n = b + 1 /\ m = b + 1 /\ Numbered(<<>>, b + 1, m)
          BY <3>2, <1>1, <2>2, <2>3, LastLine
        <4>2. QED BY <4>1
      <3>3. Len(<<x>>) = 1 /\ \A i \in 1..1 : i = 1 /\ <<x>>[i] = x
        OBVIOUS
      <3>4. QED BY <3>1, <3>2, <3>3 DEF Took
    <2>11. last.client = [c EXCEPT !.buf = last.client.buf, !.scan = last.client.scan]
      BY <2>5
    <2> HIDE DEF last
    <2>12. FinalTook(c, limit, frames, after, last)
      BY <2>2, <2>5, <2>6, <2>7, <2>8, <2>9, <2>10, <2>11 DEF FinalTook
    <2>13. QED BY <2>12 DEF last
  <1>4. QED BY <1>2, <1>3

\* What one read of a client may do: with the unread rest of the socket behind
\* the buffer, frames are taken from the front, in order, and nothing else is
\* lost; only a long unfinished line overflows.
ReadTook(c, socket, eof, r) ==
  LET after == Suffix(socket, r.bytes)
  IN  /\ r.client \in ClientType /\ Scanned(r.client)
      /\ r.client = [c EXCEPT !.buf = r.client.buf, !.scan = r.client.scan,
                              !.read_closed = r.client.read_closed]
      /\ r.bytes \in 0..Len(socket) /\ r.frames \in Seq(Frame)
      /\ r.client.read_closed => (c.read_closed \/ eof) /\ after = <<>>
      /\ \E k \in 0..Len(c.buf \o socket) :
           r.client.buf \o after = Suffix(c.buf \o socket, k)
      /\ r.error \in {"none", "eof", "overflow"}
      /\ r.error # "none" => r.frames = <<>>
      /\ r.error = "eof" => r.client.read_closed /\ r.client.buf = <<>>
      /\ r.error = "overflow" =>
           \E i, j \in 1..Len(c.buf \o socket) :
             /\ i <= j /\ Plain(c.buf \o socket, i, j)
             /\ j - i + 1 > MaxClientBuf - MaxReadBytesPerPoll
      /\ r.error # "overflow" =>
           Took(c.buf \o socket, r.client.buf \o after, r.frames)
      /\ ~r.client.read_closed /\ r.error # "overflow" =>
           (Unfinished(c.buf \o socket) => Unfinished(r.client.buf \o after))

\* The tail of read_messages, once the complete lines were taken.
DoneReading(d, frames, limit, n) ==
  LET last == take_unterminated_final_frame(d, limit, frames)
  IN  [client |-> last.client, frames |-> last.frames, bytes |-> n,
       error |-> IF last.frames = <<>> /\ last.client.read_closed
                   THEN "eof" ELSE "none"]

\* read_messages returns one of its results with what was taken so far.
LEMMA DoneFacts ==
  ASSUME NEW c \in ClientType, NEW socket \in Seq(Token), NEW eof \in BOOLEAN,
         NEW limit \in Nat \ {0}, NEW n \in 0..Len(socket),
         NEW d \in ClientType, Scanned(d), NEW frames \in Seq(Frame),
         d = [c EXCEPT !.buf = d.buf, !.scan = d.scan, !.read_closed = d.read_closed],
         Len(frames) < limit => Plain(d.buf, 1, Len(d.buf)),
         d.read_closed => (c.read_closed \/ eof) /\ Suffix(socket, n) = <<>>,
         Took(c.buf \o socket, d.buf \o Suffix(socket, n), frames),
         Unfinished(c.buf \o socket) => Unfinished(d.buf \o Suffix(socket, n)),
         NEW r, r = DoneReading(d, frames, limit, n)
  PROVE  ReadTook(c, socket, eof, r)
  <1> DEFINE last == take_unterminated_final_frame(d, limit, frames)
             after == Suffix(socket, n)
  <1>1. /\ c.buf \in Seq(Token) /\ d.buf \in Seq(Token) /\ d.read_closed \in BOOLEAN
        /\ after \in Seq(Token)
    BY SuffixFacts DEF ClientType
  <1>2. c.buf \o socket \in Seq(Token) /\ (d.read_closed => after = <<>>) /\ limit \in Nat
    BY <1>1, ConcatFacts
  <1> HIDE DEF after
  <1>16. FinalTook(d, limit, frames, after, last)
    BY <1>1, <1>2, FinalFrameFacts
  <1>5. /\ r.client = last.client /\ r.frames = last.frames /\ r.bytes = n
        /\ r.error = IF last.frames = <<>> /\ last.client.read_closed THEN "eof" ELSE "none"
    BY DEF DoneReading
  <1> HIDE DEF last
  <1>3. /\ last.client \in ClientType /\ Scanned(last.client)
        /\ last.client = [d EXCEPT !.buf = last.client.buf, !.scan = last.client.scan]
        /\ d.read_closed /\ Len(last.frames) < limit => last.client.buf = <<>>
        /\ ~d.read_closed => last.client = d
    BY <1>16 DEF FinalTook
  <1>4. PICK g \in Seq(Frame) :
          /\ last.frames = frames \o g
          /\ Took(d.buf \o after, last.client.buf \o after, g)
    BY <1>16 DEF FinalTook
  <1>6. last.client.read_closed = d.read_closed
    BY <1>3 DEF ClientType
  <1>7. /\ Took(c.buf \o socket, last.client.buf \o after, last.frames)
        /\ last.frames \in Seq(Frame)
    <2>1. frames \o g \in Seq(Frame)
      BY ConcatFacts
    <2>2. Took(c.buf \o socket, d.buf \o after, frames)
      BY DEF after
    <2>3. Took(c.buf \o socket, last.client.buf \o after, frames \o g)
      BY <2>2, <1>2, <1>4, TookMore
    <2>4. QED BY <2>1, <2>3, <1>4
  <1>8. last.client = [c EXCEPT !.buf = last.client.buf, !.scan = last.client.scan,
                                !.read_closed = last.client.read_closed]
    <2>1. PICK e : e = last.client
      OBVIOUS
    <2>2. e \in ClientType /\ e = [d EXCEPT !.buf = e.buf, !.scan = e.scan]
      BY <2>1, <1>3
    <2>3. e = [c EXCEPT !.buf = e.buf, !.scan = e.scan, !.read_closed = e.read_closed]
      BY <2>2 DEF ClientType
    <2>4. QED BY <2>1, <2>3
  <1>9. d.read_closed => (c.read_closed \/ eof) /\ after = <<>>
    BY DEF after
  <1>10. last.frames = <<>> => Len(last.frames) < limit
    OBVIOUS
  <1>11. \E k \in 0..Len(c.buf \o socket) :
           last.client.buf \o after = Suffix(c.buf \o socket, k)
    BY <1>7 DEF Took
  <1>12. r.error \in {"none", "eof"} /\ (r.error # "none" =>
            last.frames = <<>> /\ last.client.read_closed)
    BY <1>5
  <1>13. r.error # "overflow"
    BY <1>12
  <1>14. r.error = "eof" => last.client.read_closed /\ last.client.buf = <<>>
    BY <1>12, <1>3, <1>6, <1>10
  <1>15. ~last.client.read_closed =>
           (Unfinished(c.buf \o socket) => Unfinished(last.client.buf \o after))
    BY <1>3, <1>6 DEF after
  <1>17. QED
    BY <1>3, <1>5, <1>6, <1>7, <1>8, <1>9, <1>11, <1>12, <1>13, <1>14, <1>15 DEF ReadTook, after

\* The assumptions on the limits.
LEMMA LimitFacts ==
  /\ MaxMessagesPerPoll \in Nat \ {0} /\ MaxReadBytesPerPoll \in Nat \ {0}
  /\ SocketSpace \in Nat \ {0} /\ MaxClientOut \in Nat
  /\ MaxClientBuf \in Nat /\ MaxClientBuf > MaxReadBytesPerPoll
  BY LimitsAssumption

\* The result of take_complete_messages is a record of two fields.
LEMMA TakeRecord ==
  ASSUME NEW c, NEW limit \in Nat
  PROVE  LET t == take_complete_messages(c, limit)
         IN  t = [frames |-> t.frames, client |-> t.client]
  <1> DEFINE t == take_complete_messages(c, limit)
  <1>1. CASE limit = 0
    <2>1. ~(limit > 0)
      BY <1>1
    <2>2. \E f, d : t = [frames |-> f, client |-> d]
      BY <1>1, <2>1, Zenon DEF take_complete_messages
    <2>3. QED BY <2>2
  <1>2. CASE limit > 0 /\ Cardinality(FrameEnds(c)) >= limit
    <2>1. limit # 0
      BY <1>2
    <2>2. \E f, d : t = [frames |-> f, client |-> d]
      BY <1>2, <2>1, Zenon DEF take_complete_messages
    <2>3. QED BY <2>2
  <1>3. CASE limit > 0 /\ ~(Cardinality(FrameEnds(c)) >= limit)
    <2>1. limit # 0
      BY <1>3
    <2>2. \E f, d : t = [frames |-> f, client |-> d]
      BY <1>3, <2>1, Zenon DEF take_complete_messages
    <2>3. QED BY <2>2
  <1>4. limit = 0 \/ limit > 0
    OBVIOUS
  <1>5. QED BY <1>1, <1>2, <1>3, <1>4

\* read_messages takes the frames of buffer and socket in order, within its
\* budgets, and says why it stopped.
LEMMA ReadFacts ==
  ASSUME NEW c \in ClientType, Scanned(c), NEW mb \in Nat \ {0}, NEW rb \in Nat \ {0},
         NEW socket \in Seq(Token), NEW eof \in BOOLEAN, c.read_closed => socket = <<>>
  PROVE  ReadTook(c, socket, eof, read_messages(c, mb, rb, socket, eof))
  <1>1. PICK limit : limit = Min({mb, MaxMessagesPerPoll})
    OBVIOUS
  <1>2. PICK bytes : bytes = read_byte_limit(rb)
    OBVIOUS
  <1>3. PICK first : first = take_complete_messages(c, limit)
    OBVIOUS
  <1>4. PICK n : n = Min({bytes, Len(socket)})
    OBVIOUS
  <1>5. PICK read : read = [first.client EXCEPT
                              !.buf = @ \o SubSeq(socket, 1, n),
                              !.read_closed = @ \/ (eof /\ n < bytes)]
    OBVIOUS
  <1>6. PICK more : more = take_complete_messages(read, limit - Len(first.frames))
    OBVIOUS
  <1>7. PICK r : r = read_messages(c, mb, rb, socket, eof)
    OBVIOUS
  <1> DEFINE Done(taken, k) == DoneReading(taken.client, taken.frames, limit, k)
  <1>8. r = CASE Len(first.frames) = limit ->
                   [client |-> first.client, frames |-> first.frames, bytes |-> 0,
                    error |-> "none"]
              [] Len(first.frames) < limit /\ first.client.read_closed -> Done(first, 0)
              [] Len(first.frames) < limit /\ ~first.client.read_closed
                   /\ Len(read.buf) > MaxClientBuf ->
                   [client |-> read, frames |-> <<>>, bytes |-> n, error |-> "overflow"]
              [] OTHER -> Done([more EXCEPT !.frames = first.frames \o @], n)
    BY <1>1, <1>2, <1>3, <1>4, <1>5, <1>6, <1>7, Zenon DEF read_messages, DoneReading
  <1> HIDE DEF Done
  <1>9. limit \in Nat \ {0}
    <2>1. mb \in Int /\ MaxMessagesPerPoll \in Int
      BY LimitFacts
    <2>2. limit \in {mb, MaxMessagesPerPoll}
      BY <1>1, <2>1, MinPair
    <2>3. QED BY <2>2, LimitFacts
  <1>10. bytes \in Nat \ {0} /\ bytes <= MaxReadBytesPerPoll
    <2>1. rb \in Int /\ MaxReadBytesPerPoll \in Int
      BY LimitFacts
    <2>2. bytes \in {rb, MaxReadBytesPerPoll} /\ bytes <= MaxReadBytesPerPoll
      BY <1>2, <2>1, MinPair DEF read_byte_limit
    <2>3. QED BY <2>2, LimitFacts
  <1>11. n \in 0..Len(socket) /\ n <= bytes /\ (n < bytes => n = Len(socket))
    <2>1. bytes \in Int /\ Len(socket) \in Int /\ bytes >= 0 /\ Len(socket) >= 0
      BY <1>10
    <2>2. n \in {bytes, Len(socket)} /\ n <= bytes /\ n <= Len(socket)
      BY <1>4, <2>1, MinPair
    <2>3. QED BY <2>1, <2>2
  <1>12. c.buf \in Seq(Token) /\ c.buf \o socket \in Seq(Token)
    BY ConcatFacts DEF ClientType
  <1>13. PICK k \in 0..Len(c.buf) : TakenUpTo(c, limit, first, k)
    BY <1>3, <1>9, TakeFacts
  <1>14. /\ first.client \in ClientType /\ Scanned(first.client)
         /\ first.client = [c EXCEPT !.buf = first.client.buf, !.scan = first.client.scan]
         /\ first.client.buf = Suffix(c.buf, k)
         /\ first.client.read_closed = c.read_closed
    <2>1. /\ first.client \in ClientType /\ Scanned(first.client)
          /\ first.client = [c EXCEPT !.buf = Suffix(c.buf, k), !.scan = first.client.scan]
      BY <1>13 DEF TakenUpTo
    <2>2. PICK e : e = first.client
      OBVIOUS
    <2>3. e.buf = Suffix(c.buf, k) /\ e.read_closed = c.read_closed
      BY <2>1, <2>2 DEF ClientType
    <2>4. QED BY <2>1, <2>2, <2>3, Zenon
  <1>15. /\ first.frames \in Seq(Frame) /\ Len(first.frames) <= limit
         /\ Len(first.frames) < limit => Plain(first.client.buf, 1, Len(first.client.buf))
         /\ Took(c.buf \o socket, first.client.buf \o socket, first.frames)
         /\ Unfinished(c.buf \o socket) => Unfinished(first.client.buf \o socket)
    BY <1>9, <1>13, TakeTook
  <1>16. Suffix(socket, 0) = socket /\ 0 \in 0..Len(socket)
    BY SuffixEnds
  <1>17. CASE Len(first.frames) = limit
    <2>1. r = [client |-> first.client, frames |-> first.frames, bytes |-> 0,
               error |-> "none"]
      <3>1. ~(Len(first.frames) < limit)
        BY <1>17, <1>9
      <3>2. QED BY <1>8, <1>17, <3>1, Zenon
    <2>2. first.client = [c EXCEPT !.buf = first.client.buf, !.scan = first.client.scan,
                                   !.read_closed = first.client.read_closed]
      <3>1. PICK e : e = first.client
        OBVIOUS
      <3>2. e = [c EXCEPT !.buf = e.buf, !.scan = e.scan] /\ e.read_closed = c.read_closed
        BY <3>1, <1>14
      <3>3. e = [c EXCEPT !.buf = e.buf, !.scan = e.scan, !.read_closed = e.read_closed]
        BY <3>2 DEF ClientType
      <3>4. QED BY <3>1, <3>3
    <2>3. \E j \in 0..Len(c.buf \o socket) :
            first.client.buf \o socket = Suffix(c.buf \o socket, j)
      BY <1>15 DEF Took
    <2>4. /\ r.client = first.client /\ r.frames = first.frames /\ r.bytes = 0
          /\ r.error = "none"
      BY <2>1
    <2>5. ReadTook(c, socket, eof, r)
      BY <2>2, <2>3, <2>4, <1>14, <1>15, <1>16 DEF ReadTook
    <2>6. QED BY <2>5, <1>7
  <1>18. CASE Len(first.frames) < limit /\ first.client.read_closed
    <2>1. r = Done(first, 0)
      <3>1. Len(first.frames) # limit
        BY <1>18, <1>9
      <3>2. QED BY <1>8, <1>18, <3>1, Zenon
    <2>2. socket = <<>>
      BY <1>14, <1>18
    <2>3. first.client = [c EXCEPT !.buf = first.client.buf, !.scan = first.client.scan,
                                   !.read_closed = first.client.read_closed]
      <3>1. PICK e : e = first.client
        OBVIOUS
      <3>2. e = [c EXCEPT !.buf = e.buf, !.scan = e.scan] /\ e.read_closed = c.read_closed
        BY <3>1, <1>14
      <3>3. e = [c EXCEPT !.buf = e.buf, !.scan = e.scan, !.read_closed = e.read_closed]
        BY <3>2 DEF ClientType
      <3>4. QED BY <3>1, <3>3
    <2>4. first.client.read_closed => (c.read_closed \/ eof) /\ Suffix(socket, 0) = <<>>
      BY <1>14, <1>16, <2>2
    <2>5. /\ Took(c.buf \o socket, first.client.buf \o Suffix(socket, 0), first.frames)
          /\ Unfinished(c.buf \o socket) => Unfinished(first.client.buf \o Suffix(socket, 0))
      BY <1>15, <1>16
    <2>6. ReadTook(c, socket, eof, r)
      <3>1. PICK e : e = first.client
        OBVIOUS
      <3>2. PICK f : f = first.frames
        OBVIOUS
      <3>3. r = DoneReading(e, f, limit, 0)
        BY <2>1, <3>1, <3>2 DEF Done
      <3>4. /\ e \in ClientType /\ Scanned(e) /\ f \in Seq(Frame)
            /\ e = [c EXCEPT !.buf = e.buf, !.scan = e.scan, !.read_closed = e.read_closed]
            /\ Len(f) < limit => Plain(e.buf, 1, Len(e.buf))
        BY <3>1, <3>2, <2>3, <1>14, <1>15, Zenon
      <3>5. /\ e.read_closed => (c.read_closed \/ eof) /\ Suffix(socket, 0) = <<>>
            /\ Took(c.buf \o socket, e.buf \o Suffix(socket, 0), f)
            /\ Unfinished(c.buf \o socket) => Unfinished(e.buf \o Suffix(socket, 0))
        BY <3>1, <3>2, <2>4, <2>5, Zenon
      <3>6. QED BY <3>3, <3>4, <3>5, <1>9, <1>16, DoneFacts, Zenon
    <2>7. QED BY <2>6, <1>7
  <1> DEFINE chunk == SubSeq(socket, 1, n)
             after == Suffix(socket, n)
  <1>19. ASSUME Len(first.frames) < limit, ~first.client.read_closed
         PROVE  /\ read \in ClientType /\ Scanned(read)
                /\ read.buf = first.client.buf \o chunk
                /\ read.scan = first.client.scan
                /\ read.read_closed <=> (eof /\ n < bytes)
                /\ read = [c EXCEPT !.buf = read.buf, !.scan = read.scan,
                                    !.read_closed = read.read_closed]
                /\ read.buf \o after = first.client.buf \o socket
                /\ read.read_closed => (c.read_closed \/ eof) /\ after = <<>>
    <2>1. /\ chunk \in Seq(Token) /\ after \in Seq(Token) /\ chunk \o after = socket
          /\ first.client.buf \in Seq(Token) /\ first.client.scan \in Nat
      BY <1>11, <1>14, PrefixFacts, SuffixFacts, SplitJoin DEF ClientType
    <2>2. PICK b : b = first.client.buf \o chunk
      OBVIOUS
    <2>3. PICK closed \in BOOLEAN : closed <=> (eof /\ n < bytes)
      BY <1>10, <1>11
    <2>4. b \in Seq(Token)
      BY <2>1, <2>2, ConcatFacts
    <2>5. PICK e : e = first.client
      OBVIOUS
    <2>6. /\ e \in ClientType /\ e.read_closed = FALSE
          /\ e = [c EXCEPT !.buf = e.buf, !.scan = e.scan]
      BY <1>14, <1>19, <2>5 DEF ClientType
    <2>7. read = [e EXCEPT !.buf = b, !.read_closed = closed]
      <3>1. e.read_closed \/ (eof /\ n < bytes) <=> closed
        BY <2>3, <2>6
      <3>2. (e.read_closed \/ (eof /\ n < bytes)) \in BOOLEAN
        BY <1>10, <1>11
      <3>3. (e.read_closed \/ (eof /\ n < bytes)) = closed
        BY <3>1, <3>2
      <3>4. QED BY <1>5, <2>2, <2>5, <3>3
    <2>8. /\ read \in ClientType /\ read.buf = b /\ read.scan = e.scan
          /\ read.read_closed = closed
      BY <2>4, <2>6, <2>7 DEF ClientType
    <2>9. read = [c EXCEPT !.buf = b, !.scan = e.scan, !.read_closed = closed]
      BY <2>6, <2>7 DEF ClientType
    <2>10. Scanned(read)
      <3>1. e.scan <= Len(e.buf) /\ \A i \in 1..e.scan : e.buf[i] # Newline
        BY <1>14, <2>5 DEF Scanned, Plain
      <3>2. Len(b) = Len(e.buf) + Len(chunk) /\ \A i \in 1..Len(e.buf) : b[i] = e.buf[i]
        BY <2>1, <2>2, <2>5, ConcatFacts
      <3>3. Len(chunk) \in Nat /\ Len(e.buf) \in Nat /\ e.scan \in Nat
        BY <2>1, <2>5
      <3> HIDE DEF chunk
      <3>4. e.scan <= Len(b) /\ \A i \in 1..e.scan : i \in 1..Len(e.buf)
        BY <3>1, <3>2, <3>3
      <3>5. \A i \in 1..e.scan : b[i] # Newline
        BY <3>1, <3>2, <3>4
      <3>6. QED BY <3>4, <3>5, <2>8 DEF Scanned, Plain
    <2>11. b \o after = first.client.buf \o socket
      <3> HIDE DEF chunk, after
      <3>0. \A x, y, z \in Seq(Token) : (x \o y) \o z = x \o (y \o z)
        BY ConcatAssociates, SMTT(30)
      <3>1. (first.client.buf \o chunk) \o after = first.client.buf \o (chunk \o after)
        BY <2>1, <3>0, Zenon
      <3>2. QED BY <3>1, <2>1, <2>2
    <2>12. closed => after = <<>>
      BY <2>3, <1>11, SuffixEnds
    <2>13. QED BY <2>2, <2>3, <2>5, <2>8, <2>9, <2>10, <2>11, <2>12
  <1>20. CASE /\ Len(first.frames) < limit /\ ~first.client.read_closed
              /\ Len(read.buf) > MaxClientBuf
    <2>1. r = [client |-> read, frames |-> <<>>, bytes |-> n, error |-> "overflow"]
      <3>1. Len(first.frames) # limit
        BY <1>20, <1>9
      <3>2. QED BY <1>8, <1>20, <3>1, Zenon
    <2>2. r.client = read /\ r.frames = <<>> /\ r.bytes = n /\ r.error = "overflow"
      BY <2>1
    <2>3. Plain(first.client.buf, 1, Len(first.client.buf))
      BY <1>15, <1>20
    <2>4. /\ read \in ClientType /\ Scanned(read)
          /\ read.buf = first.client.buf \o chunk
          /\ read = [c EXCEPT !.buf = read.buf, !.scan = read.scan,
                              !.read_closed = read.read_closed]
          /\ read.buf \o after = first.client.buf \o socket
          /\ read.read_closed => (c.read_closed \/ eof) /\ after = <<>>
      BY <1>19, <1>20
    <2>5. \E j \in 0..Len(c.buf \o socket) : read.buf \o after = Suffix(c.buf \o socket, j)
      BY <1>15, <2>4 DEF Took
    <2> DEFINE s == c.buf \o socket
               i == k + 1
               j == Len(c.buf)
    <2>6. /\ Len(c.buf) \in Nat /\ Len(s) = Len(c.buf) + Len(socket) /\ Len(socket) \in Nat
          /\ \A x \in 1..Len(c.buf) : s[x] = c.buf[x]
          /\ Len(first.client.buf) = Len(c.buf) - k
          /\ \A x \in 1..(Len(c.buf) - k) : first.client.buf[x] = c.buf[k + x]
      <3>1. Len(c.buf) \in Nat /\ Len(socket) \in Nat
        BY <1>12
      <3>2. Len(s) = Len(c.buf) + Len(socket) /\ \A x \in 1..Len(c.buf) : s[x] = c.buf[x]
        BY <1>12, ConcatFacts
      <3>3. Len(Suffix(c.buf, k)) = Len(c.buf) - k
        BY <1>12, SuffixFacts
      <3>4. \A x \in 1..(Len(c.buf) - k) : Suffix(c.buf, k)[x] = c.buf[k + x]
        BY <1>12, SuffixFacts
      <3>5. QED BY <3>1, <3>2, <3>3, <3>4, <1>14
    <2>7. Len(read.buf) = (Len(c.buf) - k) + n
      <3>1. chunk \in Seq(Token) /\ Len(chunk) = n
        BY <1>11, PrefixFacts
      <3>2. first.client.buf \in Seq(Token)
        BY <1>14 DEF ClientType
      <3>3. QED BY <2>4, <2>6, <3>1, <3>2, ConcatFacts
    <2>8. j - i + 1 > MaxClientBuf - MaxReadBytesPerPoll
      BY <2>6, <2>7, <1>10, <1>11, <1>20, LimitFacts
    <2>9. i <= j /\ i \in 1..Len(s) /\ j \in 1..Len(s)
      BY <2>6, <2>8, LimitFacts
    <2>10. Plain(s, i, j)
      <3>1. ASSUME NEW x \in i..j PROVE s[x] # Newline
        <4>1. x \in 1..Len(c.buf) /\ x - k \in 1..(Len(c.buf) - k) /\ k + (x - k) = x
          BY <2>6
        <4>2. s[x] = first.client.buf[x - k]
          BY <4>1, <2>6
        <4>3. QED BY <4>1, <4>2, <2>3, <2>6 DEF Plain
      <3>2. QED BY <3>1 DEF Plain
    <2>11. \E x, y \in 1..Len(s) :
             x <= y /\ Plain(s, x, y) /\ y - x + 1 > MaxClientBuf - MaxReadBytesPerPoll
      BY <2>8, <2>9, <2>10
    <2>12. <<>> \in Seq(Frame)
      OBVIOUS
    <2> HIDE DEF i, j
    <2>13. ReadTook(c, socket, eof, r)
      BY <2>2, <2>4, <2>5, <2>11, <2>12, <1>11 DEF ReadTook
    <2>14. QED BY <2>13, <1>7
  <1>21. CASE /\ Len(first.frames) < limit /\ ~first.client.read_closed
              /\ ~(Len(read.buf) > MaxClientBuf)
    <2>1. PICK left : left = limit - Len(first.frames)
      OBVIOUS
    <2>2. left \in Nat
      BY <2>1, <1>9, <1>15, <1>21
    <2>3. /\ read \in ClientType /\ Scanned(read)
          /\ read = [c EXCEPT !.buf = read.buf, !.scan = read.scan,
                              !.read_closed = read.read_closed]
          /\ read.buf \o after = first.client.buf \o socket
          /\ read.read_closed => (c.read_closed \/ eof) /\ after = <<>>
      BY <1>19, <1>21
    <2>4. PICK j \in 0..Len(read.buf) : TakenUpTo(read, left, more, j)
      BY <1>6, <2>1, <2>2, <2>3, TakeFacts
    <2>5. after \in Seq(Token)
      BY <1>11, SuffixFacts
    <2> HIDE DEF after
    <2>6. /\ more.frames \in Seq(Frame) /\ Len(more.frames) <= left
          /\ Len(more.frames) < left => Plain(more.client.buf, 1, Len(more.client.buf))
          /\ Took(read.buf \o after, more.client.buf \o after, more.frames)
          /\ Unfinished(read.buf \o after) => Unfinished(more.client.buf \o after)
      BY <2>2, <2>3, <2>4, <2>5, TakeTook
    <2>7. PICK f : f = first.frames \o more.frames
      OBVIOUS
    <2>8. f \in Seq(Frame) /\ Len(f) = Len(first.frames) + Len(more.frames)
      BY <2>6, <2>7, <1>15, ConcatFacts
    <2>9. Took(c.buf \o socket, more.client.buf \o after, f)
      <3>1. Took(c.buf \o socket, read.buf \o after, first.frames)
        BY <1>15, <2>3
      <3>2. QED BY <3>1, <2>6, <2>7, <1>12, <1>15, TookMore
    <2>10. PICK e : e = more.client
      OBVIOUS
    <2>11. /\ e \in ClientType /\ Scanned(e)
           /\ e = [read EXCEPT !.buf = Suffix(read.buf, j), !.scan = e.scan]
      BY <2>4, <2>10 DEF TakenUpTo
    <2>12. /\ e = [c EXCEPT !.buf = e.buf, !.scan = e.scan, !.read_closed = e.read_closed]
           /\ e.read_closed = read.read_closed
      <3>1. PICK b : b = Suffix(read.buf, j)
        OBVIOUS
      <3>2. e = [read EXCEPT !.buf = b, !.scan = e.scan]
        BY <3>1, <2>11
      <3>3. e.read_closed = read.read_closed
        BY <3>2, <2>3 DEF ClientType
      <3>4. PICK x, y, z : x = read.buf /\ y = read.scan /\ z = read.read_closed
        OBVIOUS
      <3>5. read = [c EXCEPT !.buf = x, !.scan = y, !.read_closed = z]
        BY <3>4, <2>3
      <3>6. e = [[c EXCEPT !.buf = x, !.scan = y, !.read_closed = z] EXCEPT
                   !.buf = b, !.scan = e.scan]
        BY <3>2, <3>5, Zenon
      <3>7. PICK v : v = e.scan
        OBVIOUS
      <3>8. [[c EXCEPT !.buf = x, !.scan = y, !.read_closed = z] EXCEPT
                !.buf = b, !.scan = v]
              = [c EXCEPT !.buf = b, !.scan = v, !.read_closed = z]
        BY DEF ClientType
      <3>9. e = [c EXCEPT !.buf = b, !.scan = v, !.read_closed = z]
        BY <3>6, <3>7, <3>8, Zenon
      <3>10. e.buf = b /\ z = e.read_closed
        BY <3>3, <3>4, <3>9 DEF ClientType
      <3>11. QED BY <3>3, <3>7, <3>9, <3>10, Zenon
    <2>13. r = DoneReading(e, f, limit, n)
      <3>1. Len(first.frames) # limit
        BY <1>21, <1>9
      <3>2. r = Done([more EXCEPT !.frames = first.frames \o @], n)
        BY <1>8, <1>21, <3>1, Zenon
      <3>3. more = [frames |-> more.frames, client |-> more.client]
        BY <1>6, <2>1, <2>2, TakeRecord
      <3>4. PICK w : w = [more EXCEPT !.frames = first.frames \o @]
        OBVIOUS
      <3>5. w.client = e /\ w.frames = f
        BY <3>3, <3>4, <2>7, <2>10
      <3>6. QED BY <3>2, <3>4, <3>5 DEF Done
    <2>14. Len(f) < limit => Plain(e.buf, 1, Len(e.buf))
      <3>0. Len(more.frames) \in Nat /\ Len(first.frames) \in Nat /\ limit \in Nat
        BY <2>6, <1>9, <1>15
      <3>1. Len(f) < limit => Len(more.frames) < left
        <4>1. PICK x, y, z : x = Len(first.frames) /\ y = Len(more.frames) /\ z = Len(f)
          OBVIOUS
        <4>2. x \in Nat /\ y \in Nat /\ limit \in Nat
          BY <3>0, <4>1
        <4>3. z = x + y
          BY <4>1, <2>8, Zenon
        <4>4. left = limit - x
          BY <4>1, <2>1, Zenon
        <4>5. z < limit => y < left
          BY <4>2, <4>3, <4>4
        <4>6. QED BY <4>1, <4>5, Zenon
      <3>2. QED BY <3>1, <2>6, <2>10
    <2>15. e.read_closed => (c.read_closed \/ eof) /\ Suffix(socket, n) = <<>>
      BY <2>3, <2>12 DEF after
    <2>16. Took(c.buf \o socket, e.buf \o Suffix(socket, n), f)
      BY <2>9, <2>10 DEF after
    <2>17. Unfinished(c.buf \o socket) => Unfinished(e.buf \o Suffix(socket, n))
      BY <2>3, <2>6, <2>10, <1>15 DEF after
    <2>18. ReadTook(c, socket, eof, r)
      BY <2>8, <2>11, <2>12, <2>13, <2>14, <2>15, <2>16, <2>17, <1>9, <1>11, DoneFacts
    <2>19. QED BY <2>18, <1>7
  <1>22. QED
    <2>1. Len(first.frames) = limit \/ Len(first.frames) < limit
      BY <1>9, <1>15
    <2>2. QED BY <1>17, <1>18, <1>20, <1>21, <2>1

-----------------------------------------------------------------------------
(* Output *)

\* The input side of a client is untouched.
SameInput(c, d) ==
  /\ d \in ClientType
  /\ d.buf = c.buf /\ d.scan = c.scan /\ d.read_closed = c.read_closed

\* A flush moves output to the wire, in order, and loses nothing.
Flushed(c, w, f) ==
  /\ f.client \in ClientType /\ f.client = [c EXCEPT !.out = f.client.out]
  /\ f.wire \in Seq(Nat) /\ Len(f.wire) <= SocketSpace
  /\ f.wire \o f.client.out = w \o c.out
  /\ f.error \in {"none", "failed", "backlogged"}

\* flush_out, whatever the peer does.
LEMMA FlushFacts ==
  ASSUME NEW c \in ClientType, NEW w \in Seq(Nat), Len(w) <= SocketSpace,
         NEW gone \in BOOLEAN
  PROVE  Flushed(c, w, flush_out(c, w, gone))
  <1>1. PICK f : f = flush_out(c, w, gone)
    OBVIOUS
  <1>2. c.out \in Seq(Nat) /\ Len(c.out) \in Nat /\ Len(w) \in Nat
    BY DEF ClientType
  <1>3. CASE gone /\ c.out # <<>>
    <2>1. f = [client |-> c, wire |-> w, error |-> "failed"]
      BY <1>1, <1>3, Zenon DEF flush_out
    <2>2. c = [c EXCEPT !.out = c.out]
      BY DEF ClientType
    <2>3. f.client = c /\ f.wire = w /\ f.error = "failed"
      BY <2>1
    <2>4. Flushed(c, w, f)
      BY <2>2, <2>3 DEF Flushed
    <2>5. QED BY <1>1, <2>4
  <1>4. CASE ~(gone /\ c.out # <<>>)
    <2>1. PICK n : n = Min({SocketSpace - Len(w), Len(c.out)})
      OBVIOUS
    <2>2. n \in 0..Len(c.out) /\ n <= SocketSpace - Len(w)
      <3>1. SocketSpace - Len(w) \in Int /\ SocketSpace - Len(w) >= 0 /\ Len(c.out) \in Int
        BY <1>2, LimitFacts
      <3>2. n \in {SocketSpace - Len(w), Len(c.out)} /\ n <= SocketSpace - Len(w)
            /\ n <= Len(c.out)
        BY <2>1, <3>1, MinPair
      <3>3. QED BY <1>2, <3>1, <3>2
    <2>3. PICK rest, head : rest = Suffix(c.out, n) /\ head = SubSeq(c.out, 1, n)
      OBVIOUS
    <2>4. /\ rest \in Seq(Nat) /\ head \in Seq(Nat) /\ Len(head) = n
          /\ head \o rest = c.out
      BY <1>2, <2>2, <2>3, PrefixFacts, SuffixFacts, SplitJoin
    <2>5. f = [client |-> [c EXCEPT !.out = rest], wire |-> w \o head,
               error |-> IF Len(rest) > MaxClientOut THEN "backlogged" ELSE "none"]
      BY <1>1, <1>4, <2>1, <2>3, Zenon DEF flush_out, Suffix
    <2>6. /\ f.client = [c EXCEPT !.out = rest] /\ f.wire = w \o head
          /\ f.error \in {"none", "backlogged"}
      BY <2>5
    <2>7. PICK d : d = f.client
      OBVIOUS
    <2>8. d \in ClientType /\ d.out = rest
      BY <2>4, <2>6, <2>7 DEF ClientType
    <2>9. w \o head \in Seq(Nat) /\ Len(w \o head) <= SocketSpace
      <3>1. w \o head \in Seq(Nat) /\ Len(w \o head) = Len(w) + Len(head)
        BY <2>4, ConcatFacts, ZenonT(40)
      <3>2. QED BY <3>1, <1>2, <2>2, <2>4, LimitFacts
    <2>10. (w \o head) \o rest = w \o c.out
      <3>1. \A x, y, z \in Seq(Nat) : (x \o y) \o z = x \o (y \o z)
        BY ConcatAssociates, SMTT(30)
      <3>2. (w \o head) \o rest = w \o (head \o rest)
        BY <3>1, <2>4, Zenon
      <3>3. QED BY <3>2, <2>4
    <2>11. d = [c EXCEPT !.out = d.out]
      BY <2>6, <2>7, <2>8
    <2>12. Flushed(c, w, f)
      BY <2>6, <2>7, <2>8, <2>9, <2>10, <2>11 DEF Flushed
    <2>13. QED BY <1>1, <2>12
  <1>5. QED BY <1>3, <1>4

\* The numbers of the first k deferred parse errors.
DueErrors(c, k) == [i \in 1..k |-> c.deferred[i].n]

\* Client d is c with the first k deferred parse errors in its output: the ones
\* whose turn has come.
Paid(c, d, k) ==
  /\ d \in ClientType /\ DueErrors(c, k) \in Seq(Nat)
  /\ d = [c EXCEPT !.out = c.out \o DueErrors(c, k), !.deferred = Suffix(c.deferred, k)]
  /\ \A i \in 1..k : c.deferred[i].due <= c.answered
  /\ k < Len(c.deferred) => ~(c.deferred[k + 1].due <= c.answered)

\* queue_due_parse_errors pays the longest prefix that is due.
LEMMA DueFacts ==
  ASSUME NEW c \in ClientType
  PROVE  \E k \in 0..Len(c.deferred) : Paid(c, queue_due_parse_errors(c), k)
  <1> DEFINE Due == {i \in 1..Len(c.deferred) : \A j \in 1..i : c.deferred[j].due <= c.answered}
  <1>1. /\ c.deferred \in Seq([due : Nat, n : Nat]) /\ Len(c.deferred) \in Nat
        /\ c.answered \in Nat /\ c.out \in Seq(Nat)
    BY DEF ClientType
  <1>2. \E k \in 0..Len(c.deferred) : Due = 1..k
    <2>1. CASE Due = {}
      <3>1. Due = 1..0
        BY <2>1
      <3>2. 0 \in 0..Len(c.deferred)
        BY <1>1
      <3>3. QED BY <3>1, <3>2
    <2>2. CASE Due # {}
      <3>1. Due \in SUBSET (0..Len(c.deferred))
        BY <1>1
      <3>2. PICK k \in Due : \A y \in Due : y <= k
        BY <1>1, <2>2, <3>1, GreatestNat
      <3>3. ASSUME NEW x \in 1..k PROVE x \in Due
        <4>1. x \in 1..Len(c.deferred) /\ \A j \in 1..x : j \in 1..k
          BY <3>2, <1>1
        <4>2. QED BY <4>1, <3>2
      <3>4. ASSUME NEW x \in Due PROVE x \in 1..k
        BY <3>2, <1>1
      <3>5. k \in 0..Len(c.deferred)
        BY <3>2, <1>1
      <3>6. Due = 1..k
        <4> HIDE DEF Due
        <4> QED BY <3>3, <3>4
      <3>7. QED BY <3>5, <3>6
    <2>3. QED BY <2>1, <2>2
  <1>3. PICK k \in 0..Len(c.deferred) : Due = 1..k
    BY <1>2
  <1>4. Cardinality(Due) = k
    <2>1. Cardinality(1..k) = IF 1 > k THEN 0 ELSE k - 1 + 1
      BY <1>1, FS_Interval
    <2>2. Cardinality(1..k) = k
      BY <1>1, <2>1
    <2> HIDE DEF Due
    <2>3. QED BY <1>3, <2>2
  <1>5. PICK d : d = queue_due_parse_errors(c)
    OBVIOUS
  <1>6. d = [c EXCEPT !.out = c.out \o DueErrors(c, k), !.deferred = Suffix(c.deferred, k)]
    <2>1. PICK due : due = Due
      OBVIOUS
    <2>2. d = [c EXCEPT !.out = @ \o [i \in 1..Cardinality(due) |-> c.deferred[i].n],
                        !.deferred = SubSeq(@, Cardinality(due) + 1, Len(@))]
      BY <1>5, <2>1, Zenon DEF queue_due_parse_errors
    <2>3. Cardinality(due) = k
      BY <2>1, <1>4
    <2>4. QED BY <2>2, <2>3, Zenon DEF DueErrors, Suffix
  <1>7. DueErrors(c, k) \in Seq(Nat)
    <2>1. \A i \in 1..k : c.deferred[i].n \in Nat
      <3>1. \A i \in 1..k : i \in 1..Len(c.deferred)
        BY <1>1
      <3>2. \A i \in 1..Len(c.deferred) : c.deferred[i] \in [due : Nat, n : Nat]
        BY <1>1, ElementFacts
      <3>3. QED BY <3>1, <3>2
    <2>2. k \in Nat
      BY <1>1
    <2>3. QED BY <2>1, <2>2 DEF DueErrors
  <1>8. d \in ClientType
    <2>1. PICK o, e : o = c.out \o DueErrors(c, k) /\ e = Suffix(c.deferred, k)
      OBVIOUS
    <2>2. o \in Seq(Nat)
      BY <2>1, <1>1, <1>7, ConcatFacts
    <2>3. e \in Seq([due : Nat, n : Nat])
      BY <2>1, <1>1, SuffixFacts
    <2>4. d = [c EXCEPT !.out = o, !.deferred = e]
      BY <1>6, <2>1
    <2>5. QED BY <2>2, <2>3, <2>4 DEF ClientType
  <1>9. \A i \in 1..k : c.deferred[i].due <= c.answered
    <2>1. ASSUME NEW i \in 1..k PROVE c.deferred[i].due <= c.answered
      <3>1. i \in Due /\ i \in 1..i
        BY <1>1, <1>3, SMTT(30)
      <3>2. \A x \in Due : \A j \in 1..x : c.deferred[j].due <= c.answered
        OBVIOUS
      <3> HIDE DEF Due
      <3>3. QED BY <3>1, <3>2
    <2>2. QED BY <2>1
  <1>10. ASSUME k < Len(c.deferred), c.deferred[k + 1].due <= c.answered PROVE FALSE
    <2>1. k + 1 \in 1..Len(c.deferred) /\ k + 1 \notin 1..k
      BY <1>1, <1>10
    <2>2. \A j \in 1..(k + 1) : j \in 1..k \/ j = k + 1
      BY <1>1
    <2>3. k + 1 \in Due
      BY <1>9, <1>10, <2>1, <2>2
    <2> HIDE DEF Due
    <2>4. QED BY <1>3, <2>1, <2>3
  <1> HIDE DEF Due
  <1>11. Paid(c, d, k)
    <2>1. k < Len(c.deferred) => ~(c.deferred[k + 1].due <= c.answered)
      BY <1>10
    <2>2. QED BY <1>6, <1>7, <1>8, <1>9, <2>1, Zenon DEF Paid
  <1>12. QED BY <1>5, <1>11

\* The reply bookkeeping of a client is untouched.
SameReplies(c, d) ==
  /\ d.answered = c.answered /\ d.delivered = c.delivered
  /\ d.deferred = c.deferred /\ d.out = c.out

\* The interest in the readiness hub is the one the buffers call for.
Synced(c) ==
  /\ c.writable = (c.out # <<>>)
  /\ c.readable = ~(c.read_closed /\ c.out # <<>>)

\* Changing a client's epoll interest touches neither its input nor its
\* replies.
LEMMA SyncFacts ==
  ASSUME NEW c \in ClientType
  PROVE  /\ SameInput(c, sync_client_interest(c)) /\ SameReplies(c, sync_client_interest(c))
         /\ Synced(sync_client_interest(c))
  <1>1. PICK d : d = sync_client_interest(c)
    OBVIOUS
  <1>2. PICK w, r : w = (c.out # <<>>) /\ r = ~(c.read_closed /\ c.out # <<>>)
    OBVIOUS
  <1>3. w \in BOOLEAN /\ r \in BOOLEAN
    BY <1>2
  <1>4. d = [c EXCEPT !.writable = w, !.readable = r]
    BY <1>1, <1>2, Zenon DEF sync_client_interest, has_pending_output
  <1>5. /\ d \in ClientType /\ d.writable = w /\ d.readable = r
        /\ d.buf = c.buf /\ d.scan = c.scan /\ d.read_closed = c.read_closed
        /\ SameReplies(c, d)
    BY <1>3, <1>4 DEF ClientType, SameReplies
  <1>6. SameInput(c, d)
    BY <1>5 DEF SameInput
  <1>7. Synced(d)
    BY <1>2, <1>5 DEF Synced, SameReplies
  <1>8. QED BY <1>1, <1>5, <1>6, <1>7

\* A flush leaves everything but the output alone.
LEMMA FlushKeeps ==
  ASSUME NEW c \in ClientType, NEW w, NEW f, Flushed(c, w, f)
  PROVE  /\ SameInput(c, f.client)
         /\ f.client.answered = c.answered /\ f.client.delivered = c.delivered
         /\ f.client.deferred = c.deferred
  <1>1. PICK d : d = f.client
    OBVIOUS
  <1>2. d \in ClientType /\ d = [c EXCEPT !.out = d.out]
    BY <1>1 DEF Flushed
  <1>3. QED BY <1>1, <1>2 DEF ClientType, SameInput

\* The caller's reply, and the parse errors that waited for it, follow all that
\* was said before.
Replied(c, n, w, s, k) ==
  /\ SameInput(c, s.client) /\ s.wire \in Seq(Nat) /\ Len(s.wire) <= SocketSpace
  /\ s.error \in {"none", "failed", "backlogged"}
  /\ s.client.delivered = c.delivered
  /\ s.client.answered = Min({c.answered + 1, c.delivered})
  /\ s.client.deferred = Suffix(c.deferred, k)
  /\ DueErrors(c, k) \in Seq(Nat)
  /\ s.wire \o s.client.out = (Append(w \o c.out, n)) \o DueErrors(c, k)
  /\ \A i \in 1..k : c.deferred[i].due <= s.client.answered
  /\ k < Len(c.deferred) => ~(c.deferred[k + 1].due <= s.client.answered)

\* Appending to the second of two sequences appends to both.
LEMMA AppendJoins ==
  ASSUME NEW T, NEW s \in Seq(T), NEW t \in Seq(T), NEW x \in T
  PROVE  s \o Append(t, x) = Append(s \o t, x)
  <1>1. Append(t, x) \in Seq(T) /\ s \o t \in Seq(T) /\ Append(s \o t, x) \in Seq(T)
    OBVIOUS
  <1>2. Len(s \o Append(t, x)) = Len(Append(s \o t, x))
    OBVIOUS
  <1>3. s \o Append(t, x) \in Seq(T)
    BY <1>1, ConcatFacts
  <1>4. ASSUME NEW i \in 1..Len(s \o Append(t, x))
        PROVE  (s \o Append(t, x))[i] = Append(s \o t, x)[i]
    OBVIOUS
  <1>5. QED BY <1>1, <1>2, <1>3, <1>4, SeqsEqual

\* send_response puts the reply behind the output, then the deferred errors
\* that are due.
LEMMA RespondFacts ==
  ASSUME NEW c \in ClientType, NEW n \in Nat, NEW w \in Seq(Nat), Len(w) <= SocketSpace,
         NEW gone \in BOOLEAN
  PROVE  \E k \in 0..Len(c.deferred) : Replied(c, n, w, send_response(c, n, w, gone), k)
  <1>1. PICK a : a = Min({c.answered + 1, c.delivered})
    OBVIOUS
  <1>2. a \in Nat
    <2>1. c.answered \in Nat /\ c.delivered \in Nat
      BY DEF ClientType
    <2>2. PICK x, y : x = c.answered + 1 /\ y = c.delivered
      OBVIOUS
    <2>3. x \in Int /\ y \in Int /\ x \in Nat /\ y \in Nat
      BY <2>1, <2>2
    <2>4. Min({x, y}) \in {x, y}
      BY <2>3, MinPair
    <2>5. QED BY <1>1, <2>2, <2>3, <2>4
  <1>3. PICK q : q = [c EXCEPT !.answered = a, !.out = Append(c.out, n)]
    OBVIOUS
  <1>4. q = queue([c EXCEPT !.answered = Min({@ + 1, c.delivered})], n)
    BY <1>1, <1>3 DEF queue, ClientType
  <1>5. /\ q \in ClientType /\ q.answered = a /\ q.delivered = c.delivered
        /\ q.deferred = c.deferred /\ q.out = Append(c.out, n)
        /\ q.buf = c.buf /\ q.scan = c.scan /\ q.read_closed = c.read_closed
    <2>1. c.out \in Seq(Nat)
      BY DEF ClientType
    <2>2. PICK x : x = Append(c.out, n)
      OBVIOUS
    <2>3. x \in Seq(Nat)
      BY <2>1, <2>2
    <2>4. q = [c EXCEPT !.answered = a, !.out = x]
      BY <1>3, <2>2
    <2>5. QED BY <1>2, <2>2, <2>3, <2>4 DEF ClientType
  <1>6. PICK d : d = queue_due_parse_errors(q)
    OBVIOUS
  <1>7. PICK k \in 0..Len(q.deferred) : Paid(q, d, k)
    BY <1>5, <1>6, DueFacts
  <1>8. DueErrors(q, k) = DueErrors(c, k)
    BY <1>5 DEF DueErrors
  <1>9. PICK o, e : o = q.out \o DueErrors(c, k) /\ e = Suffix(c.deferred, k)
    OBVIOUS
  <1>10. d \in ClientType /\ d = [q EXCEPT !.out = o, !.deferred = e]
         /\ DueErrors(c, k) \in Seq(Nat)
    BY <1>5, <1>7, <1>8, <1>9 DEF Paid
  <1>11. /\ d.answered = a /\ d.delivered = c.delivered /\ d.deferred = e /\ d.out = o
         /\ d.buf = c.buf /\ d.scan = c.scan /\ d.read_closed = c.read_closed
    BY <1>5, <1>10 DEF ClientType
  <1>12. PICK s : s = flush_out(d, w, gone)
    OBVIOUS
  <1>13. Flushed(d, w, s)
    BY <1>10, <1>12, FlushFacts
  <1>14. /\ SameInput(d, s.client) /\ s.client.answered = a
         /\ s.client.delivered = c.delivered /\ s.client.deferred = e
    <2>1. /\ SameInput(d, s.client) /\ s.client.answered = d.answered
          /\ s.client.delivered = d.delivered /\ s.client.deferred = d.deferred
      <3>1. d \in ClientType
        BY <1>10
      <3>2. QED BY <3>1, <1>13, FlushKeeps, SMT
    <2>2. QED BY <2>1, <1>11
  <1>15. s.wire \o s.client.out = (Append(w \o c.out, n)) \o DueErrors(c, k)
    <2>1. s.wire \o s.client.out = w \o (Append(c.out, n) \o DueErrors(c, k))
      BY <1>5, <1>9, <1>11, <1>13 DEF Flushed
    <2>2. c.out \in Seq(Nat) /\ Append(c.out, n) \in Seq(Nat)
      BY DEF ClientType
    <2>3. \A x, y, z \in Seq(Nat) : (x \o y) \o z = x \o (y \o z)
      BY ConcatAssociates, SMTT(30)
    <2>4. (w \o Append(c.out, n)) \o DueErrors(c, k)
            = w \o (Append(c.out, n) \o DueErrors(c, k))
      BY <2>2, <2>3, <1>10, Zenon
    <2>5. w \o Append(c.out, n) = Append(w \o c.out, n)
      BY <2>2, AppendJoins
    <2>6. QED BY <2>1, <2>4, <2>5
  <1>16. /\ \A i \in 1..k : c.deferred[i].due <= a
         /\ k < Len(c.deferred) => ~(c.deferred[k + 1].due <= a)
    BY <1>5, <1>7 DEF Paid
  <1>17. SameInput(c, s.client)
    BY <1>11, <1>14 DEF SameInput
  <1>18. k \in 0..Len(c.deferred)
    BY <1>5
  <1>19. Replied(c, n, w, s, k)
    BY <1>1, <1>9, <1>10, <1>13, <1>14, <1>15, <1>16, <1>17, ZenonT(40) DEF Replied, Flushed
  <1>20. s = send_response(c, n, w, gone)
    BY <1>4, <1>6, <1>12, Zenon DEF send_response
  <1>21. QED BY <1>18, <1>19, <1>20

\* A parse error is said now, or stored with the number of frames to wait for.
Rejected(c, n, w, r) ==
  /\ SameInput(c, r.client) /\ r.wire \in Seq(Nat) /\ Len(r.wire) <= SocketSpace
  /\ r.client.answered = c.answered /\ r.client.delivered = c.delivered
  /\ c.answered = c.delivered /\ c.deferred = <<>> =>
       /\ r.client.deferred = c.deferred
       /\ r.wire \o r.client.out = Append(w \o c.out, n)
  /\ ~(c.answered = c.delivered /\ c.deferred = <<>>) =>
       /\ r.client.deferred = Append(c.deferred, [due |-> c.delivered, n |-> n])
       /\ r.wire \o r.client.out = w \o c.out

\* Queueing a line changes the output only.
LEMMA QueueFacts ==
  ASSUME NEW c \in ClientType, NEW n \in Nat
  PROVE  /\ SameInput(c, queue(c, n))
         /\ queue(c, n).answered = c.answered /\ queue(c, n).delivered = c.delivered
         /\ queue(c, n).deferred = c.deferred /\ queue(c, n).out = Append(c.out, n)
  <1>1. PICK d, o : d = queue(c, n) /\ o = Append(c.out, n)
    OBVIOUS
  <1>2. c.out \in Seq(Nat)
    BY DEF ClientType
  <1>3. o \in Seq(Nat)
    BY <1>1, <1>2
  <1>4. d = [c EXCEPT !.out = o]
    BY <1>1 DEF queue
  <1>5. /\ SameInput(c, d) /\ d.answered = c.answered /\ d.delivered = c.delivered
        /\ d.deferred = c.deferred /\ d.out = o
    BY <1>3, <1>4 DEF ClientType, SameInput
  <1>6. QED BY <1>1, <1>5

\* One message follows all that was said before.
Said(c, n, w, f) ==
  /\ SameInput(c, f.client) /\ f.wire \in Seq(Nat) /\ Len(f.wire) <= SocketSpace
  /\ f.error \in {"none", "failed", "backlogged"}
  /\ f.client.answered = c.answered /\ f.client.delivered = c.delivered
  /\ f.client.deferred = c.deferred
  /\ f.wire \o f.client.out = Append(w \o c.out, n)

\* Queueing and flushing a line puts it behind everything said before.
LEMMA QueueFlushFacts ==
  ASSUME NEW c \in ClientType, NEW n \in Nat, NEW w \in Seq(Nat), Len(w) <= SocketSpace,
         NEW gone \in BOOLEAN
  PROVE  Said(c, n, w, flush_out(queue(c, n), w, gone))
  <1>0. PICK f : f = flush_out(queue(c, n), w, gone)
    OBVIOUS
  <1>1. PICK q : q = queue(c, n)
    OBVIOUS
  <1>2. /\ SameInput(c, q) /\ q.answered = c.answered /\ q.delivered = c.delivered
        /\ q.deferred = c.deferred /\ q.out = Append(c.out, n) /\ q \in ClientType
    BY <1>1, QueueFacts DEF SameInput
  <1>3. Flushed(q, w, f)
    BY <1>0, <1>1, <1>2, FlushFacts
  <1>4. /\ SameInput(q, f.client) /\ f.client.answered = q.answered
        /\ f.client.delivered = q.delivered /\ f.client.deferred = q.deferred
    BY <1>2, <1>3, FlushKeeps
  <1>5. SameInput(c, f.client)
    BY <1>2, <1>4 DEF SameInput
  <1>6. f.wire \o f.client.out = w \o Append(c.out, n)
    BY <1>2, <1>3 DEF Flushed
  <1>7. w \o Append(c.out, n) = Append(w \o c.out, n)
    <2>1. c.out \in Seq(Nat)
      BY DEF ClientType
    <2>2. QED BY <2>1, AppendJoins, SMT
  <1>8. Said(c, n, w, f)
    BY <1>2, <1>3, <1>4, <1>5, <1>6, <1>7 DEF Flushed, Said
  <1>9. QED BY <1>0, <1>8

\* reject_frame says the error at once when no reply is outstanding, and defers
\* it behind them otherwise.
LEMMA RejectFacts ==
  ASSUME NEW c \in ClientType, NEW n \in Nat, NEW w \in Seq(Nat), Len(w) <= SocketSpace,
         NEW gone \in BOOLEAN
  PROVE  Rejected(c, n, w, reject_frame(c, n, w, gone))
  <1>1. PICK r : r = reject_frame(c, n, w, gone)
    OBVIOUS
  <1>2. CASE c.answered = c.delivered /\ c.deferred = <<>>
    <2>1. r = flush_out(queue(c, n), w, gone)
      BY <1>1, <1>2, Zenon DEF reject_frame
    <2>2. /\ SameInput(c, r.client) /\ r.wire \in Seq(Nat) /\ Len(r.wire) <= SocketSpace
          /\ r.client.answered = c.answered /\ r.client.delivered = c.delivered
          /\ r.client.deferred = c.deferred
          /\ r.wire \o r.client.out = Append(w \o c.out, n)
      <3>1. Said(c, n, w, flush_out(queue(c, n), w, gone))
        BY QueueFlushFacts
      <3>2. Said(c, n, w, r)
        BY <2>1, <3>1
      <3>3. QED BY <3>2 DEF Said
    <2>3. Rejected(c, n, w, r)
      BY <1>2, <2>2, Zenon DEF Rejected
    <2>4. QED BY <1>1, <2>3
  <1>3. CASE ~(c.answered = c.delivered /\ c.deferred = <<>>)
    <2>1. PICK e : e = Append(c.deferred, [due |-> c.delivered, n |-> n])
      OBVIOUS
    <2>2. e \in Seq([due : Nat, n : Nat])
      <3>1. c.deferred \in Seq([due : Nat, n : Nat])
            /\ [due |-> c.delivered, n |-> n] \in [due : Nat, n : Nat]
        BY DEF ClientType
      <3>2. QED BY <2>1, <3>1
    <2>3. r = [client |-> [c EXCEPT !.deferred = e], wire |-> w, error |-> "none"]
      BY <1>1, <1>3, <2>1, Zenon DEF reject_frame
    <2>4. r.client = [c EXCEPT !.deferred = e] /\ r.wire = w
      BY <2>3
    <2>5. PICK d : d = r.client
      OBVIOUS
    <2>6. /\ SameInput(c, d) /\ d.answered = c.answered /\ d.delivered = c.delivered
          /\ d.deferred = e /\ d.out = c.out
      BY <2>2, <2>4, <2>5 DEF ClientType, SameInput
    <2>7. Rejected(c, n, w, r)
      BY <1>3, <2>1, <2>4, <2>5, <2>6 DEF Rejected
    <2>8. QED BY <1>1, <2>7
  <1>4. QED BY <1>2, <1>3

\* release_abandoned_replies touches only what waits for a reply.
LEMMA ReleaseFacts ==
  ASSUME NEW c \in ClientType, c.answered <= c.delivered
  PROVE  LET d == release_abandoned_replies(c)
         IN  /\ SameInput(c, d) /\ d.delivered = c.delivered /\ d.answered <= d.delivered
             /\ c.deferred = <<>> => d = c
  <1>1. PICK d : d = release_abandoned_replies(c)
    OBVIOUS
  <1>2. CASE c.deferred = <<>>
    <2>1. d = c
      BY <1>1, <1>2 DEF release_abandoned_replies
    <2>2. QED BY <1>1, <2>1 DEF SameInput
  <1>3. CASE c.deferred # <<>>
    <2>1. PICK q : q = [c EXCEPT !.answered = c.delivered]
      OBVIOUS
    <2>2. /\ SameInput(c, q) /\ q.answered = c.delivered /\ q.delivered = c.delivered
          /\ c.delivered \in Nat
      BY <2>1 DEF ClientType, SameInput
    <2>3. d = queue_due_parse_errors(q)
      BY <1>1, <1>3, <2>1, Zenon DEF release_abandoned_replies
    <2>4. q \in ClientType
      BY <2>2 DEF SameInput
    <2>5. PICK k \in 0..Len(q.deferred) : Paid(q, d, k)
      BY <2>3, <2>4, DueFacts
    <2>6. PICK o, e : d = [q EXCEPT !.out = o, !.deferred = e]
      BY <2>5 DEF Paid
    <2>7. d \in ClientType
      BY <2>5 DEF Paid
    <2>8. SameInput(q, d) /\ d.answered = q.answered /\ d.delivered = q.delivered
      BY <2>4, <2>6, <2>7 DEF ClientType, SameInput
    <2>9. SameInput(c, d)
      BY <2>2, <2>8 DEF SameInput
    <2>10. QED BY <1>1, <1>3, <2>2, <2>8, <2>9
  <1>4. QED BY <1>2, <1>3

\* The replies among the messages q are those of frames 1 to k, in order.
Ordered(q, k) ==
  /\ {q[i] : i \in DOMAIN q} \ {Event} = 1..k
  /\ \A i, j \in DOMAIN q : i < j /\ Event \notin {q[i], q[j]} => q[i] < q[j]

\* Ordered replies up to k are k replies.
LEMMA OrderedCount ==
  ASSUME NEW q, NEW k \in Nat, Ordered(q, k)
  PROVE  Cardinality({q[i] : i \in DOMAIN q} \ {Event}) = k
  <1>1. {q[i] : i \in DOMAIN q} \ {Event} = 1..k
    BY DEF Ordered
  <1>2. Cardinality(1..k) = IF 1 > k THEN 0 ELSE k - 1 + 1
    BY FS_Interval
  <1>3. Cardinality(1..k) = k
    BY <1>2
  <1>4. QED BY <1>1, <1>3

\* The replies to the next frames go to the end.
LEMMA OrderedRun ==
  ASSUME NEW q \in Seq(Nat), NEW k \in Nat, Ordered(q, k), NEW s \in Seq(Nat),
         \A i \in 1..Len(s) : s[i] = k + i
  PROVE  Ordered(q \o s, k + Len(s))
  <1>1. PICK z : z = q \o s
    OBVIOUS
  <1>2. PICK a, b : a = Len(q) /\ b = Len(s)
    OBVIOUS
  <1>3. a \in Nat /\ b \in Nat /\ DOMAIN q = 1..a /\ DOMAIN s = 1..b
    BY <1>2
  <1>4. /\ DOMAIN z = 1..(a + b)
        /\ \A i \in 1..a : z[i] = q[i]
        /\ \A i \in (a + 1)..(a + b) : z[i] = s[i - a]
    BY <1>1, <1>2, ConcatFacts
  <1>5. \A i \in 1..a : q[i] \in Nat /\ (q[i] # Event => q[i] \in 1..k)
    BY <1>2, <1>3 DEF Ordered
  <1>6. \A i \in (a + 1)..(a + b) : z[i] = k + (i - a)
    <2>1. \A i \in (a + 1)..(a + b) : i - a \in 1..b
      BY <1>3
    <2>2. QED BY <2>1, <1>2, <1>4
  <1>7. \A i \in DOMAIN z : i \in 1..a \/ i \in (a + 1)..(a + b)
    BY <1>3, <1>4
  <1>8. ASSUME NEW x \in {z[i] : i \in DOMAIN z} \ {Event} PROVE x \in 1..(k + b)
    <2>1. PICK i \in DOMAIN z : x = z[i]
      OBVIOUS
    <2>2. CASE i \in 1..a
      <3>1. x = q[i]
        BY <2>1, <2>2, <1>4
      <3>2. x \in 1..k
        BY <3>1, <2>2, <1>5
      <3>3. QED BY <3>2, <1>3
    <2>3. CASE i \in (a + 1)..(a + b)
      BY <2>1, <2>3, <1>3, <1>6
    <2>4. QED BY <2>2, <2>3, <1>7
  <1>9. ASSUME NEW x \in 1..(k + b) PROVE x \in {z[i] : i \in DOMAIN z} \ {Event}
    <2>1. x # Event
      BY DEF Event
    <2>2. CASE x \in 1..k
      <3>1. PICK i \in 1..a : x = q[i]
        BY <2>2, <1>3 DEF Ordered
      <3>2. i \in DOMAIN z /\ z[i] = x
        BY <3>1, <1>3, <1>4
      <3>3. QED BY <2>1, <3>2
    <2>3. CASE x > k
      <3>1. a + (x - k) \in (a + 1)..(a + b)
        BY <2>3, <1>3
      <3>2. z[a + (x - k)] = x
        <4>1. z[a + (x - k)] = k + ((a + (x - k)) - a)
          BY <3>1, <1>6
        <4>2. QED BY <4>1, <1>3
      <3>3. a + (x - k) \in DOMAIN z
        BY <3>1, <1>3, <1>4
      <3>4. QED BY <2>1, <3>2, <3>3
    <2>4. QED BY <2>2, <2>3
  <1>10. {z[i] : i \in DOMAIN z} \ {Event} = 1..(k + b)
    BY <1>8, <1>9
  <1>11. ASSUME NEW i \in DOMAIN z, NEW j \in DOMAIN z, i < j, z[i] # Event, z[j] # Event
         PROVE  z[i] < z[j]
    <2>1. CASE i \in 1..a /\ j \in 1..a
      <3>1. z[i] = q[i] /\ z[j] = q[j] /\ i \in DOMAIN q /\ j \in DOMAIN q
        BY <2>1, <1>3, <1>4
      <3>2. QED BY <3>1, <1>11 DEF Ordered
    <2>2. CASE i \in 1..a /\ j \in (a + 1)..(a + b)
      <3>1. z[i] = q[i] /\ z[j] = k + (j - a)
        BY <2>2, <1>4, <1>6
      <3>2. z[i] \in 1..k
        BY <2>2, <3>1, <1>5, <1>11
      <3>3. QED BY <2>2, <3>1, <3>2, <1>3
    <2>3. CASE i \in (a + 1)..(a + b) /\ j \in (a + 1)..(a + b)
      <3>1. z[i] = k + (i - a) /\ z[j] = k + (j - a)
        BY <2>3, <1>6
      <3>2. QED BY <2>3, <3>1, <1>3, <1>11
    <2>4. ~(i \in (a + 1)..(a + b) /\ j \in 1..a)
      BY <1>3, <1>11
    <2>5. QED BY <2>1, <2>2, <2>3, <2>4, <1>7
  <1>12. Ordered(z, k + b)
    BY <1>10, <1>11 DEF Ordered
  <1>13. QED BY <1>1, <1>2, <1>12

\* The reply to the next frame keeps the order.
LEMMA OrderedNext ==
  ASSUME NEW q \in Seq(Nat), NEW k \in Nat, Ordered(q, k)
  PROVE  Ordered(Append(q, k + 1), k + 1)
  <1>1. PICK s : s = <<k + 1>>
    OBVIOUS
  <1>2. s \in Seq(Nat) /\ Len(s) = 1 /\ \A i \in 1..Len(s) : s[i] = k + i
    BY <1>1
  <1>3. Ordered(q \o s, k + 1)
    BY <1>2, OrderedRun
  <1>4. q \o s = Append(q, k + 1)
    BY <1>1
  <1>5. QED BY <1>3, <1>4

\* An event between the replies changes nothing.
LEMMA OrderedEvent ==
  ASSUME NEW q \in Seq(Nat), NEW k \in Nat, Ordered(q, k)
  PROVE  Ordered(Append(q, Event), k)
  <1>1. PICK z, a : z = Append(q, Event) /\ a = Len(q)
    OBVIOUS
  <1>2. /\ a \in Nat /\ DOMAIN q = 1..a /\ DOMAIN z = 1..(a + 1)
        /\ z[a + 1] = Event /\ \A i \in 1..a : z[i] = q[i]
    BY <1>1
  <1>3. \A i \in DOMAIN z : i \in DOMAIN q \/ z[i] = Event
    BY <1>2
  <1>4. \A i \in DOMAIN q : i \in DOMAIN z /\ z[i] = q[i]
    BY <1>2
  <1>5. {z[i] : i \in DOMAIN z} \ {Event} = {q[i] : i \in DOMAIN q} \ {Event}
    BY <1>3, <1>4
  <1>6. \A i, j \in DOMAIN z : i < j /\ Event \notin {z[i], z[j]} => z[i] < z[j]
    BY <1>3, <1>4 DEF Ordered
  <1>7. Ordered(z, k)
    BY <1>5, <1>6 DEF Ordered
  <1>8. QED BY <1>1, <1>7

-----------------------------------------------------------------------------
(* What the peer writes *)

\* The input s: no line is longer than "longest", and the last, unfinished one
\* is no longer than "run".
LineLengths(s, longest, run) ==
  /\ \A i, j \in 1..Len(s) : i <= j /\ Plain(s, i, j) => j - i + 1 <= longest
  /\ \A i \in 1..Len(s) : Plain(s, i, Len(s)) => Len(s) - i + 1 <= run

\* Reading input makes no line of it longer.
LEMMA LengthsOfSuffix ==
  ASSUME NEW s \in Seq(Token), NEW k \in 0..Len(s), NEW l \in Nat, NEW r \in Nat,
         LineLengths(s, l, r)
  PROVE  LineLengths(Suffix(s, k), l, r)
  <1>1. PICK t, a, b : t = Suffix(s, k) /\ a = Len(s) /\ b = Len(t)
    OBVIOUS
  <1>2. a \in Nat /\ k \in Nat /\ b = a - k /\ b \in Nat
    <2>1. Len(Suffix(s, k)) = Len(s) - k
      BY SuffixFacts
    <2>2. a \in Nat /\ k \in 0..a
      BY <1>1
    <2>3. QED BY <1>1, <2>1, <2>2
  <1>3. \A i \in 1..b : t[i] = s[k + i] /\ k + i \in 1..a
    <2>1. \A i \in 1..(Len(s) - k) : Suffix(s, k)[i] = s[k + i]
      BY SuffixFacts
    <2>2. QED BY <1>1, <1>2, <2>1
  <1>4. ASSUME NEW i \in 1..b, NEW j \in 1..b, i <= j, Plain(t, i, j)
        PROVE  Plain(s, k + i, k + j)
    <2>1. ASSUME NEW x \in (k + i)..(k + j) PROVE s[x] # Newline
      <3>1. x - k \in i..j /\ x - k \in 1..b /\ k + (x - k) = x
        BY <1>2
      <3>2. t[x - k] = s[x] /\ t[x - k] # Newline
        BY <3>1, <1>3, <1>4 DEF Plain
      <3>3. QED BY <3>2
    <2>2. QED BY <2>1 DEF Plain
  <1>5. ASSUME NEW i \in 1..b, NEW j \in 1..b, i <= j, Plain(t, i, j)
        PROVE  j - i + 1 <= l
    <2>1. Plain(s, k + i, k + j) /\ k + i \in 1..Len(s) /\ k + j \in 1..Len(s)
      BY <1>1, <1>3, <1>4, <1>5
    <2>2. k + i <= k + j
      BY <1>2, <1>5
    <2>3. (k + j) - (k + i) + 1 <= l
      BY <2>1, <2>2 DEF LineLengths
    <2>4. QED BY <2>3, <1>2
  <1>6. ASSUME NEW i \in 1..b, Plain(t, i, b) PROVE b - i + 1 <= r
    <2>1. b \in 1..b /\ i <= b /\ k + b = a
      BY <1>2
    <2>2. Plain(s, k + i, a) /\ k + i \in 1..a
      BY <2>1, <1>3, <1>4, <1>6
    <2>3. a - (k + i) + 1 <= r
      BY <2>2, <1>1 DEF LineLengths
    <2>4. QED BY <2>3, <1>2
  <1>7. LineLengths(t, l, r)
    BY <1>1, <1>5, <1>6 DEF LineLengths
  <1>8. QED BY <1>1, <1>7

\* Writing a token makes no line longer than the peer's longest.
LEMMA LengthsOfAppend ==
  ASSUME NEW s \in Seq(Token), NEW x \in Token, NEW l \in Nat, NEW r \in Nat,
         LineLengths(s, l, r), NEW l2 \in Nat, NEW r2 \in Nat, l <= l2,
         x # Newline => r2 = r + 1 /\ r2 <= l2
  PROVE  LineLengths(Append(s, x), l2, r2)
  <1>1. PICK t, a : t = Append(s, x) /\ a = Len(s)
    OBVIOUS
  <1>2. a \in Nat /\ Len(t) = a + 1 /\ t[a + 1] = x /\ \A i \in 1..a : t[i] = s[i]
    BY <1>1
  <1>3. ASSUME NEW i \in 1..(a + 1), NEW j \in 1..a, Plain(t, i, j)
        PROVE  Plain(s, i, j)
    BY <1>2, <1>3 DEF Plain
  <1>4. ASSUME NEW i \in 1..(a + 1), Plain(t, i, a + 1)
        PROVE  (a + 1) - i + 1 <= r2 /\ r2 <= l2
    <2>1. x # Newline
      <3>1. a + 1 \in i..(a + 1)
        BY <1>2
      <3>2. QED BY <3>1, <1>2, <1>4 DEF Plain
    <2>2. CASE i = a + 1
      BY <2>1, <2>2, <1>2
    <2>3. CASE i \in 1..a
      <3>1. \A y \in i..a : y \in i..(a + 1)
        BY <1>2, <2>3
      <3>2. Plain(t, i, a)
        BY <3>1, <1>4 DEF Plain
      <3>3. Plain(s, i, a)
        BY <3>2, <2>3, <1>2, <1>3
      <3>4. a - i + 1 <= r
        BY <3>3, <2>3, <1>1 DEF LineLengths
      <3>5. QED BY <2>1, <2>3, <3>4, <1>2
    <2>4. QED BY <2>2, <2>3, <1>2
  <1>5. ASSUME NEW i \in 1..(a + 1), NEW j \in 1..(a + 1), i <= j, Plain(t, i, j)
        PROVE  j - i + 1 <= l2
    <2>1. CASE j = a + 1
      <3>1. Plain(t, i, a + 1)
        BY <2>1, <1>5
      <3>2. (a + 1) - i + 1 <= r2 /\ r2 <= l2
        BY <3>1, <1>4
      <3>3. QED BY <3>2, <2>1, <1>2
    <2>2. CASE j \in 1..a
      <3>1. i \in 1..a /\ Plain(s, i, j)
        BY <2>2, <1>2, <1>3, <1>5
      <3>2. j - i + 1 <= l
        BY <3>1, <2>2, <1>1, <1>5 DEF LineLengths
      <3>3. QED BY <3>1, <3>2, <2>2, <1>2
    <2>3. QED BY <2>1, <2>2, <1>2
  <1>6. LineLengths(t, l2, r2)
    BY <1>2, <1>4, <1>5 DEF LineLengths
  <1>7. QED BY <1>1, <1>6

\* A new frame begins where the last line has ended.
LEMMA NumberedBegin ==
  ASSUME NEW s \in Seq(Token), NEW b \in Nat, NEW m \in Nat, b <= m, Numbered(s, b, m),
         ~Unfinished(s), NEW x \in Frame, x.n = m + 1
  PROVE  Numbered(Append(s, x), b, m + 1)
  <1>1. PICK t, a : t = Append(s, x) /\ a = Len(s)
    OBVIOUS
  <1>2. /\ a \in Nat /\ DOMAIN s = 1..a /\ DOMAIN t = 1..(a + 1)
        /\ t[a + 1] = x /\ \A i \in 1..a : t[i] = s[i]
    BY <1>1
  <1>3. x # Newline /\ Newline.n = 0
    BY DEF Newline
  <1>4. \A i \in 1..a : s[i].n \in Nat /\ (s[i].n # 0 => s[i].n \in (b + 1)..m)
    <2>1. \A i \in 1..a : s[i] \in Token
      BY <1>1
    <2>2. \A i \in 1..a : s[i].n \in Nat
      BY <2>1, TokenFacts
    <2>3. QED BY <2>2, <1>2, <1>3 DEF Numbered
  <1>5. {t[i].n : i \in DOMAIN t} \ {Newline.n} = (b + 1)..(m + 1)
    <2>1. ASSUME NEW i \in 1..(a + 1), t[i].n # 0 PROVE t[i].n \in (b + 1)..(m + 1)
      <3>1. CASE i = a + 1
        BY <3>1, <1>2
      <3>2. CASE i \in 1..a
        <4>1. t[i] = s[i] /\ s[i].n \in (b + 1)..m
          BY <3>2, <2>1, <1>2, <1>4
        <4>2. QED BY <4>1
      <3>3. QED BY <3>1, <3>2, <1>2
    <2>2. ASSUME NEW y \in (b + 1)..(m + 1) PROVE \E i \in 1..(a + 1) : y = t[i].n
      <3>1. CASE y = m + 1
        BY <3>1, <1>2
      <3>2. CASE y \in (b + 1)..m
        <4>0. {s[i].n : i \in 1..a} \ {Newline.n} = (b + 1)..m
          BY <1>2 DEF Numbered
        <4>1. PICK i \in 1..a : y = s[i].n
          BY <3>2, <4>0, Zenon
        <4>2. i \in 1..(a + 1) /\ t[i].n = y
          BY <4>1, <1>2
        <4>3. QED BY <4>2
      <3>3. QED BY <3>1, <3>2
    <2>3. \A y \in (b + 1)..(m + 1) : y # 0
      OBVIOUS
    <2>4. QED BY <2>1, <2>2, <2>3, <1>2, <1>3, SMTT(30)
  <1>6. \A i \in DOMAIN t : t[i] # Newline => t[i].n > 0
    <2>1. ASSUME NEW i \in 1..(a + 1), t[i] # Newline PROVE t[i].n > 0
      <3>1. CASE i = a + 1
        BY <3>1, <1>2
      <3>2. CASE i \in 1..a
        BY <3>2, <2>1, <1>2 DEF Numbered
      <3>3. QED BY <3>1, <3>2, <1>2
    <2>2. QED BY <2>1, <1>2
  <1>7. ASSUME NEW i \in 1..(a + 1), NEW j \in 1..(a + 1), i < j, t[i] # Newline, t[j] # Newline
        PROVE  t[i].n <= t[j].n /\ (t[i].n = t[j].n <=> Plain(t, i, j))
    <2>1. CASE j \in 1..a
      <3>1. i \in 1..a /\ t[i] = s[i] /\ t[j] = s[j]
        BY <2>1, <1>2, <1>7
      <3>2. s[i].n <= s[j].n /\ (s[i].n = s[j].n <=> Plain(s, i, j))
        BY <2>1, <3>1, <1>2, <1>7 DEF Numbered
      <3>3. \A k \in i..j : k \in 1..a /\ t[k] = s[k]
        BY <2>1, <3>1, <1>2
      <3>4. Plain(t, i, j) <=> Plain(s, i, j)
        BY <3>3 DEF Plain
      <3>5. QED BY <3>1, <3>2, <3>4
    <2>2. CASE j = a + 1
      <3>1. i \in 1..a /\ t[i] = s[i]
        BY <2>2, <1>2, <1>7
      <3>2. s[i].n <= m
        <4>1. s[i].n > 0
          BY <3>1, <1>2, <1>7 DEF Numbered
        <4>2. QED BY <3>1, <4>1, <1>4
      <3>3. s[a] = Newline /\ a \in i..j
        <4>1. s # <<>> /\ a \in 1..a
          <5>1. a \in 1..a /\ a # 0
            BY <3>1, <1>2
          <5>2. QED BY <5>1, <1>1
        <4>2. s[a] = Newline
          BY <4>1, <1>1 DEF Unfinished
        <4>3. QED BY <4>2, <3>1, <2>2, <1>2
      <3>4. ~Plain(t, i, j)
        <4>1. t[a] = Newline
          BY <3>1, <3>3, <1>2
        <4>2. QED BY <3>3, <4>1 DEF Plain
      <3>5. t[i].n \in Nat /\ t[j].n = m + 1
        BY <2>2, <3>1, <1>2, <1>4
      <3>6. QED BY <3>1, <3>2, <3>4, <3>5
    <2>3. QED BY <2>1, <2>2, <1>2
  <1>8. Numbered(t, b, m + 1)
    BY <1>2, <1>5, <1>6, <1>7 DEF Numbered
  <1>9. QED BY <1>1, <1>8

\* One more byte of the unfinished frame, the last one.
LEMMA NumberedExtend ==
  ASSUME NEW s \in Seq(Token), NEW b \in Nat, NEW m \in Nat, Numbered(s, b, m),
         Unfinished(s), NEW x \in Frame, x.n = m
  PROVE  Numbered(Append(s, x), b, m)
  <1>1. PICK t, a : t = Append(s, x) /\ a = Len(s)
    OBVIOUS
  <1>2. /\ a \in Nat /\ DOMAIN s = 1..a /\ DOMAIN t = 1..(a + 1)
        /\ t[a + 1] = x /\ \A i \in 1..a : t[i] = s[i]
    BY <1>1
  <1>3. a \in 1..a /\ s[a] # Newline
    <2>1. s # <<>> /\ s[a] # Newline
      BY <1>1 DEF Unfinished
    <2>2. QED BY <2>1, <1>1, <1>2
  <1>4. \A i \in 1..a : s[i].n \in Nat /\ (s[i] # Newline => s[i].n \in (b + 1)..m)
    <2>1. \A i \in 1..a : s[i] \in Token
      BY <1>1
    <2>2. \A i \in 1..a : s[i].n \in Nat
      BY <2>1, TokenFacts
    <2>3. Newline.n = 0
      BY DEF Newline
    <2>4. \A i \in 1..a : s[i] # Newline => s[i].n > 0 /\ s[i].n \in {s[k].n : k \in DOMAIN s}
      BY <1>2 DEF Numbered
    <2>5. QED BY <2>2, <2>3, <2>4, SMTT(30) DEF Numbered
  <1>5. s[a].n = m
    <2>1. s[a].n \in (b + 1)..m
      BY <1>3, <1>4
    <2>2. PICK i \in 1..a : s[i].n = m
      <3>1. m \in (b + 1)..m
        BY <2>1
      <3>2. QED BY <3>1, <1>2 DEF Numbered
    <2>3. CASE i = a
      BY <2>2, <2>3
    <2>4. CASE i # a
      <3>1. i < a /\ s[i] # Newline
        <4>1. s[i].n # 0
          BY <2>1, <2>2
        <4>2. QED BY <4>1, <2>4, <1>2 DEF Newline
      <3>2. s[i].n <= s[a].n
        BY <3>1, <1>2, <1>3 DEF Numbered
      <3>3. QED BY <3>2, <2>1, <2>2
    <2>5. QED BY <2>3, <2>4
  <1>6. {t[i].n : i \in DOMAIN t} = {s[i].n : i \in DOMAIN s}
    <2>1. \A i \in DOMAIN s : i \in DOMAIN t /\ t[i].n = s[i].n
      BY <1>2
    <2>2. \A i \in DOMAIN t : i \in DOMAIN s \/ t[i].n = s[a].n
      BY <1>2, <1>5
    <2>3. a \in DOMAIN s
      BY <1>2, <1>3
    <2>4. QED BY <2>1, <2>2, <2>3
  <1>7. m > 0
    BY <1>3, <1>4, <1>5
  <1>8. \A i \in DOMAIN t : t[i] # Newline => t[i].n > 0
    <2>1. ASSUME NEW i \in 1..(a + 1), t[i] # Newline PROVE t[i].n > 0
      <3>1. CASE i = a + 1
        BY <3>1, <1>2, <1>7
      <3>2. CASE i \in 1..a
        BY <3>2, <2>1, <1>2 DEF Numbered
      <3>3. QED BY <3>1, <3>2, <1>2
    <2>2. QED BY <2>1, <1>2
  <1>9. ASSUME NEW i \in 1..(a + 1), NEW j \in 1..(a + 1), i < j, t[i] # Newline, t[j] # Newline
        PROVE  t[i].n <= t[j].n /\ (t[i].n = t[j].n <=> Plain(t, i, j))
    <2>0. ASSUME NEW k \in 1..a, k >= i PROVE Plain(t, i, k) <=> Plain(s, i, k)
      <3>1. \A y \in i..k : y \in 1..a /\ t[y] = s[y]
        BY <2>0, <1>2
      <3>2. QED BY <3>1 DEF Plain
    <2>1. CASE j \in 1..a
      <3>1. i \in 1..a /\ t[i] = s[i] /\ t[j] = s[j]
        BY <2>1, <1>2, <1>9
      <3>2. s[i].n <= s[j].n /\ (s[i].n = s[j].n <=> Plain(s, i, j))
        BY <2>1, <3>1, <1>2, <1>9 DEF Numbered
      <3>3. Plain(t, i, j) <=> Plain(s, i, j)
        BY <2>0, <2>1, <1>2, <1>9
      <3>4. QED BY <3>1, <3>2, <3>3
    <2>2. CASE j = a + 1
      <3>1. i \in 1..a /\ t[i] = s[i] /\ t[j].n = m
        BY <2>2, <1>2, <1>9
      <3>2. s[i].n <= m /\ (s[i].n = m <=> Plain(s, i, a))
        <4>1. CASE i = a
          <5>1. \A y \in i..a : y = a
            BY <4>1, <1>2
          <5>2. Plain(s, i, a)
            BY <5>1, <1>3 DEF Plain
          <5>3. QED BY <4>1, <5>2, <1>5
        <4>2. CASE i < a
          <5>1. s[i].n <= s[a].n /\ (s[i].n = s[a].n <=> Plain(s, i, a))
            BY <3>1, <4>2, <1>2, <1>3, <1>9 DEF Numbered
          <5>2. QED BY <5>1, <1>5
        <4>3. QED BY <3>1, <4>1, <4>2, <1>2
      <3>3. Plain(t, i, j) <=> Plain(t, i, a)
        <4>1. \A y \in i..j : y \in i..a \/ y = a + 1
          BY <2>2, <1>2
        <4>2. \A y \in i..a : y \in i..j
          BY <2>2, <1>2
        <4>3. t[a + 1] # Newline
          BY <2>2, <1>9
        <4>4. QED BY <4>1, <4>2, <4>3 DEF Plain
      <3>4. Plain(t, i, a) <=> Plain(s, i, a)
        BY <2>0, <3>1, <1>2, <1>3
      <3>5. QED BY <3>1, <3>2, <3>3, <3>4
    <2>3. QED BY <2>1, <2>2, <1>2
  <1>10. {t[i].n : i \in DOMAIN t} \ {Newline.n} = (b + 1)..m
    BY <1>6 DEF Numbered
  <1>11. Numbered(t, b, m)
    BY <1>2, <1>8, <1>9, <1>10 DEF Numbered
  <1>12. QED BY <1>1, <1>11

\* A newline numbers nothing.
LEMMA NumberedEnd ==
  ASSUME NEW s \in Seq(Token), NEW b \in Nat, NEW m \in Nat, Numbered(s, b, m)
  PROVE  Numbered(Append(s, Newline), b, m)
  <1>1. PICK t, a : t = Append(s, Newline) /\ a = Len(s)
    OBVIOUS
  <1>2. /\ a \in Nat /\ DOMAIN s = 1..a /\ DOMAIN t = 1..(a + 1)
        /\ t[a + 1] = Newline /\ \A i \in 1..a : t[i] = s[i]
    BY <1>1
  <1>3. \A i \in DOMAIN s : i \in DOMAIN t /\ t[i] = s[i]
    BY <1>2
  <1>4. \A i \in DOMAIN t : i \in DOMAIN s \/ t[i] = Newline
    BY <1>2
  <1>5. {t[i].n : i \in DOMAIN t} \ {Newline.n} = {s[i].n : i \in DOMAIN s} \ {Newline.n}
    BY <1>3, <1>4
  <1>6. \A i \in DOMAIN t : t[i] # Newline => t[i].n > 0
    BY <1>3, <1>4 DEF Numbered
  <1>7. ASSUME NEW i \in DOMAIN t, NEW j \in DOMAIN t, i < j, t[i] # Newline, t[j] # Newline
        PROVE  t[i].n <= t[j].n /\ (t[i].n = t[j].n <=> Plain(t, i, j))
    <2>1. i \in 1..a /\ j \in 1..a /\ t[i] = s[i] /\ t[j] = s[j]
      BY <1>2, <1>4, <1>7
    <2>2. s[i].n <= s[j].n /\ (s[i].n = s[j].n <=> Plain(s, i, j))
      BY <2>1, <1>2, <1>7 DEF Numbered
    <2>3. \A k \in i..j : k \in 1..a /\ t[k] = s[k]
      BY <2>1, <1>2
    <2>4. Plain(t, i, j) <=> Plain(s, i, j)
      BY <2>3 DEF Plain
    <2>5. QED BY <2>1, <2>2, <2>4
  <1>8. Numbered(t, b, m)
    BY <1>5, <1>6, <1>7 DEF Numbered
  <1>9. QED BY <1>1, <1>8

-----------------------------------------------------------------------------
(* Replies in their turn *)

\* What was said before something else was said is in order too.
LEMMA OrderedPrefix ==
  ASSUME NEW q \in Seq(Nat), NEW s \in Seq(Nat), NEW k \in Nat, Ordered(q \o s, k)
  PROVE  \E j \in 0..k : Ordered(q, j)
  <1>1. PICK z, a, b : z = q \o s /\ a = Len(q) /\ b = Len(s)
    OBVIOUS
  <1>2. /\ a \in Nat /\ b \in Nat /\ DOMAIN q = 1..a /\ DOMAIN z = 1..(a + b)
        /\ \A i \in 1..a : z[i] = q[i] /\ q[i] \in Nat
    BY <1>1, ConcatFacts
  <1>3. PICK S : S = {q[i] : i \in DOMAIN q} \ {Event}
    OBVIOUS
  <1>4. {z[i] : i \in DOMAIN z} \ {Event} = 1..k
    BY <1>1 DEF Ordered
  <1>5. \A i, j \in DOMAIN z : i < j /\ z[i] # Event /\ z[j] # Event => z[i] < z[j]
    BY <1>1 DEF Ordered
  <1>6. \A i \in 1..a : i \in DOMAIN z
    BY <1>2
  <1>7. S \subseteq 1..k
    BY <1>2, <1>3, <1>4, <1>6
  <1>8. \A i, j \in DOMAIN q : i < j /\ Event \notin {q[i], q[j]} => q[i] < q[j]
    BY <1>2, <1>5, <1>6
  <1>9. CASE S = {}
    <2>1. Ordered(q, 0)
      <3>1. S = 1..0
        BY <1>9
      <3>2. QED BY <3>1, <1>3, <1>8 DEF Ordered
    <2>2. QED BY <2>1
  <1>10. CASE S # {}
    <2>1. S \in SUBSET (0..k)
      BY <1>7
    <2>2. PICK j \in S : \A y \in S : y <= j
      BY <2>1, <1>10, GreatestNat
    <2>3. j \in 1..k
      BY <2>2, <1>7
    <2>4. PICK m \in 1..a : q[m] = j /\ j # Event
      BY <2>2, <1>2, <1>3
    <2>5. ASSUME NEW x \in 1..j PROVE x \in S
      <3>1. x \in 1..k
        BY <2>3
      <3>2. PICK i \in DOMAIN z : z[i] = x /\ x # Event
        BY <3>1, <1>4
      <3>3. i \in Nat /\ m \in Nat /\ m \in DOMAIN z /\ z[m] = j
        BY <3>2, <2>4, <1>2, <1>6
      <3>4. ~(m < i)
        BY <3>2, <3>3, <2>4, <1>5, <2>5, <2>3
      <3>5. i \in 1..a
        BY <3>2, <3>3, <3>4, <1>2
      <3>6. QED BY <3>2, <3>5, <1>2, <1>3
    <2>6. S = 1..j
      <3>1. ASSUME NEW y \in S PROVE y \in 1..j
        <4>1. y \in 1..k /\ y <= j
          BY <2>2, <1>7
        <4>2. QED BY <4>1, <2>3
      <3>2. QED BY <3>1, <2>5
    <2>7. Ordered(q, j)
      BY <2>6, <1>3, <1>8 DEF Ordered
    <2>8. QED BY <2>3, <2>7
  <1>11. QED BY <1>9, <1>10

Errors == [due : Nat, n : Nat]

\* After the replies to frames 1 to k, of which "a" were the caller's: the
\* caller holds the frames "held" and the parse errors "df" wait their turn.
\* In the order of the frames an error comes behind due - a of the held ones.
Queued(a, df, k, held) ==
  /\ \A i \in 1..Len(df) : /\ df[i].due \in (a + 1)..(a + Len(held))
                           /\ df[i].n = k + i + (df[i].due - a)
  /\ \A i, j \in 1..Len(df) : i <= j => df[i].due <= df[j].due
  /\ \A r \in 1..Len(held) :
       \E e \in 0..Len(df) :
         /\ \A i \in 1..Len(df) : i <= e <=> df[i].due < a + r
         /\ held[r] = k + r + e

\* The types of the deferred errors and of the frames held.
LEMMA QueuedTypes ==
  ASSUME NEW df \in Seq(Errors), NEW held \in Seq(Nat)
  PROVE  /\ Len(df) \in Nat /\ Len(held) \in Nat
         /\ \A i \in 1..Len(df) : df[i].due \in Nat /\ df[i].n \in Nat
         /\ \A r \in 1..Len(held) : held[r] \in Nat
  <1>1. Len(df) \in Nat /\ \A i \in 1..Len(df) : df[i] \in Errors
    BY ElementFacts
  <1>2. Len(held) \in Nat /\ \A i \in 1..Len(held) : held[i] \in Nat
    BY ElementFacts
  <1>3. \A x \in Errors : x.due \in Nat /\ x.n \in Nat
    BY DEF Errors
  <1>4. QED BY <1>1, <1>2, <1>3

\* Without held frames no error waits.
LEMMA QueuedNothing ==
  ASSUME NEW a \in Nat, NEW df \in Seq(Errors), NEW k \in Nat, NEW held \in Seq(Nat),
         Queued(a, df, k, held), Len(held) = 0
  PROVE  df = <<>> /\ held = <<>>
  <1>1. Len(df) = 0
    <2>1. SUFFICES ASSUME Len(df) # 0 PROVE FALSE
      OBVIOUS
    <2>2. 1 \in 1..Len(df)
      BY <2>1, QueuedTypes
    <2>3. df[1].due \in (a + 1)..(a + Len(held))
      BY <2>2 DEF Queued
    <2>4. QED BY <2>3
  <1>2. QED BY <1>1

\* A client that holds nothing has nothing queued.
LEMMA NothingQueued ==
  ASSUME NEW a \in Nat, NEW k \in Nat
  PROVE  Queued(a, <<>>, k, <<>>)
  BY DEF Queued

\* A further frame for the caller.
LEMMA QueuedDeliver ==
  ASSUME NEW a \in Nat, NEW df \in Seq(Errors), NEW k \in Nat, NEW held \in Seq(Nat),
         Queued(a, df, k, held), NEW n \in Nat, n = k + Len(held) + Len(df) + 1
  PROVE  Queued(a, df, k, Append(held, n))
  <1>1. PICK o, d, h : o = Len(held) /\ d = Len(df) /\ h = Append(held, n)
    OBVIOUS
  <1>2. /\ o \in Nat /\ d \in Nat /\ Len(h) = o + 1 /\ h[o + 1] = n
        /\ \A r \in 1..o : h[r] = held[r]
    BY <1>1
  <1>3. \A i \in 1..d : df[i].due \in Nat /\ df[i].due \in (a + 1)..(a + o)
                          /\ df[i].n = k + i + (df[i].due - a)
    BY <1>1, QueuedTypes DEF Queued
  <1>4. \A i \in 1..d : df[i].due \in (a + 1)..(a + (o + 1))
    <2>1. ASSUME NEW x \in (a + 1)..(a + o) PROVE x \in (a + 1)..(a + (o + 1))
      BY <1>2
    <2>2. QED BY <2>1, <1>3, Zenon
  <1>5. ASSUME NEW r \in 1..(o + 1)
        PROVE  \E e \in 0..d : /\ \A i \in 1..d : i <= e <=> df[i].due < a + r
                               /\ h[r] = k + r + e
    <2>1. CASE r \in 1..o
      BY <2>1, <1>1, <1>2 DEF Queued
    <2>2. CASE r = o + 1
      <3>1. \A i \in 1..d : i <= d /\ df[i].due < a + r
        BY <2>2, <1>2, <1>3
      <3>2. h[r] = k + r + d
        BY <2>2, <1>1, <1>2
      <3>3. d \in 0..d
        BY <1>2
      <3>4. QED BY <3>1, <3>2, <3>3
    <2>3. r \in 1..o \/ r = o + 1
      BY <1>2
    <2>4. QED BY <2>1, <2>2, <2>3
  <1>6. \A i, j \in 1..d : i <= j => df[i].due <= df[j].due
    BY <1>1 DEF Queued
  <1>7. Queued(a, df, k, h)
    BY <1>1, <1>2, <1>3, <1>4, <1>5, <1>6, Zenon DEF Queued
  <1>8. QED BY <1>1, <1>7

\* A parse error that has to wait.
LEMMA QueuedReject ==
  ASSUME NEW a \in Nat, NEW df \in Seq(Errors), NEW k \in Nat, NEW held \in Seq(Nat),
         Queued(a, df, k, held), Len(held) > 0,
         NEW n \in Nat, n = k + Len(held) + Len(df) + 1,
         NEW x \in Errors, x.due = a + Len(held), x.n = n
  PROVE  Queued(a, Append(df, x), k, held)
  <1>1. PICK o, d, g : o = Len(held) /\ d = Len(df) /\ g = Append(df, x)
    OBVIOUS
  <1>2. /\ o \in Nat /\ d \in Nat /\ Len(g) = d + 1 /\ g[d + 1] = x
        /\ \A i \in 1..d : g[i] = df[i]
    BY <1>1
  <1>3. \A i \in 1..d : df[i].due \in Nat /\ df[i].due \in (a + 1)..(a + o)
                          /\ df[i].n = k + i + (df[i].due - a)
    BY <1>1, QueuedTypes DEF Queued
  <1>4. x.due = a + o /\ x.n = k + o + d + 1 /\ o > 0
    BY <1>1
  <1>5. ASSUME NEW i \in 1..(d + 1)
        PROVE  g[i].due \in (a + 1)..(a + o) /\ g[i].n = k + i + (g[i].due - a)
    <2>1. CASE i \in 1..d
      BY <2>1, <1>2, <1>3
    <2>2. CASE i = d + 1
      <3>1. g[i] = x
        BY <2>2, <1>2
      <3>2. x.due \in (a + 1)..(a + o) /\ x.n = k + (d + 1) + (x.due - a)
        <4>1. PICK u, v : u = x.due /\ v = x.n
          OBVIOUS
        <4>2. u = a + o /\ v = k + o + d + 1 /\ o > 0
          BY <4>1, <1>4
        <4>3. u \in (a + 1)..(a + o)
          BY <4>2, <1>2
        <4>4. v = k + (d + 1) + (u - a)
          BY <4>2, <1>2
        <4>5. QED BY <4>1, <4>3, <4>4
      <3>3. QED BY <3>1, <3>2, <2>2
    <2>3. QED BY <2>1, <2>2, <1>2
  <1>6. ASSUME NEW i \in 1..(d + 1), NEW j \in 1..(d + 1), i <= j
        PROVE  g[i].due <= g[j].due
    <2>1. CASE j \in 1..d
      <3>1. i \in 1..d
        BY <2>1, <1>2, <1>6
      <3>2. df[i].due <= df[j].due
        BY <2>1, <3>1, <1>1, <1>6 DEF Queued
      <3>3. QED BY <3>1, <3>2, <2>1, <1>2
    <2>2. CASE j = d + 1
      <3>1. g[j].due = a + o
        BY <2>2, <1>2, <1>4
      <3>2. g[i].due \in (a + 1)..(a + o)
        BY <1>5
      <3>3. QED BY <3>1, <3>2, <1>2
    <2>3. QED BY <2>1, <2>2, <1>2
  <1>7. ASSUME NEW r \in 1..o
        PROVE  \E e \in 0..(d + 1) : /\ \A i \in 1..(d + 1) : i <= e <=> g[i].due < a + r
                                     /\ held[r] = k + r + e
    <2>1. PICK e \in 0..d : /\ \A i \in 1..d : i <= e <=> df[i].due < a + r
                            /\ held[r] = k + r + e
      BY <1>1 DEF Queued
    <2>2. ASSUME NEW i \in 1..(d + 1) PROVE i <= e <=> g[i].due < a + r
      <3>1. CASE i \in 1..d
        BY <3>1, <2>1, <1>2
      <3>2. CASE i = d + 1
        <4>1. g[i].due = a + o
          BY <3>2, <1>2, <1>4
        <4>2. QED BY <4>1, <3>2, <1>2
      <3>3. QED BY <3>1, <3>2, <1>2
    <2>3. e \in 0..(d + 1)
      BY <1>2
    <2>4. QED BY <2>1, <2>2, <2>3
  <1>8. Queued(a, g, k, held)
    BY <1>1, <1>2, <1>5, <1>6, <1>7, Zenon DEF Queued
  <1>9. QED BY <1>1, <1>8

\* The caller's reply is to the next frame, and the errors paid with it follow.
InTurn(df, k, held, j) == held[1] = k + 1 /\ \A i \in 1..j : df[i].n = k + 1 + i

\* The reply to the first frame held and the errors then due are the next
\* replies in the order of the frames.
LEMMA QueuedFirst ==
  ASSUME NEW a \in Nat, NEW df \in Seq(Errors), NEW k \in Nat, NEW held \in Seq(Nat),
         Queued(a, df, k, held), Len(held) > 0, NEW j \in 0..Len(df),
         \A i \in 1..j : df[i].due <= a + 1
  PROVE  InTurn(df, k, held, j)
  <1>1. PICK o, d : o = Len(held) /\ d = Len(df)
    OBVIOUS
  <1>2. o \in Nat /\ d \in Nat /\ o > 0 /\ j \in 0..d
    BY <1>1
  <1>3. \A i \in 1..d : df[i].due \in Nat /\ df[i].due \in (a + 1)..(a + o)
                          /\ df[i].n = k + i + (df[i].due - a)
    BY <1>1, QueuedTypes DEF Queued
  <1>4. 1 \in 1..o
    BY <1>2
  <1>5. PICK e \in 0..d : /\ \A i \in 1..d : i <= e <=> df[i].due < a + 1
                          /\ held[1] = k + 1 + e
    BY <1>1, <1>4 DEF Queued
  <1>6. e = 0
    <2>1. SUFFICES ASSUME e > 0 PROVE FALSE
      BY <1>2
    <2>2. e \in 1..d
      BY <1>2, <2>1
    <2>3. df[e].due < a + 1
      BY <2>2, <1>5
    <2>4. QED BY <2>2, <2>3, <1>3
  <1>7. ASSUME NEW i \in 1..j PROVE df[i].n = k + 1 + i
    <2>1. i \in 1..d
      BY <1>2
    <2>2. df[i].due <= a + 1
      OBVIOUS
    <2>3. df[i].due = a + 1
      BY <2>1, <2>2, <1>3
    <2>4. df[i].n = k + i + (df[i].due - a)
      BY <2>1, <1>3
    <2>5. QED BY <2>3, <2>4
  <1>8. held[1] = k + 1
    BY <1>5, <1>6
  <1>9. QED BY <1>7, <1>8 DEF InTurn

\* Counting from one reply later names the same turn.
LEMMA NextTurn ==
  ASSUME NEW a \in Nat, NEW k \in Nat, NEW o \in Nat, NEW j \in Nat, NEW i \in Nat,
         NEW x \in (a + 1)..(a + o), x > a + 1
  PROVE  /\ x \in ((a + 1) + 1)..((a + 1) + (o - 1))
         /\ k + (j + i) + (x - a) = (k + 1 + j) + i + (x - (a + 1))
  OBVIOUS

\* A number that passes a bound has all larger ones pass it.
LEMMA Passes ==
  ASSUME NEW u \in Nat, NEW v \in Nat, NEW x \in Nat, u > x, u <= v
  PROVE  v > x
  OBVIOUS

\* After the reply and the errors that waited for it.
LEMMA QueuedReply ==
  ASSUME NEW a \in Nat, NEW df \in Seq(Errors), NEW k \in Nat, NEW held \in Seq(Nat),
         Queued(a, df, k, held), Len(held) > 0, NEW j \in 0..Len(df),
         \A i \in 1..j : df[i].due <= a + 1,
         j < Len(df) => ~(df[j + 1].due <= a + 1)
  PROVE  Queued(a + 1, Suffix(df, j), k + 1 + j, Tail(held))
  <1>1. PICK o, d, g, h : /\ o = Len(held) /\ d = Len(df)
                          /\ g = Suffix(df, j) /\ h = Tail(held)
    OBVIOUS
  <1>2. o \in Nat /\ d \in Nat /\ o > 0 /\ j \in 0..d
    BY <1>1
  <1>3. \A i \in 1..d : df[i].due \in Nat /\ df[i].due \in (a + 1)..(a + o)
                          /\ df[i].n = k + i + (df[i].due - a)
    BY <1>1, QueuedTypes DEF Queued
  <1>4. Len(g) = d - j /\ \A i \in 1..(d - j) : g[i] = df[j + i]
    BY <1>1, SuffixFacts
  <1>5. Len(h) = o - 1 /\ \A r \in 1..(o - 1) : h[r] = held[r + 1]
    BY <1>1, <1>2
  <1>6. \A i \in 1..(d - j) : j + i \in 1..d
    BY <1>2
  <1>7. ASSUME NEW i \in 1..d, i > j PROVE df[i].due > a + 1
    <2>1. j + 1 \in 1..d /\ j < d
      BY <1>2, <1>7
    <2>2. df[j + 1].due > a + 1
      BY <2>1, <1>1, <1>3
    <2>3. j + 1 <= i
      BY <1>2, <1>7
    <2>4. df[j + 1].due <= df[i].due
      BY <2>1, <2>3, <1>1 DEF Queued
    <2>5. df[j + 1].due \in Nat /\ df[i].due \in Nat /\ a + 1 \in Nat
      BY <2>1, <1>3
    <2>6. QED BY <2>2, <2>4, <2>5, Passes
  <1>8. ASSUME NEW i \in 1..(d - j)
        PROVE  /\ g[i].due \in ((a + 1) + 1)..((a + 1) + (o - 1))
               /\ g[i].n = (k + 1 + j) + i + (g[i].due - (a + 1))
    <2>1. j + i \in 1..d /\ j + i > j /\ g[i] = df[j + i]
      BY <1>2, <1>4, <1>6
    <2>2. PICK x, y : x = df[j + i].due /\ y = df[j + i].n
      OBVIOUS
    <2>3. x \in Nat /\ x \in (a + 1)..(a + o) /\ y = k + (j + i) + (x - a) /\ x > a + 1
      BY <2>1, <2>2, <1>3, <1>7
    <2>4. x \in ((a + 1) + 1)..((a + 1) + (o - 1)) /\ y = (k + 1 + j) + i + (x - (a + 1))
      <3>1. i \in Nat /\ j \in Nat
        BY <1>2
      <3>2. QED BY <2>3, <3>1, <1>2, NextTurn
    <2>5. QED BY <2>1, <2>2, <2>4
  <1>9. ASSUME NEW x \in 1..(d - j), NEW y \in 1..(d - j), x <= y
        PROVE  g[x].due <= g[y].due
    <2>1. j + x <= j + y
      BY <1>2, <1>9
    <2>2. df[j + x].due <= df[j + y].due
      BY <2>1, <1>1, <1>6 DEF Queued
    <2>3. QED BY <2>2, <1>4
  <1>10. ASSUME NEW r \in 1..(o - 1)
         PROVE  \E e \in 0..(d - j) :
                  /\ \A i \in 1..(d - j) : i <= e <=> g[i].due < (a + 1) + r
                  /\ h[r] = (k + 1 + j) + r + e
    <2>1. r + 1 \in 1..o /\ a + (r + 1) = (a + 1) + r
      BY <1>2
    <2>2. PICK e \in 0..d : /\ \A i \in 1..d : i <= e <=> df[i].due < a + (r + 1)
                            /\ held[r + 1] = k + (r + 1) + e
      BY <1>1, <2>1 DEF Queued
    <2>3. j <= e
      <3>1. CASE j = 0
        BY <3>1, <2>2, <1>2
      <3>2. CASE j > 0
        <4>1. j \in 1..d /\ j \in 1..j
          BY <3>2, <1>2
        <4>2. df[j].due <= a + 1
          BY <4>1
        <4>3. df[j].due < a + (r + 1)
          BY <4>1, <4>2, <1>3
        <4>4. QED BY <4>1, <4>3, <2>2
      <3>3. QED BY <3>1, <3>2, <1>2
    <2>4. e - j \in 0..(d - j) /\ h[r] = (k + 1 + j) + r + (e - j)
      BY <2>2, <2>3, <1>2, <1>5
    <2>5. ASSUME NEW i \in 1..(d - j) PROVE i <= e - j <=> g[i].due < (a + 1) + r
      <3>1. j + i <= e <=> df[j + i].due < (a + 1) + r
        BY <2>1, <2>2, <1>6
      <3>2. j + i <= e <=> i <= e - j
        BY <1>2, <2>2
      <3>3. QED BY <3>1, <3>2, <1>4
    <2>6. QED BY <2>4, <2>5
  <1>11. Queued(a + 1, g, k + 1 + j, h)
    BY <1>4, <1>5, <1>8, <1>9, <1>10, Zenon DEF Queued
  <1>12. QED BY <1>1, <1>11

\* Held frames and waiting errors are the frames k + 1, k + 2, ... without gap.
HeldFrames(df, k, held) ==
  {held[r] : r \in 1..Len(held)} \cup {df[i].n : i \in 1..Len(df)}
    = (k + 1)..(k + Len(held) + Len(df))

\* The frames held and the deferred errors are the frames after the k answered
\* ones.
LEMMA QueuedAll ==
  ASSUME NEW a \in Nat, NEW df \in Seq(Errors), NEW k \in Nat, NEW held \in Seq(Nat),
         Queued(a, df, k, held)
  PROVE  HeldFrames(df, k, held)
  <1>1. PICK o, d : o = Len(held) /\ d = Len(df)
    OBVIOUS
  <1>2. o \in Nat /\ d \in Nat
    BY <1>1
  <1>3. \A i \in 1..d : df[i].due \in Nat /\ df[i].due \in (a + 1)..(a + o)
                          /\ df[i].n = k + i + (df[i].due - a)
    BY <1>1, QueuedTypes DEF Queued
  <1>4. \A r \in 1..o : \E e \in 0..d : /\ \A i \in 1..d : i <= e <=> df[i].due < a + r
                                        /\ held[r] = k + r + e
    BY <1>1 DEF Queued
  <1>5. \A i, j \in 1..d : i <= j => df[i].due <= df[j].due
    BY <1>1 DEF Queued
  <1>6. \A r \in 1..o : held[r] \in (k + 1)..(k + o + d)
    BY <1>2, <1>4
  <1>7. PICK D, N : D = [i \in 1..d |-> df[i].due] /\ N = [i \in 1..d |-> df[i].n]
    OBVIOUS
  <1>8. \A i \in 1..d : D[i] = df[i].due /\ N[i] = df[i].n
    BY <1>7
  <1>9. \A i \in 1..d : /\ D[i] \in (a + 1)..(a + o) /\ N[i] = k + i + (D[i] - a)
                        /\ D[i] \in Nat /\ N[i] \in Nat
    BY <1>1, <1>3, <1>8, QueuedTypes
  <1>10. \A i, j \in 1..d : i <= j => D[i] <= D[j]
    BY <1>5, <1>8
  <1>11. ASSUME NEW i \in 1..d PROVE N[i] \in (k + 1)..(k + o + d)
    <2>1. D[i] \in (a + 1)..(a + o) /\ N[i] = k + i + (D[i] - a)
      BY <1>9
    <2>2. QED BY <2>1, <1>2
  <1>12. ASSUME NEW x \in (k + 1)..(k + o + d),
               \A i \in 1..d : N[i] # x
        PROVE  \E r \in 1..o : held[r] = x
    <2>1. PICK S : S = {i \in 0..d : i = 0 \/ (i \in 1..d /\ N[i] <= x)}
      OBVIOUS
    <2>2. 0 \in S /\ S \in SUBSET (0..d)
      BY <2>1, <1>2
    <2>3. PICK m \in S : \A y \in S : y <= m
      BY <2>2, <1>2, GreatestNat
    <2>4. m \in 0..d /\ (m > 0 => m \in 1..d /\ N[m] < x)
      <3>1. m \in 0..d /\ (m > 0 => m \in 1..d /\ N[m] <= x)
        BY <2>1, <2>3
      <3>2. QED BY <3>1, <1>9, <1>12
    <2>5. m < d => m + 1 \in 1..d /\ N[m + 1] > x
      <3>1. SUFFICES ASSUME m < d PROVE m + 1 \in 1..d /\ N[m + 1] > x
        OBVIOUS
      <3>2. m + 1 \in 1..d /\ m + 1 \in 0..d
        BY <3>1, <2>4, <1>2
      <3>3. m + 1 \notin S
        BY <2>3, <2>4
      <3>4. ~(N[m + 1] <= x)
        BY <3>2, <3>3, <2>1
      <3>5. N[m + 1] \in Nat
        BY <3>2, <1>9
      <3>6. QED BY <3>2, <3>4, <3>5
    <2>6. PICK r : r = x - k - m
      OBVIOUS
    <2>7. r \in 1..o
      <3>1. r \in Int
        BY <2>4, <2>6, <1>2
      <3>2. r >= 1
        <4>1. CASE m = 0
          BY <4>1, <2>6
        <4>2. CASE m > 0
          <5>1. m \in 1..d /\ N[m] < x
            BY <4>2, <2>4
          <5>2. D[m] >= a + 1 /\ N[m] = k + m + (D[m] - a) /\ D[m] \in Nat
            BY <5>1, <1>9
          <5>3. QED BY <5>1, <5>2, <2>6, <1>2
        <4>3. QED BY <4>1, <4>2, <2>4
      <3>3. r <= o
        <4>1. CASE m = d
          BY <4>1, <2>6, <1>2
        <4>2. CASE m < d
          <5>1. m + 1 \in 1..d /\ N[m + 1] > x /\ m \in Nat
            BY <4>2, <2>4, <2>5, <1>2
          <5>2. /\ D[m + 1] <= a + o /\ N[m + 1] = k + (m + 1) + (D[m + 1] - a)
                /\ D[m + 1] \in Nat
            BY <5>1, <1>9
          <5>3. QED BY <5>1, <5>2, <2>6, <1>2
        <4>3. m = d \/ m < d
          BY <2>4, <1>2
        <4>4. QED BY <4>1, <4>2, <4>3
      <3>4. QED BY <3>1, <3>2, <3>3, <1>2
    <2>8. ASSUME NEW i \in 1..d PROVE i <= m <=> D[i] < a + r
      <3>1. ASSUME i <= m PROVE D[i] < a + r
        <4>1. m \in 1..d /\ N[m] < x
          BY <3>1, <2>4, <1>2
        <4>2. N[m] = k + m + (D[m] - a) /\ D[m] \in Nat /\ D[i] \in Nat /\ D[i] <= D[m]
          BY <3>1, <4>1, <1>9, <1>10
        <4>3. QED BY <4>1, <4>2, <2>6, <1>2
      <3>2. ASSUME i > m PROVE ~(D[i] < a + r)
        <4>1. m + 1 \in 1..d /\ N[m + 1] > x /\ m + 1 <= i /\ m \in Nat
          BY <3>2, <2>4, <2>5, <1>2
        <4>2. /\ N[m + 1] = k + (m + 1) + (D[m + 1] - a) /\ D[m + 1] \in Nat
              /\ D[i] \in Nat /\ D[m + 1] <= D[i]
          BY <4>1, <1>9, <1>10
        <4>3. QED BY <4>1, <4>2, <2>6, <1>2
      <3>3. QED BY <3>1, <3>2, <2>4, <1>2
    <2>9. PICK e \in 0..d : /\ \A i \in 1..d : i <= e <=> D[i] < a + r
                            /\ held[r] = k + r + e
      BY <2>7, <1>4, <1>8
    <2>10. \A i \in 1..d : i <= e <=> i <= m
      BY <2>8, <2>9
    <2>11. e = m
      <3>1. ASSUME e > m PROVE FALSE
        <4>1. e \in 1..d /\ e <= e /\ ~(e <= m)
          BY <3>1, <2>4, <2>9, <1>2
        <4>2. QED BY <4>1, <2>10
      <3>2. ASSUME m > e PROVE FALSE
        <4>1. m \in 1..d /\ m <= m /\ ~(m <= e)
          BY <3>2, <2>4, <2>9, <1>2
        <4>2. QED BY <4>1, <2>10
      <3>3. e \in Nat /\ m \in Nat
        BY <2>4, <2>9, <1>2
      <3>4. QED BY <3>1, <3>2, <3>3
    <2>12. held[r] = x
      BY <2>6, <2>7, <2>9, <2>11, <2>4
    <2>13. QED BY <2>7, <2>12
  <1>13. PICK A, B : /\ A = {held[r] : r \in 1..o} \cup {df[i].n : i \in 1..d}
                     /\ B = (k + 1)..(k + o + d)
    OBVIOUS
  <1>14. \A x \in A : x \in B
    BY <1>6, <1>8, <1>11, <1>13
  <1>15. \A x \in B : x \in A
    BY <1>8, <1>12, <1>13
  <1>16. A = B
    BY <1>14, <1>15
  <1>17. QED BY <1>1, <1>13, <1>16 DEF HeldFrames

-----------------------------------------------------------------------------
(* The caller's list *)

\* The frames of p among the messages q are "held", one after the other behind
\* position b.
Block(q, p, held, b) ==
  /\ b + Len(held) <= Len(q)
  /\ \A j \in 1..Len(q) : q[j].peer = p <=> j \in (b + 1)..(b + Len(held))
  /\ \A r \in 1..Len(held) : q[b + r].frame.n = held[r]

\* A message for p goes to the end.
LEMMA BlockAppend ==
  ASSUME NEW T, NEW q \in Seq(T), NEW x \in T, NEW p, NEW held \in Seq(Nat), NEW b \in Nat,
         Block(q, p, held, b), b + Len(held) = Len(q), x.peer = p, x.frame.n \in Nat
  PROVE  /\ Block(Append(q, x), p, Append(held, x.frame.n), b)
         /\ b + Len(Append(held, x.frame.n)) = Len(Append(q, x))
  <1>1. PICK o, m, h, z : /\ o = Len(held) /\ m = Len(q)
                          /\ h = Append(held, x.frame.n) /\ z = Append(q, x)
    OBVIOUS
  <1>2. /\ o \in Nat /\ m \in Nat /\ b + o = m /\ Len(h) = o + 1 /\ Len(z) = m + 1
        /\ h[o + 1] = x.frame.n /\ z[m + 1] = x
        /\ \A r \in 1..o : h[r] = held[r]
        /\ \A j \in 1..m : z[j] = q[j]
    BY <1>1
  <1>3. ASSUME NEW j \in 1..(m + 1) PROVE z[j].peer = p <=> j \in (b + 1)..(b + (o + 1))
    <2>1. CASE j \in 1..m
      <3>1. q[j].peer = p <=> j \in (b + 1)..(b + o)
        BY <2>1, <1>1 DEF Block
      <3>2. QED BY <2>1, <3>1, <1>2
    <2>2. CASE j = m + 1
      BY <2>2, <1>2
    <2>3. QED BY <2>1, <2>2, <1>2
  <1>4. ASSUME NEW r \in 1..(o + 1) PROVE z[b + r].frame.n = h[r]
    <2>1. CASE r \in 1..o
      <3>1. q[b + r].frame.n = held[r]
        BY <2>1, <1>1 DEF Block
      <3>2. b + r \in 1..m
        BY <2>1, <1>2
      <3>3. QED BY <2>1, <3>1, <3>2, <1>2
    <2>2. CASE r = o + 1
      <3>1. b + r = m + 1
        BY <2>2, <1>2
      <3>2. QED BY <2>2, <3>1, <1>2
    <2>3. QED BY <2>1, <2>2, <1>2
  <1>5. b + (o + 1) = m + 1 /\ b + (o + 1) <= m + 1
    BY <1>2
  <1>6. Block(z, p, h, b)
    BY <1>2, <1>3, <1>4, <1>5, Zenon DEF Block
  <1>7. QED BY <1>1, <1>2, <1>5, <1>6

\* So does one for somebody else.
LEMMA BlockAside ==
  ASSUME NEW T, NEW q \in Seq(T), NEW x \in T, NEW p, NEW held \in Seq(Nat), NEW b \in Nat,
         Block(q, p, held, b), x.peer # p
  PROVE  Block(Append(q, x), p, held, b)
  <1>1. PICK o, m, z : o = Len(held) /\ m = Len(q) /\ z = Append(q, x)
    OBVIOUS
  <1>2. /\ o \in Nat /\ m \in Nat /\ Len(z) = m + 1 /\ z[m + 1] = x
        /\ \A j \in 1..m : z[j] = q[j]
    BY <1>1
  <1>3. b + o <= m
    BY <1>1 DEF Block
  <1>4. ASSUME NEW j \in 1..(m + 1) PROVE z[j].peer = p <=> j \in (b + 1)..(b + o)
    <2>1. CASE j \in 1..m
      <3>1. q[j].peer = p <=> j \in (b + 1)..(b + o)
        BY <2>1, <1>1 DEF Block
      <3>2. QED BY <2>1, <3>1, <1>2
    <2>2. CASE j = m + 1
      BY <2>2, <1>2, <1>3
    <2>3. QED BY <2>1, <2>2, <1>2
  <1>5. ASSUME NEW r \in 1..o PROVE z[b + r].frame.n = held[r]
    <2>1. b + r \in 1..m
      BY <1>2, <1>3
    <2>2. QED BY <2>1, <1>1, <1>2 DEF Block
  <1>6. b + o <= m + 1
    BY <1>2, <1>3
  <1>7. Block(z, p, held, b)
    BY <1>1, <1>2, <1>4, <1>5, <1>6, Zenon DEF Block
  <1>8. QED BY <1>1, <1>7

\* The oldest message is p's: it is the first of its frames.
LEMMA BlockFirst ==
  ASSUME NEW T, NEW q \in Seq(T), q # <<>>, NEW p, NEW held \in Seq(Nat), NEW b \in Nat,
         Block(q, p, held, b), q[1].peer = p
  PROVE  /\ b = 0 /\ Len(held) > 0 /\ held[1] = q[1].frame.n
         /\ Block(Tail(q), p, Tail(held), 0)
  <1>1. PICK o, m, h, z : /\ o = Len(held) /\ m = Len(q) /\ h = Tail(held) /\ z = Tail(q)
    OBVIOUS
  <1>2. o \in Nat /\ m \in Nat /\ m > 0
    BY <1>1
  <1>3. b + o <= m
    BY <1>1 DEF Block
  <1>4. 1 \in (b + 1)..(b + o)
    BY <1>1, <1>2 DEF Block
  <1>5. b = 0 /\ o > 0
    BY <1>2, <1>4
  <1>6. /\ Len(h) = o - 1 /\ \A r \in 1..(o - 1) : h[r] = held[r + 1]
        /\ Len(z) = m - 1 /\ \A j \in 1..(m - 1) : z[j] = q[j + 1]
    BY <1>1, <1>2, <1>5
  <1>7. held[1] = q[1].frame.n
    <2>1. 1 \in 1..o /\ 0 + 1 = 1
      BY <1>2, <1>5
    <2>2. QED BY <2>1, <1>1, <1>5 DEF Block
  <1>8. ASSUME NEW j \in 1..(m - 1) PROVE z[j].peer = p <=> j \in (0 + 1)..(0 + (o - 1))
    <2>1. j + 1 \in 1..m
      BY <1>2
    <2>2. q[j + 1].peer = p <=> j + 1 \in (b + 1)..(b + o)
      BY <2>1, <1>1 DEF Block
    <2>3. j + 1 \in (b + 1)..(b + o) <=> j \in (0 + 1)..(0 + (o - 1))
      BY <1>2, <1>5
    <2>4. QED BY <2>2, <2>3, <1>6
  <1>9. ASSUME NEW r \in 1..(o - 1) PROVE z[0 + r].frame.n = h[r]
    <2>1. r + 1 \in 1..o /\ 0 + r = r /\ b + (r + 1) = r + 1 /\ r \in 1..(m - 1)
      BY <1>2, <1>3, <1>5
    <2>2. q[b + (r + 1)].frame.n = held[r + 1]
      BY <2>1, <1>1 DEF Block
    <2>3. QED BY <2>1, <2>2, <1>6
  <1>10. 0 + (o - 1) <= m - 1
    BY <1>2, <1>3, <1>5
  <1>11. Block(z, p, h, 0)
    BY <1>6, <1>8, <1>9, <1>10, Zenon DEF Block
  <1>12. QED BY <1>1, <1>5, <1>7, <1>11

\* The oldest message is somebody else's.
LEMMA BlockBehind ==
  ASSUME NEW T, NEW q \in Seq(T), q # <<>>, NEW p, NEW held \in Seq(Nat), NEW b \in Nat,
         Block(q, p, held, b), q[1].peer # p
  PROVE  \E c \in Nat : Block(Tail(q), p, held, c)
  <1>1. PICK o, m, z : o = Len(held) /\ m = Len(q) /\ z = Tail(q)
    OBVIOUS
  <1>2. /\ o \in Nat /\ m \in Nat /\ m > 0
        /\ Len(z) = m - 1 /\ \A j \in 1..(m - 1) : z[j] = q[j + 1]
    BY <1>1
  <1>3. b + o <= m
    BY <1>1 DEF Block
  <1>4. 1 \notin (b + 1)..(b + o)
    BY <1>1, <1>2 DEF Block
  <1>5. o = 0 \/ b > 0
    BY <1>2, <1>4
  <1>6. PICK c : c = IF o = 0 THEN 0 ELSE b - 1
    OBVIOUS
  <1>7. c \in Nat /\ c + o <= m - 1
    BY <1>2, <1>3, <1>5, <1>6
  <1>8. ASSUME NEW j \in 1..(m - 1) PROVE z[j].peer = p <=> j \in (c + 1)..(c + o)
    <2>1. j + 1 \in 1..m
      BY <1>2
    <2>2. q[j + 1].peer = p <=> j + 1 \in (b + 1)..(b + o)
      BY <2>1, <1>1 DEF Block
    <2>3. j + 1 \in (b + 1)..(b + o) <=> j \in (c + 1)..(c + o)
      BY <1>2, <1>5, <1>6
    <2>4. QED BY <2>2, <2>3, <1>2
  <1>9. ASSUME NEW r \in 1..o PROVE z[c + r].frame.n = held[r]
    <2>1. c + r \in 1..(m - 1) /\ (c + r) + 1 = b + r
      BY <1>2, <1>5, <1>6, <1>7
    <2>2. q[b + r].frame.n = held[r]
      BY <1>1 DEF Block
    <2>3. QED BY <2>1, <2>2, <1>2
  <1>10. Block(z, p, held, c)
    BY <1>1, <1>2, <1>7, <1>8, <1>9, Zenon DEF Block
  <1>11. QED BY <1>1, <1>7, <1>10

\* Nothing of p is held.
LEMMA BlockNothing ==
  ASSUME NEW T, NEW q \in Seq(T), NEW p, \A j \in 1..Len(q) : q[j].peer # p
  PROVE  Block(q, p, <<>>, Len(q))
  BY DEF Block

\* A peer without a message in the caller's list holds none.
LEMMA BlockEmpty ==
  ASSUME NEW T, NEW q \in Seq(T), NEW p, NEW held \in Seq(Nat), NEW b \in Nat,
         Block(q, p, held, b), \A j \in 1..Len(q) : q[j].peer # p
  PROVE  Len(held) = 0
  <1>1. SUFFICES ASSUME Len(held) > 0 PROVE FALSE
    OBVIOUS
  <1>2. b + 1 \in 1..Len(q) /\ b + 1 \in (b + 1)..(b + Len(held))
    BY <1>1 DEF Block
  <1>3. QED BY <1>2 DEF Block

\* The frames held for p are the numbers "held".
LEMMA BlockFrames ==
  ASSUME NEW T, NEW q \in Seq(T), NEW p, NEW held \in Seq(Nat), NEW b \in Nat,
         Block(q, p, held, b)
  PROVE  {q[i].frame.n : i \in {j \in DOMAIN q : q[j].peer = p}} =
           {held[r] : r \in 1..Len(held)}
  <1>1. PICK o, m : o = Len(held) /\ m = Len(q)
    OBVIOUS
  <1>2. o \in Nat /\ m \in Nat /\ DOMAIN q = 1..m
    BY <1>1
  <1>3. b + o <= m
    BY <1>1 DEF Block
  <1>4. ASSUME NEW i \in 1..m, q[i].peer = p
        PROVE  \E r \in 1..o : q[i].frame.n = held[r]
    <2>1. i \in (b + 1)..(b + o)
      BY <1>1, <1>4 DEF Block
    <2>2. i - b \in 1..o /\ b + (i - b) = i
      BY <2>1, <1>2
    <2>3. QED BY <2>2, <1>1 DEF Block
  <1>5. ASSUME NEW r \in 1..o
        PROVE  b + r \in 1..m /\ q[b + r].peer = p /\ q[b + r].frame.n = held[r]
    <2>1. b + r \in 1..m /\ b + r \in (b + 1)..(b + o)
      BY <1>2, <1>3
    <2>2. QED BY <2>1, <1>1 DEF Block
  <1>6. PICK A, B : /\ A = {q[i].frame.n : i \in {j \in DOMAIN q : q[j].peer = p}}
                    /\ B = {held[r] : r \in 1..Len(held)}
    OBVIOUS
  <1>7. \A x \in A : x \in B
    BY <1>1, <1>2, <1>4, <1>6
  <1>8. \A x \in B : x \in A
    BY <1>1, <1>2, <1>5, <1>6
  <1>9. A = B
    BY <1>7, <1>8
  <1>10. QED BY <1>6, <1>9

-----------------------------------------------------------------------------
(* What follows the frames that were taken *)

\* After T frames: the lines already read, then the input, up to frame m.
Following(lines, s, T, m) ==
  /\ T + Len(lines) <= m
  /\ \A i \in 1..Len(lines) : lines[i].n = T + i
  /\ Numbered(s, T + Len(lines), m)

\* The first line is the next frame.
LEMMA FollowingNext ==
  ASSUME NEW lines \in Seq(Frame), lines # <<>>, NEW s, NEW T \in Nat, NEW m \in Nat,
         Following(lines, s, T, m)
  PROVE  Head(lines).n = T + 1 /\ Following(Tail(lines), s, T + 1, m)
  <1>1. PICK l, t : l = Len(lines) /\ t = Tail(lines)
    OBVIOUS
  <1>2. /\ l \in Nat /\ l > 0 /\ Len(t) = l - 1 /\ \A i \in 1..(l - 1) : t[i] = lines[i + 1]
        /\ Head(lines) = lines[1]
    BY <1>1
  <1>3. \A i \in 1..l : lines[i].n = T + i
    BY <1>1 DEF Following
  <1>4. Head(lines).n = T + 1
    BY <1>2, <1>3
  <1>5. ASSUME NEW i \in 1..(l - 1) PROVE t[i].n = (T + 1) + i
    <2>1. i + 1 \in 1..l /\ T + (i + 1) = (T + 1) + i
      BY <1>2
    <2>2. QED BY <2>1, <1>2, <1>3
  <1>6. (T + 1) + (l - 1) = T + l
    BY <1>2
  <1>7. Following(t, s, T + 1, m)
    BY <1>1, <1>2, <1>5, <1>6 DEF Following
  <1>8. QED BY <1>1, <1>4, <1>7

\* The lines that a read takes from the input are the next frames.
LEMMA FollowingRead ==
  ASSUME NEW s \in Seq(Token), NEW t, NEW T \in Nat, NEW m \in Nat, NEW lines \in Seq(Frame),
         Following(<<>>, s, T, m), Took(s, t, lines)
  PROVE  Following(lines, t, T, m)
  <1>1. T + 0 = T /\ Len(<<>>) = 0
    OBVIOUS
  <1>2. T <= m /\ Numbered(s, T, m)
    BY <1>1 DEF Following
  <1>3. QED BY <1>2 DEF Following, Took

\* Everything was taken.
LEMMA FollowingNothing ==
  ASSUME NEW T \in Nat, NEW m \in Nat, Following(<<>>, <<>>, T, m)
  PROVE  T = m
  <1>1. T + 0 = T /\ Len(<<>>) = 0
    OBVIOUS
  <1>2. T <= m /\ Numbered(<<>>, T, m)
    BY <1>1 DEF Following
  <1>3. (T + 1)..m = {}
    BY <1>2 DEF Numbered
  <1>4. QED BY <1>2, <1>3

\* What the peer writes follows.
LEMMA FollowingWrite ==
  ASSUME NEW lines \in Seq(Frame), NEW s \in Seq(Token), NEW T \in Nat, NEW m \in Nat,
         Following(lines, s, T, m), NEW x \in Token, NEW m2 \in Nat,
         \/ ~Unfinished(s) /\ x # Newline /\ x.n = m + 1 /\ m2 = m + 1
         \/ Unfinished(s) /\ x # Newline /\ x.n = m /\ m2 = m
         \/ x = Newline /\ m2 = m
  PROVE  Following(lines, Append(s, x), T, m2)
  <1>1. PICK c : c = T + Len(lines)
    OBVIOUS
  <1>2. c \in Nat /\ c <= m /\ Numbered(s, c, m) /\ c <= m2
    BY <1>1 DEF Following
  <1>3. Numbered(Append(s, x), c, m2)
    BY <1>2, TokenFacts, NumberedBegin, NumberedExtend, NumberedEnd
  <1>4. QED BY <1>1, <1>2, <1>3 DEF Following

\* The end of the input does not depend on what was taken from its front.
LEMMA UnfinishedAppend ==
  ASSUME NEW s \in Seq(Token), NEW x \in Token
  PROVE  Unfinished(Append(s, x)) <=> x # Newline
  BY DEF Unfinished

\* Input that ends inside a line did so before its beginning was read.
LEMMA UnfinishedSuffix ==
  ASSUME NEW s \in Seq(Token), NEW k \in 0..Len(s), Unfinished(Suffix(s, k))
  PROVE  Unfinished(s)
  <1>1. PICK m, t : m = Len(s) /\ t = Suffix(s, k)
    OBVIOUS
  <1>2. /\ m \in Nat /\ k \in 0..m /\ t \in Seq(Token) /\ Len(t) = m - k
        /\ \A i \in 1..(m - k) : t[i] = s[k + i]
    <2>1. m \in Nat /\ k \in 0..m
      BY <1>1
    <2>2. QED BY <2>1, <1>1, SuffixFacts, Zenon
  <1>3. t # <<>> /\ t[Len(t)] # Newline
    BY <1>1 DEF Unfinished
  <1>4. m - k \in 1..(m - k) /\ k + (m - k) = m
    BY <1>2, <1>3
  <1>5. s[m] # Newline /\ m > 0
    BY <1>2, <1>3, <1>4
  <1>6. QED BY <1>1, <1>5 DEF Unfinished

\* A message that is read moves from the wire to what was received.
LEMMA ReceiveJoins ==
  ASSUME NEW r \in Seq(Nat), NEW w \in Seq(Nat), w # <<>>, NEW o \in Seq(Nat)
  PROVE  Append(r, Head(w)) \o Tail(w) \o o = r \o w \o o
  <1>1. Append(r, Head(w)) \o Tail(w) = r \o w
    <2>1. PICK a, b, c, d : /\ a = Append(r, Head(w)) /\ b = Tail(w)
                            /\ c = Len(r) /\ d = Len(w)
      OBVIOUS
    <2>2. /\ c \in Nat /\ d \in Nat /\ d > 0 /\ Head(w) \in Nat /\ Head(w) = w[1]
          /\ a \in Seq(Nat) /\ b \in Seq(Nat) /\ Len(a) = c + 1 /\ Len(b) = d - 1
          /\ a[c + 1] = w[1] /\ (\A i \in 1..c : a[i] = r[i])
          /\ \A i \in 1..(d - 1) : b[i] = w[i + 1]
      BY <2>1
    <2>3. PICK x, y : x = a \o b /\ y = r \o w
      OBVIOUS
    <2>4. /\ x \in Seq(Nat) /\ Len(x) = (c + 1) + (d - 1)
          /\ \A i \in 1..(c + 1) : x[i] = a[i]
          /\ \A i \in ((c + 1) + 1)..((c + 1) + (d - 1)) : x[i] = b[i - (c + 1)]
      <3>1. /\ x \in Seq(Nat) /\ Len(x) = Len(a) + Len(b)
            /\ \A i \in 1..Len(a) : x[i] = a[i]
            /\ \A i \in (Len(a) + 1)..(Len(a) + Len(b)) : x[i] = b[i - Len(a)]
        <4>1. a \in Seq(Nat) /\ b \in Seq(Nat)
          BY <2>2
        <4>2. QED BY <4>1, <2>3, ConcatFacts, SMT
      <3>2. Len(a) = c + 1 /\ Len(b) = d - 1
        BY <2>2
      <3>3. QED BY <3>1, <3>2, Zenon
    <2>5. /\ y \in Seq(Nat) /\ Len(y) = c + d
          /\ \A i \in 1..c : y[i] = r[i]
          /\ \A i \in (c + 1)..(c + d) : y[i] = w[i - c]
      BY <2>1, <2>3, ConcatFacts
    <2>6. ASSUME NEW i \in 1..(c + d) PROVE x[i] = y[i]
      <3>1. CASE i \in 1..c
        <4>1. i \in 1..(c + 1)
          BY <3>1, <2>2
        <4>2. x[i] = a[i] /\ a[i] = r[i] /\ y[i] = r[i]
          BY <3>1, <4>1, <2>2, <2>4, <2>5
        <4>3. QED BY <4>2
      <3>2. CASE i = c + 1
        <4>1. x[i] = w[1]
          BY <3>2, <2>2, <2>4
        <4>2. y[i] = w[1]
          BY <3>2, <2>2, <2>5
        <4>3. QED BY <4>1, <4>2
      <3>3. CASE i > c + 1
        <4>1. i \in ((c + 1) + 1)..((c + 1) + (d - 1)) /\ i - (c + 1) \in 1..(d - 1)
              /\ i \in (c + 1)..(c + d) /\ (i - (c + 1)) + 1 = i - c
          BY <3>3, <2>2
        <4>2. x[i] = w[i - c]
          BY <4>1, <2>2, <2>4
        <4>3. QED BY <4>1, <4>2, <2>5
      <3>4. QED BY <3>1, <3>2, <3>3, <2>2
    <2>7. Len(x) = Len(y) /\ Len(y) = c + d
      BY <2>2, <2>4, <2>5
    <2>8. x = y
      BY <2>4, <2>5, <2>6, <2>7, SeqsEqual
    <2>9. QED BY <2>1, <2>3, <2>8
  <1>2. QED BY <1>1


-----------------------------------------------------------------------------
(* Replies and frames of one connection *)

\* What was said to p (sent), its client c, the messages q the caller holds,
\* the lines and the input s behind them: they account for the frames 1 to m
\* of p one after the other.
Paired(sent, c, q, p, lines, s, m) ==
  \E k \in Nat, held \in Seq(Nat), b \in Nat :
    /\ Ordered(sent, k)
    /\ c.delivered = c.answered + Len(held)
    /\ Queued(c.answered, c.deferred, k, held)
    /\ Block(q, p, held, b) /\ (lines # <<>> => b + Len(held) = Len(q))
    /\ Following(lines, s, k + Len(held) + Len(c.deferred), m)

SameTurns(c, d) ==
  /\ d.answered = c.answered /\ d.delivered = c.delivered /\ d.deferred = c.deferred

\* Sums of naturals are naturals.
LEMMA SumNat ==
  ASSUME NEW x \in Nat, NEW y \in Nat, NEW z \in Nat
  PROVE  x + y + z \in Nat
  OBVIOUS

\* Pairing depends on the turns of the client only.
LEMMA PairedSame ==
  ASSUME NEW sent, NEW c, NEW q, NEW p, NEW lines, NEW s, NEW m,
         Paired(sent, c, q, p, lines, s, m), NEW d, SameTurns(c, d)
  PROVE  Paired(sent, d, q, p, lines, s, m)
  BY DEF Paired, SameTurns

\* Paired replies are in order.
LEMMA PairedOrdered ==
  ASSUME NEW sent, NEW c, NEW q, NEW p, NEW lines, NEW s, NEW m,
         Paired(sent, c, q, p, lines, s, m)
  PROVE  \E k \in Nat : Ordered(sent, k)
  BY DEF Paired

\* The types of a client's turns.
LEMMA TurnTypes ==
  ASSUME NEW c \in ClientType
  PROVE  c.answered \in Nat /\ c.delivered \in Nat /\ c.deferred \in Seq(Errors)
         /\ Len(c.deferred) \in Nat
  BY DEF ClientType, Errors

\* An event comes between the replies.
LEMMA PairedEvent ==
  ASSUME NEW sent \in Seq(Nat), NEW c, NEW q, NEW p, NEW lines, NEW s, NEW m,
         Paired(sent, c, q, p, lines, s, m)
  PROVE  Paired(Append(sent, Event), c, q, p, lines, s, m)
  <1>1. PICK k \in Nat, held \in Seq(Nat), b \in Nat :
          /\ Ordered(sent, k)
          /\ c.delivered = c.answered + Len(held)
          /\ Queued(c.answered, c.deferred, k, held)
          /\ Block(q, p, held, b) /\ (lines # <<>> => b + Len(held) = Len(q))
          /\ Following(lines, s, k + Len(held) + Len(c.deferred), m)
    BY DEF Paired
  <1>2. Ordered(Append(sent, Event), k)
    BY <1>1, OrderedEvent
  <1>3. QED BY <1>1, <1>2 DEF Paired

\* The peer writes.
LEMMA PairedWrite ==
  ASSUME NEW sent, NEW c \in ClientType, NEW q, NEW p, NEW lines \in Seq(Frame),
         NEW s \in Seq(Token), NEW m \in Nat,
         Paired(sent, c, q, p, lines, s, m), NEW x \in Token, NEW m2 \in Nat,
         \/ ~Unfinished(s) /\ x # Newline /\ x.n = m + 1 /\ m2 = m + 1
         \/ Unfinished(s) /\ x # Newline /\ x.n = m /\ m2 = m
         \/ x = Newline /\ m2 = m
  PROVE  Paired(sent, c, q, p, lines, Append(s, x), m2)
  <1>1. PICK k \in Nat, held \in Seq(Nat), b \in Nat :
          /\ Ordered(sent, k)
          /\ c.delivered = c.answered + Len(held)
          /\ Queued(c.answered, c.deferred, k, held)
          /\ Block(q, p, held, b) /\ (lines # <<>> => b + Len(held) = Len(q))
          /\ Following(lines, s, k + Len(held) + Len(c.deferred), m)
    BY DEF Paired
  <1>2. PICK T : T = k + Len(held) + Len(c.deferred)
    OBVIOUS
  <1>3. T \in Nat
    <2>1. Len(held) \in Nat /\ Len(c.deferred) \in Nat
      BY TurnTypes
    <2>2. QED BY <2>1, <1>2, SumNat, Zenon
  <1>4. Following(lines, Append(s, x), T, m2)
    BY <1>1, <1>2, <1>3, FollowingWrite, Zenon
  <1>5. QED BY <1>1, <1>2, <1>4 DEF Paired

\* A further line goes to the caller.
LEMMA PairedDeliver ==
  ASSUME NEW T, NEW q \in Seq(T), NEW x \in T, NEW p, x.peer = p, x.frame.n \in Nat,
         NEW sent, NEW c \in ClientType, NEW lines \in Seq(Frame), lines # <<>>,
         x.frame.n = Head(lines).n, NEW s, NEW m \in Nat,
         Paired(sent, c, q, p, lines, s, m),
         NEW d, d.answered = c.answered, d.delivered = c.delivered + 1,
         d.deferred = c.deferred
  PROVE  Paired(sent, d, Append(q, x), p, Tail(lines), s, m)
  <1>1. PICK k \in Nat, held \in Seq(Nat), b \in Nat :
          /\ Ordered(sent, k)
          /\ c.delivered = c.answered + Len(held)
          /\ Queued(c.answered, c.deferred, k, held)
          /\ Block(q, p, held, b) /\ b + Len(held) = Len(q)
          /\ Following(lines, s, k + Len(held) + Len(c.deferred), m)
    BY DEF Paired
  <1>2. PICK n, y, a, df : /\ n = x.frame.n /\ y = k + Len(held) + Len(c.deferred)
                           /\ a = c.answered /\ df = c.deferred
    OBVIOUS
  <1>3. y \in Nat /\ a \in Nat /\ df \in Seq(Errors) /\ c.delivered \in Nat
        /\ Len(held) \in Nat /\ Len(df) \in Nat /\ n \in Nat
    <2>1. /\ Len(held) \in Nat /\ Len(c.deferred) \in Nat /\ c.answered \in Nat
          /\ c.delivered \in Nat /\ c.deferred \in Seq(Errors)
      BY TurnTypes
    <2>2. y \in Nat
      BY <2>1, <1>2, SumNat, Zenon
    <2>3. QED BY <2>1, <2>2, <1>2, Zenon
  <1>4. n = y + 1 /\ Following(Tail(lines), s, y + 1, m)
    <2>1. Following(lines, s, y, m)
      BY <1>1, <1>2, Zenon
    <2>2. Head(lines).n = y + 1 /\ Following(Tail(lines), s, y + 1, m)
      BY <2>1, <1>3, FollowingNext, Zenon
    <2>3. QED BY <2>2, <1>2, Zenon
  <1>5. PICK h : h = Append(held, n)
    OBVIOUS
  <1>6. h \in Seq(Nat) /\ Len(h) = Len(held) + 1
    BY <1>3, <1>5
  <1>7. n = k + Len(held) + Len(df) + 1
    BY <1>2, <1>4
  <1>8. Queued(a, df, k, h)
    BY <1>1, <1>2, <1>3, <1>5, <1>7, QueuedDeliver, Zenon
  <1>9. Block(Append(q, x), p, h, b) /\ b + Len(h) = Len(Append(q, x))
    BY <1>1, <1>2, <1>5, BlockAppend, Zenon
  <1>10. k + Len(h) + Len(df) = y + 1 /\ c.delivered + 1 = a + Len(h)
    <2>1. PICK u, v, w, z : u = Len(held) /\ v = Len(df) /\ w = c.delivered /\ z = Len(h)
      OBVIOUS
    <2>2. u \in Nat /\ v \in Nat /\ w \in Nat /\ z = u + 1 /\ y = k + u + v /\ w = a + u
      BY <2>1, <1>1, <1>2, <1>3, <1>6, Zenon
    <2>3. k + z + v = y + 1 /\ w + 1 = a + z
      BY <2>2, <1>3
    <2>4. QED BY <2>1, <2>3, Zenon
  <1>11. /\ d.delivered = d.answered + Len(h)
         /\ Queued(d.answered, d.deferred, k, h)
         /\ Following(Tail(lines), s, k + Len(h) + Len(d.deferred), m)
    BY <1>2, <1>4, <1>8, <1>10, Zenon
  <1>12. QED BY <1>1, <1>6, <1>9, <1>11, Zenon DEF Paired

\* The caller is given somebody else's line.
LEMMA PairedAside ==
  ASSUME NEW T, NEW q \in Seq(T), NEW x \in T, NEW p, x.peer # p,
         NEW sent, NEW c, NEW s, NEW m,
         Paired(sent, c, q, p, <<>>, s, m)
  PROVE  Paired(sent, c, Append(q, x), p, <<>>, s, m)
  <1>1. PICK k \in Nat, held \in Seq(Nat), b \in Nat :
          /\ Ordered(sent, k)
          /\ c.delivered = c.answered + Len(held)
          /\ Queued(c.answered, c.deferred, k, held)
          /\ Block(q, p, held, b)
          /\ Following(<<>>, s, k + Len(held) + Len(c.deferred), m)
    BY DEF Paired
  <1>2. Block(Append(q, x), p, held, b)
    BY <1>1, BlockAside, Zenon
  <1>3. QED BY <1>1, <1>2 DEF Paired

\* A parse error with nothing before it is answered.
LEMMA PairedRejectNow ==
  ASSUME NEW q, NEW p, NEW sent \in Seq(Nat), NEW c \in ClientType,
         NEW lines \in Seq(Frame), lines # <<>>, NEW s, NEW m \in Nat,
         Paired(sent, c, q, p, lines, s, m), c.answered = c.delivered, c.deferred = <<>>,
         NEW n, n = Head(lines).n
  PROVE  Paired(Append(sent, n), c, q, p, Tail(lines), s, m)
  <1>1. PICK k \in Nat, held \in Seq(Nat), b \in Nat :
          /\ Ordered(sent, k)
          /\ c.delivered = c.answered + Len(held)
          /\ Queued(c.answered, c.deferred, k, held)
          /\ Block(q, p, held, b) /\ b + Len(held) = Len(q)
          /\ Following(lines, s, k + Len(held) + Len(c.deferred), m)
    BY DEF Paired
  <1>2. /\ c.answered \in Nat /\ c.delivered \in Nat /\ c.deferred \in Seq(Errors)
        /\ Len(held) \in Nat
    BY TurnTypes
  <1>3. Len(held) = 0 /\ Len(c.deferred) = 0
    BY <1>1, <1>2
  <1>4. held = <<>>
    BY <1>3
  <1>5. Following(lines, s, k, m)
    <2>1. k + Len(held) + Len(c.deferred) = k
      BY <1>3
    <2>2. QED BY <1>1, <2>1, Zenon
  <1>6. n = k + 1 /\ Following(Tail(lines), s, k + 1, m)
    BY <1>5, FollowingNext, Zenon
  <1>7. Ordered(Append(sent, n), k + 1)
    BY <1>1, <1>6, OrderedNext
  <1>8. PICK j : j = k + 1
    OBVIOUS
  <1>9. j \in Nat /\ j + Len(held) + Len(c.deferred) = j
    BY <1>3, <1>8
  <1>10. Queued(c.answered, c.deferred, j, held)
    BY <1>2, <1>4, <1>9, NothingQueued
  <1>11. Following(Tail(lines), s, j + Len(held) + Len(c.deferred), m)
    BY <1>6, <1>8, <1>9, Zenon
  <1>12. Ordered(Append(sent, n), j)
    BY <1>7, <1>8
  <1>13. QED BY <1>1, <1>9, <1>10, <1>11, <1>12, Zenon DEF Paired

\* A parse error behind frames that await their reply waits with them.
LEMMA PairedRejectLater ==
  ASSUME NEW q, NEW p, NEW sent, NEW c \in ClientType,
         NEW lines \in Seq(Frame), lines # <<>>, NEW s, NEW m \in Nat,
         Paired(sent, c, q, p, lines, s, m), ~(c.answered = c.delivered /\ c.deferred = <<>>),
         NEW n, n = Head(lines).n,
         NEW d, d.answered = c.answered, d.delivered = c.delivered,
         d.deferred = Append(c.deferred, [due |-> c.delivered, n |-> n])
  PROVE  Paired(sent, d, q, p, Tail(lines), s, m)
  <1>1. PICK k \in Nat, held \in Seq(Nat), b \in Nat :
          /\ Ordered(sent, k)
          /\ c.delivered = c.answered + Len(held)
          /\ Queued(c.answered, c.deferred, k, held)
          /\ Block(q, p, held, b) /\ b + Len(held) = Len(q)
          /\ Following(lines, s, k + Len(held) + Len(c.deferred), m)
    BY DEF Paired
  <1>2. PICK a, df, y, x : /\ a = c.answered /\ df = c.deferred
                           /\ y = k + Len(held) + Len(c.deferred)
                           /\ x = [due |-> c.delivered, n |-> n]
    OBVIOUS
  <1>3. /\ a \in Nat /\ df \in Seq(Errors) /\ Len(held) \in Nat /\ Len(df) \in Nat
        /\ c.delivered \in Nat
    <2>1. Len(held) \in Nat
      OBVIOUS
    <2>2. QED BY <2>1, <1>2, TurnTypes, Zenon
  <1>4. y \in Nat
    BY <1>2, <1>3, SumNat, Zenon
  <1>5. n = y + 1 /\ Following(Tail(lines), s, y + 1, m)
    <2>1. Following(lines, s, y, m)
      BY <1>1, <1>2, Zenon
    <2>2. QED BY <2>1, <1>4, FollowingNext, Zenon
  <1>6. n \in Nat
    BY <1>4, <1>5
  <1>7. x \in Errors /\ x.due = a + Len(held) /\ x.n = n
    <2>1. x.due = c.delivered /\ x.n = n /\ x \in Errors
      BY <1>2, <1>3, <1>6 DEF Errors
    <2>2. QED BY <2>1, <1>1, <1>2, Zenon
  <1>8. Len(held) > 0
    <2>1. CASE Len(held) = 0
      <3>1. df = <<>>
        BY <2>1, <1>1, <1>2, <1>3, QueuedNothing, Zenon
      <3>2. c.answered = c.delivered
        BY <2>1, <1>1, <1>2, <1>3
      <3>3. QED BY <3>1, <3>2, <1>2
    <2>2. QED BY <2>1, <1>3
  <1>9. n = k + Len(held) + Len(df) + 1
    BY <1>2, <1>5, Zenon
  <1>10. Queued(a, Append(df, x), k, held)
    <2>1. Queued(a, df, k, held)
      BY <1>1, <1>2
    <2>2. QED BY <2>1, <1>3, <1>6, <1>7, <1>8, <1>9, QueuedReject, Zenon
  <1>11. PICK g : g = Append(df, x)
    OBVIOUS
  <1>12. Len(g) = Len(df) + 1
    BY <1>3, <1>7, <1>11
  <1>13. k + Len(held) + Len(g) = y + 1
    <2>1. PICK u, v, w : u = Len(held) /\ v = Len(df) /\ w = Len(g)
      OBVIOUS
    <2>2. u \in Nat /\ v \in Nat /\ w = v + 1 /\ y = k + u + v
      BY <2>1, <1>2, <1>3, <1>12, Zenon
    <2>3. k + u + w = y + 1
      BY <2>2
    <2>4. QED BY <2>1, <2>3, Zenon
  <1>14. d.deferred = g
    BY <1>2, <1>11, Zenon
  <1>15. /\ d.delivered = d.answered + Len(held)
         /\ Queued(d.answered, d.deferred, k, held)
         /\ Following(Tail(lines), s, k + Len(held) + Len(d.deferred), m)
    BY <1>1, <1>2, <1>5, <1>10, <1>11, <1>13, <1>14, Zenon
  <1>16. QED BY <1>1, <1>15, Zenon DEF Paired

\* The oldest message is somebody else's.
LEMMA PairedBehind ==
  ASSUME NEW T, NEW q \in Seq(T), q # <<>>, NEW p, q[1].peer # p,
         NEW sent, NEW c, NEW s, NEW m,
         Paired(sent, c, q, p, <<>>, s, m)
  PROVE  Paired(sent, c, Tail(q), p, <<>>, s, m)
  <1>1. PICK k \in Nat, held \in Seq(Nat), b \in Nat :
          /\ Ordered(sent, k)
          /\ c.delivered = c.answered + Len(held)
          /\ Queued(c.answered, c.deferred, k, held)
          /\ Block(q, p, held, b)
          /\ Following(<<>>, s, k + Len(held) + Len(c.deferred), m)
    BY DEF Paired
  <1>2. PICK e \in Nat : Block(Tail(q), p, held, e)
    BY <1>1, BlockBehind, Zenon
  <1>3. QED BY <1>1, <1>2 DEF Paired

\* Nothing of p is held: nothing waits for it.
LEMMA PairedNothing ==
  ASSUME NEW T, NEW q \in Seq(T), NEW p, \A j \in 1..Len(q) : q[j].peer # p,
         NEW sent, NEW c \in ClientType, NEW lines, NEW s, NEW m,
         Paired(sent, c, q, p, lines, s, m)
  PROVE  /\ c.deferred = <<>> /\ c.delivered = c.answered
         /\ \E k \in Nat : Ordered(sent, k) /\ Following(lines, s, k, m)
  <1>1. PICK k \in Nat, held \in Seq(Nat), b \in Nat :
          /\ Ordered(sent, k)
          /\ c.delivered = c.answered + Len(held)
          /\ Queued(c.answered, c.deferred, k, held)
          /\ Block(q, p, held, b)
          /\ Following(lines, s, k + Len(held) + Len(c.deferred), m)
    BY DEF Paired
  <1>2. c.answered \in Nat /\ c.deferred \in Seq(Errors)
    BY TurnTypes
  <1>3. Len(held) = 0
    BY <1>1, BlockEmpty, Zenon
  <1>4. c.deferred = <<>>
    BY <1>1, <1>2, <1>3, QueuedNothing, Zenon
  <1>5. Len(c.deferred) = 0
    BY <1>4
  <1>6. k + Len(held) + Len(c.deferred) = k
    BY <1>3, <1>5
  <1>7. c.delivered = c.answered
    BY <1>1, <1>2, <1>3
  <1>8. QED BY <1>1, <1>4, <1>6, <1>7, Zenon

\* The other way round.
LEMMA NothingPaired ==
  ASSUME NEW T, NEW q \in Seq(T), NEW p, \A j \in 1..Len(q) : q[j].peer # p,
         NEW sent, NEW c, c.answered \in Nat, c.delivered = c.answered, c.deferred = <<>>,
         NEW lines, NEW s, NEW m, NEW k \in Nat, Ordered(sent, k), Following(lines, s, k, m)
  PROVE  Paired(sent, c, q, p, lines, s, m)
  <1>1. PICK held, b : held = <<>> /\ b = Len(q)
    OBVIOUS
  <1>2. held \in Seq(Nat) /\ b \in Nat /\ Len(held) = 0 /\ Len(c.deferred) = 0
    BY <1>1
  <1>3. Block(q, p, held, b) /\ b + Len(held) = Len(q)
    <2>1. Block(q, p, <<>>, Len(q))
      BY BlockNothing, Zenon
    <2>2. b + Len(held) = Len(q)
      BY <1>1, <1>2
    <2>3. QED BY <2>1, <2>2, <1>1
  <1>4. Queued(c.answered, c.deferred, k, held)
    BY <1>1, NothingQueued
  <1>5. c.delivered = c.answered + Len(held) /\ k + Len(held) + Len(c.deferred) = k
    BY <1>2
  <1>6. Following(lines, s, k + Len(held) + Len(c.deferred), m)
    BY <1>5, Zenon
  <1>7. QED BY <1>2, <1>3, <1>4, <1>5, <1>6, Zenon DEF Paired

\* A read between polls of p takes the next frames.
LEMMA PairedRead ==
  ASSUME NEW T, NEW q \in Seq(T), NEW p, \A j \in 1..Len(q) : q[j].peer # p,
         NEW sent, NEW c \in ClientType, NEW s \in Seq(Token), NEW m \in Nat,
         Paired(sent, c, q, p, <<>>, s, m),
         NEW t, NEW lines \in Seq(Frame), Took(s, t, lines)
  PROVE  Paired(sent, c, q, p, lines, t, m)
  <1>1. /\ c.deferred = <<>> /\ c.delivered = c.answered
        /\ \E k \in Nat : Ordered(sent, k) /\ Following(<<>>, s, k, m)
    BY PairedNothing, Zenon
  <1>2. PICK k \in Nat : Ordered(sent, k) /\ Following(<<>>, s, k, m)
    BY <1>1
  <1>3. Following(lines, t, k, m)
    BY <1>2, FollowingRead, Zenon
  <1>4. c.answered \in Nat
    BY TurnTypes
  <1>5. QED BY <1>1, <1>2, <1>3, <1>4, NothingPaired, Zenon

\* With nothing held and nothing left to read, every frame has its reply.
LEMMA PairedDone ==
  ASSUME NEW T, NEW q \in Seq(T), NEW p, \A j \in 1..Len(q) : q[j].peer # p,
         NEW sent, NEW c \in ClientType, NEW m \in Nat,
         Paired(sent, c, q, p, <<>>, <<>>, m)
  PROVE  Ordered(sent, m)
  <1>1. PICK k \in Nat : Ordered(sent, k) /\ Following(<<>>, <<>>, k, m)
    BY PairedNothing, Zenon
  <1>2. k = m
    BY <1>1, FollowingNothing
  <1>3. QED BY <1>1, <1>2

\* The caller's reply to the oldest message, which is p's, and the parse errors
\* that waited for it.
LEMMA PairedReply ==
  ASSUME NEW T, NEW q \in Seq(T), q # <<>>, NEW p, q[1].peer = p,
         NEW sent \in Seq(Nat), NEW c \in ClientType, NEW s, NEW m \in Nat,
         Paired(sent, c, q, p, <<>>, s, m),
         NEW n, n = q[1].frame.n, NEW d, NEW j \in 0..Len(c.deferred),
         c.answered < c.delivered => d.answered = c.answered + 1,
         d.delivered = c.delivered, d.deferred = Suffix(c.deferred, j),
         DueErrors(c, j) \in Seq(Nat),
         \A i \in 1..j : c.deferred[i].due <= d.answered,
         j < Len(c.deferred) => ~(c.deferred[j + 1].due <= d.answered)
  PROVE  Paired(Append(sent, n) \o DueErrors(c, j), d, Tail(q), p, <<>>, s, m)
  <1>1. PICK k \in Nat, held \in Seq(Nat), b \in Nat :
          /\ Ordered(sent, k)
          /\ c.delivered = c.answered + Len(held)
          /\ Queued(c.answered, c.deferred, k, held)
          /\ Block(q, p, held, b)
          /\ Following(<<>>, s, k + Len(held) + Len(c.deferred), m)
    BY DEF Paired
  <1>2. PICK a, df, y, g, o : /\ a = c.answered /\ df = c.deferred
                              /\ y = k + Len(held) + Len(c.deferred)
                              /\ g = DueErrors(c, j) /\ o = Len(held)
    OBVIOUS
  <1>3. /\ a \in Nat /\ df \in Seq(Errors) /\ o \in Nat /\ Len(df) \in Nat
        /\ c.delivered \in Nat /\ j \in 0..Len(df)
    <2>1. Len(held) \in Nat
      OBVIOUS
    <2>2. QED BY <2>1, <1>2, TurnTypes, Zenon
  <1>4. b = 0 /\ o > 0 /\ held[1] = n /\ Block(Tail(q), p, Tail(held), 0)
    BY <1>1, <1>2, BlockFirst, Zenon
  <1>5. d.answered = a + 1
    <2>1. c.delivered = a + o
      BY <1>1, <1>2, Zenon
    <2>2. a < c.delivered
      BY <2>1, <1>3, <1>4
    <2>3. QED BY <2>2, <1>2
  <1>6. /\ Queued(a, df, k, held) /\ Len(held) > 0
        /\ \A i \in 1..j : df[i].due <= a + 1
        /\ j < Len(df) => ~(df[j + 1].due <= a + 1)
    BY <1>1, <1>2, <1>4, <1>5, Zenon
  <1>7. held[1] = k + 1 /\ \A i \in 1..j : df[i].n = k + 1 + i
    <2>1. InTurn(df, k, held, j)
      BY <1>3, <1>6, QueuedFirst, Zenon
    <2>2. QED BY <2>1 DEF InTurn
  <1>8. Queued(a + 1, Suffix(df, j), k + 1 + j, Tail(held))
    BY <1>3, <1>6, QueuedReply, Zenon
  <1>9. j \in Nat /\ k + 1 \in Nat /\ k + 1 + j \in Nat
    <2>1. j \in Nat
      BY <1>3
    <2>2. QED BY <2>1
  <1>10. Append(sent, n) \in Seq(Nat) /\ Ordered(Append(sent, n), k + 1)
    <2>1. n = k + 1
      BY <1>4, <1>7, Zenon
    <2>2. n \in Nat
      BY <2>1
    <2>3. QED BY <2>1, <2>2, <1>1, OrderedNext
  <1>11. g \in Seq(Nat) /\ Len(g) = j /\ \A i \in 1..Len(g) : g[i] = (k + 1) + i
    <2>1. g = [i \in 1..j |-> df[i].n] /\ g \in Seq(Nat)
      BY <1>2 DEF DueErrors
    <2>2. Len(g) = j
      BY <2>1, <1>9
    <2>3. \A i \in 1..j : g[i] = df[i].n
      BY <2>1
    <2>4. QED BY <2>1, <2>2, <2>3, <1>7
  <1>12. Ordered(Append(sent, n) \o g, k + 1 + j)
    <2>1. PICK r, h : r = Append(sent, n) /\ h = k + 1
      OBVIOUS
    <2>2. r \in Seq(Nat) /\ h \in Nat /\ Ordered(r, h) /\ \A i \in 1..Len(g) : g[i] = h + i
      BY <2>1, <1>9, <1>10, <1>11, Zenon
    <2>3. Ordered(r \o g, h + Len(g))
      BY <2>2, <1>11, OrderedRun, Zenon
    <2>4. QED BY <2>1, <2>3, <1>11, Zenon
  <1>13. Tail(held) \in Seq(Nat) /\ Len(Tail(held)) = o - 1
    BY <1>2, <1>6
  <1>14. Len(Suffix(df, j)) = Len(df) - j
    BY <1>3, SuffixFacts
  <1>15. PICK k2, h2, df2 : k2 = k + 1 + j /\ h2 = Tail(held) /\ df2 = Suffix(df, j)
    OBVIOUS
  <1>16. k2 + Len(h2) + Len(df2) = y /\ c.delivered = (a + 1) + Len(h2)
    <2>1. PICK u, v, w, z, e : u = Len(df) /\ v = Len(df2) /\ w = Len(h2) /\ z = c.delivered /\ e = j
      OBVIOUS
    <2>2. /\ u \in Nat /\ e \in Nat /\ v = u - e /\ w = o - 1 /\ z = a + o /\ y = k + o + u
          /\ k2 = k + 1 + e
      BY <2>1, <1>1, <1>2, <1>3, <1>9, <1>13, <1>14, <1>15, Zenon
    <2>3. k2 + w + v = y /\ z = (a + 1) + w
      BY <2>2, <1>3
    <2>4. QED BY <2>1, <2>3, Zenon
  <1>17. d.deferred = df2 /\ d.delivered = d.answered + Len(h2)
    BY <1>2, <1>5, <1>15, <1>16, Zenon
  <1>18. Queued(d.answered, d.deferred, k2, h2)
    BY <1>5, <1>8, <1>15, <1>17, Zenon
  <1>19. Following(<<>>, s, k2 + Len(h2) + Len(d.deferred), m)
    BY <1>1, <1>2, <1>16, <1>17, Zenon
  <1>20. Ordered(Append(sent, n) \o DueErrors(c, j), k2)
    BY <1>2, <1>12, <1>15, Zenon
  <1>21. k2 \in Nat /\ h2 \in Seq(Nat) /\ 0 \in Nat /\ Block(Tail(q), p, h2, 0)
    BY <1>4, <1>9, <1>13, <1>15
  <1>22. QED BY <1>17, <1>18, <1>19, <1>20, <1>21, Zenon DEF Paired

-----------------------------------------------------------------------------
(* What it means for the frames *)

\* The lines and the input behind them.
UnansweredFrames(lines, s, T, m) ==
  /\ {lines[i].n : i \in DOMAIN lines} = (T + 1)..(T + Len(lines))
  /\ {s[i].n : i \in DOMAIN s} \ {Newline.n} = (T + Len(lines) + 1)..m

\* Lines and unread input hold the frames that follow, each once.
LEMMA FollowingFrames ==
  ASSUME NEW lines \in Seq(Frame), NEW s, NEW T \in Nat, NEW m \in Nat,
         Following(lines, s, T, m)
  PROVE  UnansweredFrames(lines, s, T, m)
  <1>1. Len(lines) \in Nat /\ DOMAIN lines = 1..Len(lines)
    OBVIOUS
  <1>2. \A i \in 1..Len(lines) : lines[i].n = T + i
    BY DEF Following
  <1>3. PICK A, B, l : /\ A = {lines[i].n : i \in DOMAIN lines} /\ l = Len(lines)
                       /\ B = (T + 1)..(T + Len(lines))
    OBVIOUS
  <1>4. l \in Nat /\ B = (T + 1)..(T + l)
    BY <1>1, <1>3
  <1>5. ASSUME NEW x \in A PROVE x \in B
    <2>1. PICK i \in 1..l : x = lines[i].n
      BY <1>1, <1>3
    <2>2. x = T + i
      BY <2>1, <1>2, <1>3
    <2>3. QED BY <2>1, <2>2, <1>4
  <1>6. ASSUME NEW x \in B PROVE x \in A
    <2>1. x \in Int /\ x - T \in 1..l
      BY <1>4
    <2>2. lines[x - T].n = T + (x - T)
      BY <2>1, <1>2, <1>3
    <2>3. T + (x - T) = x
      BY <2>1
    <2>4. lines[x - T].n \in A
      BY <2>1, <1>1, <1>3
    <2>5. QED BY <2>2, <2>3, <2>4
  <1>7. A = B
    BY <1>5, <1>6
  <1>8. {s[i].n : i \in DOMAIN s} \ {Newline.n} = (T + Len(lines) + 1)..m
    BY DEF Following, Numbered
  <1>9. QED BY <1>3, <1>7, <1>8 DEF UnansweredFrames

\* Two adjacent intervals make one.
LEMMA Joined ==
  ASSUME NEW a \in Nat, NEW b \in Nat, NEW c \in Nat, a <= b, b <= c
  PROVE  ((b + 1)..c) \cup ((a + 1)..b) = (a + 1)..c
  OBVIOUS

\* The size of an interval.
LEMMA IntervalCount ==
  ASSUME NEW a \in Nat, NEW b \in Nat
  PROVE  Cardinality((a + 1)..(a + b)) = b
  <1>1. Cardinality((a + 1)..(a + b)) =
          IF a + 1 > a + b THEN 0 ELSE (a + b) - (a + 1) + 1
    BY FS_Interval
  <1>2. QED BY <1>1

\* Replies, frames on their way and unread frames follow each other: "lines"
\* are the lines of p, "o" the numbers of the frames on their way.
\* The frames read and not yet answered: lines, the caller's list, deferred errors.
Awaiting(lines, q, p, c) ==
  {lines[i].n : i \in DOMAIN lines}
    \cup {q[i].frame.n : i \in {j \in DOMAIN q : q[j].peer = p}}
    \cup {c.deferred[i].n : i \in DOMAIN c.deferred}

\* The answered, the awaiting and the unread frames are three consecutive intervals.
Partition(sent, o, s, m) ==
  LET k == Cardinality({sent[i] : i \in DOMAIN sent} \ {Event})
  IN  /\ o = (k + 1)..(k + Cardinality(o))
      /\ {s[i].n : i \in DOMAIN s} \ {Newline.n} = (k + Cardinality(o) + 1)..m

\* Pairing accounts for every frame of the peer, each once.
LEMMA PairedFrames ==
  ASSUME NEW T, NEW q \in Seq(T), NEW p, NEW sent, NEW c \in ClientType,
         NEW lines \in Seq(Frame), NEW s, NEW m \in Nat,
         Paired(sent, c, q, p, lines, s, m), NEW o, o = Awaiting(lines, q, p, c)
  PROVE  Partition(sent, o, s, m)
  <1>1. PICK k \in Nat, held \in Seq(Nat), b \in Nat :
          /\ Ordered(sent, k)
          /\ Queued(c.answered, c.deferred, k, held)
          /\ Block(q, p, held, b)
          /\ Following(lines, s, k + Len(held) + Len(c.deferred), m)
    BY DEF Paired
  <1>2. Cardinality({sent[i] : i \in DOMAIN sent} \ {Event}) = k
    BY <1>1, OrderedCount
  <1>3. PICK y, l, df, a : /\ y = k + Len(held) + Len(c.deferred) /\ l = Len(lines)
                           /\ df = c.deferred /\ a = c.answered
    OBVIOUS
  <1>4. a \in Nat /\ df \in Seq(Errors) /\ Len(held) \in Nat /\ Len(df) \in Nat /\ l \in Nat
        /\ DOMAIN df = 1..Len(df)
    <2>1. Len(held) \in Nat /\ l \in Nat
      BY <1>3
    <2>2. a \in Nat /\ df \in Seq(Errors)
      BY <1>3, TurnTypes, Zenon
    <2>3. QED BY <2>1, <2>2
  <1>5. y \in Nat /\ k <= y /\ y = k + Len(held) + Len(df)
    <2>1. y = k + Len(held) + Len(df)
      BY <1>3
    <2>2. QED BY <2>1, <1>4
  <1>6. /\ {lines[i].n : i \in DOMAIN lines} = (y + 1)..(y + l)
        /\ {s[i].n : i \in DOMAIN s} \ {Newline.n} = (y + l + 1)..m
    <2>1. Following(lines, s, y, m)
      BY <1>1, <1>3, Zenon
    <2>2. /\ {lines[i].n : i \in DOMAIN lines} = (y + 1)..(y + Len(lines))
          /\ {s[i].n : i \in DOMAIN s} \ {Newline.n} = (y + Len(lines) + 1)..m
      <3>1. UnansweredFrames(lines, s, y, m)
        BY <2>1, <1>5, FollowingFrames, Zenon
      <3>2. QED BY <3>1 DEF UnansweredFrames
    <2>3. QED BY <2>2, <1>3, Zenon
  <1>7. {q[i].frame.n : i \in {j \in DOMAIN q : q[j].peer = p}} = {held[r] : r \in 1..Len(held)}
    BY <1>1, BlockFrames, Zenon
  <1>8. {held[r] : r \in 1..Len(held)} \cup {df[i].n : i \in 1..Len(df)} = (k + 1)..y
    <2>1. Queued(a, df, k, held)
      BY <1>1, <1>3
    <2>2. {held[r] : r \in 1..Len(held)} \cup {df[i].n : i \in 1..Len(df)}
            = (k + 1)..(k + Len(held) + Len(df))
      <3>1. HeldFrames(df, k, held)
        BY <2>1, <1>4, QueuedAll, Zenon
      <3>2. QED BY <3>1 DEF HeldFrames
    <2>3. QED BY <2>2, <1>5, Zenon
  <1>9. PICK A, B, C : /\ A = {lines[i].n : i \in DOMAIN lines}
                       /\ B = {held[r] : r \in 1..Len(held)}
                       /\ C = {df[i].n : i \in 1..Len(df)}
    OBVIOUS
  <1>10. o = A \cup B \cup C
    BY <1>3, <1>4, <1>7, <1>9, Zenon DEF Awaiting
  <1>11. A \cup (B \cup C) = (k + 1)..(y + l)
    <2>1. A = (y + 1)..(y + l) /\ B \cup C = (k + 1)..y
      BY <1>6, <1>8, <1>9, Zenon
    <2>2. y + l \in Nat /\ y <= y + l
      BY <1>4, <1>5
    <2>3. PICK x : x = y + l
      OBVIOUS
    <2>4. ((y + 1)..x) \cup ((k + 1)..y) = (k + 1)..x
      BY <2>2, <2>3, <1>5, Joined, SMT
    <2>5. QED BY <2>1, <2>3, <2>4, Zenon
  <1>12. o = (k + 1)..(y + l)
    <2>1. A \cup B \cup C = A \cup (B \cup C)
      OBVIOUS
    <2>2. QED BY <2>1, <1>10, <1>11, Zenon
  <1>13. PICK z \in Nat : y + l = k + z
    <2>1. (y + l) - k \in Nat /\ y + l = k + ((y + l) - k)
      BY <1>4, <1>5
    <2>2. QED BY <2>1
  <1>14. Cardinality(o) = z
    <2>1. Cardinality((k + 1)..(k + z)) = z
      BY <1>13, IntervalCount, Zenon
    <2>2. QED BY <2>1, <1>12, <1>13, Zenon
  <1>15. o = (k + 1)..(k + Cardinality(o))
         /\ {s[i].n : i \in DOMAIN s} \ {Newline.n} = (k + Cardinality(o) + 1)..m
    BY <1>6, <1>12, <1>13, <1>14, Zenon
  <1>16. QED BY <1>2, <1>15, Zenon DEF Partition
=============================================================================
