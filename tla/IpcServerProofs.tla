-------------------------- MODULE IpcServerProofs --------------------------
(***************************************************************************)
(* The IPC server keeps its promises for every number of connections, every *)
(* input and every choice of the limits: what the poll loop knows of its    *)
(* clients, what wakes it, whose turn it is, which frames have replies.     *)
(***************************************************************************)
EXTENDS IpcServer, IpcClientProofs

-----------------------------------------------------------------------------
(* The shape of a state *)

PollType ==
  [ring : Seq(Peers), at : Nat \ {0}, lines : Seq(Frame), messages : Nat, bytes : Nat,
   dead : SUBSET [peer : Peers, why : ConnState], skipped : 0..MaxPeers]

TypeInv ==
  /\ peer \in [Peers -> PeerState] /\ conn \in [Peers -> ConnState]
  /\ stream \in [Peers -> Seq(Token)]
  /\ wire \in [Peers -> Seq(Nat)] /\ received \in [Peers -> Seq(Nat)]
  /\ frames \in [Peers -> Nat] /\ run \in [Peers -> Nat]
  /\ longest \in [Peers -> Nat] /\ written \in [Peers -> Nat]
  /\ client \in [Peers -> ClientType]
  /\ cursor \in Peers /\ armed \in BOOLEAN /\ poll \in PollType
  /\ incoming \in Seq([peer : Peers, frame : Frame])
  /\ pc \in {"idle", "poll", "respond"} /\ events \in 0..MaxEvents

\* The client with lines still to be parsed.
Reading(p) == poll.lines # <<>> /\ poll.ring[poll.at] = p

\* The poll: a list of distinct connected clients, served up to "at".
Shape ==
  /\ poll.at <= Len(poll.ring) + 1
  /\ pc # "poll" => poll.ring = <<>> /\ poll.at = 1 /\ poll.lines = <<>> /\ poll.dead = {}
  /\ pc = "poll" => poll.ring # <<>> /\ poll.skipped = 0
  /\ poll.lines # <<>> => poll.at <= Len(poll.ring)
  /\ pc = "idle" => incoming = <<>>
  /\ pc = "respond" => incoming # <<>>
  /\ \A i, j \in DOMAIN poll.ring : poll.ring[i] = poll.ring[j] => i = j
  /\ \A i \in DOMAIN poll.ring : conn[poll.ring[i]] = "open"
  /\ \A d \in poll.dead : \E i \in 1..(poll.at - 1) : poll.ring[i] = d.peer

\* A connection: its input is searched up to the scan position, its replies
\* never pass its frames, and after the end of stream nothing is left to read.
ClientOK(p) ==
  /\ Scanned(client[p])
  /\ client[p].answered <= client[p].delivered
  /\ Len(wire[p]) <= SocketSpace
  /\ client[p].read_closed => Eof(p) /\ stream[p] = <<>>
  /\ conn[p] # "open" => client[p] = NewClient
  /\ peer[p] = "absent" => conn[p] = "none"

BaseInv == TypeInv /\ Shape /\ \A p \in Peers : ClientOK(p)

\* The assumptions on the constants.
LEMMA ServerFacts ==
  /\ MaxPeers \in Nat \ {0} /\ MaxClients \in Nat \ {0} /\ MaxAcceptsPerPoll \in Nat \ {0}
  /\ MaxTotalMessages \in Nat \ {0} /\ MaxTotalReadBytes \in Nat \ {0}
  /\ MaxTokens \in [Peers -> Nat] /\ MaxEvents \in Nat
  /\ Sends \in [Peers -> SUBSET Kind]
  BY ServerAssumption

\* Peers are numbers.
LEMMA PeerNat ==
  \A x \in Peers : x \in Nat
  BY ServerFacts DEF Peers

\* The record of a client just accepted.
LEMMA NewClientFacts ==
  /\ NewClient \in ClientType /\ Scanned(NewClient) /\ Synced(NewClient)
  /\ NewClient.buf = <<>> /\ NewClient.out = <<>> /\ NewClient.deferred = <<>>
  /\ NewClient.answered = 0 /\ NewClient.delivered = 0 /\ NewClient.scan = 0
  /\ NewClient.read_closed = FALSE
  <1>1. PICK c : c = NewClient
    OBVIOUS
  <1>2. /\ c \in ClientType
        /\ c.buf = <<>> /\ c.out = <<>> /\ c.deferred = <<>>
        /\ c.answered = 0 /\ c.delivered = 0 /\ c.scan = 0
        /\ c.read_closed = FALSE /\ c.writable = FALSE /\ c.readable = TRUE
    BY <1>1 DEF NewClient, ClientType
  <1>3. Scanned(c)
    BY <1>2 DEF Scanned, Plain
  <1>4. Synced(c)
    BY <1>2 DEF Synced
  <1>5. QED BY <1>1, <1>2, <1>3, <1>4

\* Sorted lists the set in ascending order.
LEMMA SortedFacts ==
  ASSUME NEW S \in SUBSET Peers
  PROVE  /\ Sorted(S) \in Seq(Peers) /\ Len(Sorted(S)) = Cardinality(S)
         /\ Cardinality(S) \in Nat /\ (S # {} => Cardinality(S) > 0)
         /\ \A i \in 1..Cardinality(S) : Sorted(S)[i] \in S
         /\ \A i, j \in 1..Cardinality(S) : i < j => Sorted(S)[i] < Sorted(S)[j]
         /\ \A x \in S : \E i \in 1..Cardinality(S) : Sorted(S)[i] = x
  <1>1. PICK n : n = Cardinality(S)
    OBVIOUS
  <1>2. MaxPeers \in Nat /\ S \in SUBSET (1..MaxPeers) /\ \A x \in S : x \in Nat
    <2>1. MaxPeers \in Nat /\ S \in SUBSET (1..MaxPeers)
      BY ServerFacts DEF Peers
    <2>2. ASSUME NEW x \in S PROVE x \in Nat
      <3>1. x \in 1..MaxPeers
        BY <2>1
      <3>2. QED BY <3>1, <2>1
    <2>3. QED BY <2>1, <2>2
  <1>3. /\ IsFiniteSet(S) /\ n \in 0..MaxPeers
        /\ \A e \in S : Rank(S, e) \in 1..n
        /\ \A d, e \in S : d < e => Rank(S, d) < Rank(S, e)
    BY <1>1, <1>2, RankFacts
  <1>4. \A i \in 1..n : Nth(S, i) \in S /\ Rank(S, Nth(S, i)) = i
    BY <1>1, <1>2, NthFacts
  <1>5. PICK q : q = Sorted(S)
    OBVIOUS
  <1>6. q = [i \in 1..n |-> Nth(S, i)]
    BY <1>1, <1>5 DEF Sorted
  <1>7. n \in Nat
    BY <1>2, <1>3
  <1>8. q \in Seq(Peers) /\ Len(q) = n
    BY <1>4, <1>6, <1>7
  <1>9. \A i \in 1..n : q[i] \in S /\ Rank(S, q[i]) = i
    BY <1>4, <1>6
  <1>10. ASSUME NEW i \in 1..n, NEW j \in 1..n, i < j PROVE q[i] < q[j]
    <2>1. q[i] \in S /\ q[j] \in S /\ Rank(S, q[i]) = i /\ Rank(S, q[j]) = j
      BY <1>9
    <2>2. q[i] \in Nat /\ q[j] \in Nat
      BY <2>1, <1>2
    <2>3. q[j] < q[i] => j < i
      BY <2>1, <1>3
    <2>4. q[i] # q[j]
      BY <2>1, <1>10
    <2>5. QED BY <2>2, <2>3, <2>4, <1>10
  <1>11. ASSUME NEW x \in S PROVE \E i \in 1..n : q[i] = x
    <2>1. PICK i : i = Rank(S, x)
      OBVIOUS
    <2>2. i \in 1..n
      BY <2>1, <1>3
    <2>3. q[i] \in S /\ Rank(S, q[i]) = i
      BY <2>2, <1>9
    <2>4. x \in Nat /\ q[i] \in Nat
      BY <2>3, <1>2
    <2>5. ~(q[i] < x) /\ ~(x < q[i])
      BY <2>1, <2>2, <2>3, <1>3, <1>7
    <2>6. QED BY <2>2, <2>4, <2>5
  <1>12. S # {} => n > 0
    BY <1>1, <1>3, <1>7, FS_EmptySet
  <1>13. QED BY <1>1, <1>5, <1>7, <1>8, <1>9, <1>10, <1>11, <1>12

\* The ring holds every connected client once, the cursor's first.
LEMMA RingFacts ==
  ASSUME cursor \in Peers, NEW open \in SUBSET Peers
  PROVE  /\ Ring(open) \in Seq(Peers) /\ (open # {} => Ring(open) # <<>>)
         /\ \A i, j \in DOMAIN Ring(open) : Ring(open)[i] = Ring(open)[j] => i = j
         /\ \A i \in DOMAIN Ring(open) : Ring(open)[i] \in open
         /\ cursor \in open => Ring(open)[1] = cursor
  <1>1. PICK ids : ids = Sorted(open)
    OBVIOUS
  <1>2. PICK n : n = Cardinality(open)
    OBVIOUS
  <1>3. /\ ids \in Seq(Peers) /\ Len(ids) = n /\ n \in Nat /\ (open # {} => n > 0)
        /\ \A i \in 1..n : ids[i] \in open
        /\ \A i, j \in 1..n : i < j => ids[i] < ids[j]
        /\ \A x \in open : \E i \in 1..n : ids[i] = x
    BY <1>1, <1>2, SortedFacts
  <1>4. PICK later : later = {i \in 1..n : ids[i] >= cursor}
    OBVIOUS
  <1>5. PICK start : start = IF later = {} THEN 1 ELSE Min(later)
    OBVIOUS
  <1>6. later # {} => start \in later /\ \A x \in later : start <= x
    <2>1. later \in SUBSET Nat
      BY <1>4
    <2>2. ASSUME later # {} PROVE start \in later /\ \A x \in later : start <= x
      <3>1. \E x \in later : \A y \in later : x <= y
        BY <2>1, <2>2, LeastNat
      <3>2. start = CHOOSE x \in later : \A y \in later : x <= y
        BY <2>2, <1>5 DEF Min
      <3>3. QED BY <3>1, <3>2
    <2>3. QED BY <2>2
  <1>7. start \in 1..(n + 1) /\ (n > 0 => start \in 1..n)
    BY <1>3, <1>4, <1>5, <1>6
  <1>8. PICK h, t : h = SubSeq(ids, 1, start - 1) /\ t = SubSeq(ids, start, Len(ids))
    OBVIOUS
  <1>9. PICK k : k = start - 1
    OBVIOUS
  <1>10. k \in 0..Len(ids) /\ k \in 0..n /\ k + 1 = start
    BY <1>3, <1>7, <1>9
  <1>11. /\ t = Suffix(ids, k) /\ t \in Seq(Peers) /\ Len(t) = n - k
         /\ h \in Seq(Peers) /\ Len(h) = k
         /\ \A i \in 1..(n - k) : t[i] = ids[k + i]
         /\ \A i \in 1..k : h[i] = ids[i]
    <2>1. t = Suffix(ids, k)
      <3>1. k + 1 = start
        BY <1>10
      <3>2. SubSeq(ids, k + 1, Len(ids)) = SubSeq(ids, start, Len(ids))
        BY <3>1, Zenon
      <3>3. QED BY <3>2, <1>8, Zenon DEF Suffix
    <2>2. /\ Suffix(ids, k) \in Seq(Peers) /\ Len(Suffix(ids, k)) = Len(ids) - k
          /\ \A i \in 1..(Len(ids) - k) : Suffix(ids, k)[i] = ids[k + i]
      <3>1. ids \in Seq(Peers) /\ k \in 0..Len(ids)
        BY <1>3, <1>10
      <3>2. QED BY <3>1, SuffixFacts
    <2>3. /\ SubSeq(ids, 1, k) \in Seq(Peers) /\ Len(SubSeq(ids, 1, k)) = k
          /\ \A i \in 1..k : SubSeq(ids, 1, k)[i] = ids[i]
      BY <1>3, <1>10, PrefixFacts
    <2>4. QED BY <2>1, <2>2, <2>3, <1>3, <1>8, <1>9
  <1>12. PICK q : q = t \o h
    OBVIOUS
  <1>13. q = Ring(open)
    BY <1>1, <1>3, <1>4, <1>5, <1>8, <1>12, Zenon DEF Ring
  <1>14. /\ q \in Seq(Peers) /\ DOMAIN q = 1..n /\ Len(q) = n
         /\ \A i \in 1..(n - k) : q[i] = ids[k + i]
         /\ \A i \in (n - k + 1)..n : q[i] = ids[i - (n - k)]
    <2>1. /\ q \in Seq(Peers) /\ Len(q) = Len(t) + Len(h)
          /\ DOMAIN q = 1..(Len(t) + Len(h))
          /\ \A i \in 1..Len(t) : q[i] = t[i]
          /\ \A i \in (Len(t) + 1)..(Len(t) + Len(h)) : q[i] = h[i - Len(t)]
      <3>1. t \in Seq(Peers) /\ h \in Seq(Peers)
        BY <1>11
      <3>2. QED BY <3>1, <1>12, ConcatFacts
    <2>2. Len(t) + Len(h) = n
      BY <1>3, <1>10, <1>11
    <2>3. \A i \in 1..(n - k) : q[i] = ids[k + i]
      BY <2>1, <1>11
    <2>4. ASSUME NEW i \in (n - k + 1)..n PROVE q[i] = ids[i - (n - k)]
      <3>1. i - (n - k) \in 1..k /\ i \in (Len(t) + 1)..(Len(t) + Len(h))
        BY <2>2, <1>3, <1>10, <1>11
      <3>2. q[i] = h[i - (n - k)]
        BY <3>1, <2>1, <1>11
      <3>3. QED BY <3>1, <3>2, <1>11
    <2>5. QED BY <2>1, <2>2, <2>3, <2>4
  <1>15. \A i \in 1..n : i \in 1..(n - k) \/ i \in (n - k + 1)..n
    BY <1>3, <1>10
  <1>16. ASSUME NEW i \in 1..n PROVE q[i] \in open
    <2>1. CASE i \in 1..(n - k)
      <3>1. q[i] = ids[k + i] /\ k + i \in 1..n
        <4>1. k + i \in 1..n
          BY <2>1, <1>3, <1>10
        <4>2. QED BY <2>1, <4>1, <1>14
      <3>2. QED BY <3>1, <1>3
    <2>2. CASE i \in (n - k + 1)..n
      <3>1. q[i] = ids[i - (n - k)] /\ i - (n - k) \in 1..n
        <4>1. i - (n - k) \in 1..n
          BY <2>2, <1>3, <1>10
        <4>2. QED BY <2>2, <4>1, <1>14
      <3>2. QED BY <3>1, <1>3
    <2>3. QED BY <2>1, <2>2, <1>15
  <1>17. \A i, j \in 1..n : ids[i] = ids[j] => i = j
    <2>1. ASSUME NEW i \in 1..n, NEW j \in 1..n, ids[i] = ids[j] PROVE i = j
      <3>1. ids[i] \in Nat /\ ids[j] \in Nat
        <4>1. ids[i] \in Peers /\ ids[j] \in Peers
          BY <1>3
        <4>2. QED BY <4>1, PeerNat
      <3>2. ~(i < j) /\ ~(j < i)
        BY <2>1, <3>1, <1>3
      <3>3. QED BY <3>2
    <2>2. QED BY <2>1
  <1>18. ASSUME NEW i \in 1..n, NEW j \in 1..n, q[i] = q[j] PROVE i = j
    <2>1. CASE i \in 1..(n - k) /\ j \in 1..(n - k)
      <3>1. k + i \in 1..n /\ k + j \in 1..n /\ ids[k + i] = ids[k + j]
        BY <2>1, <1>3, <1>10, <1>14, <1>18
      <3>2. k + i = k + j
        BY <3>1, <1>17
      <3>3. QED BY <3>2, <1>10
    <2>2. CASE i \in 1..(n - k) /\ j \in (n - k + 1)..n
      <3>1. k + i \in 1..n /\ j - (n - k) \in 1..n /\ ids[k + i] = ids[j - (n - k)]
        BY <2>2, <1>3, <1>10, <1>14, <1>18
      <3>2. k + i = j - (n - k)
        BY <3>1, <1>17
      <3>3. QED BY <3>2, <2>2, <1>3, <1>10
    <2>3. CASE i \in (n - k + 1)..n /\ j \in 1..(n - k)
      <3>1. k + j \in 1..n /\ i - (n - k) \in 1..n /\ ids[k + j] = ids[i - (n - k)]
        BY <2>3, <1>3, <1>10, <1>14, <1>18
      <3>2. k + j = i - (n - k)
        BY <3>1, <1>17
      <3>3. QED BY <3>2, <2>3, <1>3, <1>10
    <2>4. CASE i \in (n - k + 1)..n /\ j \in (n - k + 1)..n
      <3>1. /\ i - (n - k) \in 1..n /\ j - (n - k) \in 1..n
            /\ ids[i - (n - k)] = ids[j - (n - k)]
        BY <2>4, <1>3, <1>10, <1>14, <1>18
      <3>2. i - (n - k) = j - (n - k)
        BY <3>1, <1>17
      <3>3. QED BY <3>2, <1>3, <1>10
    <2>5. QED BY <2>1, <2>2, <2>3, <2>4, <1>15
  <1>19. ASSUME cursor \in open PROVE q[1] = cursor
    <2>1. PICK i \in 1..n : ids[i] = cursor
      BY <1>3, <1>19
    <2>2. cursor \in Nat /\ ids[start] \in Nat /\ start \in later /\ start \in 1..n
      <3>1. cursor \in Nat
        BY ServerFacts DEF Peers
      <3>2. i \in later
        BY <2>1, <3>1, <1>4
      <3>3. start \in later /\ start \in 1..n
        BY <3>2, <1>4, <1>6
      <3>4. ids[start] \in Peers
        BY <3>3, <1>3
      <3>5. QED BY <3>1, <3>3, <3>4, ServerFacts DEF Peers
    <2>3. start <= i
      BY <2>1, <2>2, <1>4, <1>6
    <2>4. ids[start] >= cursor
      BY <2>2, <1>4
    <2>5. start < i => ids[start] < ids[i]
      BY <2>1, <2>2, <1>3
    <2>6. start = i
      BY <2>1, <2>2, <2>3, <2>4, <2>5
    <2>7. 1 \in 1..(n - k) /\ k + 1 = i
      BY <2>6, <2>1, <1>3, <1>10
    <2>8. QED BY <2>1, <2>7, <1>14
  <1>20. open # {} => q # <<>>
    BY <1>3, <1>14
  <1>21. QED BY <1>13, <1>14, <1>16, <1>18, <1>19, <1>20

\* accept_connections touches pending connections only, and keeps to the limit.
LEMMA AcceptedFacts ==
  ASSUME TypeInv
  PROVE  /\ Accepted \in [Peers -> ConnState]
         /\ \A p \in Peers : \/ Accepted[p] = conn[p]
                             \/ conn[p] = "pending" /\ Accepted[p] \in {"open", "refused"}
  <1>1. PICK now : now = Accepted
    OBVIOUS
  <1>2. PICK batch : batch = {p \in {q \in Peers : conn[q] = "pending"} :
                 Cardinality({q \in {x \in Peers : conn[x] = "pending"} : q <= p})
                   <= MaxAcceptsPerPoll}
    OBVIOUS
  <1>3. now = [p \in Peers |->
                 CASE p \notin batch -> conn[p]
                   [] p \in batch /\ Cardinality({q \in batch : q <= p}) <= ClientRoom -> "open"
                   [] OTHER -> "refused"]
    BY <1>1, <1>2, Zenon DEF Accepted
  <1>4. ASSUME NEW p \in Peers
        PROVE  /\ p \notin batch => now[p] = conn[p]
               /\ p \in batch => now[p] \in {"open", "refused"}
    <2>1. now[p] = CASE p \notin batch -> conn[p]
                     [] p \in batch /\ Cardinality({q \in batch : q <= p}) <= ClientRoom -> "open"
                     [] OTHER -> "refused"
      BY <1>3, Zenon
    <2>2. ASSUME p \notin batch PROVE now[p] = conn[p]
      BY <2>1, <2>2, Zenon
    <2>3. ASSUME p \in batch PROVE now[p] \in {"open", "refused"}
      <3>1. CASE Cardinality({q \in batch : q <= p}) <= ClientRoom
        BY <2>1, <2>3, <3>1, Zenon
      <3>2. CASE ~(Cardinality({q \in batch : q <= p}) <= ClientRoom)
        BY <2>1, <2>3, <3>2, Zenon
      <3>3. QED BY <3>1, <3>2
    <2>4. QED BY <2>2, <2>3
  <1>5. \A p \in batch : conn[p] = "pending"
    BY <1>2
  <1>6. now \in [Peers -> ConnState]
    <2>1. \A p \in Peers : now[p] \in ConnState
      BY <1>4 DEF ConnState, TypeInv
    <2>2. now = [p \in Peers |-> now[p]]
      BY <1>3
    <2>3. QED BY <2>1, <2>2
  <1>7. QED BY <1>1, <1>4, <1>5, <1>6

\* However many connections wait, the limit on clients holds.
LEMMA AcceptedCount ==
  ASSUME TypeInv, Cardinality(Open) <= MaxClients
  PROVE  Cardinality({p \in Peers : Accepted[p] = "open"}) <= MaxClients
  <1>1. PICK now : now = Accepted
    OBVIOUS
  <1>2. PICK batch : batch = {p \in {q \in Peers : conn[q] = "pending"} :
                 Cardinality({q \in {x \in Peers : conn[x] = "pending"} : q <= p})
                   <= MaxAcceptsPerPoll}
    OBVIOUS
  <1>3. now = [p \in Peers |->
                 CASE p \notin batch -> conn[p]
                   [] p \in batch /\ Cardinality({q \in batch : q <= p}) <= ClientRoom -> "open"
                   [] OTHER -> "refused"]
    BY <1>1, <1>2, Zenon DEF Accepted
  <1>4. PICK sel : sel = {p \in batch : Rank(batch, p) <= ClientRoom}
    OBVIOUS
  <1>5. batch \subseteq Peers /\ sel \subseteq batch
    BY <1>2, <1>4
  <1>6. {p \in Peers : now[p] = "open"} \subseteq Open \cup sel
    <2>1. ASSUME NEW p \in Peers, now[p] = "open" PROVE p \in Open \cup sel
      <3>1. now[p] = CASE p \notin batch -> conn[p]
                       [] p \in batch /\ Cardinality({q \in batch : q <= p}) <= ClientRoom -> "open"
                       [] OTHER -> "refused"
        BY <1>3, Zenon
      <3>2. CASE p \notin batch
        <4>1. now[p] = conn[p]
          BY <3>1, <3>2, Zenon
        <4>2. QED BY <4>1, <2>1 DEF Open
      <3>3. CASE p \in batch /\ ~(Cardinality({q \in batch : q <= p}) <= ClientRoom)
        <4>1. now[p] = "refused"
          BY <3>1, <3>3, Zenon
        <4>2. QED BY <4>1, <2>1
      <3>4. CASE p \in batch /\ Cardinality({q \in batch : q <= p}) <= ClientRoom
        BY <3>4, <1>4 DEF Rank
      <3>5. QED BY <3>2, <3>3, <3>4
    <2>2. QED BY <2>1
  <1>7. PICK n : n = MaxPeers
    OBVIOUS
  <1>8. n \in Nat /\ Peers = 1..n
    BY <1>7, ServerFacts DEF Peers
  <1>9. batch \in SUBSET (1..n) /\ sel \in SUBSET (1..n) /\ Open \in SUBSET (1..n)
    BY <1>5, <1>8 DEF Open
  <1>10. /\ IsFiniteSet(batch) /\ IsFiniteSet(sel) /\ IsFiniteSet(Open)
         /\ Cardinality(sel) \in Nat /\ Cardinality(Open) \in Nat
    <2>1. /\ IsFiniteSet(batch) /\ IsFiniteSet(sel) /\ IsFiniteSet(Open)
          /\ Cardinality(sel) \in 0..n /\ Cardinality(Open) \in 0..n
      BY <1>8, <1>9, RankFacts
    <2>2. QED BY <2>1, <1>8
  <1>11. ClientRoom \in Nat /\ ClientRoom + Cardinality(Open) = MaxClients
    BY <1>10, ServerFacts DEF ClientRoom
  <1>12. PICK room : room = ClientRoom
    OBVIOUS
  <1>13. Cardinality(sel) <= room
    <2>1. SUFFICES ASSUME ~(Cardinality(sel) <= room) PROVE FALSE
      OBVIOUS
    <2>2. room + 1 \in 1..Cardinality(sel)
      BY <2>1, <1>10, <1>11, <1>12
    <2>3. PICK e : e = Nth(sel, room + 1)
      OBVIOUS
    <2>4. e \in sel /\ Rank(sel, e) = room + 1
      BY <2>2, <2>3, <1>8, <1>9, NthFacts
    <2>5. Rank(batch, e) <= room
      BY <2>4, <1>4, <1>12
    <2>6. Rank(sel, e) <= Rank(batch, e) /\ Rank(batch, e) \in Nat
      <3>1. PICK A, B : A = {x \in sel : x <= e} /\ B = {x \in batch : x <= e}
        OBVIOUS
      <3>2. A \in SUBSET B /\ B \in SUBSET batch
        BY <3>1, <1>5
      <3>3. IsFiniteSet(B) /\ Cardinality(B) \in Nat
        BY <3>2, <1>10, FS_Subset, FS_CardinalityType
      <3>4. Cardinality(A) <= Cardinality(B)
        BY <3>2, <3>3, FS_Subset
      <3>5. QED BY <3>1, <3>3, <3>4 DEF Rank
    <2>7. QED BY <2>4, <2>5, <2>6, <1>11, <1>12
  <1>14. IsFiniteSet(Open \cup sel) /\ Cardinality(Open \cup sel) <= MaxClients
    <2>1. PICK u, v, w, x : /\ u = Cardinality(Open \cup sel) /\ v = Cardinality(Open)
                            /\ w = Cardinality(sel) /\ x = Cardinality(Open \cap sel)
      OBVIOUS
    <2>2. IsFiniteSet(Open \cup sel) /\ u = v + w - x
      BY <2>1, <1>10, FS_Union
    <2>3. x \in Nat
      <3>1. Open \cap sel \in SUBSET Open
        OBVIOUS
      <3>2. IsFiniteSet(Open \cap sel)
        BY <3>1, <1>10, FS_Subset
      <3>3. QED BY <3>2, <2>1, FS_CardinalityType
    <2>4. v \in Nat /\ w \in Nat /\ w <= room /\ room + v = MaxClients /\ room \in Nat
      BY <2>1, <1>10, <1>11, <1>12, <1>13
    <2>5. u <= MaxClients
      BY <2>2, <2>3, <2>4, ServerFacts
    <2>6. QED BY <2>1, <2>2, <2>5
  <1>15. PICK A : A = {p \in Peers : now[p] = "open"}
    OBVIOUS
  <1>16. A \in SUBSET (Open \cup sel)
    BY <1>6, <1>15
  <1>17. Cardinality(A) <= Cardinality(Open \cup sel) /\ IsFiniteSet(A)
    BY <1>14, <1>16, FS_Subset
  <1>18. Cardinality(A) \in Nat /\ Cardinality(Open \cup sel) \in Nat
    BY <1>14, <1>17, FS_CardinalityType
  <1>19. QED BY <1>1, <1>14, <1>15, <1>17, <1>18, ServerFacts

-----------------------------------------------------------------------------
(* What the steps of the server do, in terms of the facts about IpcClient *)

\* The interest of the client is refreshed with the last line.
Served(p, c, lines, d) ==
  /\ client' = [client EXCEPT ![p] = d]
  /\ SameInput(c, d) /\ SameReplies(c, d)
  /\ lines = <<>> => Synced(d)

\* What ending a client's turn changes.
LEMMA ServeFacts ==
  ASSUME NEW p \in Peers, NEW c \in ClientType, NEW lines, Serve(p, c, lines)
  PROVE  \E d : Served(p, c, lines, d)
  <1>1. CASE lines = <<>>
    <2>1. client' = [client EXCEPT ![p] = sync_client_interest(c)]
      BY <1>1 DEF Serve
    <2>2. Served(p, c, lines, sync_client_interest(c))
      BY <1>1, <2>1, SyncFacts DEF Served
    <2>3. QED BY <2>2
  <1>2. CASE lines # <<>>
    <2>1. client' = [client EXCEPT ![p] = c]
      BY <1>2 DEF Serve
    <2>2. SameInput(c, c) /\ SameReplies(c, c)
      BY DEF SameInput, SameReplies
    <2>3. Served(p, c, lines, c)
      BY <1>2, <2>1, <2>2 DEF Served
    <2>4. QED BY <2>3
  <1>3. QED BY <1>1, <1>2

\* The client whose turn it is.
Current(p) ==
  /\ pc = "poll" /\ p \in Peers /\ conn[p] = "open"
  /\ poll.at \in 1..Len(poll.ring) /\ p = poll.ring[poll.at]

\* The client whose turn it is, and the one after it.
LEMMA CurrentFacts ==
  ASSUME TypeInv, Shape, pc = "poll", poll.at <= Len(poll.ring), NEW p, p = poll.ring[poll.at]
  PROVE  Current(p) /\ NextInRing \in Peers
  <1>1. poll.ring \in Seq(Peers) /\ poll.at \in Nat \ {0}
    BY DEF TypeInv, PollType
  <1>2. poll.at \in 1..Len(poll.ring) /\ Len(poll.ring) \in Nat \ {0}
    BY <1>1
  <1>3. poll.at \in DOMAIN poll.ring
    BY <1>1, <1>2
  <1>4. p \in Peers /\ conn[p] = "open"
    BY <1>1, <1>2, <1>3 DEF Shape
  <1>5. (poll.at % Len(poll.ring)) + 1 \in 1..Len(poll.ring)
    <2>1. PICK a, n : a = poll.at /\ n = Len(poll.ring)
      OBVIOUS
    <2>2. n \in Nat \ {0} /\ a \in 1..n
      BY <1>2, <2>1
    <2>3. a % n \in 0..(n - 1)
      BY <2>2
    <2>4. (a % n) + 1 \in 1..n
      BY <2>2, <2>3
    <2>5. QED BY <2>1, <2>4
  <1>6. NextInRing \in Peers
    BY <1>1, <1>5 DEF NextInRing
  <1>7. QED BY <1>2, <1>4, <1>6 DEF Current

\* What a flush at the head of a client's turn gives.
TurnFlush(p, f) ==
  /\ SameInput(client[p], f.client) /\ f.client.answered <= f.client.delivered
  /\ f.wire \in Seq(Nat) /\ Len(f.wire) <= SocketSpace
  /\ f.error \in {"none", "failed", "backlogged"}
  /\ client[p].deferred = <<>> => Flushed(client[p], wire[p], f)

\* What the flush at the start of a turn leaves of the client.
LEMMA TurnFlushFacts ==
  ASSUME TypeInv, NEW p \in Peers, ClientOK(p), NEW f,
         f = flush_out(release_abandoned_replies(client[p]), wire[p], Gone(p))
  PROVE  TurnFlush(p, f)
  <1>1. /\ client[p] \in ClientType /\ wire[p] \in Seq(Nat) /\ Len(wire[p]) <= SocketSpace
        /\ client[p].answered <= client[p].delivered /\ Gone(p) \in BOOLEAN
    BY DEF TypeInv, ClientOK, Gone
  <1>2. PICK c, w, gone : c = client[p] /\ w = wire[p] /\ gone = Gone(p)
    OBVIOUS
  <1>3. PICK d : d = release_abandoned_replies(c)
    OBVIOUS
  <1>4. c \in ClientType /\ c.answered <= c.delivered
    BY <1>1, <1>2
  <1>5. /\ SameInput(c, d) /\ d.delivered = c.delivered /\ d.answered <= d.delivered
        /\ c.deferred = <<>> => d = c
    BY <1>3, <1>4, ReleaseFacts
  <1>6. d \in ClientType /\ w \in Seq(Nat) /\ Len(w) <= SocketSpace /\ gone \in BOOLEAN
    BY <1>1, <1>2, <1>5 DEF SameInput
  <1>7. f = flush_out(d, w, gone)
    BY <1>2, <1>3, Zenon
  <1>8. Flushed(d, w, f)
    BY <1>6, <1>7, FlushFacts
  <1>9. SameInput(d, f.client) /\ f.client.answered = d.answered
        /\ f.client.delivered = d.delivered
    BY <1>6, <1>8, FlushKeeps, Zenon
  <1>10. SameInput(c, f.client) /\ f.client.answered <= f.client.delivered
    BY <1>5, <1>9 DEF SameInput
  <1>11. c.deferred = <<>> => Flushed(c, w, f)
    BY <1>5, <1>8
  <1>12. /\ f.wire \in Seq(Nat) /\ Len(f.wire) <= SocketSpace
         /\ f.error \in {"none", "failed", "backlogged"}
    BY <1>8 DEF Flushed
  <1>13. QED BY <1>2, <1>10, <1>11, <1>12 DEF TurnFlush

\* A turn that loses its client: the flush or the read failed.
LostTurn(p, f, why, n) ==
  /\ Current(p) /\ poll.lines = <<>> /\ BudgetLeft
  /\ TurnFlush(p, f) /\ why \in {"failed", "backlogged"} /\ n \in Nat
  /\ cursor' = NextInRing /\ NextInRing \in Peers
  /\ client' = [client EXCEPT ![p] = f.client]
  /\ wire' = [wire EXCEPT ![p] = f.wire]
  /\ poll' = [poll EXCEPT !.at = @ + 1, !.bytes = @ + n,
                          !.dead = @ \cup {[peer |-> p, why |-> why]}]
  /\ UNCHANGED <<peerVars, conn, armed, incoming, pc, events>>

\* What PollUnflushable does.
LEMMA UnflushableFacts ==
  ASSUME BaseInv, PollUnflushable
  PROVE  \E p, f, why, n : LostTurn(p, f, why, n)
  <1>1. PICK p : p = poll.ring[poll.at]
    OBVIOUS
  <1>2. PICK f : f = flush_out(release_abandoned_replies(client[p]), wire[p], Gone(p))
    OBVIOUS
  <1>3. /\ pc = "poll" /\ poll.lines = <<>>
        /\ poll.at <= Len(poll.ring) /\ BudgetLeft
        /\ f.error # "none"
        /\ cursor' = NextInRing
        /\ client' = [client EXCEPT ![p] = f.client]
        /\ wire' = [wire EXCEPT ![p] = f.wire]
        /\ poll' = [poll EXCEPT !.at = @ + 1,
                                !.dead = @ \cup Casualty(p, f.error)]
        /\ UNCHANGED <<peerVars, conn, armed, incoming, pc, events>>
    BY <1>1, <1>2, Zenon DEF PollUnflushable
  <1>4. Current(p) /\ NextInRing \in Peers
    BY <1>1, <1>3, CurrentFacts DEF BaseInv
  <1>5. TurnFlush(p, f)
    <2>1. p \in Peers
      BY <1>4 DEF Current
    <2>2. TypeInv /\ ClientOK(p)
      BY <2>1 DEF BaseInv
    <2>3. QED BY <1>2, <2>1, <2>2, TurnFlushFacts
  <1>6. Casualty(p, f.error) = {[peer |-> p, why |-> f.error]}
    BY <1>3 DEF Casualty
  <1>7. /\ f.error \in {"failed", "backlogged"}
        /\ poll' = [poll EXCEPT !.at = @ + 1, !.bytes = @ + 0,
                                !.dead = @ \cup {[peer |-> p, why |-> f.error]}]
    <2>1. f.error \in {"failed", "backlogged"}
      BY <1>3, <1>5 DEF TurnFlush
    <2>2. PICK x, y : x = {[peer |-> p, why |-> f.error]} /\ y = poll.dead \cup x
      OBVIOUS
    <2>3. poll' = [poll EXCEPT !.at = @ + 1, !.dead = y]
      BY <1>3, <1>6, <2>2
    <2>4. poll \in PollType /\ poll.bytes + 0 = poll.bytes
      BY DEF BaseInv, TypeInv, PollType
    <2>5. poll' = [poll EXCEPT !.at = @ + 1, !.bytes = @ + 0, !.dead = y]
      BY <2>3, <2>4 DEF PollType
    <2>6. QED BY <2>1, <2>2, <2>5
  <1>8. LostTurn(p, f, f.error, 0)
    <2>1. 0 \in Nat
      OBVIOUS
    <2>2. QED BY <2>1, <1>3, <1>4, <1>5, <1>7, Zenon DEF LostTurn
  <1>9. QED BY <1>8

\* What a read takes in the turn of a client.
LEMMA TurnRead ==
  ASSUME BaseInv, NEW p, Current(p), NEW f, TurnFlush(p, f), BudgetLeft,
         NEW r, r = read_messages(f.client, MaxTotalMessages - poll.messages,
                                  MaxTotalReadBytes - poll.bytes, stream[p], Eof(p))
  PROVE  ReadTook(f.client, stream[p], Eof(p), r)
  <1>1. p \in Peers /\ TypeInv /\ ClientOK(p)
    BY DEF Current, BaseInv
  <1>2. PICK mb, rb : mb = MaxTotalMessages - poll.messages /\ rb = MaxTotalReadBytes - poll.bytes
    OBVIOUS
  <1>3. PICK c, s, e : c = f.client /\ s = stream[p] /\ e = Eof(p)
    OBVIOUS
  <1>4. mb \in Nat \ {0} /\ rb \in Nat \ {0}
    <2>1. poll.messages \in Nat /\ poll.bytes \in Nat
      BY <1>1 DEF TypeInv, PollType
    <2>2. poll.messages < MaxTotalMessages /\ poll.bytes < MaxTotalReadBytes
      BY DEF BudgetLeft
    <2>3. QED BY <2>1, <2>2, <1>2, ServerFacts
  <1>5. c \in ClientType /\ c.buf = client[p].buf /\ c.scan = client[p].scan
        /\ c.read_closed = client[p].read_closed
    BY <1>3 DEF TurnFlush, SameInput
  <1>6. Scanned(c)
    BY <1>5, <1>1 DEF ClientOK, Scanned
  <1>7. s \in Seq(Token) /\ e \in BOOLEAN /\ (c.read_closed => s = <<>>)
    BY <1>3, <1>5, <1>1 DEF TypeInv, ClientOK, Eof
  <1>8. ReadTook(c, s, e, read_messages(c, mb, rb, s, e))
    BY <1>4, <1>5, <1>6, <1>7, ReadFacts
  <1>9. QED BY <1>2, <1>3, <1>8

\* What PollReadFails does.
LEMMA ReadFailsFacts ==
  ASSUME BaseInv, PollReadFails
  PROVE  \E p, f, why, n : LostTurn(p, f, why, n)
  <1>1. PICK p : p = poll.ring[poll.at]
    OBVIOUS
  <1>2. PICK f : f = flush_out(release_abandoned_replies(client[p]), wire[p], Gone(p))
    OBVIOUS
  <1>3. PICK r : r = read_messages(f.client, MaxTotalMessages - poll.messages,
                                   MaxTotalReadBytes - poll.bytes, stream[p], Eof(p))
    OBVIOUS
  <1>4. /\ pc = "poll" /\ poll.lines = <<>>
        /\ poll.at <= Len(poll.ring) /\ BudgetLeft
        /\ cursor' = NextInRing
        /\ client' = [client EXCEPT ![p] = f.client]
        /\ wire' = [wire EXCEPT ![p] = f.wire]
        /\ poll' = [poll EXCEPT !.at = @ + 1, !.bytes = @ + r.bytes,
                                !.dead = @ \cup Casualty(p, "failed")]
        /\ UNCHANGED <<peerVars, conn, armed, incoming, pc, events>>
    BY <1>1, <1>2, <1>3, Zenon DEF PollReadFails
  <1>5. Current(p) /\ NextInRing \in Peers
    BY <1>1, <1>4, CurrentFacts DEF BaseInv
  <1>6. TurnFlush(p, f)
    <2>1. p \in Peers /\ TypeInv /\ ClientOK(p)
      BY <1>5 DEF Current, BaseInv
    <2>2. QED BY <1>2, <2>1, TurnFlushFacts
  <1>7. r.bytes \in Nat
    <2>1. ReadTook(f.client, stream[p], Eof(p), r)
      BY <1>3, <1>4, <1>5, <1>6, TurnRead
    <2>2. stream[p] \in Seq(Token)
      BY <1>5 DEF Current, BaseInv, TypeInv
    <2>3. r.bytes \in 0..Len(stream[p])
      BY <2>1 DEF ReadTook
    <2>4. QED BY <2>2, <2>3
  <1>8. Casualty(p, "failed") = {[peer |-> p, why |-> "failed"]}
    BY DEF Casualty
  <1>9. LostTurn(p, f, "failed", r.bytes)
    <2>1. "failed" \in {"failed", "backlogged"}
      OBVIOUS
    <2>2. QED BY <2>1, <1>4, <1>5, <1>6, <1>7, <1>8, Zenon DEF LostTurn
  <1>10. QED BY <1>9

PolledClient(p, f, r, d) ==
  /\ Current(p) /\ poll.lines = <<>> /\ BudgetLeft
  /\ TurnFlush(p, f) /\ ReadTook(f.client, stream[p], Eof(p), r)
  /\ cursor' = NextInRing /\ NextInRing \in Peers
  /\ Served(p, r.client, r.frames, d)
  /\ wire' = [wire EXCEPT ![p] = f.wire]
  /\ stream' = [stream EXCEPT ![p] = Suffix(stream[p], r.bytes)]
  /\ poll' = [poll EXCEPT !.lines = r.frames,
                          !.at = IF r.frames = <<>> THEN poll.at + 1 ELSE poll.at,
                          !.messages = @ + Len(r.frames),
                          !.bytes = @ + r.bytes,
                          !.dead = @ \cup Casualty(p, Fatal(r))]
  /\ UNCHANGED <<peer, received, frames, run, longest, written, conn, armed,
                 incoming, pc, events>>

\* What PollClient does.
LEMMA PollClientFacts ==
  ASSUME BaseInv, PollClient
  PROVE  \E p, f, r, d : PolledClient(p, f, r, d)
  <1>1. PICK p : p = poll.ring[poll.at]
    OBVIOUS
  <1>2. PICK f : f = flush_out(release_abandoned_replies(client[p]), wire[p], Gone(p))
    OBVIOUS
  <1>3. PICK mb, rb : mb = MaxTotalMessages - poll.messages /\ rb = MaxTotalReadBytes - poll.bytes
    OBVIOUS
  <1>4. PICK r : r = read_messages(f.client, mb, rb, stream[p], Eof(p))
    OBVIOUS
  <1>5. /\ pc = "poll" /\ poll.lines = <<>>
        /\ poll.at <= Len(poll.ring) /\ BudgetLeft
        /\ f.error = "none"
        /\ cursor' = NextInRing
        /\ Serve(p, r.client, r.frames)
        /\ wire' = [wire EXCEPT ![p] = f.wire]
        /\ stream' = [stream EXCEPT ![p] = SubSeq(@, r.bytes + 1, Len(@))]
        /\ poll' = [WithLines(r.frames) EXCEPT
                      !.messages = @ + Len(r.frames),
                      !.bytes = @ + r.bytes,
                      !.dead = @ \cup Casualty(p, Fatal(r))]
        /\ UNCHANGED <<peer, received, frames, run, longest, written, conn, armed,
                       incoming, pc, events>>
    BY <1>1, <1>2, <1>3, <1>4, Zenon DEF PollClient
  <1>6. Current(p) /\ NextInRing \in Peers
    BY <1>1, <1>5, CurrentFacts DEF BaseInv
  <1>7. p \in Peers /\ TypeInv /\ ClientOK(p)
    BY <1>6 DEF Current, BaseInv
  <1>8. TurnFlush(p, f)
    BY <1>2, <1>7, TurnFlushFacts
  <1>9. ReadTook(f.client, stream[p], Eof(p), r)
    BY <1>3, <1>4, <1>5, <1>6, <1>8, TurnRead
  <1>10. PICK d : Served(p, r.client, r.frames, d)
    <2>1. r.client \in ClientType
      BY <1>9 DEF ReadTook
    <2>2. QED BY <2>1, <1>5, <1>7, ServeFacts
  <1>11. stream' = [stream EXCEPT ![p] = Suffix(stream[p], r.bytes)]
    BY <1>5 DEF Suffix
  <1>12. poll' = [poll EXCEPT !.lines = r.frames,
                              !.at = IF r.frames = <<>> THEN poll.at + 1 ELSE poll.at,
                              !.messages = @ + Len(r.frames),
                              !.bytes = @ + r.bytes,
                              !.dead = @ \cup Casualty(p, Fatal(r))]
    <2>1. PICK fs, at, n, b, x : /\ fs = r.frames
                                 /\ at = IF r.frames = <<>> THEN poll.at + 1 ELSE poll.at
                                 /\ n = Len(r.frames) /\ b = r.bytes
                                 /\ x = Casualty(p, Fatal(r))
      OBVIOUS
    <2>2. WithLines(fs) = [poll EXCEPT !.lines = fs, !.at = at]
      BY <2>1 DEF WithLines
    <2>3. poll' = [WithLines(fs) EXCEPT !.messages = @ + n, !.bytes = @ + b,
                                        !.dead = @ \cup x]
      BY <2>1, <1>5
    <2>4. poll' = [poll EXCEPT !.lines = fs, !.at = at, !.messages = @ + n,
                               !.bytes = @ + b, !.dead = @ \cup x]
      BY <2>2, <2>3, <1>7 DEF TypeInv, PollType
    <2>5. QED BY <2>1, <2>4
  <1>13. PolledClient(p, f, r, d)
    BY <1>5, <1>6, <1>8, <1>9, <1>10, <1>11, <1>12, Zenon DEF PolledClient
  <1>14. QED BY <1>13

\* The client whose lines are being parsed, and the oldest of them.
Parsing(p, m) ==
  /\ Current(p) /\ poll.lines # <<>>
  /\ m = Head(poll.lines) /\ m \in Frame /\ Tail(poll.lines) \in Seq(Frame)

\* The client whose lines are being parsed.
LEMMA ParsingFacts ==
  ASSUME TypeInv, Shape, pc = "poll", poll.lines # <<>>, NEW p, p = poll.ring[poll.at],
         NEW m, m = Head(poll.lines)
  PROVE  Parsing(p, m)
  <1>1. Current(p)
    BY CurrentFacts DEF Shape
  <1>2. poll.lines \in Seq(Frame)
    BY DEF TypeInv, PollType
  <1>3. m \in Frame /\ Tail(poll.lines) \in Seq(Frame)
    BY <1>2
  <1>4. QED BY <1>1, <1>3 DEF Parsing

RejectedLine(p, m, r, d) ==
  /\ Parsing(p, m)
  /\ Rejected(client[p], m.n, wire[p], r)
  /\ Served(p, r.client, Tail(poll.lines), d)
  /\ wire' = [wire EXCEPT ![p] = r.wire]
  /\ poll' = WithLines(Tail(poll.lines))
  /\ UNCHANGED <<peerVars, conn, cursor, armed, incoming, pc, events>>

\* What RejectFrame does.
LEMMA RejectFrameFacts ==
  ASSUME BaseInv, RejectFrame
  PROVE  \E p, m, r, d : RejectedLine(p, m, r, d)
  <1>1. PICK p, m : p = poll.ring[poll.at] /\ m = Head(poll.lines)
    OBVIOUS
  <1>2. PICK r : r = reject_frame(client[p], m.n, wire[p], Gone(p))
    OBVIOUS
  <1>3. /\ pc = "poll" /\ poll.lines # <<>>
        /\ Serve(p, r.client, Tail(poll.lines))
        /\ wire' = [wire EXCEPT ![p] = r.wire]
        /\ poll' = WithLines(Tail(poll.lines))
        /\ UNCHANGED <<peerVars, conn, cursor, armed, incoming, pc, events>>
    BY <1>1, <1>2, Zenon DEF RejectFrame
  <1>4. Parsing(p, m)
    BY <1>1, <1>3, ParsingFacts DEF BaseInv
  <1>5. p \in Peers /\ m.n \in Nat /\ TypeInv /\ ClientOK(p)
    BY <1>4 DEF Parsing, Current, BaseInv, Frame
  <1>6. Rejected(client[p], m.n, wire[p], r)
    <2>1. PICK c, n, w, g : c = client[p] /\ n = m.n /\ w = wire[p] /\ g = Gone(p)
      OBVIOUS
    <2>2. c \in ClientType /\ n \in Nat /\ w \in Seq(Nat) /\ Len(w) <= SocketSpace
          /\ g \in BOOLEAN
      BY <2>1, <1>5 DEF TypeInv, ClientOK, Gone
    <2>3. Rejected(c, n, w, reject_frame(c, n, w, g))
      BY <2>2, RejectFacts
    <2>4. QED BY <2>1, <2>3, <1>2
  <1>7. r.client \in ClientType
    BY <1>6 DEF Rejected, SameInput
  <1>8. PICK d : Served(p, r.client, Tail(poll.lines), d)
    BY <1>3, <1>5, <1>7, ServeFacts
  <1>9. RejectedLine(p, m, r, d)
    BY <1>3, <1>4, <1>6, <1>8, Zenon DEF RejectedLine
  <1>10. QED BY <1>9

DeliveredLine(p, m, c, d) ==
  /\ Parsing(p, m)
  /\ SameInput(client[p], c) /\ c.out = client[p].out /\ c.deferred = client[p].deferred
  /\ c.answered = client[p].answered /\ c.delivered = client[p].delivered + 1
  /\ Served(p, c, Tail(poll.lines), d)
  /\ incoming' = Append(incoming, [peer |-> p, frame |-> m])
  /\ poll' = WithLines(Tail(poll.lines))
  /\ UNCHANGED <<peerVars, wire, conn, cursor, armed, pc, events>>

\* What DeliverFrame does.
LEMMA DeliverFrameFacts ==
  ASSUME BaseInv, DeliverFrame
  PROVE  \E p, m, c, d : DeliveredLine(p, m, c, d)
  <1>1. PICK p, m : p = poll.ring[poll.at] /\ m = Head(poll.lines)
    OBVIOUS
  <1>2. PICK c : c = [client[p] EXCEPT !.delivered = @ + 1]
    OBVIOUS
  <1>3. /\ pc = "poll" /\ poll.lines # <<>>
        /\ Serve(p, c, Tail(poll.lines))
        /\ incoming' = Append(incoming, [peer |-> p, frame |-> m])
        /\ poll' = WithLines(Tail(poll.lines))
        /\ UNCHANGED <<peerVars, wire, conn, cursor, armed, pc, events>>
    BY <1>1, <1>2, Zenon DEF DeliverFrame
  <1>4. Parsing(p, m)
    BY <1>1, <1>3, ParsingFacts DEF BaseInv
  <1>5. p \in Peers /\ client[p] \in ClientType
    BY <1>4 DEF Parsing, Current, BaseInv, TypeInv
  <1>6. /\ SameInput(client[p], c) /\ c.out = client[p].out /\ c.deferred = client[p].deferred
        /\ c.answered = client[p].answered /\ c.delivered = client[p].delivered + 1
    <2>1. PICK b, n : b = client[p] /\ n = b.delivered + 1
      OBVIOUS
    <2>2. b \in ClientType /\ n \in Nat
      BY <2>1, <1>5 DEF ClientType
    <2>3. c = [b EXCEPT !.delivered = n]
      BY <2>1, <1>2
    <2>4. /\ SameInput(b, c) /\ c.out = b.out /\ c.deferred = b.deferred
          /\ c.answered = b.answered /\ c.delivered = n
      BY <2>2, <2>3 DEF ClientType, SameInput
    <2>5. QED BY <2>1, <2>4
  <1>7. c \in ClientType
    BY <1>6 DEF SameInput
  <1>8. PICK d : Served(p, c, Tail(poll.lines), d)
    BY <1>3, <1>5, <1>7, ServeFacts
  <1>9. DeliveredLine(p, m, c, d)
    BY <1>3, <1>4, <1>6, <1>8, Zenon DEF DeliveredLine
  <1>10. QED BY <1>9

\* "why" gives the peers to remove and a reason from the poll's list.
EndedPoll(why) ==
  /\ pc = "poll" /\ poll.lines = <<>>
  /\ poll.at > Len(poll.ring) \/ ~BudgetLeft
  /\ DOMAIN why = {d.peer : d \in poll.dead} /\ DOMAIN why \subseteq Peers
  /\ \A p \in DOMAIN why : \E d \in poll.dead : d.peer = p /\ why[p] = d.why
  /\ conn' = [p \in Peers |-> IF p \in DOMAIN why THEN why[p] ELSE conn[p]]
  /\ stream' = [p \in Peers |-> IF p \in DOMAIN why THEN <<>> ELSE stream[p]]
  /\ client' = [p \in Peers |-> IF p \in DOMAIN why THEN NewClient ELSE client[p]]
  /\ armed' = arm_continuation({client[p] : p \in Open \ DOMAIN why})
  /\ poll' = [NoPoll EXCEPT !.skipped =
                IF poll.at <= Len(poll.ring) THEN poll.ring[poll.at] ELSE 0]
  /\ pc' = IF incoming = <<>> THEN "idle" ELSE "respond"
  /\ UNCHANGED <<peer, received, frames, run, longest, written, wire, cursor,
                 incoming, events>>

\* What EndPoll does.
LEMMA EndPollFacts ==
  ASSUME BaseInv, EndPoll
  PROVE  \E why : EndedPoll(why)
  <1>1. PICK why : why = [p \in {d.peer : d \in poll.dead} |->
                            (CHOOSE d \in poll.dead : d.peer = p).why]
    OBVIOUS
  <1>2. /\ pc = "poll"
        /\ poll.lines = <<>>
        /\ poll.at > Len(poll.ring) \/ ~BudgetLeft
        /\ RemoveClients(why)
        /\ client' = [p \in Peers |-> IF p \in DOMAIN why THEN NewClient ELSE client[p]]
        /\ armed' = arm_continuation({client[p] : p \in Open \ DOMAIN why})
        /\ poll' = [NoPoll EXCEPT !.skipped =
                      IF poll.at <= Len(poll.ring) THEN poll.ring[poll.at] ELSE 0]
        /\ pc' = IF incoming = <<>> THEN "idle" ELSE "respond"
        /\ UNCHANGED <<peer, received, frames, run, longest, written, wire, cursor,
                       incoming, events>>
    BY <1>1, Zenon DEF EndPoll
  <1>3. DOMAIN why = {d.peer : d \in poll.dead}
    BY <1>1
  <1>4. DOMAIN why \subseteq Peers
    <2>1. poll.dead \subseteq [peer : Peers, why : ConnState]
      BY DEF BaseInv, TypeInv, PollType
    <2>2. QED BY <2>1, <1>3
  <1>5. ASSUME NEW p \in DOMAIN why
        PROVE  \E d \in poll.dead : d.peer = p /\ why[p] = d.why
    <2>1. \E d \in poll.dead : d.peer = p
      BY <1>3
    <2>2. PICK e : e = CHOOSE d \in poll.dead : d.peer = p
      OBVIOUS
    <2>3. e \in poll.dead /\ e.peer = p
      BY <2>1, <2>2
    <2>4. why[p] = e.why
      BY <2>2, <1>1, <1>3
    <2>5. QED BY <2>3, <2>4
  <1>6. EndedPoll(why)
    BY <1>2, <1>3, <1>4, <1>5, Zenon DEF EndedPoll, RemoveClients
  <1>7. QED BY <1>6

\* The oldest message the caller holds.
Answering(m) ==
  /\ pc = "respond" /\ incoming # <<>>
  /\ m = Head(incoming) /\ m \in [peer : Peers, frame : Frame]
  /\ incoming' = Tail(incoming) /\ Tail(incoming) \in Seq([peer : Peers, frame : Frame])
  /\ pc' = IF Tail(incoming) = <<>> THEN "idle" ELSE "respond"
  /\ UNCHANGED <<peer, received, frames, run, longest, written, cursor, armed,
                 poll, events>>

\* Its client is gone.
Unanswered(m) ==
  /\ Answering(m) /\ conn[m.peer] # "open"
  /\ UNCHANGED <<conn, stream, client, wire>>

\* Its client gets the reply, or is removed.
Responded(p, m, s, k, d) ==
  /\ Answering(m) /\ p = m.peer /\ p \in Peers /\ conn[p] = "open"
  /\ k \in 0..Len(client[p].deferred) /\ Replied(client[p], m.frame.n, wire[p], s, k)
  /\ wire' = [wire EXCEPT ![p] = s.wire]
  /\ client' = [client EXCEPT ![p] = d]
  /\ s.error = "none" =>
       /\ SameInput(s.client, d) /\ SameReplies(s.client, d) /\ Synced(d)
       /\ UNCHANGED <<conn, stream>>
  /\ s.error # "none" =>
       /\ d = NewClient
       /\ conn' = [conn EXCEPT ![p] = s.error]
       /\ stream' = [stream EXCEPT ![p] = <<>>]

\* What Respond does.
LEMMA RespondStepFacts ==
  ASSUME BaseInv, Respond
  PROVE  \/ \E m : Unanswered(m)
         \/ \E p, m, s, k, d : Responded(p, m, s, k, d)
  <1>1. PICK m, p : m = Head(incoming) /\ p = m.peer
    OBVIOUS
  <1>2. PICK c : c = [client[p] EXCEPT !.subscribed = @ \/ m.frame.kind = "subscribe"]
    OBVIOUS
  <1>3. PICK s : s = send_response(c, m.frame.n, wire[p], Gone(p))
    OBVIOUS
  <1>4. PICK why : why = [q \in {x \in {p} : s.error # "none"} |-> s.error]
    OBVIOUS
  <1>5. /\ pc = "respond"
        /\ incoming' = Tail(incoming)
        /\ pc' = IF Tail(incoming) = <<>> THEN "idle" ELSE "respond"
        /\ IF p \notin Open
             THEN UNCHANGED <<conn, stream, client, wire>>
             ELSE /\ RemoveClients(why)
                  /\ client' = [client EXCEPT ![p] =
                       IF s.error # "none" THEN NewClient ELSE sync_client_interest(s.client)]
                  /\ wire' = [wire EXCEPT ![p] = s.wire]
        /\ UNCHANGED <<peer, received, frames, run, longest, written, cursor, armed,
                       poll, events>>
    BY <1>1, <1>2, <1>3, <1>4, ZenonT(40) DEF Respond
  <1>6. incoming # <<>> /\ incoming \in Seq([peer : Peers, frame : Frame])
    BY <1>5 DEF BaseInv, Shape, TypeInv
  <1>7. /\ m \in [peer : Peers, frame : Frame]
        /\ Tail(incoming) \in Seq([peer : Peers, frame : Frame])
    <2>1. \A T : \A q \in Seq(T) : q # <<>> => Head(q) \in T /\ Tail(q) \in Seq(T)
      OBVIOUS
    <2>2. QED BY <2>1, <1>1, <1>6
  <1>8. Answering(m)
    BY <1>1, <1>5, <1>6, <1>7, Zenon DEF Answering
  <1>9. p \in Peers /\ m.frame.n \in Nat /\ TypeInv /\ ClientOK(p)
    BY <1>1, <1>7 DEF BaseInv, Frame
  <1>10. CASE p \notin Open
    <2>1. UNCHANGED <<conn, stream, client, wire>>
      BY <1>5, <1>10
    <2>2. Unanswered(m)
      BY <2>1, <1>1, <1>8, <1>9, <1>10 DEF Unanswered, Open
    <2>3. QED BY <2>2
  <1>11. CASE p \in Open
    <2>1. /\ RemoveClients(why)
          /\ client' = [client EXCEPT ![p] =
               IF s.error # "none" THEN NewClient ELSE sync_client_interest(s.client)]
          /\ wire' = [wire EXCEPT ![p] = s.wire]
      BY <1>5, <1>11
    <2>2. PICK b, n, w, g : b = client[p] /\ n = m.frame.n /\ w = wire[p] /\ g = Gone(p)
      OBVIOUS
    <2>3. /\ b \in ClientType /\ n \in Nat /\ w \in Seq(Nat) /\ Len(w) <= SocketSpace
          /\ g \in BOOLEAN
      BY <2>2, <1>9 DEF TypeInv, ClientOK, Gone
    <2>4. /\ SameInput(b, c) /\ c.out = b.out /\ c.deferred = b.deferred
          /\ c.answered = b.answered /\ c.delivered = b.delivered
      <3>1. PICK u : u = (b.subscribed \/ m.frame.kind = "subscribe")
        OBVIOUS
      <3>2. u \in BOOLEAN
        BY <3>1, <2>3 DEF ClientType
      <3>3. c = [b EXCEPT !.subscribed = u]
        BY <3>1, <2>2, <1>2
      <3>4. QED BY <2>3, <3>2, <3>3 DEF ClientType, SameInput
    <2>5. c \in ClientType
      BY <2>4 DEF SameInput
    <2>6. PICK k \in 0..Len(c.deferred) : Replied(c, n, w, s, k)
      <3>1. s = send_response(c, n, w, g)
        BY <2>2, <1>3
      <3>2. QED BY <2>3, <2>5, <3>1, RespondFacts
    <2>7. Replied(b, n, w, s, k) /\ k \in 0..Len(b.deferred)
      <3>1. DueErrors(c, k) = DueErrors(b, k)
        BY <2>4 DEF DueErrors
      <3>2. SameInput(b, s.client)
        BY <2>4, <2>6 DEF Replied, SameInput
      <3>3. Replied(b, n, w, s, k)
        BY <2>4, <2>6, <3>1, <3>2 DEF Replied
      <3>4. QED BY <2>4, <3>3
    <2>8. s.client \in ClientType
      BY <2>6 DEF Replied, SameInput
    <2>9. conn[p] = "open" /\ p = m.peer
      BY <1>1, <1>11 DEF Open
    <2>10. CASE s.error = "none"
      <3>1. PICK d : d = sync_client_interest(s.client)
        OBVIOUS
      <3>2. client' = [client EXCEPT ![p] = d]
        BY <2>1, <2>10, <3>1
      <3>3. SameInput(s.client, d) /\ SameReplies(s.client, d) /\ Synced(d)
        BY <2>8, <3>1, SyncFacts
      <3>4. DOMAIN why = {}
        BY <1>4, <2>10
      <3>5. conn' = conn /\ stream' = stream
        <4>1. conn = [q \in Peers |-> conn[q]] /\ stream = [q \in Peers |-> stream[q]]
          BY <1>9 DEF TypeInv
        <4>2. QED BY <4>1, <3>4, <2>1 DEF RemoveClients
      <3>6. Responded(p, m, s, k, d)
        BY <1>8, <1>9, <2>1, <2>2, <2>7, <2>9, <2>10, <3>2, <3>3, <3>5, Zenon DEF Responded
      <3>7. QED BY <3>6
    <2>11. CASE s.error # "none"
      <3>1. client' = [client EXCEPT ![p] = NewClient]
        BY <2>1, <2>11
      <3>2. DOMAIN why = {p} /\ why[p] = s.error
        BY <1>4, <2>11
      <3>3. conn' = [conn EXCEPT ![p] = s.error] /\ stream' = [stream EXCEPT ![p] = <<>>]
        <4>1. DOMAIN conn = Peers /\ DOMAIN stream = Peers
          BY <1>9 DEF TypeInv
        <4>2. /\ conn' = [q \in Peers |-> IF q = p THEN s.error ELSE conn[q]]
              /\ stream' = [q \in Peers |-> IF q = p THEN <<>> ELSE stream[q]]
          BY <3>2, <2>1 DEF RemoveClients
        <4>3. QED BY <4>1, <4>2
      <3>4. Responded(p, m, s, k, NewClient)
        BY <1>8, <1>9, <2>1, <2>2, <2>7, <2>9, <2>11, <3>1, <3>3, Zenon DEF Responded
      <3>5. QED BY <3>4
    <2>12. QED BY <2>10, <2>11
  <1>12. QED BY <1>10, <1>11

\* A broadcast leaves a client alone, tells it the event, or removes it.
Untold(p) ==
  /\ conn'[p] = conn[p] /\ stream'[p] = stream[p]
  /\ client'[p] = client[p] /\ wire'[p] = wire[p]
Told(p, s) ==
  /\ conn[p] = "open" /\ Said(client[p], Event, wire[p], s)
  /\ conn'[p] = conn[p] /\ stream'[p] = stream[p] /\ wire'[p] = s.wire
  /\ SameInput(s.client, client'[p]) /\ SameReplies(s.client, client'[p])
  /\ Synced(client'[p])
Lost(p, s) ==
  /\ conn[p] = "open" /\ Said(client[p], Event, wire[p], s)
  /\ conn'[p] \in {"failed", "backlogged"} /\ stream'[p] = <<>> /\ wire'[p] = s.wire
  /\ client'[p] = NewClient

Broadcasted ==
  /\ pc \in {"idle", "respond"} /\ events < MaxEvents /\ events' = events + 1
  /\ conn' = [p \in Peers |-> conn'[p]] /\ stream' = [p \in Peers |-> stream'[p]]
  /\ wire' = [p \in Peers |-> wire'[p]] /\ client' = [p \in Peers |-> client'[p]]
  /\ \A p \in Peers : Untold(p) \/ \E s : Told(p, s) \/ Lost(p, s)
  /\ UNCHANGED <<peer, received, frames, run, longest, written, cursor, armed,
                 poll, incoming, pc>>

\* What Broadcast does.
LEMMA BroadcastFacts ==
  ASSUME BaseInv, Broadcast
  PROVE  Broadcasted
  <1>1. PICK to : to = {p \in Open : client[p].subscribed}
    OBVIOUS
  <1>2. PICK s : s = [p \in to |-> send_event(client[p], wire[p], Gone(p))]
    OBVIOUS
  <1>3. PICK dead : dead = {p \in to : s[p].error # "none"}
    OBVIOUS
  <1>4. PICK why : why = [p \in dead |-> s[p].error]
    OBVIOUS
  <1>5. /\ pc \in {"idle", "respond"}
        /\ events < MaxEvents
        /\ events' = events + 1
        /\ RemoveClients(why)
        /\ client' = [p \in Peers |->
                        CASE p \in dead -> NewClient
                          [] p \in to \ dead -> sync_client_interest(s[p].client)
                          [] OTHER -> client[p]]
        /\ wire' = [p \in Peers |-> IF p \in to THEN s[p].wire ELSE wire[p]]
        /\ UNCHANGED <<peer, received, frames, run, longest, written, cursor, armed,
                       poll, incoming, pc>>
    BY <1>1, <1>2, <1>3, <1>4, Zenon DEF Broadcast
  <1>6. DOMAIN why = dead /\ \A p \in dead : why[p] = s[p].error
    BY <1>4
  <1>7. /\ conn' = [p \in Peers |-> IF p \in dead THEN why[p] ELSE conn[p]]
        /\ stream' = [p \in Peers |-> IF p \in dead THEN <<>> ELSE stream[p]]
    BY <1>5, <1>6 DEF RemoveClients
  <1>8. dead \subseteq to /\ \A p \in to : p \in Peers /\ conn[p] = "open"
    BY <1>1, <1>3 DEF Open
  <1>9. ASSUME NEW p \in to PROVE Said(client[p], Event, wire[p], s[p])
    <2>1. PICK c, w, g : c = client[p] /\ w = wire[p] /\ g = Gone(p)
      OBVIOUS
    <2>2. p \in Peers /\ TypeInv /\ ClientOK(p)
      BY <1>8 DEF BaseInv
    <2>3. c \in ClientType /\ w \in Seq(Nat) /\ Len(w) <= SocketSpace /\ g \in BOOLEAN
          /\ Event \in Nat
      BY <2>1, <2>2 DEF TypeInv, ClientOK, Gone, Event
    <2>4. Said(c, Event, w, flush_out(queue(c, Event), w, g))
      BY <2>3, QueueFlushFacts
    <2>5. s[p] = flush_out(queue(c, Event), w, g)
      BY <2>1, <1>2, Zenon DEF send_event
    <2>6. QED BY <2>1, <2>4, <2>5
  <1>10. ASSUME NEW p \in Peers, p \notin to PROVE Untold(p)
    <2>1. p \notin dead /\ p \notin to \ dead
      BY <1>8, <1>10
    <2>2. client'[p] = client[p]
      BY <1>5, <2>1, Zenon
    <2>3. QED BY <1>5, <1>7, <1>10, <2>1, <2>2 DEF Untold
  <1>11. ASSUME NEW p \in to, p \notin dead PROVE Told(p, s[p])
    <2>1. p \in Peers /\ conn[p] = "open" /\ Said(client[p], Event, wire[p], s[p])
      BY <1>8, <1>9
    <2>2. client'[p] = sync_client_interest(s[p].client)
      <3>1. p \in to \ dead
        BY <1>11
      <3>2. QED BY <1>5, <1>11, <2>1, <3>1, Zenon
    <2>3. s[p].client \in ClientType
      BY <2>1 DEF Said, SameInput
    <2>4. /\ SameInput(s[p].client, client'[p]) /\ SameReplies(s[p].client, client'[p])
          /\ Synced(client'[p])
      BY <2>2, <2>3, SyncFacts
    <2>5. conn'[p] = conn[p] /\ stream'[p] = stream[p] /\ wire'[p] = s[p].wire
      BY <1>5, <1>7, <1>11, <2>1
    <2>6. QED BY <2>1, <2>4, <2>5 DEF Told
  <1>12. ASSUME NEW p \in dead PROVE Lost(p, s[p])
    <2>1. /\ p \in to /\ p \in Peers /\ conn[p] = "open"
          /\ Said(client[p], Event, wire[p], s[p])
      BY <1>8, <1>9
    <2>2. client'[p] = NewClient
      BY <1>5, <2>1, <1>12, Zenon
    <2>3. s[p].error \in {"failed", "backlogged"}
      BY <2>1, <1>3 DEF Said
    <2>4. conn'[p] = s[p].error /\ stream'[p] = <<>> /\ wire'[p] = s[p].wire
      BY <1>5, <1>6, <1>7, <2>1
    <2>5. QED BY <2>1, <2>2, <2>3, <2>4 DEF Lost
  <1>13. \A p \in Peers : Untold(p) \/ \E x : Told(p, x) \/ Lost(p, x)
    BY <1>10, <1>11, <1>12
  <1>14. /\ conn' = [p \in Peers |-> conn'[p]] /\ stream' = [p \in Peers |-> stream'[p]]
         /\ wire' = [p \in Peers |-> wire'[p]]
    BY <1>5, <1>7
  <1>15. client' = [p \in Peers |-> client'[p]]
    BY <1>5
  <1>16. QED BY <1>5, <1>13, <1>14, <1>15, Zenon DEF Broadcasted

\* The head of a poll: pending connections are accepted or refused, and the
\* connected clients put in order.
StartedPoll(open) ==
  /\ pc = "idle"
  /\ conn' \in [Peers -> ConnState]
  /\ \A p \in Peers : \/ conn'[p] = conn[p]
                      \/ conn[p] = "pending" /\ conn'[p] \in {"open", "refused"}
  /\ open = {p \in Peers : conn'[p] = "open"}
  /\ Cardinality(Open) <= MaxClients => Cardinality(open) <= MaxClients
  /\ armed' = FALSE
  /\ poll' = [NoPoll EXCEPT !.ring = Ring(open)]
  /\ pc' = IF open = {} THEN "idle" ELSE "poll"
  /\ stream' = [p \in Peers |-> IF conn'[p] = "refused" THEN <<>> ELSE stream[p]]
  /\ UNCHANGED <<peer, received, frames, run, longest, written, wire, client,
                 cursor, incoming, events>>

\* What StartPoll does.
LEMMA StartPollFacts ==
  ASSUME TypeInv, StartPoll
  PROVE  \E open : StartedPoll(open)
  <1>1. PICK now, open : now = Accepted /\ open = {p \in Peers : now[p] = "open"}
    OBVIOUS
  <1>2. /\ pc = "idle"
        /\ conn' = now
        /\ armed' = FALSE
        /\ poll' = [NoPoll EXCEPT !.ring = Ring(open)]
        /\ pc' = IF open = {} THEN "idle" ELSE "poll"
        /\ stream' = [p \in Peers |-> IF now[p] = "refused" THEN <<>> ELSE stream[p]]
        /\ UNCHANGED <<peer, received, frames, run, longest, written, wire, client,
                       cursor, incoming, events>>
    BY <1>1, Zenon DEF StartPoll
  <1>3. /\ now \in [Peers -> ConnState]
        /\ \A p \in Peers : \/ now[p] = conn[p]
                            \/ conn[p] = "pending" /\ now[p] \in {"open", "refused"}
    BY <1>1, AcceptedFacts
  <1>4. Cardinality(Open) <= MaxClients => Cardinality(open) <= MaxClients
    BY <1>1, AcceptedCount
  <1>5. StartedPoll(open)
    BY <1>1, <1>2, <1>3, <1>4, Zenon DEF StartedPoll
  <1>6. QED BY <1>5

-----------------------------------------------------------------------------
(* The base invariant *)

\* A client that a step does not touch is as it was.
LEMMA ClientUntouched ==
  ASSUME NEW q, ClientOK(q), client'[q] = client[q], wire'[q] = wire[q],
         stream'[q] = stream[q], conn'[q] = conn[q], peer'[q] = peer[q]
  PROVE  ClientOK(q)'
  BY DEF ClientOK, Eof

\* A client whose input is kept and whose replies grow is well formed.
LEMMA ClientKept ==
  ASSUME NEW q, ClientOK(q), SameInput(client[q], client'[q]),
         client'[q].answered <= client'[q].delivered, Len(wire'[q]) <= SocketSpace,
         stream'[q] = stream[q], peer'[q] = peer[q], conn'[q] = conn[q], conn[q] = "open"
  PROVE  ClientOK(q)'
  BY DEF ClientOK, Eof, SameInput, Scanned

\* A client that was removed is well formed.
LEMMA ClientGone ==
  ASSUME NEW q, ClientOK(q), client'[q] = NewClient, Len(wire'[q]) <= SocketSpace,
         peer'[q] = peer[q], conn[q] # "none"
  PROVE  ClientOK(q)'
  <1>1. peer'[q] # "absent"
    BY DEF ClientOK
  <1>2. PICK c : c = client'[q]
    OBVIOUS
  <1>3. Scanned(c) /\ c.answered <= c.delivered /\ c.read_closed = FALSE
    BY <1>2, NewClientFacts
  <1>4. QED BY <1>1, <1>2, <1>3 DEF ClientOK

\* The base invariant holds initially.
LEMMA BaseInit ==
  ASSUME Init
  PROVE  BaseInv
  <1>1. TypeInv
    <2>1. poll \in PollType
      <3>1. 1 \in Nat \ {0} /\ 0 \in 0..MaxPeers /\ <<>> \in Seq(Peers) /\ <<>> \in Seq(Frame)
        BY ServerFacts
      <3>2. QED BY <3>1 DEF Init, NoPoll, PollType
    <2>2. 1 \in Peers /\ 0 \in 0..MaxEvents
      BY ServerFacts DEF Peers
    <2>3. incoming \in Seq([peer : Peers, frame : Frame])
      BY DEF Init
    <2>4. client \in [Peers -> ClientType]
      BY NewClientFacts DEF Init
    <2>5. peer \in [Peers -> PeerState] /\ conn \in [Peers -> ConnState]
      BY DEF Init, PeerState, ConnState
    <2>6. /\ stream \in [Peers -> Seq(Token)]
          /\ wire \in [Peers -> Seq(Nat)] /\ received \in [Peers -> Seq(Nat)]
      BY DEF Init
    <2>7. /\ frames \in [Peers -> Nat] /\ run \in [Peers -> Nat]
          /\ longest \in [Peers -> Nat] /\ written \in [Peers -> Nat]
      BY DEF Init
    <2>8. /\ cursor \in Peers /\ armed \in BOOLEAN /\ pc \in {"idle", "poll", "respond"}
          /\ events \in 0..MaxEvents
      BY <2>2 DEF Init
    <2>9. QED BY <2>1, <2>3, <2>4, <2>5, <2>6, <2>7, <2>8 DEF TypeInv
  <1>2. Shape
    <2>1. /\ poll.ring = <<>> /\ poll.at = 1 /\ poll.lines = <<>> /\ poll.dead = {}
          /\ poll.skipped = 0
      BY DEF Init, NoPoll
    <2>2. pc = "idle" /\ incoming = <<>>
      BY DEF Init
    <2>3. QED BY <2>1, <2>2 DEF Shape
  <1>3. ASSUME NEW p \in Peers PROVE ClientOK(p)
    <2>1. client[p] = NewClient /\ wire[p] = <<>> /\ conn[p] = "none"
      BY DEF Init
    <2>2. Len(wire[p]) <= SocketSpace
      BY <2>1, LimitFacts
    <2>3. PICK c : c = client[p]
      OBVIOUS
    <2>4. Scanned(c) /\ c.answered <= c.delivered /\ c.read_closed = FALSE
      BY <2>1, <2>3, NewClientFacts
    <2>5. QED BY <2>1, <2>2, <2>3, <2>4 DEF ClientOK
  <1>4. QED BY <1>1, <1>2, <1>3 DEF BaseInv

\* Steps that leave the poll alone and only connect or keep connections.
LEMMA ShapeUntouched ==
  ASSUME Shape, poll' = poll, pc' = pc, incoming' = incoming,
         \A p : conn[p] = "open" => conn'[p] = "open"
  PROVE  Shape'
  BY DEF Shape

\* The steps of the peers keep the base invariant.
LEMMA BasePeer ==
  ASSUME BaseInv, PeerNext
  PROVE  BaseInv'
  <1>1. PICK p \in Peers :
          \/ Connect(p) \/ EndLine(p) \/ HalfClose(p) \/ HangUp(p) \/ Receive(p)
          \/ \E kind \in Sends[p] : BeginFrame(p, kind) \/ ExtendFrame(p, kind)
    BY DEF PeerNext
  <1>2. TypeInv /\ Shape /\ \A q \in Peers : ClientOK(q)
    BY DEF BaseInv
  <1>3. CASE Connect(p)
    <2>1. /\ peer[p] = "absent" /\ peer' = [peer EXCEPT ![p] = "up"]
          /\ conn' = [conn EXCEPT ![p] = "pending"]
          /\ UNCHANGED <<stream, received, frames, run, longest, written, wire, client,
                         cursor, armed, poll, incoming, pc, events>>
      BY <1>3 DEF Connect
    <2>2. conn[p] = "none"
      BY <2>1, <1>2 DEF ClientOK
    <2>3. TypeInv'
      BY <2>1, <1>2 DEF TypeInv, PeerState, ConnState
    <2>4. DOMAIN conn = Peers /\ DOMAIN peer = Peers
      BY <1>2 DEF TypeInv
    <2>5. Shape'
      <3>1. \A q : conn[q] = "open" => conn'[q] = "open"
        BY <2>1, <2>2
      <3>2. QED BY <3>1, <2>1, <1>2, ShapeUntouched
    <2>6. ASSUME NEW q \in Peers PROVE ClientOK(q)'
      <3>1. CASE q # p
        BY <3>1, <2>1, <1>2, ClientUntouched
      <3>2. CASE q = p
        <4>1. ClientOK(p) /\ client'[p] = client[p] /\ client[p] = NewClient
              /\ wire'[p] = wire[p] /\ peer'[p] = "up"
          BY <1>2, <2>1, <2>2, <2>4 DEF ClientOK
        <4>2. client[p].read_closed = FALSE
          BY <4>1, NewClientFacts
        <4>3. QED BY <3>2, <4>1, <4>2 DEF ClientOK
      <3>3. QED BY <3>1, <3>2
    <2>7. QED BY <2>3, <2>5, <2>6 DEF BaseInv
  <1>4. ASSUME NEW x \in Token, Write(p, x), frames' \in [Peers -> Nat],
               run' \in [Peers -> Nat], longest' \in [Peers -> Nat]
        PROVE  BaseInv'
    <2>1. /\ peer[p] = "up" /\ stream' = [stream EXCEPT ![p] = Append(@, x)]
          /\ written' = [written EXCEPT ![p] = @ + 1]
          /\ UNCHANGED <<peer, received, wire, serverVars>>
      BY <1>4 DEF Write
    <2>2. UNCHANGED <<conn, client, cursor, armed, poll, incoming, pc, events>>
      BY <2>1 DEF serverVars
    <2>3. stream' \in [Peers -> Seq(Token)]
      <3>1. stream[p] \in Seq(Token)
        BY <1>2 DEF TypeInv
      <3>2. Append(stream[p], x) \in Seq(Token)
        BY <3>1
      <3>3. QED BY <3>2, <2>1, <1>2 DEF TypeInv
    <2>4. TypeInv'
      <3>1. written' \in [Peers -> Nat]
        BY <2>1, <1>2, SMTT(30) DEF TypeInv
      <3>2. QED BY <2>1, <2>2, <2>3, <3>1, <1>2, <1>4 DEF TypeInv
    <2>5. Shape'
      BY <2>2, <1>2, ShapeUntouched
    <2>6. ASSUME NEW q \in Peers PROVE ClientOK(q)'
      <3>1. CASE q # p
        <4>1. stream'[q] = stream[q]
          BY <3>1, <2>1, <1>2 DEF TypeInv
        <4>2. QED BY <4>1, <2>1, <2>2, <1>2, ClientUntouched
      <3>2. CASE q = p
        BY <3>2, <2>1, <2>2, <1>2 DEF ClientOK, Eof
      <3>3. QED BY <3>1, <3>2
    <2>7. QED BY <2>4, <2>5, <2>6 DEF BaseInv
  <1>5. CASE EndLine(p)
    <2>1. Write(p, Newline) /\ run' = [run EXCEPT ![p] = 0] /\ UNCHANGED <<frames, longest>>
      BY <1>5 DEF EndLine
    <2>2. Newline \in Token
      BY DEF Token
    <2>3. /\ frames' \in [Peers -> Nat] /\ run' \in [Peers -> Nat]
          /\ longest' \in [Peers -> Nat]
      BY <2>1, <1>2 DEF TypeInv
    <2>4. QED BY <2>1, <2>2, <2>3, <1>4
  <1>6. CASE \E kind \in Sends[p] : BeginFrame(p, kind)
    <2>1. PICK kind \in Sends[p] : BeginFrame(p, kind)
      BY <1>6
    <2>2. PICK x : x = Body(frames[p] + 1, kind)
      OBVIOUS
    <2>3. /\ Write(p, x) /\ frames' = [frames EXCEPT ![p] = @ + 1]
          /\ run' = [run EXCEPT ![p] = 1]
          /\ longest' = [longest EXCEPT ![p] = Max({@, 1})]
      BY <2>1, <2>2 DEF BeginFrame
    <2>4. frames[p] \in Nat /\ run[p] \in Nat /\ longest[p] \in Nat /\ kind \in Kind
      BY <1>2, ServerFacts DEF TypeInv
    <2>5. x \in Token
      BY <2>2, <2>4 DEF Token, Frame, Body
    <2>6. Max({longest[p], 1}) \in Nat
      BY <2>4, MaxPair
    <2>7. /\ frames' \in [Peers -> Nat] /\ run' \in [Peers -> Nat]
          /\ longest' \in [Peers -> Nat]
      BY <2>3, <2>4, <2>6, <1>2, SMTT(30) DEF TypeInv
    <2>8. QED BY <2>3, <2>5, <2>7, <1>4
  <1>7. CASE \E kind \in Sends[p] : ExtendFrame(p, kind)
    <2>1. PICK kind \in Sends[p] : ExtendFrame(p, kind)
      BY <1>7
    <2>2. PICK x : x = Body(frames[p], kind)
      OBVIOUS
    <2>3. /\ Write(p, x) /\ UNCHANGED frames
          /\ run' = [run EXCEPT ![p] = @ + 1]
          /\ longest' = [longest EXCEPT ![p] = Max({@, run[p] + 1})]
      BY <2>1, <2>2 DEF ExtendFrame
    <2>4. frames[p] \in Nat /\ run[p] \in Nat /\ longest[p] \in Nat /\ kind \in Kind
      BY <1>2, ServerFacts DEF TypeInv
    <2>5. x \in Token
      BY <2>2, <2>4 DEF Token, Frame, Body
    <2>6. Max({longest[p], run[p] + 1}) \in Nat
      <3>1. run[p] + 1 \in Nat
        BY <2>4
      <3>2. QED BY <2>4, <3>1, MaxPair
    <2>7. /\ frames' \in [Peers -> Nat] /\ run' \in [Peers -> Nat]
          /\ longest' \in [Peers -> Nat]
      <3>1. frames' \in [Peers -> Nat] /\ run' \in [Peers -> Nat]
        BY <2>3, <2>4, <1>2, SMTT(30) DEF TypeInv
      <3>2. longest \in [Peers -> Nat]
        BY <1>2 DEF TypeInv
      <3>3. PICK l : l = Max({longest[p], run[p] + 1})
        OBVIOUS
      <3>4. longest' = [longest EXCEPT ![p] = l] /\ l \in Nat
        BY <2>3, <2>6, <3>3
      <3>5. QED BY <3>1, <3>2, <3>4
    <2>8. QED BY <2>3, <2>5, <2>7, <1>4
  <1>8. CASE HalfClose(p)
    <2>1. /\ peer[p] = "up" /\ peer' = [peer EXCEPT ![p] = "half"]
          /\ UNCHANGED <<stream, received, frames, run, longest, written, wire, serverVars>>
      BY <1>8 DEF HalfClose
    <2>2. UNCHANGED <<conn, client, cursor, armed, poll, incoming, pc, events>>
      BY <2>1 DEF serverVars
    <2>3. TypeInv'
      BY <2>1, <2>2, <1>2 DEF TypeInv, PeerState
    <2>4. Shape'
      BY <2>2, <1>2, ShapeUntouched
    <2>5. ASSUME NEW q \in Peers PROVE ClientOK(q)'
      <3>1. ClientOK(q) /\ (q # p => peer'[q] = peer[q]) /\ peer'[p] = "half"
        BY <2>1, <1>2 DEF TypeInv
      <3>2. QED BY <3>1, <2>1, <2>2 DEF ClientOK, Eof
    <2>6. QED BY <2>3, <2>4, <2>5 DEF BaseInv
  <1>9. CASE HangUp(p)
    <2>1. /\ peer[p] \in {"up", "half"} /\ peer' = [peer EXCEPT ![p] = "gone"]
          /\ wire' = [wire EXCEPT ![p] = <<>>]
          /\ UNCHANGED <<stream, received, frames, run, longest, written, serverVars>>
      BY <1>9 DEF HangUp
    <2>2. UNCHANGED <<conn, client, cursor, armed, poll, incoming, pc, events>>
      BY <2>1 DEF serverVars
    <2>3. TypeInv'
      <3>1. peer' \in [Peers -> PeerState]
        BY <2>1, <1>2 DEF TypeInv, PeerState
      <3>2. wire' \in [Peers -> Seq(Nat)]
        BY <2>1, <1>2 DEF TypeInv
      <3>3. QED BY <2>1, <2>2, <3>1, <3>2, <1>2 DEF TypeInv
    <2>4. Shape'
      BY <2>2, <1>2, ShapeUntouched
    <2>5. ASSUME NEW q \in Peers PROVE ClientOK(q)'
      <3>1. ClientOK(q) /\ (q # p => peer'[q] = peer[q] /\ wire'[q] = wire[q])
            /\ peer'[p] = "gone" /\ wire'[p] = <<>>
        BY <2>1, <1>2 DEF TypeInv
      <3>2. Len(<<>>) <= SocketSpace
        BY LimitFacts
      <3>3. QED BY <3>1, <3>2, <2>1, <2>2 DEF ClientOK, Eof
    <2>6. QED BY <2>3, <2>4, <2>5 DEF BaseInv
  <1>10. CASE Receive(p)
    <2>1. /\ wire[p] # <<>> /\ wire' = [wire EXCEPT ![p] = Tail(@)]
          /\ received' = [received EXCEPT ![p] = Append(@, Head(wire[p]))]
          /\ UNCHANGED <<peer, stream, frames, run, longest, written, serverVars>>
      BY <1>10 DEF Receive
    <2>2. UNCHANGED <<conn, client, cursor, armed, poll, incoming, pc, events>>
      BY <2>1 DEF serverVars
    <2>3. wire[p] \in Seq(Nat) /\ received[p] \in Seq(Nat) /\ Len(wire[p]) <= SocketSpace
      BY <1>2 DEF TypeInv, ClientOK
    <2>4. /\ Tail(wire[p]) \in Seq(Nat) /\ Len(Tail(wire[p])) <= SocketSpace
          /\ Append(received[p], Head(wire[p])) \in Seq(Nat)
      BY <2>1, <2>3, LimitFacts
    <2>5. TypeInv'
      BY <2>1, <2>2, <2>4, <1>2 DEF TypeInv
    <2>6. Shape'
      BY <2>2, <1>2, ShapeUntouched
    <2>7. ASSUME NEW q \in Peers PROVE ClientOK(q)'
      <3>1. ClientOK(q) /\ (q # p => wire'[q] = wire[q]) /\ wire'[p] = Tail(wire[p])
        BY <2>1, <1>2 DEF TypeInv
      <3>2. QED BY <3>1, <2>1, <2>2, <2>4 DEF ClientOK, Eof
    <2>8. QED BY <2>5, <2>6, <2>7 DEF BaseInv
  <1>11. QED BY <1>1, <1>3, <1>5, <1>6, <1>7, <1>8, <1>9, <1>10

\* A step of the poll for its current client p: the next one takes its turn
\* when p has no lines left.
LEMMA ShapeAdvances ==
  ASSUME TypeInv, Shape, NEW p, Current(p), poll' \in PollType,
         poll'.ring = poll.ring, poll'.skipped = poll.skipped,
         poll'.at = IF poll'.lines = <<>> THEN poll.at + 1 ELSE poll.at,
         \A d \in poll'.dead : d \in poll.dead \/ (d.peer = p /\ poll'.lines = <<>>),
         pc' = pc, conn' = conn
  PROVE  Shape'
  <1>1. /\ pc = "poll" /\ poll.at \in 1..Len(poll.ring) /\ p = poll.ring[poll.at]
        /\ poll.ring \in Seq(Peers)
    BY DEF Current, TypeInv, PollType
  <1>2. PICK ring, n, at, at2 : /\ ring = poll.ring /\ n = Len(poll.ring)
                                /\ at = poll.at /\ at2 = poll'.at
    OBVIOUS
  <1>3. /\ n \in Nat /\ at \in 1..n /\ at2 \in {at, at + 1}
        /\ (poll'.lines = <<>> => at2 = at + 1) /\ (poll'.lines # <<>> => at2 = at)
    BY <1>1, <1>2
  <1>4. at2 <= n + 1 /\ (poll'.lines # <<>> => at2 <= n)
    BY <1>3
  <1>5. ASSUME NEW d \in poll'.dead PROVE \E i \in 1..(at2 - 1) : ring[i] = d.peer
    <2>1. CASE d \in poll.dead
      <3>1. PICK i \in 1..(at - 1) : ring[i] = d.peer
        BY <2>1, <1>2 DEF Shape
      <3>2. i \in 1..(at2 - 1)
        BY <1>3
      <3>3. QED BY <3>1, <3>2
    <2>2. CASE d.peer = p /\ poll'.lines = <<>>
      <3>1. at \in 1..(at2 - 1)
        BY <2>2, <1>3
      <3>2. ring[at] = d.peer
        BY <2>2, <1>1, <1>2
      <3>3. QED BY <3>1, <3>2
    <2>3. QED BY <2>1, <2>2
  <1>6. QED BY <1>1, <1>2, <1>4, <1>5 DEF Shape

\* All the other clients are left alone, and p's wire stays within bounds.
OthersUntouched(p) ==
  \A q \in Peers : q # p =>
    /\ client'[q] = client[q] /\ wire'[q] = wire[q] /\ stream'[q] = stream[q]
    /\ conn'[q] = conn[q] /\ peer'[q] = peer[q]

\* It is enough to look at the client the step is about.
LEMMA OthersOK ==
  ASSUME \A q \in Peers : ClientOK(q), NEW p \in Peers, OthersUntouched(p), ClientOK(p)'
  PROVE  \A q \in Peers : ClientOK(q)'
  <1>1. ASSUME NEW q \in Peers PROVE ClientOK(q)'
    <2>1. CASE q = p
      BY <2>1
    <2>2. CASE q # p
      BY <2>2, ClientUntouched DEF OthersUntouched
    <2>3. QED BY <2>1, <2>2
  <1>2. QED BY <1>1

\* A turn that loses its client keeps the base invariant.
LEMMA BaseLostTurn ==
  ASSUME BaseInv, NEW p, NEW f, NEW why, NEW n, LostTurn(p, f, why, n)
  PROVE  BaseInv'
  <1>1. TypeInv /\ Shape /\ \A q \in Peers : ClientOK(q)
    BY DEF BaseInv
  <1>2. /\ Current(p) /\ poll.lines = <<>> /\ TurnFlush(p, f)
        /\ n \in Nat /\ why \in {"failed", "backlogged"}
        /\ cursor' = NextInRing /\ NextInRing \in Peers
        /\ client' = [client EXCEPT ![p] = f.client]
        /\ wire' = [wire EXCEPT ![p] = f.wire]
        /\ poll' = [poll EXCEPT !.at = @ + 1, !.bytes = @ + n,
                                !.dead = @ \cup {[peer |-> p, why |-> why]}]
    BY DEF LostTurn
  <1>3. UNCHANGED <<peer, stream, received, frames, run, longest, written, conn, armed,
                    incoming, pc, events>>
    BY DEF LostTurn, peerVars
  <1>4. p \in Peers /\ conn[p] = "open" /\ f.client \in ClientType /\ f.wire \in Seq(Nat)
        /\ why \in {"failed", "backlogged"}
    BY <1>2 DEF Current, TurnFlush, SameInput
  <1>5. /\ poll' \in PollType /\ poll'.ring = poll.ring /\ poll'.skipped = poll.skipped
        /\ poll'.at = poll.at + 1 /\ poll'.lines = <<>>
        /\ poll'.dead = poll.dead \cup {[peer |-> p, why |-> why]}
    <2>1. [peer |-> p, why |-> why] \in [peer : Peers, why : ConnState]
      BY <1>4 DEF ConnState
    <2>2. PICK x : x = [peer |-> p, why |-> why]
      OBVIOUS
    <2>3. poll' = [poll EXCEPT !.at = @ + 1, !.bytes = @ + n, !.dead = @ \cup {x}]
      BY <1>2, <2>2
    <2>4. poll \in PollType /\ poll.at + 1 \in Nat \ {0} /\ poll.bytes + n \in Nat
      <3>1. poll \in PollType
        BY <1>1 DEF TypeInv
      <3>2. poll.at \in Nat /\ poll.bytes \in Nat
        BY <3>1 DEF PollType
      <3>3. QED BY <3>1, <3>2, <1>2
    <2>5. poll.dead \cup {x} \in SUBSET [peer : Peers, why : ConnState]
      BY <2>1, <2>2, <2>4 DEF PollType
    <2>6. /\ poll' \in PollType /\ poll'.ring = poll.ring /\ poll'.skipped = poll.skipped
          /\ poll'.at = poll.at + 1 /\ poll'.lines = poll.lines
          /\ poll'.dead = poll.dead \cup {x}
      BY <2>3, <2>4, <2>5 DEF PollType
    <2>7. QED BY <1>2, <2>2, <2>6
  <1>6. TypeInv'
    <2>1. client' \in [Peers -> ClientType] /\ wire' \in [Peers -> Seq(Nat)]
      BY <1>1, <1>2, <1>4 DEF TypeInv
    <2>2. QED BY <2>1, <1>1, <1>2, <1>3, <1>5 DEF TypeInv
  <1>7. Shape'
    <2>1. \A d \in poll'.dead : d \in poll.dead \/ (d.peer = p /\ poll'.lines = <<>>)
      BY <1>5
    <2>2. QED BY <2>1, <1>1, <1>2, <1>3, <1>5, ShapeAdvances
  <1>8. client'[p] = f.client /\ wire'[p] = f.wire
    BY <1>1, <1>2, <1>4 DEF TypeInv
  <1>9. ClientOK(p)'
    <2>1. /\ SameInput(client[p], client'[p]) /\ client'[p].answered <= client'[p].delivered
          /\ Len(wire'[p]) <= SocketSpace
      BY <1>2, <1>8 DEF TurnFlush
    <2>2. QED BY <2>1, <1>1, <1>3, <1>4, ClientKept
  <1>10. OthersUntouched(p)
    BY <1>1, <1>2, <1>3 DEF OthersUntouched, TypeInv
  <1>11. QED BY <1>1, <1>4, <1>6, <1>7, <1>9, <1>10, OthersOK DEF BaseInv

\* Which results of a read end a connection.
LEMMA FatalFacts ==
  ASSUME NEW r, r.error \in {"none", "eof", "overflow"}
  PROVE  /\ Fatal(r) \in {"overflowed", "retired", "none"}
         /\ r.error = "none" => Fatal(r) = "none"
         /\ Fatal(r) = "overflowed" <=> r.error = "overflow"
         /\ Fatal(r) = "retired" => r.error = "eof" /\ r.client.out = <<>>
         /\ r.error = "eof" /\ r.client.out = <<>> => Fatal(r) = "retired"
  BY DEF Fatal, has_pending_output

\* A turn keeps the base invariant.
LEMMA BasePolledClient ==
  ASSUME BaseInv, NEW p, NEW f, NEW r, NEW d, PolledClient(p, f, r, d)
  PROVE  BaseInv'
  <1>1. TypeInv /\ Shape /\ \A q \in Peers : ClientOK(q)
    BY DEF BaseInv
  <1>2. /\ Current(p) /\ poll.lines = <<>>
        /\ TurnFlush(p, f) /\ ReadTook(f.client, stream[p], Eof(p), r)
        /\ cursor' = NextInRing /\ NextInRing \in Peers
        /\ Served(p, r.client, r.frames, d)
        /\ wire' = [wire EXCEPT ![p] = f.wire]
        /\ stream' = [stream EXCEPT ![p] = Suffix(stream[p], r.bytes)]
        /\ poll' = [poll EXCEPT !.lines = r.frames,
                                !.at = IF r.frames = <<>> THEN poll.at + 1 ELSE poll.at,
                                !.messages = @ + Len(r.frames),
                                !.bytes = @ + r.bytes,
                                !.dead = @ \cup Casualty(p, Fatal(r))]
    BY DEF PolledClient
  <1>3. UNCHANGED <<peer, received, frames, run, longest, written, conn, armed,
                    incoming, pc, events>>
    BY DEF PolledClient
  <1>4. /\ p \in Peers /\ conn[p] = "open" /\ f.client \in ClientType /\ f.wire \in Seq(Nat)
        /\ stream[p] \in Seq(Token)
    BY <1>1, <1>2 DEF Current, TurnFlush, SameInput, TypeInv
  <1>5. /\ r.client \in ClientType /\ Scanned(r.client)
        /\ r.client = [f.client EXCEPT !.buf = r.client.buf, !.scan = r.client.scan,
                                       !.read_closed = r.client.read_closed]
        /\ r.bytes \in 0..Len(stream[p]) /\ r.frames \in Seq(Frame)
        /\ r.client.read_closed => (f.client.read_closed \/ Eof(p))
                                    /\ Suffix(stream[p], r.bytes) = <<>>
        /\ r.error \in {"none", "eof", "overflow"}
        /\ r.error # "none" => r.frames = <<>>
    BY <1>2 DEF ReadTook
  <1>6. client' = [client EXCEPT ![p] = d] /\ SameInput(r.client, d) /\ SameReplies(r.client, d)
    BY <1>2 DEF Served
  <1>7. /\ d \in ClientType /\ d.buf = r.client.buf /\ d.scan = r.client.scan
        /\ d.read_closed = r.client.read_closed
        /\ d.answered = r.client.answered /\ d.delivered = r.client.delivered
    BY <1>6 DEF SameInput, SameReplies
  <1>8. r.client.answered = f.client.answered /\ r.client.delivered = f.client.delivered
    <2>1. PICK c, x, y, z : /\ c = r.client /\ x = r.client.buf /\ y = r.client.scan
                            /\ z = r.client.read_closed
      OBVIOUS
    <2>2. c = [f.client EXCEPT !.buf = x, !.scan = y, !.read_closed = z]
      BY <2>1, <1>5
    <2>3. c.answered = f.client.answered /\ c.delivered = f.client.delivered
      BY <2>2, <1>4 DEF ClientType
    <2>4. QED BY <2>1, <2>3
  <1>9. Suffix(stream[p], r.bytes) \in Seq(Token)
    BY <1>4, <1>5, SuffixFacts
  <1>10. /\ poll' \in PollType /\ poll'.ring = poll.ring /\ poll'.skipped = poll.skipped
         /\ poll'.at = IF poll'.lines = <<>> THEN poll.at + 1 ELSE poll.at
         /\ poll'.lines = r.frames
         /\ poll'.dead = poll.dead \cup Casualty(p, Fatal(r))
    <2>1. PICK x : x = Casualty(p, Fatal(r))
      OBVIOUS
    <2>2. x \in SUBSET [peer : Peers, why : ConnState]
      BY <2>1, <1>4, <1>5, FatalFacts DEF Casualty, ConnState
    <2>3. PICK fs, at, n, b : /\ fs = r.frames /\ n = Len(r.frames) /\ b = r.bytes
                              /\ at = IF r.frames = <<>> THEN poll.at + 1 ELSE poll.at
      OBVIOUS
    <2>4. poll' = [poll EXCEPT !.lines = fs, !.at = at, !.messages = @ + n,
                               !.bytes = @ + b, !.dead = @ \cup x]
      BY <2>1, <2>3, <1>2
    <2>5. poll \in PollType
      BY <1>1 DEF TypeInv
    <2>6. poll.at \in Nat \ {0} /\ poll.messages \in Nat /\ poll.bytes \in Nat
          /\ poll.dead \in SUBSET [peer : Peers, why : ConnState]
      BY <2>5 DEF PollType
    <2>7. fs \in Seq(Frame) /\ n \in Nat /\ b \in Nat /\ at \in Nat \ {0}
      BY <2>3, <2>6, <1>4, <1>5
    <2>8. poll.messages + n \in Nat /\ poll.bytes + b \in Nat
          /\ poll.dead \cup x \in SUBSET [peer : Peers, why : ConnState]
      BY <2>2, <2>6, <2>7
    <2>9. /\ poll' \in PollType /\ poll'.ring = poll.ring /\ poll'.skipped = poll.skipped
          /\ poll'.at = at /\ poll'.lines = fs /\ poll'.dead = poll.dead \cup x
      BY <2>4, <2>5, <2>7, <2>8 DEF PollType
    <2>10. QED BY <2>1, <2>3, <2>9
  <1>11. TypeInv'
    <2>1. client' \in [Peers -> ClientType] /\ wire' \in [Peers -> Seq(Nat)]
          /\ stream' \in [Peers -> Seq(Token)]
      BY <1>1, <1>2, <1>4, <1>6, <1>7, <1>9 DEF TypeInv
    <2>2. QED BY <2>1, <1>1, <1>2, <1>3, <1>10 DEF TypeInv
  <1>12. Shape'
    <2>1. ASSUME NEW x \in poll'.dead
          PROVE  x \in poll.dead \/ (x.peer = p /\ poll'.lines = <<>>)
      <3>1. CASE x \in Casualty(p, Fatal(r))
        <4>1. x.peer = p /\ Fatal(r) # "none"
          BY <3>1 DEF Casualty
        <4>2. r.error # "none"
          BY <4>1, <1>5, FatalFacts
        <4>3. QED BY <4>1, <4>2, <1>5, <1>10
      <3>2. QED BY <3>1, <1>10
    <2>2. QED BY <2>1, <1>1, <1>2, <1>3, <1>10, ShapeAdvances
  <1>13. /\ client'[p] = d /\ wire'[p] = f.wire
         /\ stream'[p] = Suffix(stream[p], r.bytes)
    BY <1>1, <1>2, <1>4, <1>6 DEF TypeInv
  <1>14. ClientOK(p)'
    <2>1. Scanned(d)
      BY <1>5, <1>7 DEF Scanned
    <2>2. d.answered <= d.delivered
      BY <1>2, <1>7, <1>8 DEF TurnFlush
    <2>3. Len(f.wire) <= SocketSpace
      BY <1>2 DEF TurnFlush
    <2>4. d.read_closed => Eof(p) /\ Suffix(stream[p], r.bytes) = <<>>
      <3>1. f.client.read_closed => Eof(p)
        BY <1>1, <1>2, <1>4 DEF TurnFlush, SameInput, ClientOK
      <3>2. QED BY <3>1, <1>5, <1>7
    <2>5. Eof(p)' = Eof(p) /\ ClientOK(p)
      BY <1>1, <1>3, <1>4 DEF Eof
    <2>6. QED BY <2>1, <2>2, <2>3, <2>4, <2>5, <1>3, <1>4, <1>13 DEF ClientOK
  <1>15. OthersUntouched(p)
    BY <1>1, <1>2, <1>3, <1>6 DEF OthersUntouched, TypeInv
  <1>16. QED BY <1>1, <1>4, <1>11, <1>12, <1>14, <1>15, OthersOK DEF BaseInv

\* One line of the current client was parsed.
NextLine ==
  /\ poll' \in PollType /\ poll'.ring = poll.ring /\ poll'.skipped = poll.skipped
  /\ poll'.dead = poll.dead /\ poll'.lines = Tail(poll.lines)
  /\ poll'.messages = poll.messages /\ poll'.bytes = poll.bytes
  /\ poll'.at = IF poll'.lines = <<>> THEN poll.at + 1 ELSE poll.at

\* Parsing a line moves to the next one or ends the turn.
LEMMA NextLineFacts ==
  ASSUME TypeInv, NEW p, NEW m, Parsing(p, m), poll' = WithLines(Tail(poll.lines))
  PROVE  NextLine
  <1>1. PICK ls, at : /\ ls = Tail(poll.lines)
                      /\ at = IF Tail(poll.lines) = <<>> THEN poll.at + 1 ELSE poll.at
    OBVIOUS
  <1>2. poll' = [poll EXCEPT !.lines = ls, !.at = at]
    BY <1>1 DEF WithLines
  <1>3. poll \in PollType /\ ls \in Seq(Frame)
    BY <1>1 DEF TypeInv, Parsing
  <1>4. poll.at \in Nat \ {0}
    BY <1>3 DEF PollType
  <1>5. at \in Nat \ {0}
    BY <1>1, <1>4
  <1>6. /\ poll' \in PollType /\ poll'.ring = poll.ring /\ poll'.skipped = poll.skipped
        /\ poll'.dead = poll.dead /\ poll'.lines = ls /\ poll'.at = at
        /\ poll'.messages = poll.messages /\ poll'.bytes = poll.bytes
    BY <1>2, <1>3, <1>5 DEF PollType
  <1>7. QED BY <1>1, <1>6 DEF NextLine

\* Rejecting a line keeps the base invariant.
LEMMA BaseRejectedLine ==
  ASSUME BaseInv, NEW p, NEW m, NEW r, NEW d, RejectedLine(p, m, r, d)
  PROVE  BaseInv'
  <1>1. TypeInv /\ Shape /\ \A q \in Peers : ClientOK(q)
    BY DEF BaseInv
  <1>2. /\ Parsing(p, m) /\ Current(p) /\ Rejected(client[p], m.n, wire[p], r)
        /\ Served(p, r.client, Tail(poll.lines), d)
        /\ wire' = [wire EXCEPT ![p] = r.wire]
        /\ poll' = WithLines(Tail(poll.lines))
    BY DEF RejectedLine, Parsing
  <1>3. UNCHANGED <<peer, stream, received, frames, run, longest, written, conn, cursor,
                    armed, incoming, pc, events>>
    BY DEF RejectedLine, peerVars
  <1>4. p \in Peers /\ conn[p] = "open"
    BY <1>2 DEF Current
  <1>5. /\ client' = [client EXCEPT ![p] = d] /\ SameInput(client[p], d)
        /\ d.answered = client[p].answered /\ d.delivered = client[p].delivered
        /\ r.wire \in Seq(Nat) /\ Len(r.wire) <= SocketSpace
    BY <1>2 DEF Served, Rejected, SameInput, SameReplies
  <1>6. d \in ClientType
    BY <1>5 DEF SameInput
  <1>7. NextLine
    BY <1>1, <1>2, NextLineFacts
  <1>8. TypeInv'
    <2>1. client' \in [Peers -> ClientType] /\ wire' \in [Peers -> Seq(Nat)]
      BY <1>1, <1>2, <1>4, <1>5, <1>6 DEF TypeInv
    <2>2. QED BY <2>1, <1>1, <1>3, <1>7 DEF TypeInv, NextLine
  <1>9. Shape'
    BY <1>1, <1>2, <1>3, <1>7, ShapeAdvances DEF NextLine
  <1>10. client'[p] = d /\ wire'[p] = r.wire
    BY <1>1, <1>2, <1>4, <1>5 DEF TypeInv
  <1>11. ClientOK(p)'
    <2>1. client'[p].answered <= client'[p].delivered
      BY <1>1, <1>4, <1>5, <1>10 DEF ClientOK
    <2>2. QED BY <2>1, <1>1, <1>3, <1>4, <1>5, <1>10, ClientKept
  <1>12. OthersUntouched(p)
    BY <1>1, <1>2, <1>3, <1>5 DEF OthersUntouched, TypeInv
  <1>13. QED BY <1>1, <1>4, <1>8, <1>9, <1>11, <1>12, OthersOK DEF BaseInv

\* Delivering a line keeps the base invariant.
LEMMA BaseDeliveredLine ==
  ASSUME BaseInv, NEW p, NEW m, NEW c, NEW d, DeliveredLine(p, m, c, d)
  PROVE  BaseInv'
  <1>1. TypeInv /\ Shape /\ \A q \in Peers : ClientOK(q)
    BY DEF BaseInv
  <1>2. /\ Parsing(p, m) /\ Current(p) /\ m \in Frame
        /\ SameInput(client[p], c) /\ c.answered = client[p].answered
        /\ c.delivered = client[p].delivered + 1
        /\ Served(p, c, Tail(poll.lines), d)
        /\ incoming' = Append(incoming, [peer |-> p, frame |-> m])
        /\ poll' = WithLines(Tail(poll.lines))
    BY DEF DeliveredLine, Parsing
  <1>3. UNCHANGED <<peer, stream, received, frames, run, longest, written, wire, conn,
                    cursor, armed, pc, events>>
    BY DEF DeliveredLine, peerVars
  <1>4. p \in Peers /\ conn[p] = "open" /\ pc = "poll"
    BY <1>2 DEF Current
  <1>5. /\ client' = [client EXCEPT ![p] = d] /\ SameInput(client[p], d)
        /\ d.answered = client[p].answered /\ d.delivered = client[p].delivered + 1
    BY <1>2 DEF Served, SameInput, SameReplies
  <1>6. d \in ClientType
    BY <1>5 DEF SameInput
  <1>7. NextLine
    BY <1>1, <1>2, NextLineFacts
  <1>8. TypeInv'
    <2>1. client' \in [Peers -> ClientType]
      BY <1>1, <1>5, <1>6 DEF TypeInv
    <2>2. incoming' \in Seq([peer : Peers, frame : Frame])
      <3>1. PICK T, x : T = [peer : Peers, frame : Frame] /\ x = [peer |-> p, frame |-> m]
        OBVIOUS
      <3>2. x \in T
        BY <3>1, <1>2, <1>4
      <3>3. incoming \in Seq(T) /\ incoming' = Append(incoming, x)
        BY <3>1, <1>1, <1>2 DEF TypeInv
      <3>4. incoming' \in Seq(T)
        BY <3>2, <3>3
      <3>5. QED BY <3>1, <3>4
    <2>3. QED BY <2>1, <2>2, <1>1, <1>3, <1>7 DEF TypeInv, NextLine
  <1>9. Shape'
    BY <1>1, <1>2, <1>3, <1>7, ShapeAdvances DEF NextLine
  <1>10. client'[p] = d
    BY <1>1, <1>4, <1>5 DEF TypeInv
  <1>11. ClientOK(p)'
    <2>1. client'[p].answered <= client'[p].delivered
      <3>1. client[p].answered <= client[p].delivered
        BY <1>1, <1>4 DEF ClientOK
      <3>2. client[p].answered \in Nat /\ client[p].delivered \in Nat
        <4>1. client[p] \in ClientType
          BY <1>1, <1>4 DEF TypeInv
        <4>2. QED BY <4>1 DEF ClientType
      <3>3. QED BY <3>1, <3>2, <1>5, <1>10
    <2>2. Len(wire'[p]) <= SocketSpace
      BY <1>1, <1>3, <1>4 DEF ClientOK
    <2>3. QED BY <2>1, <2>2, <1>1, <1>3, <1>4, <1>5, <1>10, ClientKept
  <1>12. OthersUntouched(p)
    BY <1>1, <1>3, <1>5 DEF OthersUntouched, TypeInv
  <1>13. QED BY <1>1, <1>4, <1>8, <1>9, <1>11, <1>12, OthersOK DEF BaseInv

\* The poll record between two polls.
LEMMA NoPollFacts ==
  ASSUME NEW s \in 0..MaxPeers, NEW q, q = [NoPoll EXCEPT !.skipped = s]
  PROVE  /\ q \in PollType /\ q.ring = <<>> /\ q.at = 1 /\ q.lines = <<>> /\ q.dead = {}
         /\ q.skipped = s /\ q.messages = 0 /\ q.bytes = 0
  <1>1. 1 \in Nat \ {0} /\ <<>> \in Seq(Peers) /\ <<>> \in Seq(Frame)
    OBVIOUS
  <1>2. QED BY <1>1 DEF NoPoll, PollType

\* The end of a poll keeps the base invariant.
LEMMA BaseEndedPoll ==
  ASSUME BaseInv, NEW why, EndedPoll(why)
  PROVE  BaseInv'
  <1>1. TypeInv /\ Shape /\ \A q \in Peers : ClientOK(q)
    BY DEF BaseInv
  <1>2. /\ pc = "poll"
        /\ \A p \in DOMAIN why : \E d \in poll.dead : d.peer = p /\ why[p] = d.why
        /\ conn' = [p \in Peers |-> IF p \in DOMAIN why THEN why[p] ELSE conn[p]]
        /\ stream' = [p \in Peers |-> IF p \in DOMAIN why THEN <<>> ELSE stream[p]]
        /\ client' = [p \in Peers |-> IF p \in DOMAIN why THEN NewClient ELSE client[p]]
        /\ pc' = IF incoming = <<>> THEN "idle" ELSE "respond"
    BY DEF EndedPoll
  <1>3. /\ armed' = arm_continuation({client[p] : p \in Open \ DOMAIN why})
        /\ poll' = [NoPoll EXCEPT !.skipped =
                      IF poll.at <= Len(poll.ring) THEN poll.ring[poll.at] ELSE 0]
    BY DEF EndedPoll
  <1>4. UNCHANGED <<peer, received, frames, run, longest, written, wire, cursor,
                    incoming, events>>
    BY DEF EndedPoll
  <1>5. /\ poll' \in PollType /\ poll'.ring = <<>> /\ poll'.at = 1 /\ poll'.lines = <<>>
        /\ poll'.dead = {}
    <2>1. PICK s : s = IF poll.at <= Len(poll.ring) THEN poll.ring[poll.at] ELSE 0
      OBVIOUS
    <2>2. s \in 0..MaxPeers
      <3>1. CASE poll.at <= Len(poll.ring)
        <4>1. poll.ring[poll.at] \in Peers
          BY <3>1, <1>1, <1>2, CurrentFacts DEF Current
        <4>2. QED BY <4>1, <2>1, <3>1, ServerFacts DEF Peers
      <3>2. CASE ~(poll.at <= Len(poll.ring))
        BY <2>1, <3>2, ServerFacts
      <3>3. QED BY <3>1, <3>2
    <2>3. poll' = [NoPoll EXCEPT !.skipped = s]
      BY <2>1, <1>3
    <2>4. QED BY <2>2, <2>3, NoPollFacts, ZenonT(40)
  <1>6. \A p \in DOMAIN why : why[p] \in ConnState /\ conn[p] = "open"
    <2>1. ASSUME NEW p \in DOMAIN why PROVE why[p] \in ConnState /\ conn[p] = "open"
      <3>1. PICK d \in poll.dead : d.peer = p /\ why[p] = d.why
        BY <1>2
      <3>2. poll \in PollType
        BY <1>1 DEF TypeInv
      <3>3. d.why \in ConnState /\ poll.ring \in Seq(Peers) /\ poll.at \in Nat
        BY <3>2 DEF PollType
      <3>4. PICK i \in 1..(poll.at - 1) : poll.ring[i] = p
        BY <3>1, <1>1 DEF Shape
      <3>5. poll.at <= Len(poll.ring) + 1
        BY <1>1 DEF Shape
      <3>6. i \in DOMAIN poll.ring
        <4>1. i \in 1..Len(poll.ring)
          BY <3>3, <3>4, <3>5
        <4>2. QED BY <3>3, <4>1
      <3>7. conn[p] = "open"
        BY <3>4, <3>6, <1>1 DEF Shape
      <3>8. QED BY <3>1, <3>3, <3>7
    <2>2. QED BY <2>1
  <1>7. TypeInv'
    <2>1. conn' \in [Peers -> ConnState]
      BY <1>1, <1>2, <1>6 DEF TypeInv
    <2>2. stream' \in [Peers -> Seq(Token)]
      BY <1>1, <1>2 DEF TypeInv
    <2>3. client' \in [Peers -> ClientType]
      BY <1>1, <1>2, NewClientFacts DEF TypeInv
    <2>4. armed' \in BOOLEAN /\ pc' \in {"idle", "poll", "respond"}
      BY <1>1, <1>2, <1>3 DEF TypeInv, arm_continuation
    <2>5. QED BY <2>1, <2>2, <2>3, <2>4, <1>1, <1>4, <1>5 DEF TypeInv
  <1>8. Shape'
    BY <1>2, <1>4, <1>5 DEF Shape
  <1>9. ASSUME NEW q \in Peers PROVE ClientOK(q)'
    <2>1. ClientOK(q) /\ Len(wire'[q]) <= SocketSpace /\ peer'[q] = peer[q]
          /\ wire'[q] = wire[q]
      BY <1>1, <1>4 DEF ClientOK
    <2>2. CASE q \in DOMAIN why
      <3>1. client'[q] = NewClient /\ conn[q] # "none"
        BY <2>2, <1>2, <1>6
      <3>2. QED BY <3>1, <2>1, ClientGone
    <2>3. CASE q \notin DOMAIN why
      <3>1. client'[q] = client[q] /\ stream'[q] = stream[q] /\ conn'[q] = conn[q]
        BY <2>3, <1>2
      <3>2. QED BY <3>1, <2>1, ClientUntouched
    <2>4. QED BY <2>2, <2>3
  <1>10. QED BY <1>7, <1>8, <1>9 DEF BaseInv

\* The caller's messages leave the poll alone.
LEMMA ShapeAnswering ==
  ASSUME TypeInv, Shape, NEW m, Answering(m)
  PROVE  Shape'
  <1>1. /\ pc = "respond" /\ pc' = IF Tail(incoming) = <<>> THEN "idle" ELSE "respond"
        /\ incoming' = Tail(incoming) /\ poll' = poll
    BY DEF Answering
  <1>2. poll.ring = <<>> /\ poll.at = 1 /\ poll.lines = <<>> /\ poll.dead = {}
    BY <1>1 DEF Shape
  <1>3. QED BY <1>1, <1>2 DEF Shape

\* Dropping the reply to a client that is gone keeps the base invariant.
LEMMA BaseUnanswered ==
  ASSUME BaseInv, NEW m, Unanswered(m)
  PROVE  BaseInv'
  <1>1. TypeInv /\ Shape /\ \A q \in Peers : ClientOK(q)
    BY DEF BaseInv
  <1>2. /\ Answering(m) /\ UNCHANGED <<conn, stream, client, wire>>
        /\ incoming' \in Seq([peer : Peers, frame : Frame])
        /\ pc' \in {"idle", "poll", "respond"}
        /\ UNCHANGED <<peer, received, frames, run, longest, written, cursor, armed,
                       poll, events>>
    BY DEF Unanswered, Answering
  <1>3. TypeInv'
    BY <1>1, <1>2 DEF TypeInv
  <1>4. Shape'
    BY <1>1, <1>2, ShapeAnswering
  <1>5. \A q \in Peers : ClientOK(q)'
    BY <1>1, <1>2, ClientUntouched
  <1>6. QED BY <1>3, <1>4, <1>5 DEF BaseInv

\* The count of replies stays within the frames delivered.
LEMMA AnsweredGrows ==
  ASSUME NEW c \in ClientType, c.answered <= c.delivered
  PROVE  /\ Min({c.answered + 1, c.delivered}) <= c.delivered
         /\ c.answered < c.delivered => Min({c.answered + 1, c.delivered}) = c.answered + 1
         /\ c.answered = c.delivered => Min({c.answered + 1, c.delivered}) = c.answered
  <1>1. PICK x, y : x = c.answered + 1 /\ y = c.delivered
    OBVIOUS
  <1>2. c.answered \in Nat /\ c.delivered \in Nat
    BY DEF ClientType
  <1>3. x \in Int /\ y \in Int
    BY <1>1, <1>2
  <1>4. Min({x, y}) \in {x, y} /\ Min({x, y}) <= x /\ Min({x, y}) <= y
    BY <1>3, MinPair
  <1>5. PICK z : z = Min({x, y})
    OBVIOUS
  <1>6. z \in {x, y} /\ z <= x /\ z <= y
    BY <1>4, <1>5
  <1>7. /\ z <= c.delivered /\ (c.answered < c.delivered => z = c.answered + 1)
        /\ (c.answered = c.delivered => z = c.answered)
    BY <1>1, <1>2, <1>6
  <1>8. QED BY <1>1, <1>5, <1>7

\* A reply keeps the base invariant.
LEMMA BaseResponded ==
  ASSUME BaseInv, NEW p, NEW m, NEW s, NEW k, NEW d, Responded(p, m, s, k, d)
  PROVE  BaseInv'
  <1>1. TypeInv /\ Shape /\ \A q \in Peers : ClientOK(q)
    BY DEF BaseInv
  <1>2. /\ Answering(m) /\ p \in Peers /\ conn[p] = "open"
        /\ Replied(client[p], m.frame.n, wire[p], s, k)
        /\ wire' = [wire EXCEPT ![p] = s.wire] /\ client' = [client EXCEPT ![p] = d]
        /\ s.error = "none" =>
             /\ SameInput(s.client, d) /\ SameReplies(s.client, d) /\ Synced(d)
             /\ UNCHANGED <<conn, stream>>
        /\ s.error # "none" =>
             /\ d = NewClient
             /\ conn' = [conn EXCEPT ![p] = s.error]
             /\ stream' = [stream EXCEPT ![p] = <<>>]
    BY DEF Responded
  <1>3. /\ incoming' \in Seq([peer : Peers, frame : Frame])
        /\ pc' \in {"idle", "poll", "respond"}
        /\ UNCHANGED <<peer, received, frames, run, longest, written, cursor, armed,
                       poll, events>>
    BY <1>2 DEF Answering
  <1>4. /\ SameInput(client[p], s.client) /\ s.wire \in Seq(Nat) /\ Len(s.wire) <= SocketSpace
        /\ s.error \in {"none", "failed", "backlogged"}
        /\ s.client.delivered = client[p].delivered
        /\ s.client.answered = Min({client[p].answered + 1, client[p].delivered})
    BY <1>2 DEF Replied
  <1>5. d \in ClientType
    BY <1>2, NewClientFacts DEF SameInput
  <1>6. TypeInv'
    <2>1. client' \in [Peers -> ClientType] /\ wire' \in [Peers -> Seq(Nat)]
      BY <1>1, <1>2, <1>4, <1>5 DEF TypeInv
    <2>2. conn' \in [Peers -> ConnState]
      BY <1>1, <1>2, <1>4 DEF TypeInv, ConnState
    <2>3. stream' \in [Peers -> Seq(Token)]
      <3>1. stream \in [Peers -> Seq(Token)] /\ <<>> \in Seq(Token)
        BY <1>1 DEF TypeInv
      <3>2. stream' = stream \/ stream' = [stream EXCEPT ![p] = <<>>]
        BY <1>2
      <3>3. QED BY <3>1, <3>2
    <2>4. QED BY <2>1, <2>2, <2>3, <1>1, <1>3 DEF TypeInv
  <1>7. Shape'
    BY <1>1, <1>2, ShapeAnswering
  <1>8. client'[p] = d /\ wire'[p] = s.wire
    BY <1>1, <1>2 DEF TypeInv
  <1>9. ClientOK(p)'
    <2>1. CASE s.error = "none"
      <3>1. client[p] \in ClientType /\ client[p].answered <= client[p].delivered
        BY <1>1, <1>2 DEF TypeInv, ClientOK
      <3>2. s.client.answered <= s.client.delivered
        BY <3>1, <1>4, AnsweredGrows
      <3>3. d.answered <= d.delivered /\ SameInput(client[p], d)
        BY <3>2, <2>1, <1>2, <1>4 DEF SameReplies, SameInput
      <3>4. QED BY <3>3, <2>1, <1>1, <1>2, <1>3, <1>4, <1>8, ClientKept
    <2>2. CASE s.error # "none"
      BY <2>2, <1>1, <1>2, <1>3, <1>4, <1>8, ClientGone
    <2>3. QED BY <2>1, <2>2
  <1>10. OthersUntouched(p)
    <2>1. CASE s.error = "none"
      BY <2>1, <1>1, <1>2, <1>3 DEF OthersUntouched, TypeInv
    <2>2. CASE s.error # "none"
      BY <2>2, <1>1, <1>2, <1>3 DEF OthersUntouched, TypeInv
    <2>3. QED BY <2>1, <2>2
  <1>11. QED BY <1>1, <1>2, <1>6, <1>7, <1>9, <1>10, OthersOK DEF BaseInv

\* An event keeps the base invariant.
LEMMA BaseBroadcasted ==
  ASSUME BaseInv, Broadcasted
  PROVE  BaseInv'
  <1>1. TypeInv /\ Shape /\ \A q \in Peers : ClientOK(q)
    BY DEF BaseInv
  <1>2. /\ pc \in {"idle", "respond"} /\ events < MaxEvents /\ events' = events + 1
        /\ \A p \in Peers : Untold(p) \/ \E s : Told(p, s) \/ Lost(p, s)
    BY DEF Broadcasted
  <1>3. UNCHANGED <<peer, received, frames, run, longest, written, cursor, armed,
                    poll, incoming, pc>>
    BY DEF Broadcasted
  <1>4. ASSUME NEW q \in Peers
        PROVE  /\ conn'[q] \in ConnState /\ stream'[q] \in Seq(Token)
               /\ wire'[q] \in Seq(Nat) /\ client'[q] \in ClientType
               /\ ClientOK(q)'
    <2>1. /\ ClientOK(q) /\ conn[q] \in ConnState /\ stream[q] \in Seq(Token)
          /\ wire[q] \in Seq(Nat) /\ client[q] \in ClientType /\ peer'[q] = peer[q]
      BY <1>1, <1>3 DEF TypeInv
    <2>2. CASE Untold(q)
      BY <2>1, <2>2, ClientUntouched DEF Untold
    <2>3. ASSUME NEW s, Told(q, s)
          PROVE  /\ conn'[q] \in ConnState /\ stream'[q] \in Seq(Token)
                 /\ wire'[q] \in Seq(Nat) /\ client'[q] \in ClientType
                 /\ ClientOK(q)'
      <3>1. /\ conn[q] = "open" /\ Said(client[q], Event, wire[q], s)
            /\ conn'[q] = conn[q] /\ stream'[q] = stream[q] /\ wire'[q] = s.wire
            /\ SameInput(s.client, client'[q]) /\ SameReplies(s.client, client'[q])
        BY <2>3 DEF Told
      <3>2. /\ SameInput(client[q], s.client) /\ s.wire \in Seq(Nat)
            /\ Len(s.wire) <= SocketSpace /\ s.client.answered = client[q].answered
            /\ s.client.delivered = client[q].delivered
        BY <3>1 DEF Said
      <3>3. SameInput(client[q], client'[q]) /\ client'[q].answered <= client'[q].delivered
        BY <2>1, <3>1, <3>2 DEF SameInput, SameReplies, ClientOK
      <3>4. ClientOK(q)'
        BY <2>1, <3>1, <3>2, <3>3, ClientKept
      <3>5. QED BY <2>1, <3>1, <3>2, <3>4 DEF SameInput
    <2>4. ASSUME NEW s, Lost(q, s)
          PROVE  /\ conn'[q] \in ConnState /\ stream'[q] \in Seq(Token)
                 /\ wire'[q] \in Seq(Nat) /\ client'[q] \in ClientType
                 /\ ClientOK(q)'
      <3>1. /\ conn[q] = "open" /\ Said(client[q], Event, wire[q], s)
            /\ conn'[q] \in {"failed", "backlogged"} /\ stream'[q] = <<>>
            /\ wire'[q] = s.wire /\ client'[q] = NewClient
        BY <2>4 DEF Lost
      <3>2. s.wire \in Seq(Nat) /\ Len(s.wire) <= SocketSpace
        BY <3>1 DEF Said
      <3>3. ClientOK(q)'
        BY <2>1, <3>1, <3>2, ClientGone
      <3>4. <<>> \in Seq(Token)
        OBVIOUS
      <3>5. QED BY <3>1, <3>2, <3>3, <3>4, NewClientFacts DEF ConnState
    <2>5. QED BY <2>2, <2>3, <2>4, <1>2
  <1>5. TypeInv'
    <2>1. /\ conn' \in [Peers -> ConnState] /\ stream' \in [Peers -> Seq(Token)]
          /\ wire' \in [Peers -> Seq(Nat)] /\ client' \in [Peers -> ClientType]
      <3>1. \A q \in Peers : /\ conn'[q] \in ConnState /\ stream'[q] \in Seq(Token)
                             /\ wire'[q] \in Seq(Nat) /\ client'[q] \in ClientType
        BY <1>4
      <3>2. /\ conn' = [q \in Peers |-> conn'[q]] /\ stream' = [q \in Peers |-> stream'[q]]
            /\ wire' = [q \in Peers |-> wire'[q]] /\ client' = [q \in Peers |-> client'[q]]
        BY DEF Broadcasted
      <3>3. QED BY <3>1, <3>2
    <2>2. events' \in 0..MaxEvents
      <3>1. events \in 0..MaxEvents
        BY <1>1 DEF TypeInv
      <3>2. QED BY <3>1, <1>2, ServerFacts
    <2>3. QED BY <2>1, <2>2, <1>1, <1>3 DEF TypeInv
  <1>6. Shape'
    <2>1. poll.ring = <<>> /\ poll.at = 1 /\ poll.lines = <<>> /\ poll.dead = {}
      BY <1>1, <1>2 DEF Shape
    <2>2. QED BY <2>1, <1>1, <1>2, <1>3 DEF Shape
  <1>7. QED BY <1>4, <1>5, <1>6 DEF BaseInv

\* The start of a poll, with its accepts, keeps the base invariant.
LEMMA BaseStartedPoll ==
  ASSUME BaseInv, NEW open, StartedPoll(open)
  PROVE  BaseInv'
  <1>1. TypeInv /\ Shape /\ \A q \in Peers : ClientOK(q)
    BY DEF BaseInv
  <1>2. /\ pc = "idle" /\ conn' \in [Peers -> ConnState]
        /\ \A p \in Peers : \/ conn'[p] = conn[p]
                            \/ conn[p] = "pending" /\ conn'[p] \in {"open", "refused"}
        /\ open = {p \in Peers : conn'[p] = "open"}
        /\ armed' = FALSE
        /\ poll' = [NoPoll EXCEPT !.ring = Ring(open)]
        /\ pc' = IF open = {} THEN "idle" ELSE "poll"
        /\ stream' = [p \in Peers |-> IF conn'[p] = "refused" THEN <<>> ELSE stream[p]]
    BY DEF StartedPoll
  <1>3. UNCHANGED <<peer, received, frames, run, longest, written, wire, client,
                    cursor, incoming, events>>
    BY DEF StartedPoll
  <1>4. /\ Ring(open) \in Seq(Peers) /\ (open # {} => Ring(open) # <<>>)
        /\ \A i, j \in DOMAIN Ring(open) : Ring(open)[i] = Ring(open)[j] => i = j
        /\ \A i \in DOMAIN Ring(open) : Ring(open)[i] \in open
    <2>1. cursor \in Peers /\ open \in SUBSET Peers
      BY <1>1, <1>2 DEF TypeInv
    <2>2. QED BY <2>1, RingFacts
  <1>5. /\ poll' \in PollType /\ poll'.ring = Ring(open) /\ poll'.at = 1
        /\ poll'.lines = <<>> /\ poll'.dead = {} /\ poll'.skipped = 0
    <2>1. PICK r : r = Ring(open)
      OBVIOUS
    <2>2. poll' = [NoPoll EXCEPT !.ring = r] /\ r \in Seq(Peers)
      BY <2>1, <1>2, <1>4
    <2>3. 1 \in Nat \ {0} /\ <<>> \in Seq(Frame) /\ 0 \in 0..MaxPeers
      BY ServerFacts
    <2>4. /\ poll' \in PollType /\ poll'.ring = r /\ poll'.at = 1
          /\ poll'.lines = <<>> /\ poll'.dead = {} /\ poll'.skipped = 0
      BY <2>2, <2>3 DEF NoPoll, PollType
    <2>5. QED BY <2>1, <2>4
  <1>6. TypeInv'
    <2>1. stream' \in [Peers -> Seq(Token)]
      BY <1>1, <1>2 DEF TypeInv
    <2>2. armed' \in BOOLEAN /\ pc' \in {"idle", "poll", "respond"}
      BY <1>2
    <2>3. QED BY <2>1, <2>2, <1>1, <1>2, <1>3, <1>5 DEF TypeInv
  <1>7. Shape'
    <2>1. incoming' = <<>>
      BY <1>1, <1>2, <1>3 DEF Shape
    <2>2. PICK r : r = Ring(open)
      OBVIOUS
    <2>3. /\ r \in Seq(Peers) /\ (open # {} => r # <<>>)
          /\ \A i, j \in DOMAIN r : r[i] = r[j] => i = j
          /\ \A i \in DOMAIN r : r[i] \in open
      BY <2>2, <1>4
    <2>4. open = {} => r = <<>>
      <3>1. Len(r) \in Nat /\ DOMAIN r = 1..Len(r)
        BY <2>3
      <3>2. r # <<>> => 1 \in DOMAIN r
        BY <3>1, <2>3
      <3>3. QED BY <3>2, <2>3
    <2>5. \A i \in DOMAIN r : conn'[r[i]] = "open"
      BY <2>3, <1>2
    <2>6. poll'.ring = r /\ poll'.at <= Len(r) + 1
      BY <2>2, <2>3, <1>5
    <2>7. QED BY <2>1, <2>3, <2>4, <2>5, <2>6, <1>2, <1>5 DEF Shape
  <1>8. ASSUME NEW q \in Peers PROVE ClientOK(q)'
    <2>1. /\ ClientOK(q) /\ client'[q] = client[q] /\ wire'[q] = wire[q]
          /\ peer'[q] = peer[q] /\ stream'[q] = IF conn'[q] = "refused" THEN <<>> ELSE stream[q]
      BY <1>1, <1>2, <1>3
    <2>2. CASE conn'[q] = conn[q]
      BY <2>1, <2>2 DEF ClientOK, Eof
    <2>3. CASE conn[q] = "pending" /\ conn'[q] \in {"open", "refused"}
      <3>1. client[q] = NewClient /\ peer[q] # "absent" /\ Len(wire'[q]) <= SocketSpace
        BY <2>1, <2>3 DEF ClientOK
      <3>2. QED BY <3>1, <2>1, <2>3, ClientGone
    <2>4. QED BY <2>2, <2>3, <1>2
  <1>9. QED BY <1>6, <1>7, <1>8 DEF BaseInv

-----------------------------------------------------------------------------
(* The steps of the specification *)

\* A peer's step leaves the server's state alone, and touches one connection.
PeerLeaves(p) ==
  /\ p \in Peers
  /\ UNCHANGED <<client, cursor, armed, poll, incoming, pc, events>>
  /\ \A q \in Peers : q # p =>
       /\ peer'[q] = peer[q] /\ stream'[q] = stream[q] /\ wire'[q] = wire[q]
       /\ received'[q] = received[q] /\ frames'[q] = frames[q] /\ run'[q] = run[q]
       /\ longest'[q] = longest[q] /\ written'[q] = written[q] /\ conn'[q] = conn[q]
  /\ conn'[p] = conn[p] \/ (conn[p] = "none" /\ conn'[p] = "pending")

Connected(p) ==
  /\ PeerLeaves(p)
  /\ conn[p] = "none" /\ conn'[p] = "pending" /\ peer[p] = "absent" /\ peer'[p] = "up"
  /\ stream'[p] = stream[p] /\ wire'[p] = wire[p] /\ received'[p] = received[p]
  /\ frames'[p] = frames[p] /\ run'[p] = run[p] /\ longest'[p] = longest[p]
  /\ written'[p] = written[p]

\* The peer wrote the token x.
Wrote(p, x) ==
  /\ PeerLeaves(p) /\ x \in Token /\ peer[p] = "up" /\ conn[p] \in {"pending", "open"}
  /\ written[p] < MaxTokens[p] /\ written'[p] = written[p] + 1
  /\ peer'[p] = peer[p] /\ conn'[p] = conn[p]
  /\ stream'[p] = Append(stream[p], x) /\ wire'[p] = wire[p] /\ received'[p] = received[p]

\* What x is for the frames of p.
Began(p, x) ==
  /\ run[p] = 0 /\ run'[p] = 1 /\ frames'[p] = frames[p] + 1 /\ longest[p] \in Nat
  /\ x # Newline /\ x.n = frames[p] + 1 /\ longest'[p] = Max({longest[p], 1})
Extended(p, x) ==
  /\ run[p] > 0 /\ run'[p] = run[p] + 1 /\ frames'[p] = frames[p] /\ longest[p] \in Nat
  /\ x # Newline /\ x.n = frames[p] /\ longest'[p] = Max({longest[p], run[p] + 1})
Ended(p, x) ==
  /\ run'[p] = 0 /\ frames'[p] = frames[p] /\ longest'[p] = longest[p] /\ x = Newline

\* The peer stopped writing, hung up or read a message.
Turned(p) ==
  /\ PeerLeaves(p) /\ conn'[p] = conn[p] /\ (wire[p] # <<>> \/ conn[p] # "none")
  /\ stream'[p] = stream[p] /\ frames'[p] = frames[p] /\ run'[p] = run[p]
  /\ longest'[p] = longest[p] /\ written'[p] = written[p]
  /\ \/ peer'[p] = "half" /\ peer[p] = "up" /\ wire'[p] = wire[p] /\ received'[p] = received[p]
     \/ peer'[p] = "gone" /\ wire'[p] = <<>> /\ received'[p] = received[p]
     \/ /\ peer'[p] = peer[p] /\ wire[p] # <<>> /\ wire'[p] = Tail(wire[p])
        /\ received'[p] = Append(received[p], Head(wire[p]))

PeerStep(p) ==
  \/ Connected(p)
  \/ \E x : Wrote(p, x) /\ (Began(p, x) \/ Extended(p, x) \/ Ended(p, x))
  \/ Turned(p)

\* What writing a token changes.
LEMMA WriteFacts ==
  ASSUME TypeInv, NEW p \in Peers, NEW x \in Token, Write(p, x),
         \A q \in Peers : q # p =>
           frames'[q] = frames[q] /\ run'[q] = run[q] /\ longest'[q] = longest[q]
  PROVE  Wrote(p, x)
  <1>1. /\ peer[p] = "up" /\ written[p] < MaxTokens[p] /\ conn[p] \in {"pending", "open"}
        /\ stream' = [stream EXCEPT ![p] = Append(@, x)]
        /\ written' = [written EXCEPT ![p] = @ + 1]
        /\ UNCHANGED <<peer, received, wire, serverVars>>
    BY DEF Write
  <1>2. UNCHANGED <<conn, client, cursor, armed, poll, incoming, pc, events>>
    BY <1>1 DEF serverVars
  <1>3. DOMAIN stream = Peers /\ DOMAIN written = Peers
    BY DEF TypeInv
  <1>4. PeerLeaves(p)
    BY <1>1, <1>2, <1>3 DEF PeerLeaves
  <1>5. QED BY <1>1, <1>2, <1>3, <1>4 DEF Wrote

\* The body of a frame is a token with its number.
LEMMA BodyFacts ==
  ASSUME NEW n \in Nat, NEW kind \in Kind
  PROVE  /\ Body(n, kind) \in Token /\ Body(n, kind).n = n
         /\ Body(n, kind) # Newline
  <1>1. "newline" \notin Kind
    BY DEF Kind
  <1>2. Body(n, kind).kind = kind /\ Newline.kind = "newline" /\ Body(n, kind).n = n
    BY DEF Body, Newline
  <1>3. Body(n, kind) \in Token
    BY DEF Body, Token, Frame
  <1>4. QED BY <1>1, <1>2, <1>3

\* What a step of a peer does.
LEMMA PeerFacts ==
  ASSUME TypeInv, PeerNext, \A q \in Peers : ClientOK(q)
  PROVE  \E p : PeerStep(p)
  <1>1. PICK p \in Peers :
          \/ Connect(p) \/ EndLine(p) \/ HalfClose(p) \/ HangUp(p) \/ Receive(p)
          \/ \E kind \in Sends[p] : BeginFrame(p, kind) \/ ExtendFrame(p, kind)
    BY DEF PeerNext
  <1>2. /\ DOMAIN peer = Peers /\ DOMAIN conn = Peers /\ DOMAIN wire = Peers
        /\ DOMAIN received = Peers /\ DOMAIN stream = Peers
    BY DEF TypeInv
  <1>3. /\ DOMAIN frames = Peers /\ DOMAIN run = Peers /\ DOMAIN longest = Peers
        /\ frames[p] \in Nat /\ run[p] \in Nat /\ longest[p] \in Nat
    BY DEF TypeInv
  <1>4. CASE Connect(p)
    <2>1. /\ peer[p] = "absent" /\ peer' = [peer EXCEPT ![p] = "up"]
          /\ conn' = [conn EXCEPT ![p] = "pending"]
          /\ UNCHANGED <<stream, received, frames, run, longest, written, wire, client,
                         cursor, armed, poll, incoming, pc, events>>
      BY <1>4 DEF Connect
    <2>2. conn[p] = "none"
      BY <2>1 DEF ClientOK
    <2>3. PeerLeaves(p)
      BY <2>1, <2>2, <1>2 DEF PeerLeaves
    <2>4. Connected(p)
      BY <2>1, <2>2, <2>3, <1>2 DEF Connected
    <2>5. QED BY <2>4 DEF PeerStep
  <1>5. CASE EndLine(p)
    <2>1. Write(p, Newline) /\ run' = [run EXCEPT ![p] = 0] /\ UNCHANGED <<frames, longest>>
      BY <1>5 DEF EndLine
    <2>2. Newline \in Token
      BY DEF Token
    <2>3. \A q \in Peers : q # p =>
            frames'[q] = frames[q] /\ run'[q] = run[q] /\ longest'[q] = longest[q]
      BY <2>1, <1>3
    <2>4. Wrote(p, Newline)
      BY <2>1, <2>2, <2>3, WriteFacts
    <2>5. Ended(p, Newline)
      BY <2>1, <1>3 DEF Ended
    <2>6. QED BY <2>4, <2>5 DEF PeerStep
  <1>6. CASE \E kind \in Sends[p] : BeginFrame(p, kind)
    <2>1. PICK kind \in Sends[p] : BeginFrame(p, kind)
      BY <1>6
    <2>2. PICK x : x = Body(frames[p] + 1, kind)
      OBVIOUS
    <2>3. /\ run[p] = 0 /\ Write(p, x) /\ frames' = [frames EXCEPT ![p] = @ + 1]
          /\ run' = [run EXCEPT ![p] = 1]
          /\ longest' = [longest EXCEPT ![p] = Max({@, 1})]
      BY <2>1, <2>2 DEF BeginFrame
    <2>4. x \in Token /\ x # Newline /\ x.n = frames[p] + 1
      <3>1. frames[p] + 1 \in Nat /\ kind \in Kind
        BY <1>3, ServerFacts
      <3>2. QED BY <3>1, <2>2, BodyFacts
    <2>5. \A q \in Peers : q # p =>
            frames'[q] = frames[q] /\ run'[q] = run[q] /\ longest'[q] = longest[q]
      BY <2>3, <1>3
    <2>6. Wrote(p, x)
      BY <2>3, <2>4, <2>5, WriteFacts
    <2>7. Began(p, x)
      BY <2>3, <2>4, <1>3 DEF Began
    <2>8. QED BY <2>6, <2>7 DEF PeerStep
  <1>7. CASE \E kind \in Sends[p] : ExtendFrame(p, kind)
    <2>1. PICK kind \in Sends[p] : ExtendFrame(p, kind)
      BY <1>7
    <2>2. PICK x : x = Body(frames[p], kind)
      OBVIOUS
    <2>3. /\ run[p] > 0 /\ Write(p, x) /\ UNCHANGED frames
          /\ run' = [run EXCEPT ![p] = @ + 1]
          /\ longest' = [longest EXCEPT ![p] = Max({@, run[p] + 1})]
      BY <2>1, <2>2 DEF ExtendFrame
    <2>4. x \in Token /\ x # Newline /\ x.n = frames[p]
      <3>1. frames[p] \in Nat /\ kind \in Kind
        BY <1>3, ServerFacts
      <3>2. QED BY <3>1, <2>2, BodyFacts
    <2>5. \A q \in Peers : q # p =>
            frames'[q] = frames[q] /\ run'[q] = run[q] /\ longest'[q] = longest[q]
      BY <2>3, <1>3
    <2>6. Wrote(p, x)
      BY <2>3, <2>4, <2>5, WriteFacts
    <2>7. Extended(p, x)
      BY <2>3, <2>4, <1>3 DEF Extended
    <2>8. QED BY <2>6, <2>7 DEF PeerStep
  <1>8. CASE HalfClose(p)
    <2>1. /\ peer[p] = "up" /\ peer' = [peer EXCEPT ![p] = "half"]
          /\ conn[p] \in {"pending", "open"}
          /\ UNCHANGED <<stream, received, frames, run, longest, written, wire>>
          /\ UNCHANGED <<conn, client, cursor, armed, poll, incoming, pc, events>>
      BY <1>8 DEF HalfClose, serverVars
    <2>2. PeerLeaves(p)
      BY <2>1, <1>2 DEF PeerLeaves
    <2>3. Turned(p)
      BY <2>1, <2>2, <1>2 DEF Turned
    <2>4. QED BY <2>3 DEF PeerStep
  <1>9. CASE HangUp(p)
    <2>1. /\ peer' = [peer EXCEPT ![p] = "gone"] /\ wire' = [wire EXCEPT ![p] = <<>>]
          /\ conn[p] \in {"pending", "open"}
          /\ UNCHANGED <<stream, received, frames, run, longest, written>>
          /\ UNCHANGED <<conn, client, cursor, armed, poll, incoming, pc, events>>
      BY <1>9 DEF HangUp, serverVars
    <2>2. PeerLeaves(p)
      BY <2>1, <1>2 DEF PeerLeaves
    <2>3. Turned(p)
      BY <2>1, <2>2, <1>2 DEF Turned
    <2>4. QED BY <2>3 DEF PeerStep
  <1>10. CASE Receive(p)
    <2>1. /\ wire[p] # <<>> /\ wire' = [wire EXCEPT ![p] = Tail(@)]
          /\ received' = [received EXCEPT ![p] = Append(@, Head(wire[p]))]
          /\ UNCHANGED <<peer, stream, frames, run, longest, written>>
          /\ UNCHANGED <<conn, client, cursor, armed, poll, incoming, pc, events>>
      BY <1>10 DEF Receive, serverVars
    <2>2. PeerLeaves(p)
      BY <2>1, <1>2 DEF PeerLeaves
    <2>3. Turned(p)
      BY <2>1, <2>2, <1>2 DEF Turned
    <2>4. QED BY <2>3 DEF PeerStep
  <1>11. QED BY <1>1, <1>4, <1>5, <1>6, <1>7, <1>8, <1>9, <1>10

ServerStep ==
  \/ \E open : StartedPoll(open)
  \/ \E p, f, why, n : LostTurn(p, f, why, n)
  \/ \E p, f, r, d : PolledClient(p, f, r, d)
  \/ \E p, m, r, d : RejectedLine(p, m, r, d)
  \/ \E p, m, c, d : DeliveredLine(p, m, c, d)
  \/ \E why : EndedPoll(why)
  \/ \E m : Unanswered(m)
  \/ \E p, m, s, k, d : Responded(p, m, s, k, d)
  \/ Broadcasted

\* What a step of the server does.
LEMMA ServerStepFacts ==
  ASSUME BaseInv, ServerNext
  PROVE  ServerStep
  <1>1. TypeInv
    BY DEF BaseInv
  <1>3. CASE Wake \/ Tick
    <2>1. StartPoll
      BY <1>3 DEF Wake, Tick
    <2>2. QED BY <2>1, <1>1, StartPollFacts DEF ServerStep
  <1>4. CASE PollUnflushable
    BY <1>4, UnflushableFacts DEF ServerStep
  <1>5. CASE PollClient \/ PollReadFails
    BY <1>5, PollClientFacts, ReadFailsFacts DEF ServerStep
  <1>6. CASE RejectFrame
    BY <1>6, RejectFrameFacts DEF ServerStep
  <1>7. CASE DeliverFrame
    BY <1>7, DeliverFrameFacts DEF ServerStep
  <1>8. CASE EndPoll
    BY <1>8, EndPollFacts DEF ServerStep
  <1>9. CASE Respond
    BY <1>9, RespondStepFacts DEF ServerStep
  <1>10. CASE Broadcast
    BY <1>10, BroadcastFacts DEF ServerStep
  <1>11. QED
    BY <1>3, <1>4, <1>5, <1>6, <1>7, <1>8, <1>9, <1>10
    DEF ServerNext, PollStep

\* What any step does.
LEMMA StepFacts ==
  ASSUME BaseInv, [Next]_vars
  PROVE  UNCHANGED vars \/ (\E p : PeerStep(p)) \/ ServerStep
  <1>1. TypeInv /\ \A q \in Peers : ClientOK(q)
    BY DEF BaseInv
  <1>2. CASE PeerNext
    BY <1>1, <1>2, PeerFacts
  <1>3. CASE ServerNext
    BY <1>3, ServerStepFacts
  <1>4. QED BY <1>2, <1>3 DEF Next

\* The variables of a stuttering step.
LEMMA VarsUnchanged ==
  ASSUME UNCHANGED vars
  PROVE  UNCHANGED <<peer, stream, received, frames, run, longest, written, wire, conn,
                     client, cursor, armed, poll, incoming, pc, events>>
  BY DEF vars, peerVars, serverVars

\* The base invariant is inductive.
LEMMA BaseStep ==
  ASSUME BaseInv, [Next]_vars
  PROVE  BaseInv'
  <1>1. CASE UNCHANGED vars
    <2>1. UNCHANGED <<peer, stream, received, frames, run, longest, written, wire, conn,
                      client, cursor, armed, poll, incoming, pc, events>>
      BY <1>1, VarsUnchanged
    <2>2. TypeInv'
      BY <2>1 DEF BaseInv, TypeInv
    <2>3. Shape'
      BY <2>1 DEF BaseInv, Shape
    <2>4. \A p \in Peers : ClientOK(p)'
      BY <2>1 DEF BaseInv, ClientOK, Eof
    <2>5. QED BY <2>2, <2>3, <2>4 DEF BaseInv
  <1>2. CASE PeerNext
    BY <1>2, BasePeer
  <1>3. CASE ServerStep
    BY <1>3, BaseStartedPoll, BaseLostTurn, BasePolledClient, BaseRejectedLine,
       BaseDeliveredLine, BaseEndedPoll, BaseUnanswered, BaseResponded, BaseBroadcasted
    DEF ServerStep
  <1>4. CASE ServerNext
    BY <1>3, <1>4, ServerStepFacts
  <1>5. QED BY <1>1, <1>2, <1>4 DEF Next

-----------------------------------------------------------------------------
(* Whose turn it is *)

\* The cursor names the client at which the poll would be cut off: the next to
\* be served, and between polls the one that was left out.
Turn ==
  /\ pc = "poll" /\ poll.at = 1 /\ poll.lines = <<>> => poll.messages = 0 /\ poll.bytes = 0
  /\ pc = "poll" /\ poll.at \in 2..Len(poll.ring) /\ poll.lines = <<>> =>
       cursor = poll.ring[poll.at]
  /\ poll.lines # <<>> => cursor = NextInRing
  /\ poll.skipped # 0 => cursor = poll.skipped

\* The next client of the poll, while there is one.
LEMMA NextInRingFacts ==
  ASSUME TypeInv, NEW p, Current(p), poll.at + 1 \in 2..Len(poll.ring)
  PROVE  NextInRing = poll.ring[poll.at + 1]
  <1>1. PICK a, n : a = poll.at /\ n = Len(poll.ring)
    OBVIOUS
  <1>2. poll.ring \in Seq(Peers)
    BY DEF TypeInv, PollType
  <1>3. a \in 1..n /\ n \in Nat /\ a < n
    BY <1>1, <1>2 DEF Current
  <1>4. a % n = a
    BY <1>3
  <1>5. QED BY <1>1, <1>4 DEF NextInRing

\* The current client was served, or one of its lines parsed.
LEMMA TurnAdvances ==
  ASSUME TypeInv, Shape, NEW p, Current(p), cursor' = NextInRing,
         poll'.ring = poll.ring, poll'.skipped = poll.skipped,
         poll'.at = IF poll'.lines = <<>> THEN poll.at + 1 ELSE poll.at
  PROVE  Turn'
  <1>1. poll.at \in 1..Len(poll.ring) /\ pc = "poll"
    BY DEF Current
  <1>2. poll.ring \in Seq(Peers) /\ Len(poll.ring) \in Nat
    BY DEF TypeInv, PollType
  <1>3. poll.skipped = 0
    BY <1>1 DEF Shape
  <1>4. CASE poll'.lines = <<>>
    <2>1. poll'.at = poll.at + 1 /\ poll'.at # 1
      BY <1>1, <1>2, <1>4
    <2>2. ASSUME poll'.at \in 2..Len(poll'.ring) PROVE cursor' = poll'.ring[poll'.at]
      <3>1. poll.at + 1 \in 2..Len(poll.ring)
        BY <2>1, <2>2
      <3>2. QED BY <3>1, <2>1, NextInRingFacts
    <2>3. QED BY <1>3, <1>4, <2>1, <2>2 DEF Turn
  <1>5. CASE poll'.lines # <<>>
    <2>1. NextInRing' = NextInRing
      BY <1>5 DEF NextInRing
    <2>2. QED BY <1>3, <1>5, <2>1 DEF Turn
  <1>6. QED BY <1>4, <1>5

\* The end of a poll leaves the cursor at the client first skipped.
LEMMA TurnEndedPoll ==
  ASSUME BaseInv, Turn, NEW why, EndedPoll(why)
  PROVE  Turn'
  <1>1. /\ pc = "poll" /\ poll.lines = <<>> /\ (poll.at > Len(poll.ring) \/ ~BudgetLeft)
        /\ poll' = [NoPoll EXCEPT !.skipped =
                      IF poll.at <= Len(poll.ring) THEN poll.ring[poll.at] ELSE 0]
        /\ pc' = IF incoming = <<>> THEN "idle" ELSE "respond"
        /\ cursor' = cursor
    BY DEF EndedPoll
  <1>2. PICK s : s = IF poll.at <= Len(poll.ring) THEN poll.ring[poll.at] ELSE 0
    OBVIOUS
  <1>3. poll'.skipped = s /\ poll'.lines = <<>> /\ pc' # "poll"
    <2>1. poll' = [NoPoll EXCEPT !.skipped = s]
      BY <1>1, <1>2
    <2>2. QED BY <2>1, <1>1 DEF NoPoll
  <1>4. poll \in PollType
    BY DEF BaseInv, TypeInv
  <1>5. poll.at \in Nat \ {0} /\ poll.ring \in Seq(Peers) /\ Len(poll.ring) \in Nat
    BY <1>4 DEF PollType
  <1>6. ASSUME s # 0 PROVE cursor = s
    <2>1. poll.at <= Len(poll.ring) /\ s = poll.ring[poll.at] /\ ~BudgetLeft
      <3>1. poll.at <= Len(poll.ring)
        BY <1>2, <1>6
      <3>2. ~(poll.at > Len(poll.ring))
        BY <3>1, <1>5
      <3>3. QED BY <3>1, <3>2, <1>1, <1>2
    <2>2. poll.at # 1
      <3>1. poll.messages = 0 /\ poll.bytes = 0 => BudgetLeft
        BY ServerFacts DEF BudgetLeft
      <3>2. QED BY <3>1, <2>1, <1>1 DEF Turn
    <2>3. poll.at \in 2..Len(poll.ring)
      BY <2>1, <2>2, <1>5
    <2>4. QED BY <2>1, <2>3, <1>1 DEF Turn
  <1>7. QED BY <1>1, <1>3, <1>6 DEF Turn

\* The invariant on turns is inductive.
LEMMA TurnStep ==
  ASSUME BaseInv, BaseInv', Turn, [Next]_vars
  PROVE  Turn'
  <1>1. TypeInv /\ Shape
    BY DEF BaseInv
  <1>2. ASSUME UNCHANGED <<cursor, poll>>, pc' # "poll" \/ pc' = pc PROVE Turn'
    BY <1>2 DEF Turn, NextInRing
  <1>3. CASE UNCHANGED vars
    <2>1. UNCHANGED <<cursor, poll, pc>>
      BY <1>3, VarsUnchanged
    <2>2. QED BY <2>1, <1>2
  <1>4. CASE \E p : PeerStep(p)
    <2>1. PICK p : PeerStep(p)
      BY <1>4
    <2>2. UNCHANGED <<cursor, poll, pc>>
      BY <2>1 DEF PeerStep, Connected, Wrote, Turned, PeerLeaves
    <2>3. QED BY <2>2, <1>2
  <1>5. ASSUME NEW open, StartedPoll(open) PROVE Turn'
    <2>1. poll' = [NoPoll EXCEPT !.ring = Ring(open)]
      BY <1>5 DEF StartedPoll
    <2>2. PICK r : r = Ring(open)
      OBVIOUS
    <2>3. poll' = [NoPoll EXCEPT !.ring = r]
      BY <2>1, <2>2
    <2>4. poll'.at = 1 /\ poll'.lines = <<>> /\ poll'.messages = 0 /\ poll'.bytes = 0
          /\ poll'.skipped = 0
      BY <2>3 DEF NoPoll
    <2>5. QED BY <2>4 DEF Turn
  <1>6. ASSUME NEW p, NEW f, NEW why, NEW n, LostTurn(p, f, why, n) PROVE Turn'
    <2>1. /\ Current(p) /\ poll.lines = <<>> /\ cursor' = NextInRing
          /\ poll' = [poll EXCEPT !.at = @ + 1, !.bytes = @ + n,
                                  !.dead = @ \cup {[peer |-> p, why |-> why]}]
      BY <1>6 DEF LostTurn
    <2>2. PICK x : x = {[peer |-> p, why |-> why]}
      OBVIOUS
    <2>3. /\ poll' = [poll EXCEPT !.at = @ + 1, !.bytes = @ + n, !.dead = @ \cup x]
          /\ poll \in PollType
      BY <2>1, <2>2, <1>1 DEF TypeInv
    <2>4. /\ poll'.ring = poll.ring /\ poll'.skipped = poll.skipped
          /\ poll'.at = poll.at + 1 /\ poll'.lines = poll.lines
      BY <2>3 DEF PollType
    <2>5. QED BY <2>1, <2>4, <1>1, TurnAdvances
  <1>7. ASSUME NEW p, NEW f, NEW r, NEW d, PolledClient(p, f, r, d) PROVE Turn'
    <2>1. /\ Current(p) /\ poll.lines = <<>> /\ cursor' = NextInRing
          /\ poll' = [poll EXCEPT !.lines = r.frames,
                                  !.at = IF r.frames = <<>> THEN poll.at + 1 ELSE poll.at,
                                  !.messages = @ + Len(r.frames),
                                  !.bytes = @ + r.bytes,
                                  !.dead = @ \cup Casualty(p, Fatal(r))]
      BY <1>7 DEF PolledClient
    <2>2. PICK x, fs, at, n, b : /\ fs = r.frames /\ n = Len(r.frames) /\ b = r.bytes
                                 /\ at = IF r.frames = <<>> THEN poll.at + 1 ELSE poll.at
                                 /\ x = Casualty(p, Fatal(r))
      OBVIOUS
    <2>3. /\ poll' = [poll EXCEPT !.lines = fs, !.at = at, !.messages = @ + n,
                                  !.bytes = @ + b, !.dead = @ \cup x]
          /\ poll \in PollType
      BY <2>1, <2>2, <1>1 DEF TypeInv
    <2>4. /\ poll'.ring = poll.ring /\ poll'.skipped = poll.skipped
          /\ poll'.at = at /\ poll'.lines = fs
      BY <2>3 DEF PollType
    <2>5. poll'.at = IF poll'.lines = <<>> THEN poll.at + 1 ELSE poll.at
      BY <2>2, <2>4
    <2>6. QED BY <2>1, <2>4, <2>5, <1>1, TurnAdvances
  <1>8. ASSUME NEW p, NEW m, Parsing(p, m), poll' = WithLines(Tail(poll.lines)),
               cursor' = cursor
        PROVE  Turn'
    <2>1. NextLine
      BY <1>1, <1>8, NextLineFacts
    <2>2. Current(p) /\ cursor' = NextInRing
      BY <1>8 DEF Parsing, Turn
    <2>3. QED BY <2>1, <2>2, <1>1, TurnAdvances DEF NextLine
  <1>9. ASSUME NEW p, NEW m, NEW r, NEW d, RejectedLine(p, m, r, d) PROVE Turn'
    BY <1>8, <1>9 DEF RejectedLine
  <1>10. ASSUME NEW p, NEW m, NEW c, NEW d, DeliveredLine(p, m, c, d) PROVE Turn'
    BY <1>8, <1>10 DEF DeliveredLine
  <1>11. ASSUME NEW why, EndedPoll(why) PROVE Turn'
    BY <1>11, TurnEndedPoll
  <1>12. ASSUME NEW m, Answering(m) PROVE Turn'
    <2>1. UNCHANGED <<cursor, poll>> /\ pc' # "poll"
      BY <1>12 DEF Answering
    <2>2. QED BY <2>1, <1>2
  <1>13. CASE Broadcasted
    <2>1. UNCHANGED <<cursor, poll, pc>>
      BY <1>13 DEF Broadcasted
    <2>2. QED BY <2>1, <1>2
  <1>14. CASE ServerStep
    BY <1>5, <1>6, <1>7, <1>9, <1>10, <1>11, <1>12, <1>13, <1>14
    DEF ServerStep, Unanswered, Responded
  <1>15. QED BY <1>3, <1>4, <1>14, StepFacts

\* The next poll starts with the client the last one skipped first.
LEMMA SkippedFirst ==
  ASSUME BaseInv, Turn, [Next]_vars, pc = "idle", pc' = "poll", poll.skipped \in Open
  PROVE  poll'.ring[1] = poll.skipped
  <1>1. \E open : StartedPoll(open)
    <2>1. CASE UNCHANGED vars
      BY <2>1, VarsUnchanged
    <2>2. CASE \E p : PeerStep(p)
      BY <2>2 DEF PeerStep, Connected, Wrote, Turned, PeerLeaves
    <2>3. CASE ServerStep
      <3>1. CASE \E why : EndedPoll(why)
        BY <3>1 DEF EndedPoll
      <3>2. CASE Broadcasted
        BY <3>2 DEF Broadcasted
      <3>3. CASE \E p, f, why, n : LostTurn(p, f, why, n)
        BY <3>3 DEF LostTurn, Current
      <3>4. CASE \E p, f, r, d : PolledClient(p, f, r, d)
        BY <3>4 DEF PolledClient, Current
      <3>5. CASE \E p, m, r, d : RejectedLine(p, m, r, d)
        BY <3>5 DEF RejectedLine, Parsing, Current
      <3>6. CASE \E p, m, c, d : DeliveredLine(p, m, c, d)
        BY <3>6 DEF DeliveredLine, Parsing, Current
      <3>7. CASE \E m : Unanswered(m)
        BY <3>7 DEF Unanswered, Answering
      <3>8. CASE \E p, m, s, k, d : Responded(p, m, s, k, d)
        BY <3>8 DEF Responded, Answering
      <3>9. QED BY <2>3, <3>1, <3>2, <3>3, <3>4, <3>5, <3>6, <3>7, <3>8 DEF ServerStep
    <2>4. QED BY <2>1, <2>2, <2>3, StepFacts
  <1>2. PICK open : StartedPoll(open)
    BY <1>1
  <1>3. /\ open = {p \in Peers : conn'[p] = "open"}
        /\ \A p \in Peers : \/ conn'[p] = conn[p]
                            \/ conn[p] = "pending" /\ conn'[p] \in {"open", "refused"}
        /\ poll' = [NoPoll EXCEPT !.ring = Ring(open)]
    BY <1>2 DEF StartedPoll
  <1>4. poll.skipped \in Peers /\ conn[poll.skipped] = "open"
    BY DEF Open
  <1>5. poll.skipped \in open
    BY <1>3, <1>4
  <1>6. cursor = poll.skipped
    <2>1. poll.skipped # 0
      BY <1>4, ServerFacts DEF Peers
    <2>2. QED BY <2>1 DEF Turn
  <1>7. Ring(open)[1] = cursor
    <2>1. open \in SUBSET Peers /\ cursor \in Peers /\ cursor \in open
      BY <1>3, <1>4, <1>5, <1>6
    <2>2. QED BY <2>1, RingFacts
  <1>8. poll'.ring = Ring(open)
    BY <1>3 DEF NoPoll
  <1>9. QED BY <1>6, <1>7, <1>8

\* The client at which a poll runs out of budget is the first the next one
\* serves: next_poll_client and the rotation of poll_clients, whatever is
\* accepted or removed in between.
THEOREM SkippedClientGoesFirst == Spec => SkippedGoesFirst
  <1>1. Init => BaseInv /\ Turn
    <2>1. Init => Turn
      BY DEF Init, Turn, NoPoll
    <2>2. QED BY <2>1, BaseInit
  <1>2. BaseInv /\ Turn /\ [Next]_vars => BaseInv' /\ Turn'
    BY BaseStep, TurnStep
  <1>3. BaseInv /\ Turn /\ [Next]_vars =>
          [pc = "idle" /\ pc' = "poll" /\ poll.skipped \in Open
             => poll'.ring[1] = poll.skipped]_vars
    BY SkippedFirst
  <1>4. QED BY <1>1, <1>2, <1>3, PTL DEF Spec, SkippedGoesFirst

-----------------------------------------------------------------------------
(* What the readiness hub listens for *)

Dead(p) == \E d \in poll.dead : d.peer = p

\* Between its turns a client's interest is the one its buffers call for, and
\* no poll ends without leaving word of a frame in userspace.
Interest ==
  /\ \A p \in Peers : Synced(client[p]) \/ Dead(p) \/ Reading(p)
  /\ NeverSleepsOnFrames

\* A frame in userspace, as NeverSleepsOnFrames puts it.
Holds(c) ==
  \/ \E i \in 2..Len(c.buf) : c.buf[i] = Newline /\ c.buf[i - 1] # Newline
  \/ c.read_closed /\ c.buf # <<>>

\* A client that holds a complete frame is found by has_buffered_frame.
LEMMA HoldsFacts ==
  ASSUME NEW c \in ClientType, Scanned(c), Holds(c)
  PROVE  has_buffered_frame(c)
  <1>1. Newlines(c) = {i \in 1..Len(c.buf) : c.buf[i] = Newline}
    BY EndsFacts
  <1>2. CASE c.read_closed /\ c.buf # <<>>
    BY <1>2 DEF has_buffered_frame
  <1>3. CASE \E i \in 2..Len(c.buf) : c.buf[i] = Newline /\ c.buf[i - 1] # Newline
    <2>1. PICK i \in 2..Len(c.buf) : c.buf[i] = Newline
      BY <1>3
    <2>2. i \in 1..Len(c.buf)
      BY DEF ClientType
    <2>3. i \in Newlines(c)
      BY <2>1, <2>2, <1>1
    <2>4. QED BY <2>3 DEF has_buffered_frame
  <1>4. QED BY <1>2, <1>3 DEF Holds

\* The property in terms of the frames a client holds.
LEMMA SleepsFacts ==
  NeverSleepsOnFrames <=>
    (pc # "poll" => \A p \in Peers : conn[p] = "open" /\ Holds(client[p]) => armed)
  BY DEF NeverSleepsOnFrames, Holds, Open

\* Steps between polls: a client keeps its input or is removed.
LEMMA SleepKept ==
  ASSUME NeverSleepsOnFrames, pc # "poll", armed' = armed,
         \A p \in Peers : conn'[p] = "open" =>
           /\ conn[p] = "open" /\ client'[p].buf = client[p].buf
           /\ client'[p].read_closed = client[p].read_closed
  PROVE  NeverSleepsOnFrames'
  BY DEF NeverSleepsOnFrames, Open

\* The invariant on epoll interest is inductive.
LEMMA InterestStep ==
  ASSUME BaseInv, BaseInv', Interest, [Next]_vars
  PROVE  Interest'
  <1>1. TypeInv /\ Shape /\ \A q \in Peers : ClientOK(q)
    BY DEF BaseInv
  <1>2. ASSUME UNCHANGED <<client, poll>> PROVE \A p \in Peers : (Synced(client[p]) \/ Dead(p) \/ Reading(p))'
    BY <1>2 DEF Interest, Dead, Reading
  <1>3. CASE UNCHANGED vars
    <2>1. UNCHANGED <<client, poll, pc, conn, armed>>
      BY <1>3, VarsUnchanged
    <2>2. NeverSleepsOnFrames'
      BY <2>1 DEF Interest, NeverSleepsOnFrames, Open
    <2>3. QED BY <2>1, <2>2, <1>2 DEF Interest
  <1>4. CASE \E p : PeerStep(p)
    <2>1. PICK p : PeerStep(p)
      BY <1>4
    <2>2. PeerLeaves(p)
      BY <2>1 DEF PeerStep, Connected, Wrote, Turned
    <2>3. UNCHANGED <<client, poll, pc, armed>>
      BY <2>2 DEF PeerLeaves
    <2>4. \A q \in Peers : conn'[q] = "open" => conn[q] = "open"
      BY <2>2 DEF PeerLeaves
    <2>5. NeverSleepsOnFrames'
      BY <2>3, <2>4 DEF Interest, NeverSleepsOnFrames, Open
    <2>6. QED BY <2>3, <2>5, <1>2 DEF Interest
  <1>5. ASSUME NEW open, StartedPoll(open) PROVE Interest'
    <2>1. /\ pc = "idle" /\ client' = client /\ open = {p \in Peers : conn'[p] = "open"}
          /\ pc' = IF open = {} THEN "idle" ELSE "poll"
      BY <1>5 DEF StartedPoll
    <2>2. poll.lines = <<>> /\ poll.dead = {}
      BY <2>1, <1>1 DEF Shape
    <2>3. \A p \in Peers : Synced(client'[p])
      BY <2>1, <2>2 DEF Interest, Dead, Reading
    <2>4. NeverSleepsOnFrames'
      BY <2>1 DEF NeverSleepsOnFrames, Open
    <2>5. QED BY <2>3, <2>4 DEF Interest
  <1>6. ASSUME NEW p \in Peers, pc' = "poll",
               \A q \in Peers : q # p => client'[q] = client[q],
               \A d \in poll.dead : d \in poll'.dead,
               poll.lines = <<>> \/ poll.ring[poll.at] = p,
               (Synced(client[p]) \/ Dead(p) \/ Reading(p))'
        PROVE  Interest'
    <2>1. ASSUME NEW q \in Peers PROVE (Synced(client[q]) \/ Dead(q) \/ Reading(q))'
      <3>1. CASE q = p
        BY <3>1, <1>6
      <3>2. CASE q # p
        <4>1. ~Reading(q) /\ (Dead(q) => Dead(q)')
          BY <3>2, <1>6 DEF Reading, Dead
        <4>2. QED BY <4>1, <3>2, <1>6 DEF Interest
      <3>3. QED BY <3>1, <3>2
    <2>2. NeverSleepsOnFrames'
      BY <1>6 DEF NeverSleepsOnFrames
    <2>3. QED BY <2>1, <2>2 DEF Interest
  <1>7. ASSUME NEW p, NEW f, NEW why, NEW n, LostTurn(p, f, why, n) PROVE Interest'
    <2>1. /\ Current(p) /\ poll.lines = <<>> /\ client' = [client EXCEPT ![p] = f.client]
          /\ poll' = [poll EXCEPT !.at = @ + 1, !.bytes = @ + n,
                                  !.dead = @ \cup {[peer |-> p, why |-> why]}]
          /\ pc' = pc
      BY <1>7 DEF LostTurn
    <2>2. PICK x : x = [peer |-> p, why |-> why]
      OBVIOUS
    <2>3. /\ poll' = [poll EXCEPT !.at = @ + 1, !.bytes = @ + n, !.dead = @ \cup {x}]
          /\ poll \in PollType
      BY <2>1, <2>2, <1>1 DEF TypeInv
    <2>4. poll'.dead = poll.dead \cup {x}
      BY <2>3 DEF PollType
    <2>5. x.peer = p
      BY <2>2
    <2>6. Dead(p)'
      BY <2>4, <2>5 DEF Dead
    <2>7. p \in Peers /\ pc' = "poll" /\ \A q \in Peers : q # p => client'[q] = client[q]
      BY <2>1, <1>1 DEF Current, TypeInv
    <2>8. QED BY <2>1, <2>4, <2>6, <2>7, <1>6
  <1>8. ASSUME NEW p, NEW c, NEW lines, NEW d, Served(p, c, lines, d), Current(p),
               pc' = pc, poll'.lines = lines, poll'.ring = poll.ring,
               lines # <<>> => poll'.at = poll.at, \A x \in poll.dead : x \in poll'.dead
        PROVE  Interest'
    <2>1. p \in Peers /\ pc' = "poll" /\ p = poll.ring[poll.at]
      BY <1>8 DEF Current
    <2>2. client' = [client EXCEPT ![p] = d] /\ (lines = <<>> => Synced(d))
      BY <1>8 DEF Served
    <2>3. client'[p] = d /\ \A q \in Peers : q # p => client'[q] = client[q]
      BY <2>1, <2>2, <1>1 DEF TypeInv
    <2>4. lines # <<>> => Reading(p)'
      BY <2>1, <1>8 DEF Reading
    <2>5. (Synced(client[p]) \/ Dead(p) \/ Reading(p))'
      BY <2>2, <2>3, <2>4
    <2>6. QED BY <2>1, <2>3, <2>5, <1>6, <1>8
  <1>9. ASSUME NEW p, NEW f, NEW r, NEW d, PolledClient(p, f, r, d) PROVE Interest'
    <2>1. /\ Current(p) /\ poll.lines = <<>> /\ Served(p, r.client, r.frames, d)
          /\ poll' = [poll EXCEPT !.lines = r.frames,
                                  !.at = IF r.frames = <<>> THEN poll.at + 1 ELSE poll.at,
                                  !.messages = @ + Len(r.frames),
                                  !.bytes = @ + r.bytes,
                                  !.dead = @ \cup Casualty(p, Fatal(r))]
          /\ pc' = pc
      BY <1>9 DEF PolledClient
    <2>2. PICK x, fs, at, n, b : /\ fs = r.frames /\ n = Len(r.frames) /\ b = r.bytes
                                 /\ at = IF r.frames = <<>> THEN poll.at + 1 ELSE poll.at
                                 /\ x = Casualty(p, Fatal(r))
      OBVIOUS
    <2>3. /\ poll' = [poll EXCEPT !.lines = fs, !.at = at, !.messages = @ + n,
                                  !.bytes = @ + b, !.dead = @ \cup x]
          /\ poll \in PollType
      BY <2>1, <2>2, <1>1 DEF TypeInv
    <2>4. /\ poll'.ring = poll.ring /\ poll'.at = at /\ poll'.lines = fs
          /\ poll'.dead = poll.dead \cup x
      BY <2>3 DEF PollType
    <2>5. QED BY <2>1, <2>2, <2>4, <1>8
  <1>10. ASSUME NEW p, NEW m, NEW c, NEW d, Parsing(p, m),
                poll' = WithLines(Tail(poll.lines)), pc' = pc,
                Served(p, c, Tail(poll.lines), d)
         PROVE  Interest'
    <2>1. NextLine /\ Current(p)
      BY <1>1, <1>10, NextLineFacts DEF Parsing
    <2>2. QED BY <2>1, <1>8, <1>10 DEF NextLine
  <1>11. ASSUME NEW p, NEW m, NEW r, NEW d, RejectedLine(p, m, r, d) PROVE Interest'
    BY <1>10, <1>11 DEF RejectedLine
  <1>12. ASSUME NEW p, NEW m, NEW c, NEW d, DeliveredLine(p, m, c, d) PROVE Interest'
    BY <1>10, <1>12 DEF DeliveredLine
  <1>13. ASSUME NEW why, EndedPoll(why) PROVE Interest'
    <2>1. /\ DOMAIN why = {d.peer : d \in poll.dead} /\ DOMAIN why \subseteq Peers
          /\ poll.lines = <<>>
          /\ \A p \in DOMAIN why : \E d \in poll.dead : d.peer = p /\ why[p] = d.why
          /\ conn' = [p \in Peers |-> IF p \in DOMAIN why THEN why[p] ELSE conn[p]]
          /\ client' = [p \in Peers |-> IF p \in DOMAIN why THEN NewClient ELSE client[p]]
          /\ armed' = arm_continuation({client[p] : p \in Open \ DOMAIN why})
      BY <1>13 DEF EndedPoll
    <2>2. ASSUME NEW q \in Peers PROVE Synced(client'[q])
      <3>1. CASE q \in DOMAIN why
        BY <3>1, <2>1, NewClientFacts
      <3>2. CASE q \notin DOMAIN why
        <4>1. ~Dead(q) /\ ~Reading(q) /\ client'[q] = client[q]
          BY <3>2, <2>1 DEF Dead, Reading
        <4>2. QED BY <4>1 DEF Interest
      <3>3. QED BY <3>1, <3>2
    <2>3. ASSUME NEW q \in Peers, conn'[q] = "open", Holds(client'[q]) PROVE armed'
      <3>1. CASE q \in DOMAIN why
        <4>1. client'[q].buf = <<>>
          BY <3>1, <2>1, NewClientFacts
        <4>2. ~Holds(client'[q])
          <5>1. PICK c : c = client'[q]
            OBVIOUS
          <5>2. c.buf = <<>>
            BY <4>1, <5>1
          <5>3. ~Holds(c)
            BY <5>2 DEF Holds
          <5>4. QED BY <5>1, <5>3
        <4>3. QED BY <4>2, <2>3
      <3>2. CASE q \notin DOMAIN why
        <4>1. client'[q] = client[q] /\ conn[q] = "open"
          BY <3>2, <2>1, <2>3
        <4>2. q \in Open \ DOMAIN why
          BY <3>2, <4>1 DEF Open
        <4>3. client[q] \in ClientType /\ Scanned(client[q]) /\ Holds(client[q])
          BY <4>1, <2>3, <1>1 DEF TypeInv, ClientOK
        <4>4. has_buffered_frame(client[q])
          BY <4>3, HoldsFacts
        <4>5. QED BY <2>1, <4>2, <4>4 DEF arm_continuation
      <3>3. QED BY <3>1, <3>2
    <2>4. NeverSleepsOnFrames'
      <3>1. (\A p \in Peers : conn'[p] = "open" /\ Holds(client'[p]) => armed')
        BY <2>3
      <3>2. QED BY <3>1 DEF NeverSleepsOnFrames, Holds, Open
    <2>5. QED BY <2>2, <2>4 DEF Interest
  <1>14. ASSUME NEW m, Unanswered(m) PROVE Interest'
    <2>1. UNCHANGED <<client, poll, conn, armed>> /\ pc = "respond"
      BY <1>14 DEF Unanswered, Answering
    <2>2. NeverSleepsOnFrames'
      BY <2>1, SleepKept DEF Interest
    <2>3. QED BY <2>1, <2>2, <1>2 DEF Interest
  <1>15. ASSUME pc # "poll", armed' = armed, poll' = poll,
                \A q \in Peers :
                  \/ client'[q] = client[q] /\ conn'[q] = conn[q]
                  \/ /\ Synced(client'[q])
                     /\ conn'[q] = "open" =>
                          SameInput(client[q], client'[q]) /\ conn[q] = "open"
         PROVE  Interest'
    <2>1. poll.lines = <<>> /\ poll.dead = {}
      BY <1>1, <1>15 DEF Shape
    <2>2. \A q \in Peers : Synced(client[q])
      BY <2>1 DEF Interest, Dead, Reading
    <2>3. \A q \in Peers : Synced(client'[q])
      BY <2>2, <1>15
    <2>4. NeverSleepsOnFrames'
      BY <1>15, SleepKept DEF Interest, SameInput
    <2>5. QED BY <2>3, <2>4 DEF Interest
  <1>16. ASSUME NEW p, NEW m, NEW s, NEW k, NEW d, Responded(p, m, s, k, d) PROVE Interest'
    <2>1. /\ Answering(m) /\ p \in Peers /\ conn[p] = "open"
          /\ Replied(client[p], m.frame.n, wire[p], s, k)
          /\ client' = [client EXCEPT ![p] = d]
          /\ s.error = "none" =>
               /\ SameInput(s.client, d) /\ Synced(d) /\ conn' = conn
          /\ s.error # "none" =>
               /\ d = NewClient /\ conn' = [conn EXCEPT ![p] = s.error]
      BY <1>16 DEF Responded
    <2>2. pc # "poll" /\ armed' = armed /\ poll' = poll
      BY <2>1 DEF Answering
    <2>3. SameInput(client[p], s.client) /\ s.error \in {"none", "failed", "backlogged"}
      BY <2>1 DEF Replied
    <2>4. client'[p] = d /\ \A q \in Peers : q # p => client'[q] = client[q]
      BY <2>1, <1>1 DEF TypeInv
    <2>5. \A q \in Peers : q # p => conn'[q] = conn[q]
      BY <2>1, <1>1 DEF TypeInv
    <2>6. Synced(d)
      BY <2>1, NewClientFacts
    <2>7. conn'[p] = "open" => SameInput(client[p], d)
      <3>1. CASE s.error = "none"
        BY <3>1, <2>1, <2>3 DEF SameInput
      <3>2. CASE s.error # "none"
        <4>1. conn'[p] = s.error
          BY <3>2, <2>1, <1>1 DEF TypeInv
        <4>2. QED BY <4>1, <3>2, <2>3
      <3>3. QED BY <3>1, <3>2
    <2>8. \A q \in Peers :
            \/ client'[q] = client[q] /\ conn'[q] = conn[q]
            \/ /\ Synced(client'[q])
               /\ conn'[q] = "open" => SameInput(client[q], client'[q]) /\ conn[q] = "open"
      BY <2>1, <2>4, <2>5, <2>6, <2>7
    <2>9. QED BY <2>2, <2>8, <1>15
  <1>17. CASE Broadcasted
    <2>1. /\ pc # "poll" /\ armed' = armed /\ poll' = poll
          /\ \A p \in Peers : Untold(p) \/ \E s : Told(p, s) \/ Lost(p, s)
      BY <1>17 DEF Broadcasted
    <2>2. ASSUME NEW q \in Peers
          PROVE  \/ client'[q] = client[q] /\ conn'[q] = conn[q]
                 \/ /\ Synced(client'[q])
                    /\ conn'[q] = "open" => SameInput(client[q], client'[q]) /\ conn[q] = "open"
      <3>1. CASE Untold(q)
        BY <3>1 DEF Untold
      <3>2. CASE \E s : Told(q, s)
        <4>1. PICK s : Told(q, s)
          BY <3>2
        <4>2. /\ conn[q] = "open" /\ SameInput(client[q], s.client)
              /\ SameInput(s.client, client'[q]) /\ Synced(client'[q])
          BY <4>1 DEF Told, Said
        <4>3. QED BY <4>2 DEF SameInput
      <3>3. CASE \E s : Lost(q, s)
        <4>1. client'[q] = NewClient /\ conn'[q] # "open"
          BY <3>3 DEF Lost
        <4>2. QED BY <4>1, NewClientFacts
      <3>4. QED BY <3>1, <3>2, <3>3, <2>1
    <2>3. QED BY <2>1, <2>2, <1>15
  <1>18. CASE ServerStep
    BY <1>5, <1>7, <1>9, <1>11, <1>12, <1>13, <1>14, <1>16, <1>17, <1>18 DEF ServerStep
  <1>19. QED BY <1>3, <1>4, <1>18, StepFacts

\* The invariant on epoll interest holds initially.
LEMMA InterestInit ==
  ASSUME Init
  PROVE  Interest
  <1>1. \A p \in Peers : client[p] = NewClient /\ conn[p] = "none"
    BY DEF Init
  <1>2. NeverSleepsOnFrames
    BY <1>1 DEF NeverSleepsOnFrames, Open
  <1>3. QED BY <1>1, <1>2, NewClientFacts DEF Interest

\* The event loop never goes to sleep on a frame that is already in its own
\* buffers: arm_continuation at the end of every poll, against every budget cut.
THEOREM NoFrameSlept == Spec => []NeverSleepsOnFrames
  <1>1. Init => BaseInv /\ Interest
    BY BaseInit, InterestInit
  <1>2. BaseInv /\ Interest /\ [Next]_vars => BaseInv' /\ Interest'
    BY BaseStep, InterestStep
  <1>3. Interest => NeverSleepsOnFrames
    BY DEF Interest
  <1>4. QED BY <1>1, <1>2, <1>3, PTL DEF Spec

\* A ready descriptor means that a poll has something to do.
LEMMA InterestIsWork ==
  ASSUME BaseInv, Interest
  PROVE  ReadyMeansWork
  <1>1. ASSUME pc = "idle", NEW p \in Open, ClientReady(p)
        PROVE  \/ Gone(p) \/ stream[p] # <<>>
               \/ client[p].out # <<>> /\ Len(wire[p]) < SocketSpace
               \/ Eof(p) /\ (client[p].out = <<>> \/ ~client[p].read_closed)
    <2>1. poll.lines = <<>> /\ poll.dead = {} /\ p \in Peers
      BY <1>1 DEF BaseInv, Shape, Open
    <2>2. Synced(client[p])
      BY <2>1 DEF Interest, Dead, Reading
    <2>3. /\ client[p].writable = (client[p].out # <<>>)
          /\ client[p].readable = ~(client[p].read_closed /\ client[p].out # <<>>)
      BY <2>2 DEF Synced
    <2>4. QED BY <2>3, <1>1 DEF ClientReady
  <1>2. SUFFICES ASSUME pc = "idle", LevelReady
                 PROVE  \E p \in Peers :
                          \/ conn[p] = "pending"
                          \/ p \in Open /\ Gone(p)
                          \/ p \in Open /\ stream[p] # <<>>
                          \/ p \in Open /\ client[p].out # <<>> /\ Len(wire[p]) < SocketSpace
                          \/ p \in Open /\ Eof(p)
                               /\ (client[p].out = <<>> \/ ~client[p].read_closed)
    BY DEF ReadyMeansWork
  <1>3. PICK p \in Peers : conn[p] = "pending" \/ (p \in Open /\ ClientReady(p))
    BY <1>2 DEF LevelReady
  <1>4. QED BY <1>1, <1>2, <1>3

\* A level-triggered loop does not spin: a ready descriptor always has work
\* behind it, the end of a draining client's stream included
\* (sync_client_interest after every service of a client).
THEOREM ReadinessIsWork == Spec => []ReadyMeansWork
  <1>1. Init => BaseInv /\ Interest
    BY BaseInit, InterestInit
  <1>2. BaseInv /\ Interest /\ [Next]_vars => BaseInv' /\ Interest'
    BY BaseStep, InterestStep
  <1>3. BaseInv /\ Interest => ReadyMeansWork
    BY InterestIsWork
  <1>4. QED BY <1>1, <1>2, <1>3, PTL DEF Spec

-----------------------------------------------------------------------------
(* Limits *)

\* A peer's writing, counted.
Budget(p) ==
  /\ run[p] <= longest[p] /\ written[p] <= MaxTokens[p]
  /\ run[p] = 0 => 2 * frames[p] <= written[p]
  /\ run[p] > 0 => frames[p] >= 1 /\ 2 * frames[p] + run[p] <= written[p] + 2

Overlong(p) == longest[p] > MaxClientBuf - MaxReadBytesPerPoll
Lengths(p) == LineLengths(client[p].buf \o stream[p], longest[p], run[p])

Limits ==
  /\ \A p \in Peers : Budget(p) /\ Lengths(p)
  /\ OnlyLongFramesOverflow
  /\ \A d \in poll.dead : d.why = "overflowed" => Overlong(d.peer)
  /\ Cardinality(Open) <= MaxClients

\* What a step of the server does to the input of p.
InputKept(p) == client'[p].buf = client[p].buf /\ stream'[p] = stream[p]
InputGone(p) == client'[p].buf = <<>> /\ stream'[p] = <<>>
InputRead(p) ==
  \E k \in 0..Len(client[p].buf \o stream[p]) :
    client'[p].buf \o stream'[p] = Suffix(client[p].buf \o stream[p], k)

\* A turn reads the input of its client only.
LEMMA PolledInput ==
  ASSUME BaseInv, NEW p, NEW f, NEW r, NEW d, PolledClient(p, f, r, d)
  PROVE  InputRead(p) /\ \A q \in Peers : q # p => InputKept(q)
  <1>1. /\ Current(p) /\ TurnFlush(p, f) /\ ReadTook(f.client, stream[p], Eof(p), r)
        /\ Served(p, r.client, r.frames, d)
        /\ stream' = [stream EXCEPT ![p] = Suffix(stream[p], r.bytes)]
    BY DEF PolledClient
  <1>2. TypeInv /\ p \in Peers
    BY <1>1 DEF BaseInv, Current
  <1>3. client' = [client EXCEPT ![p] = d] /\ d.buf = r.client.buf
    BY <1>1 DEF Served, SameInput
  <1>4. /\ client'[p] = d /\ stream'[p] = Suffix(stream[p], r.bytes)
        /\ \A q \in Peers : q # p => client'[q] = client[q] /\ stream'[q] = stream[q]
    BY <1>1, <1>2, <1>3 DEF TypeInv
  <1>5. f.client.buf = client[p].buf
    BY <1>1 DEF TurnFlush, SameInput
  <1>6. \E k \in 0..Len(f.client.buf \o stream[p]) :
          r.client.buf \o Suffix(stream[p], r.bytes) = Suffix(f.client.buf \o stream[p], k)
    BY <1>1 DEF ReadTook
  <1>7. InputRead(p)
    BY <1>3, <1>4, <1>5, <1>6 DEF InputRead
  <1>8. QED BY <1>4, <1>7 DEF InputKept

\* A step of the server keeps a client's input, reads from it, or removes the
\* client.
LEMMA InputFacts ==
  ASSUME BaseInv, ServerStep, NEW q \in Peers
  PROVE  InputKept(q) \/ InputGone(q) \/ InputRead(q)
  <1>1. TypeInv /\ Shape /\ ClientOK(q) /\ NewClient.buf = <<>>
    BY NewClientFacts DEF BaseInv
  <1>2. ASSUME NEW p, NEW d, client' = [client EXCEPT ![p] = d], p \in Peers,
               d.buf = client[p].buf, stream' = stream
        PROVE  InputKept(q)
    BY <1>1, <1>2 DEF InputKept, TypeInv
  <1>3. ASSUME NEW open, StartedPoll(open) PROVE InputKept(q) \/ InputGone(q)
    <2>1. /\ client' = client
          /\ stream' = [p \in Peers |-> IF conn'[p] = "refused" THEN <<>> ELSE stream[p]]
          /\ conn'[q] = conn[q] \/ (conn[q] = "pending" /\ conn'[q] \in {"open", "refused"})
      BY <1>3 DEF StartedPoll
    <2>2. CASE conn'[q] = "refused"
      <3>1. client'[q] = NewClient /\ stream'[q] = <<>>
        BY <2>1, <2>2, <1>1 DEF ClientOK
      <3>2. QED BY <3>1, <1>1 DEF InputGone
    <2>3. CASE conn'[q] # "refused"
      BY <2>1, <2>3 DEF InputKept
    <2>4. QED BY <2>2, <2>3
  <1>4. ASSUME NEW p, NEW f, NEW why, NEW n, LostTurn(p, f, why, n) PROVE InputKept(q)
    <2>1. /\ client' = [client EXCEPT ![p] = f.client] /\ p \in Peers
          /\ f.client.buf = client[p].buf /\ stream' = stream
      BY <1>4 DEF LostTurn, Current, TurnFlush, SameInput, peerVars
    <2>2. QED BY <2>1, <1>2
  <1>5. ASSUME NEW p, NEW f, NEW r, NEW d, PolledClient(p, f, r, d)
        PROVE  InputKept(q) \/ InputRead(q)
    BY <1>5, PolledInput
  <1>6. ASSUME NEW p, NEW m, NEW r, NEW d, RejectedLine(p, m, r, d) PROVE InputKept(q)
    <2>1. /\ client' = [client EXCEPT ![p] = d] /\ p \in Peers
          /\ d.buf = client[p].buf /\ stream' = stream
      BY <1>6 DEF RejectedLine, Parsing, Current, Served, Rejected, SameInput, peerVars
    <2>2. QED BY <2>1, <1>2
  <1>7. ASSUME NEW p, NEW m, NEW c, NEW d, DeliveredLine(p, m, c, d) PROVE InputKept(q)
    <2>1. /\ client' = [client EXCEPT ![p] = d] /\ p \in Peers
          /\ d.buf = client[p].buf /\ stream' = stream
      BY <1>7 DEF DeliveredLine, Parsing, Current, Served, SameInput, peerVars
    <2>2. QED BY <2>1, <1>2
  <1>8. ASSUME NEW why, EndedPoll(why) PROVE InputKept(q) \/ InputGone(q)
    <2>1. /\ stream' = [p \in Peers |-> IF p \in DOMAIN why THEN <<>> ELSE stream[p]]
          /\ client' = [p \in Peers |-> IF p \in DOMAIN why THEN NewClient ELSE client[p]]
      BY <1>8 DEF EndedPoll
    <2>2. QED BY <2>1, <1>1 DEF InputKept, InputGone
  <1>9. ASSUME NEW m, Unanswered(m) PROVE InputKept(q)
    BY <1>9 DEF Unanswered, InputKept
  <1>10. ASSUME NEW p, NEW m, NEW s, NEW k, NEW d, Responded(p, m, s, k, d)
         PROVE  InputKept(q) \/ InputGone(q)
    <2>1. p \in Peers /\ client' = [client EXCEPT ![p] = d]
      BY <1>10 DEF Responded
    <2>2. CASE s.error = "none"
      <3>1. d.buf = client[p].buf /\ stream' = stream
        BY <2>2, <1>10 DEF Responded, Replied, SameInput
      <3>2. QED BY <2>1, <3>1, <1>2
    <2>3. CASE s.error # "none"
      <3>1. d = NewClient /\ stream' = [stream EXCEPT ![p] = <<>>]
        BY <2>3, <1>10 DEF Responded
      <3>2. QED BY <2>1, <3>1, <1>1 DEF InputKept, InputGone, TypeInv
    <2>4. QED BY <2>2, <2>3
  <1>11. CASE Broadcasted
    <2>1. Untold(q) \/ \E s : Told(q, s) \/ Lost(q, s)
      BY <1>11 DEF Broadcasted
    <2>2. QED BY <2>1, <1>1 DEF Untold, Told, Lost, Said, SameInput, InputKept, InputGone
  <1>12. QED BY <1>3, <1>4, <1>5, <1>6, <1>7, <1>8, <1>9, <1>10, <1>11 DEF ServerStep

\* A step of the server leaves what the peers did alone.
LEMMA WritingUntouched ==
  ASSUME ServerStep
  PROVE  UNCHANGED <<peer, received, frames, run, longest, written>>
  <1>1. ASSUME UNCHANGED peerVars
        PROVE  UNCHANGED <<peer, received, frames, run, longest, written>>
    BY <1>1 DEF peerVars
  <1>2. ASSUME NEW open, StartedPoll(open)
        PROVE  UNCHANGED <<peer, received, frames, run, longest, written>>
    BY <1>2 DEF StartedPoll
  <1>3. ASSUME NEW p, NEW f, NEW why, NEW n, LostTurn(p, f, why, n) PROVE UNCHANGED peerVars
    BY <1>3 DEF LostTurn
  <1>4. ASSUME NEW p, NEW f, NEW r, NEW d, PolledClient(p, f, r, d)
        PROVE  UNCHANGED <<peer, received, frames, run, longest, written>>
    BY <1>4 DEF PolledClient
  <1>5. ASSUME NEW p, NEW m, NEW r, NEW d, RejectedLine(p, m, r, d) PROVE UNCHANGED peerVars
    BY <1>5 DEF RejectedLine
  <1>6. ASSUME NEW p, NEW m, NEW c, NEW d, DeliveredLine(p, m, c, d) PROVE UNCHANGED peerVars
    BY <1>6 DEF DeliveredLine
  <1>7. ASSUME NEW why, EndedPoll(why)
        PROVE  UNCHANGED <<peer, received, frames, run, longest, written>>
    BY <1>7 DEF EndedPoll
  <1>8. ASSUME NEW m, Answering(m)
        PROVE  UNCHANGED <<peer, received, frames, run, longest, written>>
    BY <1>8 DEF Answering
  <1>9. CASE Broadcasted
    BY <1>9 DEF Broadcasted
  <1>10. QED
    BY <1>1, <1>2, <1>3, <1>4, <1>5, <1>6, <1>7, <1>8, <1>9
    DEF ServerStep, Unanswered, Responded

\* No input, no line.
LEMMA LengthsOfNothing ==
  ASSUME NEW l, NEW r
  PROVE  LineLengths(<<>> \o <<>>, l, r)
  <1>1. <<>> \in Seq(Token)
    OBVIOUS
  <1>2. PICK s : s = <<>> \o <<>>
    OBVIOUS
  <1>3. Len(s) = 0
    BY <1>2
  <1>4. LineLengths(s, l, r)
    BY <1>3 DEF LineLengths
  <1>5. QED BY <1>2, <1>4

\* A peer's record of its longest line keeps up with what it writes.
LEMMA BudgetWrites ==
  ASSUME TypeInv, NEW p, NEW x, Wrote(p, x), Budget(p),
         Began(p, x) \/ Extended(p, x) \/ Ended(p, x)
  PROVE  /\ Budget(p)' /\ longest[p] <= longest'[p] /\ longest'[p] \in Nat /\ run'[p] \in Nat
         /\ x # Newline => run'[p] = run[p] + 1 /\ run'[p] <= longest'[p]
  <1>1. /\ p \in Peers /\ written[p] < MaxTokens[p] /\ written'[p] = written[p] + 1
    BY DEF Wrote, PeerLeaves
  <1>2. /\ run[p] \in Nat /\ longest[p] \in Nat /\ frames[p] \in Nat /\ written[p] \in Nat
        /\ MaxTokens[p] \in Nat
    BY <1>1, ServerFacts DEF TypeInv
  <1>3. CASE Began(p, x)
    <2>1. PICK l : l = Max({longest[p], 1})
      OBVIOUS
    <2>2. l \in {longest[p], 1} /\ longest[p] <= l /\ 1 <= l
      BY <2>1, <1>2, MaxPair
    <2>3. run[p] = 0 /\ run'[p] = 1 /\ frames'[p] = frames[p] + 1 /\ longest'[p] = l
      BY <2>1, <1>3 DEF Began
    <2>4. QED BY <1>1, <1>2, <2>2, <2>3 DEF Budget
  <1>4. CASE Extended(p, x)
    <2>1. PICK l : l = Max({longest[p], run[p] + 1})
      OBVIOUS
    <2>2. run[p] + 1 \in Nat
      BY <1>2
    <2>3. l \in {longest[p], run[p] + 1} /\ longest[p] <= l /\ run[p] + 1 <= l
      BY <2>1, <2>2, <1>2, MaxPair
    <2>4. run[p] > 0 /\ run'[p] = run[p] + 1 /\ frames'[p] = frames[p] /\ longest'[p] = l
      BY <2>1, <1>4 DEF Extended
    <2>5. QED BY <1>1, <1>2, <2>3, <2>4 DEF Budget
  <1>5. CASE Ended(p, x)
    <2>1. run'[p] = 0 /\ frames'[p] = frames[p] /\ longest'[p] = longest[p] /\ x = Newline
      BY <1>5 DEF Ended
    <2>2. QED BY <1>1, <1>2, <2>1 DEF Budget
  <1>6. QED BY <1>3, <1>4, <1>5

\* The steps of the peers keep the invariant on line lengths.
LEMMA LimitsPeer ==
  ASSUME BaseInv, BaseInv', Limits, NEW p, PeerStep(p)
  PROVE  Limits'
  <1>1. TypeInv /\ TypeInv'
    BY DEF BaseInv
  <1>2. PeerLeaves(p)
    BY DEF PeerStep, Connected, Wrote, Turned
  <1>3. /\ p \in Peers /\ client' = client /\ poll' = poll
        /\ \A q \in Peers : q # p =>
             /\ stream'[q] = stream[q] /\ frames'[q] = frames[q] /\ run'[q] = run[q]
             /\ longest'[q] = longest[q] /\ written'[q] = written[q] /\ conn'[q] = conn[q]
        /\ conn'[p] = conn[p] \/ (conn[p] = "none" /\ conn'[p] = "pending")
    BY <1>2 DEF PeerLeaves
  <1>4. Budget(p) /\ Lengths(p)
    BY <1>3 DEF Limits
  <1>5. Budget(p)' /\ Lengths(p)' /\ longest[p] <= longest'[p] /\ longest'[p] \in Nat
    <2>1. ASSUME /\ stream'[p] = stream[p] /\ frames'[p] = frames[p] /\ run'[p] = run[p]
                 /\ longest'[p] = longest[p] /\ written'[p] = written[p]
          PROVE  Budget(p)' /\ Lengths(p)' /\ longest[p] <= longest'[p] /\ longest'[p] \in Nat
      <3>1. longest[p] \in Nat
        BY <1>1, <1>3 DEF TypeInv
      <3>2. QED BY <2>1, <3>1, <1>3, <1>4 DEF Budget, Lengths
    <2>2. CASE Connected(p) \/ Turned(p)
      BY <2>1, <2>2 DEF Connected, Turned
    <2>3. ASSUME NEW x, Wrote(p, x), Began(p, x) \/ Extended(p, x) \/ Ended(p, x)
          PROVE  Budget(p)' /\ Lengths(p)' /\ longest[p] <= longest'[p] /\ longest'[p] \in Nat
      <3>1. /\ Budget(p)' /\ longest[p] <= longest'[p] /\ longest'[p] \in Nat
            /\ run'[p] \in Nat
            /\ x # Newline => run'[p] = run[p] + 1 /\ run'[p] <= longest'[p]
        BY <1>1, <1>4, <2>3, BudgetWrites
      <3>2. x \in Token /\ stream'[p] = Append(stream[p], x)
        BY <2>3 DEF Wrote
      <3>3. client[p].buf \in Seq(Token)
        <4>1. client[p] \in ClientType
          BY <1>1, <1>3 DEF TypeInv
        <4>2. QED BY <4>1 DEF ClientType
      <3>4. stream[p] \in Seq(Token) /\ longest[p] \in Nat /\ run[p] \in Nat
        BY <1>1, <1>3 DEF TypeInv
      <3>5. PICK s : s = client[p].buf \o stream[p]
        OBVIOUS
      <3>6. s \in Seq(Token) /\ LineLengths(s, longest[p], run[p])
        BY <3>3, <3>4, <3>5, <1>4, ConcatFacts DEF Lengths
      <3>7. LineLengths(Append(s, x), longest'[p], run'[p])
        BY <3>1, <3>2, <3>4, <3>6, LengthsOfAppend
      <3>8. client'[p].buf \o stream'[p] = Append(s, x)
        <4>1. PICK b, t : b = client[p].buf /\ t = stream[p]
          OBVIOUS
        <4>2. b \o Append(t, x) = Append(b \o t, x)
          <5>1. b \in Seq(Token) /\ t \in Seq(Token) /\ x \in Token
            BY <4>1, <3>2, <3>3, <3>4
          <5>2. QED BY <5>1, AppendJoins
        <4>3. client'[p].buf = b /\ stream'[p] = Append(t, x) /\ s = b \o t
          BY <4>1, <3>2, <3>5, <1>3
        <4>4. QED BY <4>2, <4>3
      <3>9. Lengths(p)'
        BY <3>7, <3>8 DEF Lengths
      <3>10. QED BY <3>1, <3>9
    <2>4. QED BY <2>2, <2>3 DEF PeerStep
  <1>6. ASSUME NEW q \in Peers PROVE Budget(q)' /\ Lengths(q)'
    <2>1. CASE q = p
      BY <2>1, <1>5
    <2>2. CASE q # p
      BY <2>2, <1>3 DEF Limits, Budget, Lengths
    <2>3. QED BY <2>1, <2>2
  <1>7. ASSUME NEW q \in Peers, Overlong(q) PROVE Overlong(q)'
    <2>1. longest[q] \in Nat /\ longest'[q] \in Nat /\ longest[q] <= longest'[q]
      <3>1. longest[q] \in Nat /\ longest'[q] \in Nat
        BY <1>1 DEF TypeInv
      <3>2. q # p => longest'[q] = longest[q]
        BY <1>3
      <3>3. QED BY <3>1, <3>2, <1>5
    <2>2. MaxClientBuf \in Nat /\ MaxReadBytesPerPoll \in Nat
      BY LimitFacts
    <2>3. QED BY <2>1, <2>2, <1>7 DEF Overlong
  <1>8. OnlyLongFramesOverflow'
    <2>1. \A q \in Peers : conn'[q] = "overflowed" => conn[q] = "overflowed"
      BY <1>3
    <2>2. \A q \in Peers : conn[q] = "overflowed" => Overlong(q)
      BY DEF Limits, OnlyLongFramesOverflow, Overlong
    <2>3. \A q \in Peers : conn'[q] = "overflowed" => Overlong(q)'
      BY <2>1, <2>2, <1>7
    <2>4. QED BY <2>3 DEF OnlyLongFramesOverflow, Overlong
  <1>9. \A d \in poll'.dead : d.why = "overflowed" => Overlong(d.peer)'
    <2>1. ASSUME NEW d \in poll'.dead, d.why = "overflowed" PROVE Overlong(d.peer)'
      <3>1. d \in poll.dead /\ poll \in PollType
        BY <1>1, <1>3 DEF TypeInv
      <3>2. d.peer \in Peers
        BY <3>1 DEF PollType
      <3>3. Overlong(d.peer)
        BY <2>1, <3>1 DEF Limits
      <3>4. QED BY <3>2, <3>3, <1>7
    <2>2. QED BY <2>1
  <1>10. Open' = Open
    BY <1>3 DEF Open
  <1>11. QED BY <1>3, <1>6, <1>8, <1>9, <1>10 DEF Limits

\* A read overflows on one long line.
LEMMA PolledOverflow ==
  ASSUME BaseInv, NEW p, NEW f, NEW r, NEW d, PolledClient(p, f, r, d), Lengths(p),
         Fatal(r) = "overflowed"
  PROVE  Overlong(p)
  <1>1. /\ Current(p) /\ TurnFlush(p, f) /\ ReadTook(f.client, stream[p], Eof(p), r)
    BY DEF PolledClient
  <1>2. TypeInv /\ p \in Peers
    BY <1>1 DEF BaseInv, Current
  <1>3. f.client.buf = client[p].buf
    BY <1>1 DEF TurnFlush, SameInput
  <1>4. r.error \in {"none", "eof", "overflow"}
    BY <1>1 DEF ReadTook
  <1>5. r.error = "overflow"
    BY <1>4, FatalFacts
  <1>6. PICK s : s = client[p].buf \o stream[p]
    OBVIOUS
  <1>7. PICK i, j \in 1..Len(s) :
          i <= j /\ Plain(s, i, j) /\ j - i + 1 > MaxClientBuf - MaxReadBytesPerPoll
    BY <1>1, <1>3, <1>5, <1>6 DEF ReadTook
  <1>8. s \in Seq(Token) /\ longest[p] \in Nat
    <2>1. client[p] \in ClientType /\ stream[p] \in Seq(Token) /\ longest[p] \in Nat
      BY <1>2 DEF TypeInv
    <2>2. client[p].buf \in Seq(Token)
      BY <2>1 DEF ClientType
    <2>3. QED BY <2>1, <2>2, <1>6, ConcatFacts
  <1>9. j - i + 1 <= longest[p]
    BY <1>6, <1>7 DEF Lengths, LineLengths
  <1>10. MaxClientBuf \in Nat /\ MaxReadBytesPerPoll \in Nat /\ i \in Nat /\ j \in Nat
    BY <1>7, <1>8, LimitFacts
  <1>11. QED BY <1>7, <1>8, <1>9, <1>10 DEF Overlong

\* Who is removed, or about to be, for its input, and who is connected.
Overflows ==
  /\ \A q \in Peers : conn'[q] = "overflowed" => Overlong(q)
  /\ \A d \in poll'.dead : d.why = "overflowed" => Overlong(d.peer)
OpenShrinks == \A q \in Peers : conn'[q] = "open" => conn[q] = "open"

\* An overflow needs a line too long for the buffer, and only a poll accepts
\* clients.
LEMMA OverflowFacts ==
  ASSUME BaseInv, BaseInv', Limits, ServerStep
  PROVE  Overflows /\ (OpenShrinks \/ \E open : StartedPoll(open))
  <1>1. TypeInv /\ Shape /\ poll \in PollType
    BY DEF BaseInv, TypeInv
  <1>2. /\ \A q \in Peers : conn[q] = "overflowed" => Overlong(q)
        /\ \A d \in poll.dead : d.why = "overflowed" => Overlong(d.peer)
        /\ \A q \in Peers : Lengths(q)
    BY DEF Limits, OnlyLongFramesOverflow, Overlong
  <1>3. ASSUME NEW open, StartedPoll(open) PROVE Overflows
    <2>1. /\ \A p \in Peers : \/ conn'[p] = conn[p]
                              \/ conn[p] = "pending" /\ conn'[p] \in {"open", "refused"}
          /\ poll' = [NoPoll EXCEPT !.ring = Ring(open)]
      BY <1>3 DEF StartedPoll
    <2>2. poll'.dead = {}
      <3>1. PICK r : r = Ring(open)
        OBVIOUS
      <3>2. poll' = [NoPoll EXCEPT !.ring = r]
        BY <2>1, <3>1
      <3>3. QED BY <3>2 DEF NoPoll
    <2>3. QED BY <2>1, <2>2, <1>2 DEF Overflows
  <1>4. ASSUME NEW p, NEW f, NEW why, NEW n, LostTurn(p, f, why, n)
        PROVE  Overflows /\ OpenShrinks
    <2>1. /\ TurnFlush(p, f) /\ n \in Nat /\ why \in {"failed", "backlogged"} /\ conn' = conn
          /\ poll' = [poll EXCEPT !.at = @ + 1, !.bytes = @ + n,
                                  !.dead = @ \cup {[peer |-> p, why |-> why]}]
      BY <1>4 DEF LostTurn
    <2>2. PICK x : x = [peer |-> p, why |-> why]
      OBVIOUS
    <2>3. poll' = [poll EXCEPT !.at = @ + 1, !.bytes = @ + n, !.dead = @ \cup {x}]
      BY <2>1, <2>2
    <2>4. poll'.dead = poll.dead \cup {x}
      BY <2>3, <1>1 DEF PollType
    <2>5. x.why # "overflowed"
      BY <2>1, <2>2 DEF TurnFlush
    <2>6. QED BY <2>1, <2>4, <2>5, <1>2 DEF Overflows, OpenShrinks
  <1>5. ASSUME NEW p, NEW f, NEW r, NEW d, PolledClient(p, f, r, d)
        PROVE  Overflows /\ OpenShrinks
    <2>1. /\ Current(p) /\ conn' = conn
          /\ poll' = [poll EXCEPT !.lines = r.frames,
                                  !.at = IF r.frames = <<>> THEN poll.at + 1 ELSE poll.at,
                                  !.messages = @ + Len(r.frames),
                                  !.bytes = @ + r.bytes,
                                  !.dead = @ \cup Casualty(p, Fatal(r))]
      BY <1>5 DEF PolledClient
    <2>2. PICK x, fs, at, n, b : /\ fs = r.frames /\ n = Len(r.frames) /\ b = r.bytes
                                 /\ at = IF r.frames = <<>> THEN poll.at + 1 ELSE poll.at
                                 /\ x = Casualty(p, Fatal(r))
      OBVIOUS
    <2>3. poll' = [poll EXCEPT !.lines = fs, !.at = at, !.messages = @ + n,
                               !.bytes = @ + b, !.dead = @ \cup x]
      BY <2>1, <2>2
    <2>4. poll'.dead = poll.dead \cup x
      BY <2>3, <1>1 DEF PollType
    <2>5. ASSUME NEW e \in x, e.why = "overflowed" PROVE Overlong(e.peer)
      <3>1. e.peer = p /\ e.why = Fatal(r)
        BY <2>2 DEF Casualty
      <3>2. p \in Peers
        BY <2>1 DEF Current
      <3>3. QED BY <3>1, <3>2, <2>5, <1>2, <1>5, PolledOverflow
    <2>6. QED BY <2>1, <2>4, <2>5, <1>2 DEF Overflows, OpenShrinks
  <1>6. ASSUME NEW p, NEW m, Parsing(p, m), conn' = conn,
               poll' = WithLines(Tail(poll.lines))
        PROVE  Overflows /\ OpenShrinks
    <2>1. poll'.dead = poll.dead
      BY <1>1, <1>6, NextLineFacts DEF NextLine
    <2>2. QED BY <2>1, <1>2, <1>6 DEF Overflows, OpenShrinks
  <1>7. ASSUME NEW p, NEW m, NEW r, NEW d, RejectedLine(p, m, r, d)
        PROVE  Overflows /\ OpenShrinks
    BY <1>6, <1>7 DEF RejectedLine
  <1>8. ASSUME NEW p, NEW m, NEW c, NEW d, DeliveredLine(p, m, c, d)
        PROVE  Overflows /\ OpenShrinks
    BY <1>6, <1>8 DEF DeliveredLine
  <1>9. ASSUME NEW why, EndedPoll(why) PROVE Overflows /\ OpenShrinks
    <2>1. /\ pc' # "poll"
          /\ \A p \in DOMAIN why : \E d \in poll.dead : d.peer = p /\ why[p] = d.why
          /\ DOMAIN why = {d.peer : d \in poll.dead}
          /\ conn' = [p \in Peers |-> IF p \in DOMAIN why THEN why[p] ELSE conn[p]]
      BY <1>9 DEF EndedPoll
    <2>2. poll'.dead = {}
      BY <2>1 DEF BaseInv, Shape
    <2>3. \A q \in Peers : conn'[q] = "overflowed" => Overlong(q)
      BY <2>1, <1>2
    <2>4. ASSUME NEW q \in Peers, conn'[q] = "open" PROVE conn[q] = "open"
      <3>1. CASE q \in DOMAIN why
        <4>1. PICK d \in poll.dead : d.peer = q
          BY <3>1, <2>1
        <4>2. PICK i \in 1..(poll.at - 1) : poll.ring[i] = q
          BY <4>1, <1>1 DEF Shape
        <4>3. poll.at <= Len(poll.ring) + 1
          BY <1>1 DEF Shape
        <4>4. poll.at \in Nat /\ poll.ring \in Seq(Peers)
          BY <1>1 DEF PollType
        <4>5. i \in DOMAIN poll.ring
          <5>1. i \in 1..Len(poll.ring)
            BY <4>2, <4>3, <4>4
          <5>2. QED BY <4>4, <5>1
        <4>6. QED BY <4>2, <4>5, <1>1 DEF Shape
      <3>2. CASE q \notin DOMAIN why
        BY <3>2, <2>1, <2>4
      <3>3. QED BY <3>1, <3>2
    <2>5. QED BY <2>2, <2>3, <2>4 DEF Overflows, OpenShrinks
  <1>10. ASSUME NEW m, Unanswered(m) PROVE Overflows /\ OpenShrinks
    <2>1. conn' = conn /\ poll' = poll
      BY <1>10 DEF Unanswered, Answering
    <2>2. QED BY <2>1, <1>2 DEF Overflows, OpenShrinks
  <1>11. ASSUME NEW p, NEW m, NEW s, NEW k, NEW d, Responded(p, m, s, k, d)
         PROVE  Overflows /\ OpenShrinks
    <2>1. /\ poll' = poll /\ p \in Peers /\ conn[p] = "open"
          /\ conn' = conn \/ (conn' = [conn EXCEPT ![p] = s.error] /\ s.error # "none")
          /\ s.error \in {"none", "failed", "backlogged"}
      BY <1>11 DEF Responded, Answering, Replied
    <2>2. \A q \in Peers : conn'[q] = conn[q] \/ conn'[q] \in {"failed", "backlogged"}
      BY <2>1, <1>1 DEF TypeInv
    <2>3. QED BY <2>1, <2>2, <1>2 DEF Overflows, OpenShrinks
  <1>12. CASE Broadcasted
    <2>1. /\ poll' = poll
          /\ \A p \in Peers : Untold(p) \/ \E s : Told(p, s) \/ Lost(p, s)
      BY <1>12 DEF Broadcasted
    <2>2. \A q \in Peers : conn'[q] = conn[q] \/ conn'[q] \in {"failed", "backlogged"}
      BY <2>1 DEF Untold, Told, Lost
    <2>3. QED BY <2>1, <2>2, <1>2 DEF Overflows, OpenShrinks
  <1>13. QED
    BY <1>3, <1>4, <1>5, <1>7, <1>8, <1>9, <1>10, <1>11, <1>12 DEF ServerStep

\* The steps of the server keep the invariant on line lengths.
LEMMA LimitsServer ==
  ASSUME BaseInv, BaseInv', Limits, ServerStep
  PROVE  Limits'
  <1>1. TypeInv /\ TypeInv'
    BY DEF BaseInv
  <1>2. UNCHANGED <<frames, run, longest, written>>
    BY WritingUntouched
  <1>3. Overflows /\ (OpenShrinks \/ \E open : StartedPoll(open))
    BY OverflowFacts
  <1>4. ASSUME NEW q \in Peers PROVE Budget(q)' /\ Lengths(q)'
    <2>1. Budget(q) /\ Lengths(q)
      BY DEF Limits
    <2>2. InputKept(q) \/ InputGone(q) \/ InputRead(q)
      BY InputFacts
    <2>3. PICK s, l, n : s = client[q].buf \o stream[q] /\ l = longest[q] /\ n = run[q]
      OBVIOUS
    <2>4. s \in Seq(Token) /\ l \in Nat /\ n \in Nat
      <3>1. client[q] \in ClientType /\ stream[q] \in Seq(Token) /\ l \in Nat /\ n \in Nat
        BY <1>1, <2>3 DEF TypeInv
      <3>2. client[q].buf \in Seq(Token)
        BY <3>1 DEF ClientType
      <3>3. QED BY <3>1, <3>2, <2>3, ConcatFacts
    <2>5. LineLengths(s, l, n)
      BY <2>1, <2>3 DEF Lengths
    <2>6. PICK s2 : s2 = client'[q].buf \o stream'[q]
      OBVIOUS
    <2>7. LineLengths(s2, l, n)
      <3>1. CASE InputKept(q)
        BY <3>1, <2>3, <2>5, <2>6 DEF InputKept
      <3>2. CASE InputGone(q)
        BY <3>2, <2>6, LengthsOfNothing DEF InputGone
      <3>3. CASE InputRead(q)
        <4>1. PICK k \in 0..Len(s) : s2 = Suffix(s, k)
          BY <3>3, <2>3, <2>6 DEF InputRead
        <4>2. QED BY <4>1, <2>4, <2>5, LengthsOfSuffix
      <3>4. QED BY <3>1, <3>2, <3>3, <2>2
    <2>8. longest'[q] = l /\ run'[q] = n
      BY <1>2, <2>3
    <2>9. QED BY <1>2, <2>1, <2>6, <2>7, <2>8 DEF Budget, Lengths
  <1>5. OnlyLongFramesOverflow' /\ \A d \in poll'.dead : d.why = "overflowed" => Overlong(d.peer)'
    <2>1. \A q : Overlong(q)' <=> Overlong(q)
      BY <1>2 DEF Overlong
    <2>2. QED BY <2>1, <1>2, <1>3 DEF Overflows, OnlyLongFramesOverflow, Overlong
  <1>6. Cardinality(Open') <= MaxClients
    <2>1. Cardinality(Open) <= MaxClients
      BY DEF Limits
    <2>2. CASE OpenShrinks
      <3>1. Open' \in SUBSET Open /\ Open \in SUBSET (1..MaxPeers)
        BY <2>2 DEF Open, OpenShrinks, Peers
      <3>2. IsFiniteSet(Open)
        BY <3>1, ServerFacts, RankFacts
      <3>3. PICK A, B : A = Open' /\ B = Open
        OBVIOUS
      <3>4. IsFiniteSet(A) /\ Cardinality(A) <= Cardinality(B)
        BY <3>1, <3>2, <3>3, FS_Subset
      <3>5. Cardinality(A) \in Nat /\ Cardinality(B) \in Nat
        BY <3>2, <3>3, <3>4, FS_CardinalityType
      <3>6. QED BY <2>1, <3>3, <3>4, <3>5, ServerFacts
    <2>3. CASE \E open : StartedPoll(open)
      <3>1. PICK open : StartedPoll(open)
        BY <2>3
      <3>2. Open' = open /\ Cardinality(open) <= MaxClients
        BY <2>1, <3>1 DEF StartedPoll, Open
      <3>3. QED BY <3>2
    <2>4. QED BY <2>2, <2>3, <1>3
  <1>7. QED BY <1>4, <1>5, <1>6 DEF Limits

\* The invariant on line lengths holds initially.
LEMMA LimitsInit ==
  ASSUME Init
  PROVE  Limits
  <1>1. /\ \A p \in Peers : /\ client[p] = NewClient /\ conn[p] = "none" /\ stream[p] = <<>>
                            /\ frames[p] = 0 /\ run[p] = 0 /\ longest[p] = 0 /\ written[p] = 0
        /\ poll = NoPoll
    BY DEF Init
  <1>2. poll.dead = {}
    BY <1>1 DEF NoPoll
  <1>3. ASSUME NEW p \in Peers PROVE Budget(p)
    <2>1. MaxTokens[p] \in Nat
      BY ServerFacts
    <2>2. QED BY <1>1, <2>1 DEF Budget
  <1>4. ASSUME NEW p \in Peers PROVE Lengths(p)
    <2>1. client[p].buf = <<>> /\ stream[p] = <<>>
      BY <1>1, NewClientFacts
    <2>2. QED BY <2>1, LengthsOfNothing DEF Lengths
  <1>5. OnlyLongFramesOverflow
    BY <1>1 DEF OnlyLongFramesOverflow
  <1>6. Cardinality(Open) <= MaxClients
    <2>1. Open = {}
      BY <1>1 DEF Open
    <2>2. Cardinality(Open) = 0
      BY <2>1, FS_EmptySet
    <2>3. QED BY <2>2, ServerFacts
  <1>7. QED BY <1>2, <1>3, <1>4, <1>5, <1>6 DEF Limits

\* The invariant on line lengths is inductive.
LEMMA LimitsStep ==
  ASSUME BaseInv, BaseInv', Limits, [Next]_vars
  PROVE  Limits'
  <1>1. CASE UNCHANGED vars
    <2>1. UNCHANGED <<stream, frames, run, longest, written, conn, client, poll>>
      BY <1>1, VarsUnchanged
    <2>2. \A p \in Peers : Budget(p)' /\ Lengths(p)'
      BY <2>1 DEF Limits, Budget, Lengths
    <2>3. OnlyLongFramesOverflow'
      BY <2>1 DEF Limits, OnlyLongFramesOverflow
    <2>4. \A d \in poll'.dead : d.why = "overflowed" => Overlong(d.peer)'
      BY <2>1 DEF Limits, Overlong
    <2>5. Open' = Open
      BY <2>1 DEF Open
    <2>6. QED BY <2>2, <2>3, <2>4, <2>5 DEF Limits
  <1>2. CASE \E p : PeerStep(p)
    BY <1>2, LimitsPeer
  <1>3. CASE ServerStep
    BY <1>3, LimitsServer
  <1>4. QED BY <1>1, <1>2, <1>3, StepFacts

\* The two invariants imply the type invariant.
LEMMA LimitsType ==
  ASSUME BaseInv, Limits
  PROVE  TypeOK
  <1>1. TypeInv /\ Shape /\ \A p \in Peers : ClientOK(p)
    BY DEF BaseInv
  <1>2. ASSUME NEW p \in Peers
        PROVE  /\ stream[p] \in Seq(Token) /\ wire[p] \in Seq(Nat) /\ received[p] \in Seq(Nat)
               /\ written[p] \in 0..MaxTokens[p]
               /\ run[p] <= longest[p] /\ frames[p] + run[p] <= written[p] + 1
               /\ client[p] \in ClientType
               /\ client[p].scan <= Len(client[p].buf)
               /\ \A i \in 1..client[p].scan : client[p].buf[i] # Newline
               /\ client[p].answered <= client[p].delivered
    <2>1. /\ stream[p] \in Seq(Token) /\ wire[p] \in Seq(Nat) /\ received[p] \in Seq(Nat)
          /\ client[p] \in ClientType
      BY <1>1 DEF TypeInv
    <2>2. /\ written[p] \in Nat /\ run[p] \in Nat /\ frames[p] \in Nat /\ longest[p] \in Nat
          /\ MaxTokens[p] \in Nat
      BY <1>1, ServerFacts DEF TypeInv
    <2>3. Budget(p)
      BY DEF Limits
    <2>4. written[p] \in 0..MaxTokens[p] /\ run[p] <= longest[p]
      BY <2>2, <2>3 DEF Budget
    <2>5. frames[p] + run[p] <= written[p] + 1
      <3>1. CASE run[p] = 0
        BY <3>1, <2>2, <2>3 DEF Budget
      <3>2. CASE run[p] > 0
        BY <3>2, <2>2, <2>3 DEF Budget
      <3>3. QED BY <3>1, <3>2, <2>2
    <2>6. /\ client[p].scan <= Len(client[p].buf)
          /\ \A i \in 1..client[p].scan : client[p].buf[i] # Newline
          /\ client[p].answered <= client[p].delivered
      BY <1>1 DEF ClientOK, Scanned, Plain
    <2>7. QED BY <2>1, <2>4, <2>5, <2>6
  <1>3. /\ peer \in [Peers -> PeerState] /\ conn \in [Peers -> ConnState]
        /\ cursor \in Peers /\ armed \in BOOLEAN /\ events \in 0..MaxEvents
        /\ pc \in {"idle", "poll", "respond"}
    BY <1>1 DEF TypeInv
  <1>4. pc = "respond" <=> (pc # "poll" /\ incoming # <<>>)
    BY <1>1, <1>3 DEF Shape
  <1>5. Cardinality(Open) <= MaxClients
    BY DEF Limits
  <1>6. QED BY <1>2, <1>3, <1>4, <1>5 DEF TypeOK

\* Every variable keeps its type, the scan position never passes the buffer or
\* a newline, replies never pass frames, and accept_connections never admits
\* more than MAX_CLIENTS.
THEOREM TypeCorrect == Spec => []TypeOK
  <1>1. Init => BaseInv /\ Limits
    BY BaseInit, LimitsInit
  <1>2. BaseInv /\ Limits /\ [Next]_vars => BaseInv' /\ Limits'
    BY BaseStep, LimitsStep
  <1>3. BaseInv /\ Limits => TypeOK
    BY LimitsType
  <1>4. QED BY <1>1, <1>2, <1>3, PTL DEF Spec

\* Only a single frame that is too long trips MAX_CLIENT_BUF in read_messages,
\* never the number of short frames a client pipelines.
THEOREM OverflowNeedsLongFrame == Spec => []OnlyLongFramesOverflow
  <1>1. Init => BaseInv /\ Limits
    BY BaseInit, LimitsInit
  <1>2. BaseInv /\ Limits /\ [Next]_vars => BaseInv' /\ Limits'
    BY BaseStep, LimitsStep
  <1>3. Limits => OnlyLongFramesOverflow
    BY DEF Limits
  <1>4. QED BY <1>1, <1>2, <1>3, PTL DEF Spec

-----------------------------------------------------------------------------
(* Replies and frames *)

Input(p) == client[p].buf \o stream[p]

\* A connection the server serves or will serve.
Live(p) == conn[p] \in {"none", "pending", "open"} /\ ~Gone(p) /\ ~Dead(p)
Retiring(p) == \E d \in poll.dead : d.peer = p /\ d.why = "retired"

\* What was said to p and what is known of p's frames; a connection that was
\* given up still has its replies in order, and one that was retired all of
\* them.
ReplyOK(p) ==
  /\ Live(p) => Paired(Sent(p), client[p], incoming, p, Lines(p), Input(p), frames[p])
  /\ Live(p) /\ ~Eof(p) => (run[p] > 0 <=> Unfinished(Input(p)))
  /\ ~Gone(p) => \E k \in Nat : Ordered(Sent(p), k)
  /\ ~Gone(p) /\ Retiring(p) =>
       Ordered(Sent(p), frames[p]) /\ client[p].out = <<>> /\ Eof(p)
  /\ ~Gone(p) /\ conn[p] = "retired" => Ordered(Sent(p), frames[p])

\* During a poll the caller's list holds frames of the clients served so far,
\* and who is dead is to be removed.
Roll ==
  /\ pc = "poll" =>
       \A j \in 1..Len(incoming) :
         \/ Reading(incoming[j].peer)
         \/ \E i \in 1..(poll.at - 1) : poll.ring[i] = incoming[j].peer
  /\ \A d \in poll.dead : d.why \in {"overflowed", "retired", "failed", "backlogged"}

Replies == Roll /\ \A p \in Peers : ReplyOK(p)

\* The client whose turn it is was not served before.
LEMMA FirstTurn ==
  ASSUME TypeInv, Shape, NEW p, Current(p)
  PROVE  /\ \A i \in 1..(poll.at - 1) : poll.ring[i] # p
         /\ ~Dead(p) /\ Lines(p) = poll.lines
         /\ Roll /\ poll.lines = <<>> => \A j \in 1..Len(incoming) : incoming[j].peer # p
  <1>1. /\ poll.ring \in Seq(Peers) /\ poll.at \in Nat \ {0}
        /\ poll.at \in 1..Len(poll.ring) /\ poll.ring[poll.at] = p
    BY DEF TypeInv, PollType, Current
  <1>2. ASSUME NEW i \in 1..(poll.at - 1) PROVE poll.ring[i] # p
    <2>1. i \in DOMAIN poll.ring /\ poll.at \in DOMAIN poll.ring /\ i # poll.at
      BY <1>1
    <2>2. QED BY <2>1, <1>1 DEF Shape
  <1>3. ~Dead(p)
    BY <1>2 DEF Dead, Shape
  <1>4. Lines(p) = poll.lines
    BY <1>1 DEF Lines
  <1>5. ASSUME Roll, poll.lines = <<>>, NEW j \in 1..Len(incoming)
        PROVE  incoming[j].peer # p
    <2>1. ~Reading(incoming[j].peer) /\ pc = "poll"
      BY <1>5 DEF Reading, Current
    <2>2. PICK i \in 1..(poll.at - 1) : poll.ring[i] = incoming[j].peer
      BY <2>1, <1>5 DEF Roll
    <2>3. QED BY <2>2, <1>2
  <1>6. QED BY <1>2, <1>3, <1>4, <1>5

\* A step of the poll keeps what is known of the clients not served yet.
LEMMA RollAdvances ==
  ASSUME TypeInv, TypeInv', Roll, NEW p, Current(p), pc' = pc, poll'.ring = poll.ring,
         poll'.at = IF poll'.lines = <<>> THEN poll.at + 1 ELSE poll.at,
         \A j \in 1..Len(incoming') :
           \/ incoming'[j].peer = p
           \/ \E i \in 1..Len(incoming) : incoming'[j].peer = incoming[i].peer,
         \A d \in poll'.dead :
           d \in poll.dead \/ d.why \in {"overflowed", "retired", "failed", "backlogged"}
  PROVE  Roll'
  <1>1. poll.at \in Nat \ {0} /\ poll.ring[poll.at] = p /\ pc = "poll"
    BY DEF TypeInv, PollType, Current
  <1>2. \A d \in poll'.dead : d.why \in {"overflowed", "retired", "failed", "backlogged"}
    BY DEF Roll
  <1>3. ASSUME NEW j \in 1..Len(incoming')
        PROVE  \/ Reading(incoming[j].peer)'
               \/ \E i \in 1..(poll'.at - 1) : poll'.ring[i] = incoming'[j].peer
    <2>1. PICK x : x = incoming'[j].peer
      OBVIOUS
    <2>2. x = p \/ \E i \in 1..(poll.at - 1) : poll.ring[i] = x
      <3>1. CASE x = p
        BY <3>1
      <3>2. CASE x # p
        <4>1. PICK i \in 1..Len(incoming) : x = incoming[i].peer
          BY <2>1, <3>2, <1>3
        <4>2. Reading(x) \/ \E l \in 1..(poll.at - 1) : poll.ring[l] = x
          BY <4>1, <1>1 DEF Roll
        <4>3. Reading(x) => x = p
          BY <1>1 DEF Reading
        <4>4. QED BY <4>2, <4>3
      <3>3. QED BY <3>1, <3>2
    <2>3. CASE poll'.lines = <<>>
      <3>1. poll'.at = poll.at + 1
        BY <2>3
      <3>2. (poll.at + 1) - 1 = poll.at
        BY <1>1
      <3>3. \E i \in 1..poll.at : poll.ring[i] = x
        <4>1. poll.at \in 1..poll.at /\ 1..(poll.at - 1) \subseteq 1..poll.at
          BY <1>1
        <4>2. QED BY <4>1, <2>2, <1>1
      <3>4. QED BY <3>1, <3>2, <3>3, <2>1
    <2>4. CASE poll'.lines # <<>>
      <3>1. poll'.at = poll.at
        BY <2>4
      <3>2. x = p => Reading(incoming[j].peer)'
        BY <3>1, <2>1, <2>4, <1>1 DEF Reading
      <3>3. QED BY <3>1, <3>2, <2>1, <2>2
    <2>5. QED BY <2>3, <2>4
  <1>4. QED BY <1>2, <1>3 DEF Roll

\* Nothing happens to p.
AtRest(p) ==
  /\ received'[p] = received[p] /\ wire'[p] = wire[p] /\ client'[p] = client[p]
  /\ stream'[p] = stream[p] /\ frames'[p] = frames[p] /\ run'[p] = run[p]
  /\ peer'[p] = peer[p] /\ conn'[p] = conn[p]

\* The caller's list grows or shrinks by a message that is not p's.
ListAside(p) ==
  \/ incoming' = incoming
  \/ /\ Lines(p) = <<>>
     /\ \E x \in [peer : Peers, frame : Frame] :
          x.peer # p /\ incoming' = Append(incoming, x)
  \/ /\ Lines(p) = <<>> /\ incoming # <<>> /\ incoming[1].peer # p
     /\ incoming' = Tail(incoming)

\* A peer that a step does not concern has its replies as before.
LEMMA ReplyStays ==
  ASSUME TypeInv, NEW q \in Peers, ReplyOK(q), AtRest(q), ListAside(q),
         Lines(q)' = Lines(q), Dead(q)' <=> Dead(q), Retiring(q)' <=> Retiring(q)
  PROVE  ReplyOK(q)'
  <1>1. /\ Sent(q)' = Sent(q) /\ Input(q)' = Input(q) /\ (Gone(q)' <=> Gone(q))
        /\ (Eof(q)' <=> Eof(q)) /\ (Live(q)' <=> Live(q))
    BY DEF AtRest, Sent, Input, Gone, Eof, Live
  <1>2. ASSUME Live(q)
        PROVE  Paired(Sent(q), client[q], incoming', q, Lines(q), Input(q), frames[q])
    <2>1. Paired(Sent(q), client[q], incoming, q, Lines(q), Input(q), frames[q])
      BY <1>2 DEF ReplyOK
    <2>2. CASE incoming' = incoming
      BY <2>1, <2>2
    <2>3. PICK T : T = [peer : Peers, frame : Frame]
      OBVIOUS
    <2>4. incoming \in Seq(T)
      BY <2>3 DEF TypeInv
    <2>5. ASSUME Lines(q) = <<>>, NEW x \in T, x.peer # q, incoming' = Append(incoming, x)
          PROVE  Paired(Sent(q), client[q], incoming', q, Lines(q), Input(q), frames[q])
      <3>1. Paired(Sent(q), client[q], incoming, q, <<>>, Input(q), frames[q])
        BY <2>1, <2>5
      <3>2. Paired(Sent(q), client[q], Append(incoming, x), q, <<>>, Input(q), frames[q])
        BY <3>1, <2>4, <2>5, PairedAside, Zenon
      <3>3. QED BY <3>2, <2>5
    <2>6. ASSUME Lines(q) = <<>>, incoming # <<>>, incoming[1].peer # q,
                 incoming' = Tail(incoming)
          PROVE  Paired(Sent(q), client[q], incoming', q, Lines(q), Input(q), frames[q])
      <3>1. Paired(Sent(q), client[q], incoming, q, <<>>, Input(q), frames[q])
        BY <2>1, <2>6
      <3>2. Paired(Sent(q), client[q], Tail(incoming), q, <<>>, Input(q), frames[q])
        BY <3>1, <2>4, <2>6, PairedBehind, Zenon
      <3>3. QED BY <3>2, <2>6
    <2>7. QED BY <2>2, <2>3, <2>5, <2>6 DEF ListAside
  <1>3. Live(q)' => Paired(Sent(q), client[q], incoming, q, Lines(q), Input(q), frames[q])'
    BY <1>1, <1>2 DEF AtRest
  <1>4. QED BY <1>1, <1>3 DEF ReplyOK, AtRest

\* What has to be shown of a connection that is served.
LEMMA LiveOK ==
  ASSUME NEW p \in Peers, conn'[p] \in {"none", "pending", "open"}, ~Dead(p)',
         ~Gone(p)' =>
           Paired(Sent(p), client[p], incoming, p, Lines(p), Input(p), frames[p])',
         ~Gone(p)' /\ ~Eof(p)' => (run'[p] > 0 <=> Unfinished(Input(p)'))
  PROVE  ReplyOK(p)'
  <1>1. ASSUME ~Gone(p)' PROVE \E k \in Nat : Ordered(Sent(p)', k)
    <2>1. PICK st, c, q, ls, s, m :
            /\ st = Sent(p)' /\ c = client'[p] /\ q = incoming' /\ ls = Lines(p)'
            /\ s = Input(p)' /\ m = frames'[p]
      OBVIOUS
    <2>2. Paired(st, c, q, p, ls, s, m)
      BY <1>1, <2>1
    <2>3. \E k \in Nat : Ordered(st, k)
      BY <2>2, PairedOrdered, Zenon
    <2>4. QED BY <2>1, <2>3
  <1>2. ~Retiring(p)'
    BY DEF Retiring, Dead
  <1>3. QED BY <1>1, <1>2 DEF ReplyOK, Live

\* What has to be shown of a connection that was given up.
LEMMA LostOK ==
  ASSUME NEW p \in Peers, Dead(p)' \/ conn'[p] \notin {"none", "pending", "open"},
         ~Gone(p)' => \E k \in Nat : Ordered(Sent(p)', k),
         ~Retiring(p)', conn'[p] # "retired"
  PROVE  ReplyOK(p)'
  BY DEF ReplyOK, Live

\* What is said to p, after a step that moves its output and adds to it.
Joins(a, b, c) == (a \o b) \o c = a \o (b \o c)

\* Concatenation of lines of output.
LEMMA NatJoins ==
  ASSUME NEW a \in Seq(Nat), NEW b \in Seq(Nat), NEW c \in Seq(Nat)
  PROVE  Joins(a, b, c) /\ a \o b \in Seq(Nat)
  <1>1. Joins(a, b, c)
    BY ConcatAssociates, SMT DEF Joins
  <1>2. QED BY <1>1

\* The types of what was said to a peer and of its input.
LEMMA SentTypes ==
  ASSUME TypeInv, NEW p \in Peers
  PROVE  /\ received[p] \in Seq(Nat) /\ wire[p] \in Seq(Nat) /\ client[p] \in ClientType
         /\ client[p].out \in Seq(Nat) /\ wire[p] \o client[p].out \in Seq(Nat)
         /\ Sent(p) \in Seq(Nat) /\ Sent(p) = received[p] \o (wire[p] \o client[p].out)
         /\ client[p].buf \in Seq(Token) /\ stream[p] \in Seq(Token)
         /\ Input(p) \in Seq(Token) /\ frames[p] \in Nat
  <1>1. /\ received[p] \in Seq(Nat) /\ wire[p] \in Seq(Nat) /\ client[p] \in ClientType
        /\ stream[p] \in Seq(Token) /\ frames[p] \in Nat
    BY DEF TypeInv
  <1>2. client[p].out \in Seq(Nat) /\ client[p].buf \in Seq(Token)
    BY <1>1 DEF ClientType
  <1>3. PICK r, w, o : r = received[p] /\ w = wire[p] /\ o = client[p].out
    OBVIOUS
  <1>4. r \in Seq(Nat) /\ w \in Seq(Nat) /\ o \in Seq(Nat)
    BY <1>1, <1>2, <1>3
  <1>5. w \o o \in Seq(Nat) /\ r \o w \in Seq(Nat)
    BY <1>4, ConcatFacts
  <1>6. (r \o w) \o o \in Seq(Nat) /\ (r \o w) \o o = r \o (w \o o)
    BY <1>4, <1>5, ConcatFacts, ConcatAssociates, SMTT(30)
  <1>7. Input(p) \in Seq(Token)
    BY <1>1, <1>2, ConcatFacts DEF Input
  <1>8. QED BY <1>1, <1>2, <1>3, <1>5, <1>6, <1>7 DEF Sent

Moved(r, w, o, w2, o2, s) == (r \o w2) \o o2 = ((r \o w) \o o) \o s

\* Moving output to the wire and adding to it adds to what was said.
LEMMA ConcatMoved ==
  ASSUME NEW r \in Seq(Nat), NEW w \in Seq(Nat), NEW o \in Seq(Nat),
         NEW w2 \in Seq(Nat), NEW o2 \in Seq(Nat), NEW s \in Seq(Nat),
         NEW x, x = w \o o, w2 \o o2 = x \o s
  PROVE  Moved(r, w, o, w2, o2, s)
  <1>2. x \in Seq(Nat)
    BY NatJoins, Zenon
  <1>3. Joins(r, w2, o2) /\ Joins(r, w, o) /\ Joins(r, x, s)
    BY <1>2, NatJoins, Zenon
  <1>4. (r \o w2) \o o2 = r \o (w2 \o o2)
    BY <1>3 DEF Joins
  <1>5. (r \o w) \o o = r \o x
    BY <1>3 DEF Joins
  <1>6. (r \o x) \o s = r \o (x \o s)
    BY <1>3 DEF Joins
  <1>7. QED BY <1>4, <1>5, <1>6 DEF Moved

\* Nothing added to a sequence.
LEMMA ConcatNothing ==
  ASSUME NEW T, NEW s \in Seq(T)
  PROVE  s \o <<>> = s /\ <<>> \o s = s
  OBVIOUS

\* Adding one element is appending it.
LEMMA ConcatOne ==
  ASSUME NEW T, NEW s \in Seq(T), NEW x \in T
  PROVE  s \o <<x>> = Append(s, x)
  OBVIOUS

\* The output of p moves to the wire.
LEMMA SentStays ==
  ASSUME TypeInv, TypeInv', NEW p \in Peers, received'[p] = received[p],
         wire'[p] \o client'[p].out = wire[p] \o client[p].out
  PROVE  Sent(p)' = Sent(p)
  <1>1. PICK r, w, o, w2, o2 : /\ r = received[p] /\ w = wire[p] /\ o = client[p].out
                               /\ w2 = wire'[p] /\ o2 = client'[p].out
    OBVIOUS
  <1>2. /\ r \in Seq(Nat) /\ w \in Seq(Nat) /\ o \in Seq(Nat)
        /\ w2 \in Seq(Nat) /\ o2 \in Seq(Nat) /\ <<>> \in Seq(Nat)
    <2>1. /\ received[p] \in Seq(Nat) /\ wire[p] \in Seq(Nat) /\ client[p] \in ClientType
          /\ wire'[p] \in Seq(Nat) /\ client'[p] \in ClientType
      BY DEF TypeInv
    <2>2. client[p].out \in Seq(Nat) /\ client'[p].out \in Seq(Nat)
      BY <2>1 DEF ClientType
    <2>3. QED BY <1>1, <2>1, <2>2
  <1>3. w \o o \in Seq(Nat) /\ r \o w \in Seq(Nat)
    BY <1>2, ConcatFacts
  <1>4. (r \o w) \o o \in Seq(Nat)
    BY <1>2, <1>3, ConcatFacts
  <1>5. w2 \o o2 = (w \o o) \o <<>>
    BY <1>1, <1>3, ConcatNothing
  <1>6. (r \o w2) \o o2 = ((r \o w) \o o) \o <<>>
    <2>1. PICK x, z : x = w \o o /\ z = <<>>
      OBVIOUS
    <2>2. w2 \o o2 = x \o z /\ z \in Seq(Nat)
      BY <1>2, <1>5, <2>1
    <2>3. Moved(r, w, o, w2, o2, z)
      BY <1>2, <2>1, <2>2, ConcatMoved, Zenon
    <2>4. QED BY <2>1, <2>3 DEF Moved
  <1>7. (r \o w2) \o o2 = (r \o w) \o o
    BY <1>4, <1>6, ConcatNothing
  <1>8. QED BY <1>1, <1>7 DEF Sent

\* The message n is said, then the messages s.
LEMMA SentGrows ==
  ASSUME TypeInv, TypeInv', NEW p \in Peers, received'[p] = received[p],
         NEW n \in Nat, wire'[p] \o client'[p].out = Append(wire[p] \o client[p].out, n)
  PROVE  Sent(p)' = Append(Sent(p), n)
  <1>1. PICK r, w, o, w2, o2 : /\ r = received[p] /\ w = wire[p] /\ o = client[p].out
                               /\ w2 = wire'[p] /\ o2 = client'[p].out
    OBVIOUS
  <1>2. /\ r \in Seq(Nat) /\ w \in Seq(Nat) /\ o \in Seq(Nat)
        /\ w2 \in Seq(Nat) /\ o2 \in Seq(Nat) /\ <<n>> \in Seq(Nat)
    <2>1. /\ received[p] \in Seq(Nat) /\ wire[p] \in Seq(Nat) /\ client[p] \in ClientType
          /\ wire'[p] \in Seq(Nat) /\ client'[p] \in ClientType
      BY DEF TypeInv
    <2>2. client[p].out \in Seq(Nat) /\ client'[p].out \in Seq(Nat)
      BY <2>1 DEF ClientType
    <2>3. QED BY <1>1, <2>1, <2>2
  <1>3. w \o o \in Seq(Nat) /\ r \o w \in Seq(Nat)
    BY <1>2, ConcatFacts
  <1>4. (r \o w) \o o \in Seq(Nat)
    BY <1>2, <1>3, ConcatFacts
  <1>5. w2 \o o2 = (w \o o) \o <<n>>
    BY <1>1, <1>3, ConcatOne
  <1>6. (r \o w2) \o o2 = ((r \o w) \o o) \o <<n>>
    <2>1. PICK x, z : x = w \o o /\ z = <<n>>
      OBVIOUS
    <2>2. w2 \o o2 = x \o z /\ z \in Seq(Nat)
      BY <1>2, <1>5, <2>1
    <2>3. Moved(r, w, o, w2, o2, z)
      BY <1>2, <2>1, <2>2, ConcatMoved, Zenon
    <2>4. QED BY <2>1, <2>3 DEF Moved
  <1>7. (r \o w2) \o o2 = Append((r \o w) \o o, n)
    BY <1>4, <1>6, ConcatOne
  <1>8. QED BY <1>1, <1>7 DEF Sent


\* Another client p had its turn, and what was done in it is not q's.
LEMMA OthersReplies ==
  ASSUME TypeInv, Shape, NEW p, Current(p), NEW q \in Peers, q # p, ReplyOK(q),
         AtRest(q), incoming' = incoming \/ \E x \in [peer : Peers, frame : Frame] :
                              x.peer # q /\ incoming' = Append(incoming, x),
         poll'.ring = poll.ring,
         poll'.at = IF poll'.lines = <<>> THEN poll.at + 1 ELSE poll.at,
         \A d : d.peer = q => (d \in poll'.dead <=> d \in poll.dead)
  PROVE  ReplyOK(q)'
  <1>1. poll.ring[poll.at] = p
    BY DEF Current
  <1>2. Lines(q) = <<>> /\ Lines(q)' = <<>>
    BY <1>1 DEF Lines
  <1>3. (Dead(q)' <=> Dead(q)) /\ (Retiring(q)' <=> Retiring(q))
    BY DEF Dead, Retiring
  <1>4. ListAside(q)
    BY <1>2 DEF ListAside
  <1>5. Lines(q)' = Lines(q)
    BY <1>2
  <1>6. QED BY <1>3, <1>4, <1>5, ReplyStays, Zenon

\* A step of the server that keeps p and leaves its input alone.
LEMMA LiveKeeps ==
  ASSUME NEW p \in Peers, ReplyOK(p), conn[p] \in {"none", "pending", "open"},
         conn'[p] = conn[p], peer'[p] = peer[p], run'[p] = run[p],
         client'[p].buf = client[p].buf, stream'[p] = stream[p], ~Dead(p), ~Dead(p)',
         ~Gone(p) /\ Paired(Sent(p), client[p], incoming, p, Lines(p), Input(p), frames[p])
           => Paired(Sent(p), client[p], incoming, p, Lines(p), Input(p), frames[p])'
  PROVE  ReplyOK(p)'
  <1>1. (Gone(p)' <=> Gone(p)) /\ (Eof(p)' <=> Eof(p)) /\ Input(p)' = Input(p)
    BY DEF Gone, Eof, Input
  <1>2. ~Gone(p) => Live(p)
    BY DEF Live
  <1>3. ~Gone(p)' =>
          Paired(Sent(p), client[p], incoming, p, Lines(p), Input(p), frames[p])'
    BY <1>1, <1>2 DEF ReplyOK
  <1>4. ~Gone(p)' /\ ~Eof(p)' => (run'[p] > 0 <=> Unfinished(Input(p)'))
    BY <1>1, <1>2 DEF ReplyOK
  <1>5. QED BY <1>3, <1>4, LiveOK

\* The parser's turn with a line of p: nobody else is touched.
LEMMA ParsedLine ==
  ASSUME BaseInv, BaseInv', Replies, NEW p, NEW m, Parsing(p, m),
         poll' = WithLines(Tail(poll.lines)), NEW d, client' = [client EXCEPT ![p] = d],
         NEW w, wire' = [wire EXCEPT ![p] = w] \/ wire' = wire,
         UNCHANGED <<peerVars, conn, pc>>,
         incoming' = incoming \/ incoming' = Append(incoming, [peer |-> p, frame |-> m]),
         ReplyOK(p)'
  PROVE  Replies'
  <1>1. TypeInv /\ TypeInv' /\ Shape /\ Roll /\ \A q \in Peers : ReplyOK(q)
    BY DEF BaseInv, Replies
  <1>2. Current(p) /\ p \in Peers /\ m \in Frame
    BY DEF Parsing, Current
  <1>3. NextLine
    BY <1>1, NextLineFacts
  <1>4. UNCHANGED <<peer, stream, received, frames, run, longest, written, conn, pc>>
    BY DEF peerVars
  <1>5. PICK x : x = [peer |-> p, frame |-> m]
    OBVIOUS
  <1>6. /\ x \in [peer : Peers, frame : Frame] /\ x.peer = p
        /\ incoming' = incoming \/ incoming' = Append(incoming, x)
    BY <1>2, <1>5
  <1>7. /\ poll'.ring = poll.ring /\ poll'.dead = poll.dead
        /\ poll'.at = IF poll'.lines = <<>> THEN poll.at + 1 ELSE poll.at
    BY <1>3 DEF NextLine
  <1>8. Roll'
    <2>1. ASSUME NEW j \in 1..Len(incoming')
          PROVE  \/ incoming'[j].peer = p
                 \/ \E i \in 1..Len(incoming) : incoming'[j].peer = incoming[i].peer
      <3>1. PICK T : T = [peer : Peers, frame : Frame]
        OBVIOUS
      <3>2. incoming \in Seq(T) /\ x \in T
        BY <3>1, <1>1, <1>6 DEF TypeInv
      <3>3. (j \in 1..Len(incoming) /\ incoming'[j] = incoming[j]) \/ incoming'[j] = x
        BY <3>2, <1>6
      <3>4. QED BY <3>3, <1>6
    <2>2. \A e \in poll'.dead :
            e \in poll.dead \/ e.why \in {"overflowed", "retired", "failed", "backlogged"}
      BY <1>7
    <2>3. QED BY <2>1, <2>2, <1>1, <1>2, <1>4, <1>7, RollAdvances
  <1>9. ASSUME NEW q \in Peers, q # p PROVE ReplyOK(q)'
    <2>1. AtRest(q)
      BY <1>1, <1>2, <1>4, <1>9 DEF AtRest, TypeInv
    <2>2. incoming' = incoming \/ \E y \in [peer : Peers, frame : Frame] :
                                    y.peer # q /\ incoming' = Append(incoming, y)
      BY <1>6, <1>9
    <2>3. \A e : e.peer = q => (e \in poll'.dead <=> e \in poll.dead)
      BY <1>7
    <2>4. QED BY <2>1, <2>2, <2>3, <1>1, <1>2, <1>7, <1>9, OthersReplies
  <1>10. \A q \in Peers : ReplyOK(q)'
    BY <1>9
  <1>11. QED BY <1>8, <1>10 DEF Replies

\* The lines of the parser's client, before and after.
LEMMA ParsedLines ==
  ASSUME BaseInv, BaseInv', NEW p, NEW m, Parsing(p, m),
         poll' = WithLines(Tail(poll.lines)), pc' = pc
  PROVE  /\ ~Dead(p) /\ ~Dead(p)'
         /\ Lines(p) = poll.lines /\ Lines(p)' = Tail(poll.lines)
         /\ poll.lines \in Seq(Frame) /\ poll.lines # <<>> /\ m = Head(poll.lines)
         /\ m.n \in Nat /\ p \in Peers /\ conn[p] = "open"
  <1>1. TypeInv /\ Shape /\ Current(p) /\ p \in Peers /\ conn[p] = "open"
    BY DEF BaseInv, Parsing, Current
  <1>2. NextLine
    BY <1>1, NextLineFacts
  <1>3. ~Dead(p) /\ Lines(p) = poll.lines
    BY <1>1, FirstTurn
  <1>4. ~Dead(p)'
    BY <1>2, <1>3 DEF NextLine, Dead
  <1>5. Lines(p)' = Tail(poll.lines)
    BY <1>1, <1>2 DEF NextLine, Lines, Current
  <1>6. poll.lines \in Seq(Frame)
    BY <1>1 DEF TypeInv, PollType
  <1>7. m.n \in Nat /\ m = Head(poll.lines) /\ poll.lines # <<>>
    BY DEF Parsing, Frame
  <1>8. QED BY <1>1, <1>3, <1>4, <1>5, <1>6, <1>7

\* A parse error takes its turn among the replies.
LEMMA RepliesRejected ==
  ASSUME BaseInv, BaseInv', Replies, NEW p, NEW m, NEW r, NEW d, RejectedLine(p, m, r, d)
  PROVE  Replies'
  <1>1. TypeInv /\ TypeInv' /\ Roll /\ \A q \in Peers : ReplyOK(q)
    BY DEF BaseInv, Replies
  <1>2. /\ Parsing(p, m) /\ Rejected(client[p], m.n, wire[p], r)
        /\ wire' = [wire EXCEPT ![p] = r.wire]
        /\ poll' = WithLines(Tail(poll.lines))
        /\ UNCHANGED <<peerVars, conn, incoming, pc>>
        /\ client' = [client EXCEPT ![p] = d] /\ SameInput(r.client, d)
        /\ SameReplies(r.client, d)
    BY DEF RejectedLine, Served
  <1>3. UNCHANGED <<peer, stream, received, frames, run, conn, incoming, pc>>
    BY <1>2 DEF peerVars
  <1>4. /\ ~Dead(p) /\ ~Dead(p)'
        /\ Lines(p) = poll.lines /\ Lines(p)' = Tail(poll.lines)
        /\ poll.lines \in Seq(Frame) /\ poll.lines # <<>> /\ m = Head(poll.lines)
        /\ m.n \in Nat /\ p \in Peers /\ conn[p] = "open"
    BY <1>2, ParsedLines
  <1>5. client'[p] = d /\ wire'[p] = r.wire
    BY <1>1, <1>2, <1>4 DEF TypeInv
  <1>6. PICK c, n, ls, s, x, q, st :
          /\ c = client[p] /\ n = m.n /\ ls = poll.lines /\ s = Input(p) /\ x = frames[p]
          /\ q = incoming /\ st = Sent(p)
    OBVIOUS
  <1>7. /\ c \in ClientType /\ n \in Nat /\ ls \in Seq(Frame) /\ ls # <<>> /\ x \in Nat
        /\ n = Head(ls).n /\ st \in Seq(Nat)
    BY <1>1, <1>4, <1>6, SentTypes
  <1>8. /\ d.buf = c.buf /\ d.answered = c.answered /\ d.delivered = c.delivered
        /\ d.deferred = r.client.deferred /\ d.out = r.client.out
    BY <1>2, <1>6 DEF Rejected, SameInput, SameReplies
  <1>9. Input(p)' = s /\ frames'[p] = x /\ incoming' = q
    BY <1>3, <1>5, <1>6, <1>8 DEF Input
  <1>10. ASSUME Paired(st, c, q, p, ls, s, x)
         PROVE  Paired(Sent(p)', d, q, p, Tail(ls), s, x)
    <2>1. CASE c.answered = c.delivered /\ c.deferred = <<>>
      <3>1. r.client.deferred = c.deferred /\ r.wire \o r.client.out = Append(wire[p] \o c.out, n)
        BY <2>1, <1>2, <1>6 DEF Rejected
      <3>2. wire'[p] \o client'[p].out = Append(wire[p] \o client[p].out, n)
        BY <3>1, <1>5, <1>6, <1>8
      <3>3. Sent(p)' = Append(st, n)
        BY <3>2, <1>1, <1>3, <1>4, <1>6, <1>7, SentGrows
      <3>4. Paired(Append(st, n), c, q, p, Tail(ls), s, x)
        BY <2>1, <1>7, <1>10, PairedRejectNow, Zenon
      <3>5. SameTurns(c, d)
        BY <3>1, <1>8 DEF SameTurns
      <3>6. Paired(Append(st, n), d, q, p, Tail(ls), s, x)
        BY <3>4, <3>5, PairedSame, Zenon
      <3>7. QED BY <3>3, <3>6
    <2>2. CASE ~(c.answered = c.delivered /\ c.deferred = <<>>)
      <3>1. /\ d.deferred = Append(c.deferred, [due |-> c.delivered, n |-> n])
            /\ r.wire \o r.client.out = wire[p] \o c.out
        BY <2>2, <1>2, <1>6, <1>8 DEF Rejected
      <3>2. wire'[p] \o client'[p].out = wire[p] \o client[p].out
        BY <3>1, <1>5, <1>6, <1>8
      <3>3. Sent(p)' = st
        BY <3>2, <1>1, <1>3, <1>4, <1>6, SentStays
      <3>4. Paired(st, d, q, p, Tail(ls), s, x)
        BY <3>1, <2>2, <1>7, <1>8, <1>10, PairedRejectLater, Zenon
      <3>5. QED BY <3>3, <3>4
    <2>3. QED BY <2>1, <2>2
  <1>11. Paired(Sent(p), client[p], incoming, p, Lines(p), Input(p), frames[p])
           => Paired(Sent(p), client[p], incoming, p, Lines(p), Input(p), frames[p])'
    BY <1>4, <1>5, <1>6, <1>9, <1>10
  <1>12. ReplyOK(p)'
    BY <1>1, <1>3, <1>4, <1>5, <1>6, <1>8, <1>11, LiveKeeps
  <1>13. QED BY <1>2, <1>12, ParsedLine

\* A frame handed to the caller is the next to be answered.
LEMMA RepliesDelivered ==
  ASSUME BaseInv, BaseInv', Replies, NEW p, NEW m, NEW g, NEW d, DeliveredLine(p, m, g, d)
  PROVE  Replies'
  <1>1. TypeInv /\ TypeInv' /\ Roll /\ \A q \in Peers : ReplyOK(q)
    BY DEF BaseInv, Replies
  <1>2. /\ Parsing(p, m) /\ wire' = wire
        /\ poll' = WithLines(Tail(poll.lines))
        /\ incoming' = Append(incoming, [peer |-> p, frame |-> m])
        /\ UNCHANGED <<peerVars, conn, pc>>
        /\ client' = [client EXCEPT ![p] = d] /\ SameInput(g, d) /\ SameReplies(g, d)
    BY DEF DeliveredLine, Served
  <1>3. UNCHANGED <<peer, stream, received, frames, run, conn, pc>>
    BY <1>2 DEF peerVars
  <1>4. /\ ~Dead(p) /\ ~Dead(p)'
        /\ Lines(p) = poll.lines /\ Lines(p)' = Tail(poll.lines)
        /\ poll.lines \in Seq(Frame) /\ poll.lines # <<>> /\ m = Head(poll.lines)
        /\ m.n \in Nat /\ p \in Peers /\ conn[p] = "open"
    BY <1>2, ParsedLines
  <1>5. client'[p] = d /\ wire'[p] = wire[p]
    BY <1>1, <1>2, <1>4 DEF TypeInv
  <1>6. PICK c, x, ls, s, k, q, st, T :
          /\ c = client[p] /\ x = [peer |-> p, frame |-> m] /\ ls = poll.lines
          /\ s = Input(p) /\ k = frames[p] /\ q = incoming /\ st = Sent(p)
          /\ T = [peer : Peers, frame : Frame]
    OBVIOUS
  <1>7. /\ c \in ClientType /\ ls \in Seq(Frame) /\ ls # <<>> /\ k \in Nat /\ q \in Seq(T)
    BY <1>1, <1>4, <1>6, SentTypes DEF TypeInv
  <1>8. x \in T /\ x.peer = p /\ x.frame = m
    BY <1>2, <1>4, <1>6 DEF Parsing
  <1>9. x.frame.n \in Nat /\ x.frame.n = Head(ls).n
    BY <1>4, <1>6, <1>8
  <1>10. /\ d.buf = c.buf /\ d.answered = c.answered /\ d.delivered = c.delivered + 1
         /\ d.deferred = c.deferred /\ d.out = c.out
    BY <1>6 DEF DeliveredLine, Served, SameInput, SameReplies
  <1>11. Input(p)' = s /\ frames'[p] = k /\ incoming' = Append(q, x)
    BY <1>2, <1>3, <1>5, <1>6, <1>10 DEF Input
  <1>12. Sent(p)' = st
    BY <1>1, <1>3, <1>4, <1>5, <1>6, <1>10, SentStays
  <1>13. ASSUME Paired(st, c, q, p, ls, s, k)
         PROVE  Paired(st, d, Append(q, x), p, Tail(ls), s, k)
    BY <1>7, <1>8, <1>9, <1>10, <1>13, PairedDeliver, Zenon
  <1>14. Paired(Sent(p), client[p], incoming, p, Lines(p), Input(p), frames[p])
           => Paired(Sent(p), client[p], incoming, p, Lines(p), Input(p), frames[p])'
    BY <1>4, <1>5, <1>6, <1>11, <1>12, <1>13
  <1>15. ReplyOK(p)'
    BY <1>1, <1>3, <1>4, <1>5, <1>6, <1>10, <1>14, LiveKeeps
  <1>16. QED BY <1>2, <1>15, ParsedLine

\* A client's turn that ends in the poll's list or goes on with its lines: p
\* may be dead then, nobody else is touched.
LEMMA TurnTaken ==
  ASSUME BaseInv, BaseInv', Replies, NEW p, Current(p),
         NEW d, client' = [client EXCEPT ![p] = d], NEW w, wire' = [wire EXCEPT ![p] = w],
         NEW z, stream' = stream \/ stream' = [stream EXCEPT ![p] = z],
         UNCHANGED <<peer, received, frames, run, conn, incoming, pc>>,
         poll'.ring = poll.ring,
         poll'.at = IF poll'.lines = <<>> THEN poll.at + 1 ELSE poll.at,
         NEW X, poll'.dead = poll.dead \cup X,
         \A e \in X : /\ e.peer = p
                      /\ e.why \in {"overflowed", "retired", "failed", "backlogged"},
         ReplyOK(p)'
  PROVE  Replies'
  <1>1. TypeInv /\ TypeInv' /\ Shape /\ Roll /\ p \in Peers /\ \A q \in Peers : ReplyOK(q)
    BY DEF BaseInv, Replies, Current
  <1>2. Roll'
    <2>1. \A j \in 1..Len(incoming') :
            \/ incoming'[j].peer = p
            \/ \E i \in 1..Len(incoming) : incoming'[j].peer = incoming[i].peer
      OBVIOUS
    <2>2. \A e \in poll'.dead :
            e \in poll.dead \/ e.why \in {"overflowed", "retired", "failed", "backlogged"}
      OBVIOUS
    <2>3. QED BY <2>1, <2>2, <1>1, RollAdvances
  <1>3. ASSUME NEW q \in Peers, q # p PROVE ReplyOK(q)'
    <2>1. AtRest(q)
      BY <1>1, <1>3 DEF AtRest, TypeInv
    <2>2. \A e : e.peer = q => (e \in poll'.dead <=> e \in poll.dead)
      BY <1>3
    <2>3. QED BY <2>1, <2>2, <1>1, <1>3, OthersReplies
  <1>4. \A q \in Peers : ReplyOK(q)'
    BY <1>3
  <1>5. QED BY <1>2, <1>4 DEF Replies

\* At the head of its turn nothing of a client is on its way.
LEMMA FirstPaired ==
  ASSUME BaseInv, Replies, NEW p, Current(p), poll.lines = <<>>, ~Gone(p),
         NEW f, TurnFlush(p, f)
  PROVE  /\ Live(p) /\ Flushed(client[p], wire[p], f)
         /\ \A j \in 1..Len(incoming) : incoming[j].peer # p
         /\ Paired(Sent(p), client[p], incoming, p, <<>>, Input(p), frames[p])
  <1>1. TypeInv /\ Shape /\ Roll /\ p \in Peers /\ ReplyOK(p) /\ conn[p] = "open"
    BY DEF BaseInv, Replies, Current
  <1>2. /\ ~Dead(p) /\ Lines(p) = <<>>
        /\ \A j \in 1..Len(incoming) : incoming[j].peer # p
    BY <1>1, FirstTurn
  <1>3. Live(p)
    BY <1>1, <1>2 DEF Live
  <1>4. Paired(Sent(p), client[p], incoming, p, <<>>, Input(p), frames[p])
    BY <1>1, <1>2, <1>3 DEF ReplyOK
  <1>5. PICK c, q, st, s, m, T :
          /\ c = client[p] /\ q = incoming /\ st = Sent(p) /\ s = Input(p) /\ m = frames[p]
          /\ T = [peer : Peers, frame : Frame]
    OBVIOUS
  <1>6. /\ q \in Seq(T) /\ c \in ClientType /\ Paired(st, c, q, p, <<>>, s, m)
        /\ \A j \in 1..Len(q) : q[j].peer # p
    BY <1>1, <1>2, <1>4, <1>5 DEF TypeInv
  <1>7. c.deferred = <<>>
    BY <1>6, PairedNothing, Zenon
  <1>8. Flushed(client[p], wire[p], f)
    BY <1>5, <1>7 DEF TurnFlush
  <1>9. QED BY <1>2, <1>3, <1>4, <1>8

\* A turn that loses its client keeps the replies paired.
LEMMA RepliesLostTurn ==
  ASSUME BaseInv, BaseInv', Replies, NEW p, NEW f, NEW why, NEW n, LostTurn(p, f, why, n)
  PROVE  Replies'
  <1>1. TypeInv /\ TypeInv' /\ Shape /\ Roll /\ \A q \in Peers : ReplyOK(q)
    BY DEF BaseInv, Replies
  <1>2. /\ Current(p) /\ poll.lines = <<>> /\ TurnFlush(p, f)
        /\ n \in Nat /\ why \in {"failed", "backlogged"}
        /\ client' = [client EXCEPT ![p] = f.client]
        /\ wire' = [wire EXCEPT ![p] = f.wire]
        /\ poll' = [poll EXCEPT !.at = @ + 1, !.bytes = @ + n,
                                !.dead = @ \cup {[peer |-> p, why |-> why]}]
    BY DEF LostTurn
  <1>3. UNCHANGED <<peer, stream, received, frames, run, conn, incoming, pc>>
    BY DEF LostTurn, peerVars
  <1>4. p \in Peers /\ why \in {"failed", "backlogged"}
    BY <1>2 DEF Current, TurnFlush
  <1>5. PICK x : x = [peer |-> p, why |-> why]
    OBVIOUS
  <1>6. /\ poll'.ring = poll.ring /\ poll'.at = poll.at + 1 /\ poll'.lines = <<>>
        /\ poll'.dead = poll.dead \cup {x}
    <2>1. poll' = [poll EXCEPT !.at = @ + 1, !.bytes = @ + n, !.dead = @ \cup {x}]
      BY <1>2, <1>5
    <2>2. poll \in PollType
      BY <1>1 DEF TypeInv
    <2>3. QED BY <2>1, <2>2, <1>2 DEF PollType
  <1>7. x.peer = p /\ x.why \in {"failed", "backlogged"}
    BY <1>4, <1>5
  <1>8. client'[p] = f.client /\ wire'[p] = f.wire
    BY <1>1, <1>2, <1>4 DEF TypeInv
  <1>9. Dead(p)' /\ ~Retiring(p)' /\ conn'[p] # "retired"
    <2>1. ~Dead(p) /\ conn[p] = "open"
      BY <1>1, <1>2, FirstTurn DEF Current
    <2>2. QED BY <2>1, <1>3, <1>6, <1>7 DEF Dead, Retiring
  <1>10. ASSUME ~Gone(p)' PROVE \E k \in Nat : Ordered(Sent(p)', k)
    <2>1. ~Gone(p)
      BY <1>3, <1>10 DEF Gone
    <2>2. Live(p) /\ Flushed(client[p], wire[p], f)
      BY <2>1, <1>2, FirstPaired
    <2>3. wire'[p] \o client'[p].out = wire[p] \o client[p].out
      BY <2>2, <1>8 DEF Flushed
    <2>4. Sent(p)' = Sent(p)
      BY <2>3, <1>1, <1>3, <1>4, SentStays
    <2>5. QED BY <2>1, <2>4, <1>1, <1>4 DEF ReplyOK
  <1>11. ReplyOK(p)'
    BY <1>4, <1>9, <1>10, LostOK
  <1>12. \A e \in {x} : /\ e.peer = p
                        /\ e.why \in {"overflowed", "retired", "failed", "backlogged"}
    BY <1>7
  <1>13. poll'.at = IF poll'.lines = <<>> THEN poll.at + 1 ELSE poll.at
    BY <1>6
  <1>14. stream' = stream /\ UNCHANGED <<peer, received, frames, run, conn, incoming, pc>>
    BY <1>3
  <1>15. PICK X : X = {x}
    OBVIOUS
  <1>16. /\ poll'.dead = poll.dead \cup X
         /\ \A e \in X : /\ e.peer = p
                         /\ e.why \in {"overflowed", "retired", "failed", "backlogged"}
    BY <1>6, <1>12, <1>15
  <1>17. QED BY <1>2, <1>6, <1>11, <1>13, <1>14, <1>16, TurnTaken

\* The poll after a read.
LEMMA PolledPoll ==
  ASSUME BaseInv, NEW p, NEW f, NEW r, NEW d, PolledClient(p, f, r, d)
  PROVE  /\ poll'.ring = poll.ring /\ poll'.lines = r.frames
         /\ poll'.at = IF poll'.lines = <<>> THEN poll.at + 1 ELSE poll.at
         /\ poll'.dead = poll.dead \cup Casualty(p, Fatal(r))
         /\ \A e \in Casualty(p, Fatal(r)) :
              /\ e.peer = p /\ e.why = Fatal(r)
              /\ e.why \in {"overflowed", "retired", "failed", "backlogged"}
         /\ Fatal(r) # "none" => Casualty(p, Fatal(r)) # {}
         /\ Fatal(r) = "none" => Casualty(p, Fatal(r)) = {}
  <1>1. TypeInv /\ ReadTook(f.client, stream[p], Eof(p), r)
    BY DEF BaseInv, PolledClient
  <1>2. poll' = [poll EXCEPT !.lines = r.frames,
                             !.at = IF r.frames = <<>> THEN poll.at + 1 ELSE poll.at,
                             !.messages = @ + Len(r.frames),
                             !.bytes = @ + r.bytes,
                             !.dead = @ \cup Casualty(p, Fatal(r))]
    BY DEF PolledClient
  <1>3. PICK x, y : x = Casualty(p, y) /\ y = Fatal(r)
    OBVIOUS
  <1>4. PICK fs, at, n, b : /\ fs = r.frames /\ n = Len(r.frames) /\ b = r.bytes
                            /\ at = IF r.frames = <<>> THEN poll.at + 1 ELSE poll.at
    OBVIOUS
  <1>5. poll' = [poll EXCEPT !.lines = fs, !.at = at, !.messages = @ + n,
                             !.bytes = @ + b, !.dead = @ \cup x]
    BY <1>2, <1>3, <1>4
  <1>6. poll \in PollType
    BY <1>1 DEF TypeInv
  <1>7. /\ poll'.ring = poll.ring /\ poll'.at = at /\ poll'.lines = fs
        /\ poll'.dead = poll.dead \cup x
    BY <1>5, <1>6 DEF PollType
  <1>8. y \in {"overflowed", "retired", "none"}
    <2>1. r.error \in {"none", "eof", "overflow"}
      BY <1>1 DEF ReadTook
    <2>2. QED BY <2>1, <1>3, FatalFacts
  <1>9. /\ \A e \in x : e.peer = p /\ e.why = y /\ e.why # "none"
        /\ y # "none" => x # {}
        /\ y = "none" => x = {}
    <2>1. PICK e : e = [peer |-> p, why |-> y]
      OBVIOUS
    <2>2. x = {v \in {e} : y # "none"} /\ e.peer = p /\ e.why = y
      BY <2>1, <1>3 DEF Casualty
    <2>3. QED BY <2>2
  <1>10. QED BY <1>3, <1>4, <1>7, <1>8, <1>9

\* The input of a client that is read, and its replies.
LEMMA PolledReplies ==
  ASSUME BaseInv, NEW p, NEW f, NEW r, NEW d, PolledClient(p, f, r, d)
  PROVE  /\ client'[p] = d /\ wire'[p] = f.wire /\ d.out = f.client.out
         /\ SameTurns(f.client, d) /\ d.read_closed = r.client.read_closed
         /\ d.buf = r.client.buf /\ r.client.out = d.out
         /\ Input(p)' = r.client.buf \o Suffix(stream[p], r.bytes)
         /\ Input(p) = f.client.buf \o stream[p]
  <1>1. /\ TypeInv /\ ReadTook(f.client, stream[p], Eof(p), r) /\ TurnFlush(p, f)
        /\ Served(p, r.client, r.frames, d) /\ p \in Peers
        /\ wire' = [wire EXCEPT ![p] = f.wire]
        /\ stream' = [stream EXCEPT ![p] = Suffix(stream[p], r.bytes)]
    BY DEF BaseInv, PolledClient, Current
  <1>2. /\ client' = [client EXCEPT ![p] = d] /\ d.buf = r.client.buf
        /\ d.read_closed = r.client.read_closed /\ SameReplies(r.client, d)
    BY <1>1 DEF Served, SameInput
  <1>3. /\ client'[p] = d /\ wire'[p] = f.wire
        /\ stream'[p] = Suffix(stream[p], r.bytes)
    BY <1>1, <1>2 DEF TypeInv
  <1>4. f.client \in ClientType /\ f.client.buf = client[p].buf
    BY <1>1 DEF TurnFlush, SameInput
  <1>5. /\ r.client.answered = f.client.answered /\ r.client.delivered = f.client.delivered
        /\ r.client.deferred = f.client.deferred /\ r.client.out = f.client.out
    <2>1. PICK c, x, y, z : /\ c = r.client /\ x = r.client.buf /\ y = r.client.scan
                            /\ z = r.client.read_closed
      OBVIOUS
    <2>2. c = [f.client EXCEPT !.buf = x, !.scan = y, !.read_closed = z]
      BY <2>1, <1>1 DEF ReadTook
    <2>3. /\ c.answered = f.client.answered /\ c.delivered = f.client.delivered
          /\ c.deferred = f.client.deferred /\ c.out = f.client.out
      BY <2>2, <1>4 DEF ClientType
    <2>4. QED BY <2>1, <2>3
  <1>6. SameTurns(f.client, d) /\ d.out = f.client.out /\ r.client.out = d.out
    BY <1>2, <1>5 DEF SameReplies, SameTurns
  <1>7. Input(p)' = r.client.buf \o Suffix(stream[p], r.bytes)
        /\ Input(p) = f.client.buf \o stream[p]
    BY <1>2, <1>3, <1>4 DEF Input
  <1>8. QED BY <1>2, <1>3, <1>6, <1>7

\* A turn reads the next frames of its client; one is retired when all its
\* frames have replies.
LEMMA RepliesPolled ==
  ASSUME BaseInv, BaseInv', Replies, NEW p, NEW f, NEW r, NEW d, PolledClient(p, f, r, d)
  PROVE  Replies'
  <1>1. /\ TypeInv /\ TypeInv' /\ Shape /\ ClientOK(p)' /\ p \in Peers /\ ReplyOK(p)
        /\ conn[p] = "open"
    BY DEF BaseInv, Replies, PolledClient, Current
  <1>2. /\ Current(p) /\ poll.lines = <<>> /\ TurnFlush(p, f)
        /\ ReadTook(f.client, stream[p], Eof(p), r)
        /\ client' = [client EXCEPT ![p] = d] /\ wire' = [wire EXCEPT ![p] = f.wire]
        /\ stream' = [stream EXCEPT ![p] = Suffix(stream[p], r.bytes)]
    BY DEF PolledClient, Served
  <1>3. UNCHANGED <<peer, received, frames, run, conn, incoming, pc>>
    BY DEF PolledClient
  <1>4. PICK X, y : y = Fatal(r) /\ X = Casualty(p, y)
    OBVIOUS
  <1>5. /\ poll'.ring = poll.ring /\ poll'.lines = r.frames
        /\ poll'.at = IF poll'.lines = <<>> THEN poll.at + 1 ELSE poll.at
        /\ poll'.dead = poll.dead \cup X
        /\ \A e \in X : /\ e.peer = p /\ e.why = y
                        /\ e.why \in {"overflowed", "retired", "failed", "backlogged"}
        /\ y # "none" => X # {}
        /\ y = "none" => X = {}
    BY <1>4, PolledPoll
  <1>6. /\ client'[p] = d /\ wire'[p] = f.wire /\ d.out = f.client.out
        /\ SameTurns(f.client, d) /\ d.read_closed = r.client.read_closed
        /\ d.buf = r.client.buf /\ r.client.out = d.out
        /\ Input(p)' = r.client.buf \o Suffix(stream[p], r.bytes)
        /\ Input(p) = f.client.buf \o stream[p]
    BY PolledReplies
  <1>7. PICK s, t, q, T, st, m : /\ s = Input(p) /\ t = Input(p)' /\ q = incoming
                                 /\ T = [peer : Peers, frame : Frame]
                                 /\ st = Sent(p) /\ m = frames[p]
    OBVIOUS
  <1>8. /\ r.frames \in Seq(Frame) /\ r.error \in {"none", "eof", "overflow"}
        /\ r.error # "none" => r.frames = <<>>
        /\ r.error = "eof" => r.client.read_closed /\ r.client.buf = <<>>
        /\ r.client.read_closed => Suffix(stream[p], r.bytes) = <<>>
        /\ r.error # "overflow" => Took(s, t, r.frames)
        /\ \E k \in 0..Len(s) : t = Suffix(s, k)
        /\ ~r.client.read_closed /\ r.error # "overflow" => (Unfinished(s) => Unfinished(t))
    BY <1>2, <1>6, <1>7 DEF ReadTook
  <1>9. s \in Seq(Token) /\ q \in Seq(T) /\ m \in Nat /\ client[p] \in ClientType
    BY <1>1, <1>7, SentTypes DEF TypeInv
  <1>10. r.client.read_closed => Eof(p)'
    BY <1>1, <1>6 DEF ClientOK
  <1>11. (Gone(p)' <=> Gone(p)) /\ (Eof(p)' <=> Eof(p))
    BY <1>3 DEF Gone, Eof
  <1>12. /\ y \in {"overflowed", "retired", "none"}
         /\ y = "overflowed" <=> r.error = "overflow"
         /\ y = "retired" => r.error = "eof" /\ r.client.out = <<>>
    BY <1>4, <1>8, FatalFacts
  <1>13. /\ Dead(p)' <=> y # "none"
         /\ Retiring(p)' <=> y = "retired"
    <2>1. ~Dead(p)
      BY <1>1, <1>2, FirstTurn
    <2>2. QED BY <2>1, <1>5, <1>12 DEF Dead, Retiring
  <1>14. ASSUME ~Gone(p)
         PROVE  /\ Sent(p)' = st /\ Live(p) /\ SameTurns(client[p], d)
                /\ \A j \in 1..Len(q) : q[j].peer # p
                /\ Paired(st, client[p], q, p, <<>>, s, m)
    <2>1. /\ Live(p) /\ Flushed(client[p], wire[p], f)
          /\ \A j \in 1..Len(incoming) : incoming[j].peer # p
          /\ Paired(Sent(p), client[p], incoming, p, <<>>, Input(p), frames[p])
      BY <1>2, <1>14, FirstPaired
    <2>2. wire'[p] \o client'[p].out = wire[p] \o client[p].out
      BY <2>1, <1>6 DEF Flushed
    <2>3. Sent(p)' = st
      BY <2>2, <1>1, <1>3, <1>7, SentStays
    <2>4. SameTurns(client[p], d)
      <3>1. PICK c, w : c = client[p] /\ w = wire[p]
        OBVIOUS
      <3>2. /\ f.client.answered = c.answered /\ f.client.delivered = c.delivered
            /\ f.client.deferred = c.deferred
        BY <3>1, <2>1, <1>9, FlushKeeps
      <3>3. QED BY <3>1, <3>2, <1>6 DEF SameTurns
    <2>5. QED BY <2>1, <2>3, <2>4, <1>7
  <1>15. ASSUME ~Gone(p), r.error # "overflow"
         PROVE  Paired(st, client[p], q, p, r.frames, t, m)
    <2>1. PICK c, fs : c = client[p] /\ fs = r.frames
      OBVIOUS
    <2>2. /\ \A j \in 1..Len(q) : q[j].peer # p
          /\ Paired(st, c, q, p, <<>>, s, m) /\ c \in ClientType /\ Took(s, t, fs)
          /\ fs \in Seq(Frame)
      BY <2>1, <1>8, <1>9, <1>14, <1>15
    <2>3. Paired(st, c, q, p, fs, t, m)
      BY <2>2, <1>9, PairedRead, Zenon
    <2>4. QED BY <2>1, <2>3
  <1>16. ASSUME ~Gone(p) PROVE \E k \in Nat : Ordered(Sent(p)', k)
    BY <1>1, <1>7, <1>14, <1>16 DEF ReplyOK
  <1>17. ASSUME y = "overflowed" PROVE ReplyOK(p)'
    BY <1>1, <1>3, <1>11, <1>12, <1>13, <1>16, <1>17, LostOK
  <1>18. ASSUME y = "retired" PROVE ReplyOK(p)'
    <2>1. ASSUME ~Gone(p) PROVE Ordered(Sent(p)', m) /\ client'[p].out = <<>> /\ Eof(p)'
      <3>1. /\ r.error = "eof" /\ r.client.read_closed /\ r.client.buf = <<>>
            /\ Suffix(stream[p], r.bytes) = <<>> /\ r.frames = <<>>
        BY <1>8, <1>12, <1>18
      <3>2. t = <<>>
        BY <3>1, <1>6, <1>7
      <3>3. Paired(st, client[p], q, p, <<>>, <<>>, m)
        BY <3>1, <3>2, <1>15, <2>1
      <3>4. PICK c : c = client[p]
        OBVIOUS
      <3>5. /\ Paired(st, c, q, p, <<>>, <<>>, m) /\ c \in ClientType
            /\ \A j \in 1..Len(q) : q[j].peer # p
        BY <3>3, <3>4, <1>9, <1>14, <2>1
      <3>6. Ordered(st, m)
        BY <3>5, <1>9, PairedDone, Zenon
      <3>7. QED BY <3>1, <3>6, <1>6, <1>10, <1>12, <1>14, <1>18, <2>1
    <2>2. frames'[p] = m /\ conn'[p] # "retired"
      BY <1>1, <1>3, <1>7
    <2>3. QED BY <2>1, <2>2, <1>9, <1>11, <1>13, <1>16, <1>18 DEF ReplyOK, Live
  <1>19. ASSUME y = "none" PROVE ReplyOK(p)'
    <2>1. Lines(p)' = r.frames
      <3>1. poll.ring[poll.at] = p
        BY <1>2 DEF Current
      <3>2. QED BY <3>1, <1>5 DEF Lines
    <2>2. ASSUME ~Gone(p)
          PROVE  Paired(Sent(p), client[p], incoming, p, Lines(p), Input(p), frames[p])'
      <3>1. PICK c, fs : c = client[p] /\ fs = r.frames
        OBVIOUS
      <3>2. Paired(st, c, q, p, fs, t, m) /\ SameTurns(c, d)
        BY <3>1, <1>12, <1>14, <1>15, <1>19, <2>2
      <3>3. Paired(st, d, q, p, fs, t, m)
        BY <3>2, PairedSame, Zenon
      <3>4. /\ Sent(p)' = st /\ client'[p] = d /\ incoming' = q /\ Lines(p)' = fs
            /\ Input(p)' = t /\ frames'[p] = m
        BY <3>1, <2>1, <2>2, <1>3, <1>6, <1>7, <1>14
      <3>5. QED BY <3>3, <3>4
    <2>3. ASSUME ~Gone(p), ~Eof(p) PROVE run'[p] > 0 <=> Unfinished(t)
      <3>1. ~r.client.read_closed /\ r.error # "overflow"
        BY <1>10, <1>11, <1>12, <1>19, <2>3
      <3>2. Unfinished(s) => Unfinished(t)
        BY <3>1, <1>8
      <3>3. Unfinished(t) => Unfinished(s)
        <4>1. PICK k \in 0..Len(s) : t = Suffix(s, k)
          BY <1>8
        <4>2. QED BY <4>1, <1>9, UnfinishedSuffix
      <3>4. run[p] > 0 <=> Unfinished(s)
        BY <1>1, <1>7, <1>14, <2>3 DEF ReplyOK
      <3>5. QED BY <3>2, <3>3, <3>4, <1>3
    <2>4. ~Dead(p)' /\ conn'[p] = "open"
      BY <1>1, <1>3, <1>13, <1>19
    <2>5. QED BY <2>2, <2>3, <2>4, <1>1, <1>7, <1>11, LiveOK
  <1>20. ReplyOK(p)'
    BY <1>12, <1>17, <1>18, <1>19
  <1>21. \A e \in X : /\ e.peer = p
                      /\ e.why \in {"overflowed", "retired", "failed", "backlogged"}
    BY <1>5
  <1>22. QED BY <1>2, <1>3, <1>5, <1>20, <1>21, TurnTaken

\* Who left keeps what was said to it; the output that was not flushed is lost.
LEMMA SaidIsOrdered ==
  ASSUME TypeInv, NEW q \in Peers, NEW k \in Nat, Ordered(Sent(q), k)
  PROVE  \E j \in Nat : Ordered(received[q] \o wire[q], j)
  <1>1. PICK r, w, o : r = received[q] /\ w = wire[q] /\ o = client[q].out
    OBVIOUS
  <1>2. r \in Seq(Nat) /\ w \in Seq(Nat) /\ o \in Seq(Nat)
    BY <1>1, SentTypes
  <1>3. PICK z : z = r \o w
    OBVIOUS
  <1>4. z \in Seq(Nat)
    BY <1>2, <1>3, NatJoins, Zenon
  <1>5. Ordered(z \o o, k)
    BY <1>1, <1>3 DEF Sent
  <1>6. PICK j \in 0..k : Ordered(z, j)
    BY <1>2, <1>4, <1>5, OrderedPrefix, Zenon
  <1>7. j \in Nat
    BY <1>6
  <1>8. QED BY <1>1, <1>3, <1>6, <1>7

\* What was said to a client that was removed is what reached the socket.
LEMMA SentEnded ==
  ASSUME TypeInv, NEW q \in Peers, client'[q] = NewClient, received'[q] = received[q],
         wire'[q] = wire[q]
  PROVE  Sent(q)' = received[q] \o wire[q]
  <1>1. client'[q].out = <<>>
    BY NewClientFacts
  <1>2. PICK r, w : r = received[q] /\ w = wire[q]
    OBVIOUS
  <1>3. r \in Seq(Nat) /\ w \in Seq(Nat)
    BY <1>2, SentTypes
  <1>4. PICK z : z = r \o w
    OBVIOUS
  <1>5. z \in Seq(Nat)
    BY <1>3, <1>4, NatJoins, Zenon
  <1>6. z \o <<>> = z
    BY <1>5, ConcatNothing
  <1>7. QED BY <1>1, <1>2, <1>4, <1>6 DEF Sent

\* The end of a poll removes clients with their replies in order.
LEMMA RepliesEnded ==
  ASSUME BaseInv, BaseInv', Replies, NEW why, EndedPoll(why)
  PROVE  Replies'
  <1>1. TypeInv /\ TypeInv' /\ Shape' /\ Roll /\ \A q \in Peers : ReplyOK(q)
    BY DEF BaseInv, Replies
  <1>2. /\ pc = "poll" /\ poll.lines = <<>> /\ DOMAIN why = {d.peer : d \in poll.dead}
        /\ \A p \in DOMAIN why : \E d \in poll.dead : d.peer = p /\ why[p] = d.why
        /\ conn' = [p \in Peers |-> IF p \in DOMAIN why THEN why[p] ELSE conn[p]]
        /\ stream' = [p \in Peers |-> IF p \in DOMAIN why THEN <<>> ELSE stream[p]]
        /\ client' = [p \in Peers |-> IF p \in DOMAIN why THEN NewClient ELSE client[p]]
        /\ pc' = IF incoming = <<>> THEN "idle" ELSE "respond"
    BY DEF EndedPoll
  <1>3. UNCHANGED <<peer, received, frames, run, wire, incoming>>
    BY DEF EndedPoll
  <1>4. pc' # "poll" /\ poll'.lines = <<>> /\ poll'.dead = {}
    BY <1>1, <1>2 DEF Shape
  <1>5. Roll'
    BY <1>4 DEF Roll
  <1>6. ASSUME NEW q \in Peers PROVE ReplyOK(q)'
    <2>1. ~Dead(q)' /\ ~Retiring(q)' /\ (Gone(q)' <=> Gone(q))
      BY <1>3, <1>4 DEF Dead, Retiring, Gone
    <2>2. CASE q \in DOMAIN why
      <3>1. PICK e \in poll.dead : e.peer = q /\ why[q] = e.why
        BY <2>2, <1>2
      <3>2. /\ conn'[q] = e.why /\ client'[q] = NewClient
            /\ e.why \in {"overflowed", "retired", "failed", "backlogged"}
        BY <2>2, <3>1, <1>1, <1>2 DEF Roll
      <3>3. Sent(q)' = received[q] \o wire[q]
        BY <3>2, <1>1, <1>3, SentEnded
      <3>4. ASSUME ~Gone(q) PROVE \E k \in Nat : Ordered(Sent(q)', k)
        <4>1. PICK k \in Nat : Ordered(Sent(q), k)
          BY <3>4, <1>1 DEF ReplyOK
        <4>2. QED BY <4>1, <3>3, <1>1, SaidIsOrdered
      <3>5. CASE e.why = "retired"
        <4>1. Retiring(q)
          BY <3>1, <3>5 DEF Retiring
        <4>2. ASSUME ~Gone(q) PROVE Ordered(Sent(q)', frames'[q])
          <5>1. Ordered(Sent(q), frames[q]) /\ client[q].out = <<>>
            BY <4>1, <4>2, <1>1 DEF ReplyOK
          <5>2. Sent(q)' = Sent(q)
            <6>1. wire'[q] \o client'[q].out = wire[q] \o client[q].out
              BY <5>1, <3>2, <1>3, NewClientFacts
            <6>2. QED BY <6>1, <1>1, <1>3, SentStays
          <5>3. QED BY <5>1, <5>2, <1>3
        <4>3. QED BY <4>2, <3>2, <3>4, <2>1 DEF ReplyOK, Live
      <3>6. CASE e.why # "retired"
        BY <3>2, <3>4, <3>6, <2>1, LostOK
      <3>7. QED BY <3>5, <3>6
    <2>3. CASE q \notin DOMAIN why
      <3>1. AtRest(q)
        BY <2>3, <1>2, <1>3 DEF AtRest
      <3>2. ~Dead(q) /\ ~Retiring(q)
        BY <2>3, <1>2 DEF Dead, Retiring
      <3>3. Lines(q)' = Lines(q)
        BY <1>2, <1>4 DEF Lines
      <3>4. ListAside(q)
        BY <1>3 DEF ListAside
      <3>5. QED BY <3>1, <3>2, <3>3, <3>4, <2>1, <1>1, ReplyStays
    <2>4. QED BY <2>2, <2>3
  <1>7. QED BY <1>5, <1>6 DEF Replies

\* A client just accepted starts with nothing said.
LEMMA RepliesStarted ==
  ASSUME BaseInv, BaseInv', Replies, NEW open, StartedPoll(open)
  PROVE  Replies'
  <1>1. TypeInv /\ Shape /\ \A q \in Peers : ReplyOK(q)
    BY DEF BaseInv, Replies
  <1>2. /\ pc = "idle"
        /\ \A p \in Peers : \/ conn'[p] = conn[p]
                            \/ conn[p] = "pending" /\ conn'[p] \in {"open", "refused"}
        /\ poll' = [NoPoll EXCEPT !.ring = Ring(open)]
        /\ stream' = [p \in Peers |-> IF conn'[p] = "refused" THEN <<>> ELSE stream[p]]
        /\ UNCHANGED <<peer, received, frames, run, wire, client, incoming>>
    BY DEF StartedPoll
  <1>3. incoming = <<>> /\ poll.lines = <<>> /\ poll.dead = {}
    BY <1>1, <1>2 DEF Shape
  <1>4. poll'.lines = <<>> /\ poll'.dead = {}
    <2>1. PICK x : x = Ring(open)
      OBVIOUS
    <2>2. poll' = [NoPoll EXCEPT !.ring = x]
      BY <2>1, <1>2
    <2>3. QED BY <2>2 DEF NoPoll
  <1>5. Roll'
    <2>1. Len(incoming') = 0
      BY <1>2, <1>3
    <2>2. QED BY <2>1, <1>4 DEF Roll
  <1>6. ASSUME NEW q \in Peers PROVE ReplyOK(q)'
    <2>1. /\ Sent(q)' = Sent(q) /\ (Gone(q)' <=> Gone(q)) /\ (Eof(q)' <=> Eof(q))
          /\ Lines(q)' = Lines(q) /\ ~Dead(q)' /\ ~Retiring(q)' /\ ~Dead(q)
      BY <1>2, <1>3, <1>4 DEF Sent, Gone, Eof, Lines, Dead, Retiring
    <2>2. conn'[q] = "retired" => conn[q] = "retired"
      BY <1>2
    <2>3. Live(q)' => Live(q) /\ Input(q)' = Input(q)
      BY <2>1, <1>2 DEF Live, Input
    <2>4. QED BY <2>1, <2>2, <2>3, <1>1, <1>2 DEF ReplyOK
  <1>7. QED BY <1>5, <1>6 DEF Replies

\* A client whose message is the caller's oldest waits for its reply.
LEMMA PairedOwes ==
  ASSUME NEW T, NEW q \in Seq(T), q # <<>>, NEW p, q[1].peer = p,
         NEW sent, NEW c \in ClientType, NEW lines, NEW s, NEW m,
         Paired(sent, c, q, p, lines, s, m)
  PROVE  c.delivered # c.answered
  <1>1. PICK k \in Nat, held \in Seq(Nat), b \in Nat :
          /\ c.delivered = c.answered + Len(held) /\ Block(q, p, held, b)
    BY DEF Paired
  <1>2. Len(held) > 0
    BY <1>1, BlockFirst, Zenon
  <1>3. c.answered \in Nat /\ Len(held) \in Nat
    BY TurnTypes
  <1>4. QED BY <1>1, <1>2, <1>3

\* While the caller answers no poll goes on.
LEMMA AnsweringFacts ==
  ASSUME BaseInv, Replies, NEW m, Answering(m)
  PROVE  /\ Roll' /\ poll' = poll /\ poll.lines = <<>> /\ poll.dead = {}
         /\ m.peer \in Peers /\ incoming # <<>> /\ incoming[1] = m
         /\ incoming \in Seq([peer : Peers, frame : Frame])
         /\ \A q \in Peers : /\ ~Dead(q) /\ ~Dead(q)' /\ ~Retiring(q) /\ ~Retiring(q)'
                             /\ Lines(q) = <<>> /\ Lines(q)' = <<>>
                             /\ (q # m.peer => ListAside(q))
  <1>1. TypeInv /\ Shape /\ Roll
    BY DEF BaseInv, Replies
  <1>2. /\ pc = "respond" /\ incoming # <<>> /\ m = Head(incoming) /\ poll' = poll
        /\ m \in [peer : Peers, frame : Frame] /\ incoming' = Tail(incoming)
        /\ pc' \in {"idle", "respond"}
    BY DEF Answering
  <1>3. poll.lines = <<>> /\ poll.dead = {}
    BY <1>1, <1>2 DEF Shape
  <1>4. Roll'
    BY <1>2, <1>3 DEF Roll
  <1>5. incoming \in Seq([peer : Peers, frame : Frame])
    BY <1>1 DEF TypeInv
  <1>6. incoming[1] = m /\ m.peer \in Peers
    BY <1>2, <1>5
  <1>7. ASSUME NEW q \in Peers
        PROVE  /\ ~Dead(q) /\ ~Dead(q)' /\ ~Retiring(q) /\ ~Retiring(q)'
               /\ Lines(q) = <<>> /\ Lines(q)' = <<>>
               /\ (q # m.peer => ListAside(q))
    <2>1. /\ ~Dead(q) /\ ~Dead(q)' /\ ~Retiring(q) /\ ~Retiring(q)'
          /\ Lines(q) = <<>> /\ Lines(q)' = <<>>
      BY <1>2, <1>3 DEF Dead, Retiring, Lines
    <2>2. q # m.peer => ListAside(q)
      BY <2>1, <1>2, <1>6 DEF ListAside
    <2>3. QED BY <2>1, <2>2
  <1>8. QED BY <1>2, <1>3, <1>4, <1>5, <1>6, <1>7

\* Dropping the reply to a client that is gone concerns no other client.
LEMMA RepliesUnanswered ==
  ASSUME BaseInv, BaseInv', Replies, NEW m, Unanswered(m)
  PROVE  Replies'
  <1>1. TypeInv /\ \A q \in Peers : ReplyOK(q) /\ ClientOK(q)
    BY DEF BaseInv, Replies
  <1>2. /\ Answering(m) /\ conn[m.peer] # "open"
        /\ UNCHANGED <<peer, received, frames, run, conn, stream, client, wire>>
    BY DEF Unanswered, Answering
  <1>3. /\ Roll' /\ m.peer \in Peers /\ incoming # <<>> /\ incoming[1] = m
        /\ incoming \in Seq([peer : Peers, frame : Frame])
        /\ \A q \in Peers : /\ ~Dead(q) /\ ~Dead(q)' /\ ~Retiring(q) /\ ~Retiring(q)'
                            /\ Lines(q) = <<>> /\ Lines(q)' = <<>>
                            /\ (q # m.peer => ListAside(q))
    BY <1>2, AnsweringFacts
  <1>4. ASSUME NEW q \in Peers, q # m.peer PROVE ReplyOK(q)'
    <2>1. AtRest(q)
      BY <1>2 DEF AtRest
    <2>2. QED BY <2>1, <1>1, <1>3, <1>4, ReplyStays
  <1>5. ASSUME NEW q \in Peers, q = m.peer PROVE ReplyOK(q)'
    <2>1. ~Live(q)
      <3>1. SUFFICES ASSUME Live(q) PROVE FALSE
        OBVIOUS
      <3>2. PICK c, z, st, ls, s, x, T :
              /\ c = client[q] /\ z = incoming /\ st = Sent(q) /\ ls = Lines(q)
              /\ s = Input(q) /\ x = frames[q] /\ T = [peer : Peers, frame : Frame]
        OBVIOUS
      <3>3. Paired(st, c, z, q, ls, s, x)
        BY <3>1, <3>2, <1>1 DEF ReplyOK
      <3>4. z \in Seq(T) /\ z # <<>> /\ z[1].peer = q /\ c \in ClientType
        BY <3>2, <1>1, <1>3, <1>5 DEF TypeInv
      <3>5. c.delivered # c.answered
        BY <3>3, <3>4, PairedOwes, Zenon
      <3>6. c = NewClient
        BY <3>2, <1>1, <1>2, <1>5 DEF ClientOK
      <3>7. QED BY <3>5, <3>6, NewClientFacts
    <2>2. ~Live(q)' /\ Sent(q)' = Sent(q) /\ (Gone(q)' <=> Gone(q))
      BY <2>1, <1>2, <1>3 DEF Live, Sent, Gone
    <2>3. QED BY <2>2, <1>1, <1>2, <1>3 DEF ReplyOK
  <1>6. \A q \in Peers : ReplyOK(q)'
    BY <1>4, <1>5
  <1>7. QED BY <1>3, <1>6 DEF Replies

\* A reply and the errors behind it, in terms of everything said.
Grown(r, w, o, w2, o2, n, g) == (r \o w2) \o o2 = Append((r \o w) \o o, n) \o g

\* A reply and the errors behind it add to what was said.
LEMMA AnswerMoved ==
  ASSUME NEW r \in Seq(Nat), NEW w \in Seq(Nat), NEW o \in Seq(Nat),
         NEW w2 \in Seq(Nat), NEW o2 \in Seq(Nat), NEW n \in Nat, NEW g \in Seq(Nat),
         w2 \o o2 = Append(w \o o, n) \o g
  PROVE  Grown(r, w, o, w2, o2, n, g)
  <1>1. PICK x, y, u, z : x = w \o o /\ y = (r \o w) \o o /\ u = <<n>> /\ z = u \o g
    OBVIOUS
  <1>2. x \in Seq(Nat) /\ y \in Seq(Nat) /\ u \in Seq(Nat) /\ z \in Seq(Nat)
    <2>1. u \in Seq(Nat)
      BY <1>1
    <2>2. r \o w \in Seq(Nat)
      BY NatJoins, Zenon
    <2>3. QED BY <1>1, <2>1, <2>2, NatJoins, Zenon
  <1>3. x \o u = Append(x, n) /\ y \o u = Append(y, n)
    BY <1>1, <1>2, ConcatOne
  <1>4. Joins(x, u, g) /\ Joins(y, u, g)
    BY <1>2, NatJoins, Zenon
  <1>5. Append(x, n) \o g = x \o z /\ Append(y, n) \o g = y \o z
    BY <1>1, <1>3, <1>4 DEF Joins
  <1>6. w2 \o o2 = x \o z
    BY <1>1, <1>5
  <1>7. Moved(r, w, o, w2, o2, z)
    BY <1>1, <1>2, <1>6, ConcatMoved, Zenon
  <1>8. QED BY <1>1, <1>5, <1>7 DEF Moved, Grown

\* What is left of it when the rest of the output is thrown away.
LEMMA LostOutput ==
  ASSUME NEW r \in Seq(Nat), NEW w \in Seq(Nat), NEW o \in Seq(Nat), NEW k \in Nat,
         Ordered((r \o w) \o o, k)
  PROVE  \E j \in Nat : Ordered((r \o w) \o <<>>, j)
  <1>1. PICK z : z = r \o w
    OBVIOUS
  <1>2. z \in Seq(Nat)
    BY <1>1, NatJoins, Zenon
  <1>3. Ordered(z \o o, k)
    BY <1>1
  <1>4. PICK j \in 0..k : Ordered(z, j)
    BY <1>2, <1>3, OrderedPrefix, Zenon
  <1>5. j \in Nat /\ z \o <<>> = z
    BY <1>2, <1>4, ConcatNothing
  <1>6. QED BY <1>1, <1>4, <1>5

\* A reply answers the oldest frame held, and the errors due follow it.
LEMMA RepliesResponded ==
  ASSUME BaseInv, BaseInv', Replies, NEW p, NEW m, NEW s, NEW k, NEW d,
         Responded(p, m, s, k, d)
  PROVE  Replies'
  <1>1. TypeInv /\ TypeInv' /\ \A q \in Peers : ReplyOK(q) /\ ClientOK(q)
    BY DEF BaseInv, Replies
  <1>2. /\ Answering(m) /\ p = m.peer /\ p \in Peers /\ conn[p] = "open"
        /\ k \in 0..Len(client[p].deferred) /\ Replied(client[p], m.frame.n, wire[p], s, k)
        /\ wire' = [wire EXCEPT ![p] = s.wire] /\ client' = [client EXCEPT ![p] = d]
        /\ s.error = "none" =>
             SameInput(s.client, d) /\ SameReplies(s.client, d) /\ UNCHANGED <<conn, stream>>
        /\ s.error # "none" =>
             /\ d = NewClient
             /\ conn' = [conn EXCEPT ![p] = s.error]
             /\ stream' = [stream EXCEPT ![p] = <<>>]
    BY DEF Responded
  <1>3. incoming' = Tail(incoming) /\ UNCHANGED <<peer, received, frames, run>>
    BY <1>2 DEF Answering
  <1>4. /\ Roll' /\ m.peer \in Peers /\ incoming # <<>> /\ incoming[1] = m
        /\ incoming \in Seq([peer : Peers, frame : Frame])
        /\ \A q \in Peers : /\ ~Dead(q) /\ ~Dead(q)' /\ ~Retiring(q) /\ ~Retiring(q)'
                            /\ Lines(q) = <<>> /\ Lines(q)' = <<>>
                            /\ (q # m.peer => ListAside(q))
    BY <1>2, AnsweringFacts
  <1>5. ASSUME NEW q \in Peers, q # p PROVE ReplyOK(q)'
    <2>1. conn'[q] = conn[q] /\ stream'[q] = stream[q]
      <3>1. CASE s.error = "none"
        BY <3>1, <1>2
      <3>2. CASE s.error # "none"
        BY <3>2, <1>1, <1>2, <1>5 DEF TypeInv
      <3>3. QED BY <3>1, <3>2
    <2>2. AtRest(q)
      BY <2>1, <1>1, <1>2, <1>3, <1>5 DEF AtRest, TypeInv
    <2>3. QED BY <2>2, <1>1, <1>2, <1>4, <1>5, ReplyStays
  <1>6. client'[p] = d /\ wire'[p] = s.wire
    BY <1>1, <1>2 DEF TypeInv
  <1>7. PICK c, n, g, r, w, st, i, x, q, T :
          /\ c = client[p] /\ n = m.frame.n /\ g = DueErrors(c, k) /\ r = received[p]
          /\ w = wire[p] /\ st = Sent(p) /\ i = Input(p) /\ x = frames[p] /\ q = incoming
          /\ T = [peer : Peers, frame : Frame]
    OBVIOUS
  <1>8. /\ c \in ClientType /\ c.out \in Seq(Nat) /\ r \in Seq(Nat) /\ w \in Seq(Nat)
        /\ st \in Seq(Nat) /\ x \in Nat /\ q \in Seq(T) /\ q # <<>> /\ q[1] = m
        /\ k \in 0..Len(c.deferred) /\ c.answered <= c.delivered
        /\ Replied(c, n, w, s, k) /\ st = (r \o w) \o c.out
    <2>1. st = (r \o w) \o c.out
      BY <1>7 DEF Sent
    <2>2. QED BY <2>1, <1>1, <1>2, <1>4, <1>7, SentTypes DEF ClientOK
  <1>9. n \in Nat /\ q[1].peer = p /\ n = q[1].frame.n
    <2>1. m \in [peer : Peers, frame : Frame]
      BY <1>2 DEF Answering
    <2>2. m.frame \in Frame
      BY <2>1
    <2>3. QED BY <2>2, <1>2, <1>7, <1>8 DEF Frame
  <1>10. /\ SameInput(c, s.client) /\ s.wire \in Seq(Nat)
         /\ s.error \in {"none", "failed", "backlogged"}
         /\ s.client.delivered = c.delivered
         /\ s.client.answered = Min({c.answered + 1, c.delivered})
         /\ s.client.deferred = Suffix(c.deferred, k)
         /\ DueErrors(c, k) \in Seq(Nat)
         /\ s.wire \o s.client.out = Append(w \o c.out, n) \o g
         /\ \A j \in 1..k : c.deferred[j].due <= s.client.answered
         /\ k < Len(c.deferred) => ~(c.deferred[k + 1].due <= s.client.answered)
    BY <1>7, <1>8 DEF Replied
  <1>11. c.answered < c.delivered => s.client.answered = c.answered + 1
    BY <1>8, <1>10, AnsweredGrows
  <1>12. s.client.out \in Seq(Nat)
    BY <1>10 DEF SameInput, ClientType
  <1>13. (r \o s.wire) \o s.client.out = Append(st, n) \o g
    <2>1. PICK w2, o, o2 : w2 = s.wire /\ o = c.out /\ o2 = s.client.out
      OBVIOUS
    <2>2. /\ w2 \in Seq(Nat) /\ o \in Seq(Nat) /\ o2 \in Seq(Nat) /\ g \in Seq(Nat)
          /\ w2 \o o2 = Append(w \o o, n) \o g
      BY <2>1, <1>7, <1>8, <1>10, <1>12
    <2>3. Grown(r, w, o, w2, o2, n, g)
      BY <2>2, <1>8, <1>9, AnswerMoved, Zenon
    <2>4. QED BY <2>1, <2>3, <1>8 DEF Grown
  <1>14. ASSUME Paired(st, c, q, p, <<>>, i, x)
         PROVE  Paired(Append(st, n) \o g, s.client, Tail(q), p, <<>>, i, x)
    <2>1. PICK e : e = s.client
      OBVIOUS
    <2>2. /\ c.answered < c.delivered => e.answered = c.answered + 1
          /\ e.delivered = c.delivered /\ e.deferred = Suffix(c.deferred, k)
          /\ \A j \in 1..k : c.deferred[j].due <= e.answered
          /\ k < Len(c.deferred) => ~(c.deferred[k + 1].due <= e.answered)
      BY <2>1, <1>10, <1>11
    <2>3. Paired(Append(st, n) \o DueErrors(c, k), e, Tail(q), p, <<>>, i, x)
      BY <2>2, <1>8, <1>9, <1>10, <1>14, PairedReply, Zenon
    <2>4. QED BY <2>1, <2>3, <1>7
  <1>15. ~Gone(p) => Paired(st, c, q, p, <<>>, i, x)
    BY <1>1, <1>2, <1>4, <1>7 DEF ReplyOK, Live
  <1>16. CASE s.error = "none"
    <2>1. /\ d.buf = c.buf /\ d.out = s.client.out /\ SameTurns(s.client, d)
          /\ conn' = conn /\ stream' = stream
      BY <1>2, <1>7, <1>8, <1>10, <1>16 DEF SameInput, SameReplies, SameTurns
    <2>2. Sent(p)' = Append(st, n) \o g
      BY <2>1, <1>3, <1>6, <1>7, <1>13 DEF Sent
    <2>3. Input(p)' = i /\ frames'[p] = x /\ incoming' = Tail(q) /\ Lines(p)' = <<>>
      BY <2>1, <1>2, <1>3, <1>4, <1>6, <1>7 DEF Input
    <2>4. ASSUME ~Gone(p)
          PROVE  Paired(Sent(p), client[p], incoming, p, Lines(p), Input(p), frames[p])'
      <3>1. PICK e, z : e = s.client /\ z = Append(st, n) \o g
        OBVIOUS
      <3>2. Paired(z, e, Tail(q), p, <<>>, i, x) /\ SameTurns(e, d)
        BY <3>1, <2>1, <2>4, <1>14, <1>15
      <3>3. Paired(z, d, Tail(q), p, <<>>, i, x)
        BY <3>2, PairedSame, Zenon
      <3>4. QED BY <3>1, <3>3, <2>2, <2>3, <1>6
    <2>5. ReplyOK(p)'
      BY <2>1, <2>4, <1>1, <1>2, <1>3, <1>4, <1>6, <1>7, LiveKeeps
    <2>6. \A y \in Peers : ReplyOK(y)'
      BY <2>5, <1>5
    <2>7. QED BY <2>6, <1>4 DEF Replies
  <1>17. CASE s.error # "none"
    <2>1. d = NewClient /\ d.out = <<>> /\ conn'[p] = s.error
      BY <1>1, <1>2, <1>17, NewClientFacts DEF TypeInv
    <2>2. Sent(p)' = (r \o s.wire) \o <<>>
      BY <2>1, <1>3, <1>6, <1>7 DEF Sent
    <2>3. ASSUME ~Gone(p) PROVE \E j \in Nat : Ordered(Sent(p)', j)
      <3>1. PICK e, z, w2, o2 : e = s.client /\ z = Append(st, n) \o g /\ w2 = s.wire
                                /\ o2 = s.client.out
        OBVIOUS
      <3>2. Paired(z, e, Tail(q), p, <<>>, i, x)
        BY <3>1, <2>3, <1>14, <1>15
      <3>3. PICK j \in Nat : Ordered(z, j)
        BY <3>2, PairedOrdered, Zenon
      <3>4. Ordered((r \o w2) \o o2, j) /\ w2 \in Seq(Nat) /\ o2 \in Seq(Nat)
        BY <3>1, <3>3, <1>10, <1>12, <1>13
      <3>5. \E y \in Nat : Ordered((r \o w2) \o <<>>, y)
        BY <3>4, <1>8, LostOutput
      <3>6. QED BY <3>1, <3>5, <2>2
    <2>4. Gone(p)' <=> Gone(p)
      BY <1>3 DEF Gone
    <2>5. ReplyOK(p)'
      BY <2>1, <2>3, <2>4, <1>2, <1>4, <1>10, <1>17, LostOK
    <2>6. \A y \in Peers : ReplyOK(y)'
      BY <2>5, <1>5
    <2>7. QED BY <2>6, <1>4 DEF Replies
  <1>18. QED BY <1>16, <1>17

\* An event comes between replies and changes no turn.
LEMMA RepliesBroadcasted ==
  ASSUME BaseInv, BaseInv', Replies, Broadcasted
  PROVE  Replies'
  <1>1. TypeInv /\ TypeInv' /\ Shape /\ Roll /\ \A q \in Peers : ReplyOK(q)
    BY DEF BaseInv, Replies
  <1>2. /\ pc \in {"idle", "respond"}
        /\ \A p \in Peers : Untold(p) \/ \E s : Told(p, s) \/ Lost(p, s)
        /\ UNCHANGED <<peer, received, frames, run, poll, incoming, pc>>
    BY DEF Broadcasted
  <1>3. Roll'
    BY <1>1, <1>2 DEF Roll, Reading
  <1>4. poll.dead = {} /\ poll.lines = <<>>
    BY <1>1, <1>2 DEF Shape
  <1>5. ASSUME NEW q \in Peers PROVE ReplyOK(q)'
    <2>1. /\ ~Dead(q) /\ ~Dead(q)' /\ ~Retiring(q) /\ ~Retiring(q)'
          /\ Lines(q) = <<>> /\ Lines(q)' = <<>>
      BY <1>2, <1>4 DEF Dead, Retiring, Lines
    <2>2. CASE Untold(q)
      <3>1. AtRest(q)
        BY <2>2, <1>2 DEF AtRest, Untold
      <3>2. ListAside(q)
        BY <1>2 DEF ListAside
      <3>3. QED BY <3>1, <3>2, <2>1, <1>1, ReplyStays
    <2>3. ASSUME NEW s, Told(q, s) PROVE ReplyOK(q)'
      <3>1. /\ conn[q] = "open" /\ conn'[q] = conn[q] /\ stream'[q] = stream[q]
            /\ wire'[q] = s.wire /\ s.wire \o s.client.out = Append(wire[q] \o client[q].out, Event)
            /\ client'[q].buf = client[q].buf /\ client'[q].out = s.client.out
            /\ SameTurns(client[q], client'[q])
        BY <2>3 DEF Told, Said, SameInput, SameReplies, SameTurns
      <3>2. PICK c, d, st, i, z, m : /\ c = client[q] /\ d = client'[q] /\ st = Sent(q)
                                     /\ i = Input(q) /\ z = incoming /\ m = frames[q]
        OBVIOUS
      <3>3. Event \in Nat /\ st \in Seq(Nat)
        BY <3>2, <1>1, SentTypes DEF Event
      <3>4. Sent(q)' = Append(st, Event)
        BY <3>1, <3>2, <3>3, <1>1, <1>2, SentGrows
      <3>5. Input(q)' = i /\ frames'[q] = m /\ incoming' = z
        BY <3>1, <3>2, <1>2 DEF Input
      <3>6. ASSUME Paired(st, c, z, q, <<>>, i, m)
            PROVE  Paired(Append(st, Event), d, z, q, <<>>, i, m)
        <4>1. Paired(Append(st, Event), c, z, q, <<>>, i, m)
          BY <3>3, <3>6, PairedEvent, Zenon
        <4>2. SameTurns(c, d)
          BY <3>1, <3>2
        <4>3. QED BY <4>1, <4>2, PairedSame, Zenon
      <3>7. Paired(Sent(q), client[q], incoming, q, Lines(q), Input(q), frames[q])
              => Paired(Sent(q), client[q], incoming, q, Lines(q), Input(q), frames[q])'
        BY <3>2, <3>4, <3>5, <3>6, <2>1
      <3>8. QED BY <3>1, <3>7, <2>1, <1>1, <1>2, LiveKeeps
    <2>4. ASSUME NEW s, Lost(q, s) PROVE ReplyOK(q)'
      <3>1. /\ conn'[q] \in {"failed", "backlogged"} /\ wire'[q] = s.wire
            /\ client'[q] = NewClient /\ s.wire \in Seq(Nat) /\ s.client \in ClientType
            /\ s.wire \o s.client.out = Append(wire[q] \o client[q].out, Event)
        BY <2>4 DEF Lost, Said, SameInput
      <3>2. PICK r, w, o, w2, o2, st :
              /\ r = received[q] /\ w = wire[q] /\ o = client[q].out /\ w2 = s.wire
              /\ o2 = s.client.out /\ st = Sent(q)
        OBVIOUS
      <3>3. /\ r \in Seq(Nat) /\ w \in Seq(Nat) /\ o \in Seq(Nat) /\ w2 \in Seq(Nat)
            /\ st \in Seq(Nat) /\ Event \in Nat /\ <<>> \in Seq(Nat)
        <4>1. /\ received[q] \in Seq(Nat) /\ wire[q] \in Seq(Nat) /\ Sent(q) \in Seq(Nat)
              /\ client[q].out \in Seq(Nat)
          BY <1>1, SentTypes
        <4>2. Event \in Nat /\ <<>> \in Seq(Nat)
          BY DEF Event
        <4>3. QED BY <4>1, <4>2, <3>1, <3>2, Zenon
      <3>4. o2 \in Seq(Nat) /\ st = (r \o w) \o o
        <4>1. s.client.out \in Seq(Nat)
          BY <3>1 DEF ClientType
        <4>2. QED BY <4>1, <3>2 DEF Sent
      <3>5. (r \o w2) \o o2 = Append(st, Event) \o <<>>
        <4>1. Append(w \o o, Event) \in Seq(Nat)
          <5>1. w \o o \in Seq(Nat)
            BY <3>3, NatJoins, Zenon
          <5>2. QED BY <5>1, <3>3
        <4>2. w2 \o o2 = Append(w \o o, Event) \o <<>>
          BY <4>1, <3>1, <3>2, ConcatNothing
        <4>3. Grown(r, w, o, w2, o2, Event, <<>>)
          BY <4>2, <3>3, <3>4, AnswerMoved, Zenon
        <4>4. QED BY <4>3, <3>4 DEF Grown
      <3>6. Append(st, Event) \o <<>> = Append(st, Event)
        <4>1. Append(st, Event) \in Seq(Nat)
          BY <3>3
        <4>2. QED BY <4>1, ConcatNothing
      <3>7. ASSUME ~Gone(q) PROVE \E j \in Nat : Ordered(Sent(q)', j)
        <4>1. PICK k \in Nat : Ordered(st, k)
          BY <3>2, <3>7, <1>1 DEF ReplyOK
        <4>2. Ordered(Append(st, Event), k)
          BY <4>1, <3>3, OrderedEvent
        <4>3. Ordered((r \o w2) \o o2, k)
          BY <4>2, <3>5, <3>6
        <4>4. \E j \in Nat : Ordered((r \o w2) \o <<>>, j)
          BY <4>3, <3>3, <3>4, LostOutput
        <4>5. Sent(q)' = (r \o w2) \o <<>>
          BY <3>1, <3>2, <1>2, NewClientFacts DEF Sent
        <4>6. QED BY <4>4, <4>5
      <3>8. Gone(q)' <=> Gone(q)
        BY <1>2 DEF Gone
      <3>9. QED BY <3>1, <3>7, <3>8, <2>1, LostOK
    <2>5. QED BY <2>2, <2>3, <2>4, <1>2
  <1>6. QED BY <1>3, <1>5 DEF Replies

\* The peer writes, behind what it wrote before.
LEMMA RepliesWrote ==
  ASSUME BaseInv, NEW p \in Peers, ReplyOK(p), NEW x, Wrote(p, x), frames'[p] \in Nat,
         Began(p, x) \/ Extended(p, x) \/ Ended(p, x)
  PROVE  ReplyOK(p)'
  <1>1. /\ TypeInv /\ x \in Token /\ peer[p] = "up" /\ peer'[p] = peer[p]
        /\ conn[p] \in {"pending", "open"} /\ conn'[p] = conn[p]
        /\ stream'[p] = Append(stream[p], x) /\ wire'[p] = wire[p]
        /\ received'[p] = received[p] /\ UNCHANGED <<client, poll, incoming>>
    BY DEF BaseInv, Wrote, PeerLeaves
  <1>2. /\ Sent(p)' = Sent(p) /\ (Gone(p)' <=> Gone(p)) /\ ~Eof(p) /\ ~Eof(p)'
        /\ (Dead(p)' <=> Dead(p)) /\ (Retiring(p)' <=> Retiring(p)) /\ Lines(p)' = Lines(p)
        /\ ~Gone(p)
    BY <1>1 DEF Sent, Gone, Eof, Dead, Retiring, Lines
  <1>3. ~Retiring(p)
    BY <1>2 DEF ReplyOK
  <1>4. CASE Dead(p)
    BY <1>1, <1>2, <1>3, <1>4, LostOK DEF ReplyOK
  <1>5. CASE ~Dead(p)
    <2>1. Live(p)
      BY <1>1, <1>2, <1>5 DEF Live
    <2>2. PICK c, s, q, st, ls, m, m2 :
            /\ c = client[p] /\ s = Input(p) /\ q = incoming /\ st = Sent(p)
            /\ ls = Lines(p) /\ m = frames[p] /\ m2 = frames'[p]
      OBVIOUS
    <2>3. /\ c \in ClientType /\ s \in Seq(Token) /\ m \in Nat /\ m2 \in Nat
          /\ run[p] \in Nat
      BY <2>2, <1>1, SentTypes DEF TypeInv
    <2>4. ls \in Seq(Frame)
      <3>1. poll.lines \in Seq(Frame) /\ <<>> \in Seq(Frame)
        BY <1>1 DEF TypeInv, PollType
      <3>2. QED BY <3>1, <2>2 DEF Lines
    <2>5. Input(p)' = Append(s, x)
      <3>1. PICK b, t : b = client[p].buf /\ t = stream[p]
        OBVIOUS
      <3>2. b \in Seq(Token) /\ t \in Seq(Token)
        BY <3>1, <1>1, SentTypes
      <3>3. b \o Append(t, x) = Append(b \o t, x)
        BY <3>2, <1>1, AppendJoins
      <3>4. QED BY <3>1, <3>3, <2>2, <1>1 DEF Input
    <2>6. Paired(st, c, q, p, ls, s, m) /\ (run[p] > 0 <=> Unfinished(s))
      BY <2>1, <2>2, <1>2 DEF ReplyOK
    <2>7. \/ ~Unfinished(s) /\ x # Newline /\ x.n = m + 1 /\ m2 = m + 1
          \/ Unfinished(s) /\ x # Newline /\ x.n = m /\ m2 = m
          \/ x = Newline /\ m2 = m
      BY <2>2, <2>3, <2>6 DEF Began, Extended, Ended
    <2>8. Paired(st, c, q, p, ls, Append(s, x), m2)
      BY <2>3, <2>4, <2>6, <2>7, <1>1, PairedWrite, Zenon
    <2>9. Paired(Sent(p), client[p], incoming, p, Lines(p), Input(p), frames[p])'
      BY <2>2, <2>5, <2>8, <1>1, <1>2
    <2>10. Unfinished(Append(s, x)) <=> x # Newline
      BY <2>3, <1>1, UnfinishedAppend
    <2>11. run'[p] > 0 <=> x # Newline
      BY <2>3 DEF Began, Extended, Ended
    <2>12. QED BY <2>5, <2>9, <2>10, <2>11, <1>1, <1>2, <1>5, LiveOK
  <1>6. QED BY <1>4, <1>5

\* The steps of the peers keep the replies paired.
LEMMA RepliesPeer ==
  ASSUME BaseInv, BaseInv', Replies, NEW p, PeerStep(p)
  PROVE  Replies'
  <1>1. TypeInv /\ TypeInv' /\ Roll /\ \A q \in Peers : ReplyOK(q)
    BY DEF BaseInv, Replies
  <1>2. PeerLeaves(p)
    BY DEF PeerStep, Connected, Wrote, Turned
  <1>3. p \in Peers /\ UNCHANGED <<client, poll, incoming, pc>>
    BY <1>2 DEF PeerLeaves
  <1>4. Roll'
    BY <1>1, <1>3 DEF Roll, Reading
  <1>5. ASSUME NEW q \in Peers
        PROVE  /\ (Dead(q)' <=> Dead(q)) /\ (Retiring(q)' <=> Retiring(q))
               /\ Lines(q)' = Lines(q)
    BY <1>3 DEF Dead, Retiring, Lines
  <1>6. ASSUME NEW q \in Peers, q # p PROVE ReplyOK(q)'
    <2>1. AtRest(q)
      BY <1>2, <1>3, <1>6 DEF AtRest, PeerLeaves
    <2>2. ListAside(q)
      BY <1>3 DEF ListAside
    <2>3. QED BY <2>1, <2>2, <1>1, <1>5, ReplyStays
  <1>7. ASSUME Connected(p) PROVE ReplyOK(p)'
    <2>1. /\ conn[p] = "none" /\ conn'[p] = "pending" /\ peer[p] = "absent" /\ peer'[p] = "up"
          /\ stream'[p] = stream[p] /\ wire'[p] = wire[p] /\ received'[p] = received[p]
          /\ frames'[p] = frames[p] /\ run'[p] = run[p]
      BY <1>7 DEF Connected
    <2>2. /\ Sent(p)' = Sent(p) /\ Input(p)' = Input(p) /\ ~Gone(p) /\ ~Eof(p)
          /\ (Live(p)' <=> Live(p))
      BY <2>1, <1>3, <1>5 DEF Sent, Input, Gone, Eof, Live
    <2>3. QED BY <2>1, <2>2, <1>1, <1>3, <1>5 DEF ReplyOK
  <1>8. ASSUME NEW x, Wrote(p, x), Began(p, x) \/ Extended(p, x) \/ Ended(p, x)
        PROVE  ReplyOK(p)'
    <2>1. frames'[p] \in Nat
      BY <1>1, <1>3 DEF TypeInv
    <2>2. QED BY <2>1, <1>1, <1>3, <1>8, RepliesWrote
  <1>9. ASSUME Turned(p) PROVE ReplyOK(p)'
    <2>1. /\ conn'[p] = conn[p] /\ stream'[p] = stream[p] /\ frames'[p] = frames[p]
          /\ run'[p] = run[p]
          /\ \/ peer'[p] = "half" /\ peer[p] = "up" /\ wire'[p] = wire[p]
                /\ received'[p] = received[p]
             \/ peer'[p] = "gone"
             \/ /\ peer'[p] = peer[p] /\ wire[p] # <<>> /\ wire'[p] = Tail(wire[p])
                /\ received'[p] = Append(received[p], Head(wire[p]))
      BY <1>9 DEF Turned
    <2>2. Input(p)' = Input(p)
      BY <2>1, <1>3 DEF Input
    <2>3. CASE peer'[p] = "gone"
      <3>1. Gone(p)'
        BY <2>3 DEF Gone
      <3>2. QED BY <3>1 DEF ReplyOK, Live
    <2>4. CASE peer'[p] = "half" /\ peer[p] = "up" /\ wire'[p] = wire[p]
               /\ received'[p] = received[p]
      <3>1. /\ Sent(p)' = Sent(p) /\ ~Gone(p) /\ ~Gone(p)' /\ Eof(p)'
            /\ (Live(p)' <=> Live(p))
        BY <2>1, <2>4, <1>3, <1>5 DEF Sent, Gone, Eof, Live
      <3>2. QED BY <3>1, <2>1, <2>2, <1>1, <1>3, <1>5 DEF ReplyOK
    <2>5. CASE /\ peer'[p] = peer[p] /\ wire[p] # <<>> /\ wire'[p] = Tail(wire[p])
               /\ received'[p] = Append(received[p], Head(wire[p]))
      <3>1. Sent(p)' = Sent(p)
        <4>1. PICK r, w, o : r = received[p] /\ w = wire[p] /\ o = client[p].out
          OBVIOUS
        <4>2. r \in Seq(Nat) /\ w \in Seq(Nat) /\ o \in Seq(Nat) /\ w # <<>>
          BY <4>1, <2>5, <1>1, <1>3, SentTypes
        <4>3. Append(r, Head(w)) \o Tail(w) \o o = r \o w \o o
          BY <4>2, ReceiveJoins
        <4>4. QED BY <4>1, <4>3, <2>5, <1>3 DEF Sent
      <3>2. (Gone(p)' <=> Gone(p)) /\ (Eof(p)' <=> Eof(p)) /\ (Live(p)' <=> Live(p))
        BY <2>1, <2>5, <1>3, <1>5 DEF Gone, Eof, Live
      <3>3. QED BY <3>1, <3>2, <2>1, <2>2, <1>1, <1>3, <1>5 DEF ReplyOK
    <2>6. QED BY <2>1, <2>3, <2>4, <2>5
  <1>10. ReplyOK(p)'
    BY <1>7, <1>8, <1>9 DEF PeerStep
  <1>11. \A q \in Peers : ReplyOK(q)'
    BY <1>6, <1>10
  <1>12. QED BY <1>4, <1>11 DEF Replies

\* The invariant on replies holds initially.
LEMMA RepliesInit ==
  ASSUME Init
  PROVE  Replies
  <1>1. BaseInv
    BY BaseInit
  <1>2. poll.lines = <<>> /\ poll.dead = {} /\ pc = "idle" /\ incoming = <<>>
    BY DEF Init, NoPoll
  <1>3. Roll
    BY <1>2 DEF Roll
  <1>4. ASSUME NEW p \in Peers PROVE ReplyOK(p)
    <2>1. /\ peer[p] = "absent" /\ stream[p] = <<>> /\ wire[p] = <<>> /\ received[p] = <<>>
          /\ frames[p] = 0 /\ run[p] = 0 /\ conn[p] = "none" /\ client[p] = NewClient
      BY DEF Init
    <2>2. PICK c : c = NewClient
      OBVIOUS
    <2>3. /\ c.buf = <<>> /\ c.out = <<>> /\ c.deferred = <<>>
          /\ c.answered = 0 /\ c.delivered = 0
      BY <2>2, NewClientFacts
    <2>4. /\ Sent(p) = <<>> /\ Input(p) = <<>> /\ Lines(p) = <<>>
          /\ ~Dead(p) /\ ~Retiring(p)
      BY <2>1, <2>2, <2>3, <1>2 DEF Sent, Input, Lines, Dead, Retiring
    <2>5. Ordered(<<>>, 0)
      BY DEF Ordered
    <2>6. Following(<<>>, <<>>, 0, 0)
      <3>1. Numbered(<<>>, 0, 0)
        BY DEF Numbered
      <3>2. QED BY <3>1 DEF Following
    <2>7. Paired(<<>>, c, <<>>, p, <<>>, <<>>, 0)
      <3>1. PICK q : q = <<>>
        OBVIOUS
      <3>2. q \in Seq(Nat) /\ 0 \in Nat /\ \A j \in 1..Len(q) : q[j].peer # p
        BY <3>1
      <3>3. Paired(<<>>, c, q, p, <<>>, <<>>, 0)
        BY <3>2, <2>3, <2>5, <2>6, NothingPaired, Zenon
      <3>4. QED BY <3>1, <3>3
    <2>8. Paired(Sent(p), client[p], incoming, p, Lines(p), Input(p), frames[p])
      BY <2>1, <2>2, <2>4, <2>7, <1>2
    <2>9. run[p] > 0 <=> Unfinished(Input(p))
      BY <2>1, <2>4 DEF Unfinished
    <2>10. \E k \in Nat : Ordered(Sent(p), k)
      BY <2>4, <2>5
    <2>11. QED BY <2>1, <2>4, <2>8, <2>9, <2>10 DEF ReplyOK
  <1>5. QED BY <1>3, <1>4 DEF Replies

\* The invariant on replies is inductive.
LEMMA RepliesStep ==
  ASSUME BaseInv, BaseInv', Replies, [Next]_vars
  PROVE  Replies'
  <1>1. CASE UNCHANGED vars
    <2>1. UNCHANGED <<peer, stream, received, frames, run, longest, written, wire, conn,
                      client, cursor, armed, poll, incoming, pc, events>>
      BY <1>1, VarsUnchanged
    <2>2. TypeInv /\ Roll /\ \A q \in Peers : ReplyOK(q)
      BY DEF BaseInv, Replies
    <2>3. Roll'
      BY <2>1, <2>2 DEF Roll, Reading
    <2>4. ASSUME NEW q \in Peers PROVE ReplyOK(q)'
      <3>1. AtRest(q) /\ ListAside(q)
        BY <2>1 DEF AtRest, ListAside
      <3>2. /\ (Dead(q)' <=> Dead(q)) /\ (Retiring(q)' <=> Retiring(q))
            /\ Lines(q)' = Lines(q)
        BY <2>1 DEF Dead, Retiring, Lines
      <3>3. QED BY <3>1, <3>2, <2>2, ReplyStays
    <2>5. QED BY <2>3, <2>4 DEF Replies
  <1>2. CASE \E p : PeerStep(p)
    BY <1>2, RepliesPeer
  <1>3. CASE ServerStep
    BY <1>3, RepliesStarted, RepliesLostTurn, RepliesPolled, RepliesRejected,
       RepliesDelivered, RepliesEnded, RepliesUnanswered, RepliesResponded,
       RepliesBroadcasted
    DEF ServerStep
  <1>4. QED BY <1>1, <1>2, <1>3, StepFacts

\* The number of replies among what was said.
LEMMA AnsweredFacts ==
  ASSUME NEW p, NEW k \in Nat, Ordered(Sent(p), k)
  PROVE  Answered(p) = 1..k /\ Cardinality(Answered(p)) = k
  <1>1. PICK q : q = Sent(p)
    OBVIOUS
  <1>2. Cardinality({q[i] : i \in DOMAIN q} \ {Event}) = k
    BY <1>1, OrderedCount
  <1>3. {q[i] : i \in DOMAIN q} \ {Event} = 1..k
    BY <1>1 DEF Ordered
  <1>4. QED BY <1>1, <1>2, <1>3 DEF Answered

\* Paired replies come in the order of the frames.
LEMMA RepliesOrdered ==
  ASSUME Replies
  PROVE  RepliesInFrameOrder
  <1>1. ASSUME NEW p \in Peers, ~Gone(p)
        PROVE  /\ Answered(p) = 1..Cardinality(Answered(p))
               /\ \A i, j \in DOMAIN Sent(p) :
                    i < j /\ Event \notin {Sent(p)[i], Sent(p)[j]} => Sent(p)[i] < Sent(p)[j]
    <2>1. PICK k \in Nat : Ordered(Sent(p), k)
      BY <1>1 DEF Replies, ReplyOK
    <2>2. Answered(p) = 1..Cardinality(Answered(p))
      BY <2>1, AnsweredFacts
    <2>3. QED BY <2>1, <2>2 DEF Ordered
  <1>2. QED BY <1>1 DEF RepliesInFrameOrder

\* Pairing loses no frame.
LEMMA RepliesComplete ==
  ASSUME BaseInv, Replies
  PROVE  NoFrameLost
  <1>1. ASSUME NEW p \in Open, ~Gone(p), \A e \in poll.dead : e.peer # p
        PROVE  LET k == Cardinality(Answered(p))
                   o == k + Cardinality(Outstanding(p))
               IN  Outstanding(p) = (k + 1)..o /\ Unread(p) = (o + 1)..frames[p]
    <2>1. p \in Peers /\ conn[p] = "open" /\ ~Dead(p) /\ TypeInv
      BY <1>1 DEF Open, Dead, BaseInv
    <2>2. PICK c, q, st, ls, s, m, T, o :
            /\ c = client[p] /\ q = incoming /\ st = Sent(p) /\ ls = Lines(p)
            /\ s = Input(p) /\ m = frames[p] /\ T = [peer : Peers, frame : Frame]
            /\ o = Outstanding(p)
      OBVIOUS
    <2>3. Paired(st, c, q, p, ls, s, m)
      BY <2>1, <2>2, <1>1 DEF Replies, ReplyOK, Live
    <2>4. c \in ClientType /\ q \in Seq(T) /\ m \in Nat
      BY <2>1, <2>2 DEF TypeInv
    <2>5. ls \in Seq(Frame)
      <3>1. poll.lines \in Seq(Frame) /\ <<>> \in Seq(Frame)
        BY <2>1 DEF TypeInv, PollType
      <3>2. QED BY <3>1, <2>2 DEF Lines
    <2>6. o = Awaiting(ls, q, p, c)
      BY <2>2, Zenon DEF Outstanding, Awaiting
    <2>7. PICK k : k = Cardinality({st[i] : i \in DOMAIN st} \ {Event})
      OBVIOUS
    <2>8. /\ o = (k + 1)..(k + Cardinality(o))
          /\ {s[i].n : i \in DOMAIN s} \ {Newline.n} = (k + Cardinality(o) + 1)..m
      <3>1. Partition(st, o, s, m)
        BY <2>3, <2>4, <2>5, <2>6, PairedFrames, Zenon
      <3>2. QED BY <3>1, <2>7 DEF Partition
    <2>9. Unread(p) = {s[i].n : i \in DOMAIN s} \ {Newline.n}
      BY <2>2 DEF Unread, Input
    <2>10. k = Cardinality(Answered(p))
      BY <2>2, <2>7 DEF Answered
    <2>11. QED BY <2>2, <2>8, <2>9, <2>10
  <1>2. QED BY <1>1 DEF NoFrameLost

\* A retired client has all its replies.
LEMMA RepliesAtEnd ==
  ASSUME BaseInv, Replies
  PROVE  RetiredAfterReplies
  <1>1. ASSUME NEW p \in Peers, conn[p] = "retired", ~Gone(p)
        PROVE  Answered(p) = 1..frames[p]
    <2>1. Ordered(Sent(p), frames[p]) /\ frames[p] \in Nat
      BY <1>1 DEF Replies, ReplyOK, BaseInv, TypeInv
    <2>2. QED BY <2>1, AnsweredFacts
  <1>2. QED BY <1>1 DEF RetiredAfterReplies

\* The i-th reply a peer gets is the reply to its i-th frame, whatever parse
\* errors and events come in between and however the polls are cut: deferred
\* parse errors wait exactly for the replies they have to follow
\* (reject_frame, queue_due_parse_errors, send_response).
THEOREM RepliesComeInOrder == Spec => []RepliesInFrameOrder
  <1>1. Init => BaseInv /\ Replies
    BY BaseInit, RepliesInit
  <1>2. BaseInv /\ Replies /\ [Next]_vars => BaseInv' /\ Replies'
    BY BaseStep, RepliesStep
  <1>3. Replies => RepliesInFrameOrder
    BY RepliesOrdered
  <1>4. QED BY <1>1, <1>2, <1>3, PTL DEF Spec

\* No frame of a connected peer is dropped or taken twice by the framing, the
\* budgets or the caller's list (take_complete_messages, read_messages).
THEOREM FramesAreKept == Spec => []NoFrameLost
  <1>1. Init => BaseInv /\ Replies
    BY BaseInit, RepliesInit
  <1>2. BaseInv /\ Replies /\ [Next]_vars => BaseInv' /\ Replies'
    BY BaseStep, RepliesStep
  <1>3. BaseInv /\ Replies => NoFrameLost
    BY RepliesComplete
  <1>4. QED BY <1>1, <1>2, <1>3, PTL DEF Spec

\* A client that stopped writing is retired only after each of its frames, the
\* unterminated last one included, has its reply on the way (the end-of-stream
\* arm of poll_clients).
THEOREM RetiredWhenAnswered == Spec => []RetiredAfterReplies
  <1>1. Init => BaseInv /\ Replies
    BY BaseInit, RepliesInit
  <1>2. BaseInv /\ Replies /\ [Next]_vars => BaseInv' /\ Replies'
    BY BaseStep, RepliesStep
  <1>3. BaseInv /\ Replies => RetiredAfterReplies
    BY RepliesAtEnd
  <1>4. QED BY <1>1, <1>2, <1>3, PTL DEF Spec
=============================================================================
