-------------------------- MODULE WaiterGateProofs --------------------------
(***************************************************************************)
(* Proofs about WaiterGate, for every number of consumers and producers,   *)
(* every capacity and each of the three kernel objects.                    *)
(***************************************************************************)
EXTENDS WaiterGate, FiniteSetTheorems, TLAPS

------------------------------------------------------------------------------
(* The inductive invariant *)

Threads == Consumers \cup Producers

\* Producers that have committed an entry and not yet advanced the sequence.
Signallers == {p \in Producers : pc[p] = "signal"}

\* Waiters the count may still hold: registered ones and dead ones.
Countable == Registered \cup {c \in Consumers : pc[c] = "dead"}

\* The sequence counts finished commits and destroy().
SeqBounded ==
    seq + Cardinality(Signallers) <=
        published + (IF closing \in {"no", "flag"} THEN 0 ELSE 1)

\* The count is at least the registered waiters, at most the ones that ever
\* registered and did not leave.
CountBounded ==
    /\ RegisteredCounted
    /\ waiters <= Cardinality(Countable)

Snapshots == \A c \in Consumers : snap[c] <= seq /\ seen[c] <= published

TypeInv ==
    /\ TypeOK /\ SeqBounded /\ CountBounded /\ Snapshots
    /\ destroyed <=> closing # "no"

\* Nobody has died.
AllLive == \A x \in Threads : pc[x] # "dead"

\* A consumer that looks for data before it sleeps again: it is outside the
\* registration, or finds that the cursor or the sequence has moved.
Awake(c) ==
    \/ pc[c] \in {"take", "check", "compare", "snapshot", "enroll", "verifyLoad", "roused"}
    \/ pc[c] = "verifyData" /\ (seen[c] # taken \/ snap[c] # seq)
    \/ pc[c] = "verifySeq" /\ snap[c] # seq
    \/ pc[c] = "block" /\ backend = "futex" /\ snap[c] # seq

\* A registered consumer that is about to sleep, sleeps, or was polled awake.
Idle(c) ==
    /\ pc[c] \in {"verifyData", "verifySeq", "block", "asleep", "polled"}
    /\ ~Awake(c)

\* Threads that will deal with a pending entry or wake somebody for it.
Movers ==
    {c \in Consumers : Awake(c)} \cup {p \in Producers : pc[p] \in {"signal", "look", "wake"}}

\* While somebody is idle there is a mover or a token for every pending entry.
EntriesServed ==
    (\E c \in Consumers : Idle(c)) => Pending <= Cardinality(Movers) + tokens

\* A consumer that has registered and seen no entry and no signal since: every
\* entry committed since then is still to be signalled.
UnseenUnsignalled ==
    \A c \in Consumers : snap[c] = seq =>
        /\ pc[c] = "verifyData" => published - seen[c] <= Cardinality(Signallers)
        /\ pc[c] \in {"verifySeq", "block"} => Pending <= Cardinality(Signallers)

Served == AllLive /\ closing = "no" => EntriesServed /\ UnseenUnsignalled

\* Consumers that are past the last check before the system call.
Committed == {c \in Consumers : pc[c] \in {"block", "asleep"}}

\* After destroy() has advanced the sequence nobody commits to sleep; after it
\* has counted, there is or will be a token for everyone who has.
Released ==
    closing \in {"bumped", "counted", "done"} =>
      /\ \A c \in Consumers :
           /\ pc[c] \in {"verifyData", "verifySeq"} => snap[c] < seq
           /\ pc[c] = "block" /\ backend = "futex" => snap[c] < seq
      /\ closing # "bumped" /\ backend = "semaphore" =>
           Cardinality(Committed) <= tokens + owed
      /\ closing = "done" => owed = 0
      /\ closing = "done" /\ backend = "futex" => Sleepers = {}

\* Only an eventfd is polled.
PollsEventfd == \A c \in Consumers : pc[c] \in {"polled", "consume"} => backend = "eventfd"

GateInv == TypeInv /\ PollsEventfd /\ (Timed = {} => Served) /\ Released

------------------------------------------------------------------------------
(* Counting *)

\* Sets of threads are finite, and a set counts at least as much as its parts.
LEMMA Counts ==
    ASSUME NEW S, S \subseteq Threads
    PROVE  /\ IsFiniteSet(S) /\ Cardinality(S) \in Nat
           /\ \A T : T \subseteq S => Cardinality(T) <= Cardinality(S) /\ Cardinality(T) \in Nat
           /\ \A x : Cardinality(S \ {x}) =
                       (IF x \in S THEN Cardinality(S) - 1 ELSE Cardinality(S))
           /\ \A x : Cardinality(S \cup {x}) =
                       (IF x \in S THEN Cardinality(S) ELSE Cardinality(S) + 1)
           /\ S # {} => Cardinality(S) > 0
  <1>1. IsFiniteSet(Threads)
    BY FS_Union, GateAssumption DEF Threads
  <1>2. IsFiniteSet(S)
    BY <1>1, FS_Subset
  <1>3. Cardinality(S) \in Nat
    BY <1>2, FS_CardinalityType
  <1>4. ASSUME NEW T, T \subseteq S
        PROVE  Cardinality(T) <= Cardinality(S) /\ Cardinality(T) \in Nat
    BY <1>2, <1>4, FS_Subset, FS_CardinalityType
  <1>5. \A x : Cardinality(S \ {x}) =
                 (IF x \in S THEN Cardinality(S) - 1 ELSE Cardinality(S))
    BY <1>2, FS_RemoveElement
  <1>6. \A x : Cardinality(S \cup {x}) =
                 (IF x \in S THEN Cardinality(S) ELSE Cardinality(S) + 1)
    BY <1>2, FS_AddElement
  <1>7. S # {} => Cardinality(S) > 0
    BY <1>2, <1>3, FS_EmptySet
  <1> QED BY <1>2, <1>3, <1>4, <1>5, <1>6, <1>7

\* Replacing one member by another keeps the count.
LEMMA Swapped ==
    ASSUME NEW S, S \subseteq Threads, NEW T, T \subseteq Threads, NEW x, S \ {x} \subseteq T,
           NEW y \in T, y \notin S
    PROVE  Cardinality(S) <= Cardinality(T)
  <1> DEFINE U == S \ {x}
  <1>1. U \subseteq Threads /\ U \cup {y} \subseteq T /\ y \notin U
    OBVIOUS
  <1>2. Cardinality(U) >= Cardinality(S) - 1 /\ Cardinality(U) \in Nat /\ Cardinality(S) \in Nat
    BY Counts
  <1>3. Cardinality(U \cup {y}) = Cardinality(U) + 1
    BY <1>1, Counts
  <1>4. Cardinality(U \cup {y}) <= Cardinality(T) /\ Cardinality(T) \in Nat
    BY <1>1, Counts
  <1> QED BY <1>2, <1>3, <1>4

------------------------------------------------------------------------------
(* Type correctness *)

Labels ==
    {"out", "take", "check", "compare", "snapshot", "enroll", "verifyLoad", "verifyData",
     "verifySeq", "block", "asleep", "roused", "polled", "consume", "signal", "look",
     "wake", "dead"}

\* Labels of a registered waiter.
Enrolled == {"verifyLoad", "verifyData", "verifySeq", "block", "asleep", "roused", "polled"}

\* TypeInv, with what a step of a thread may disturb apart from the rest.
Cursors ==
    /\ MaxPublish \in Nat /\ Capacity \in Nat
    /\ published \in Nat /\ published <= MaxPublish
    /\ taken \in Nat /\ taken <= published /\ published - taken <= Capacity
    /\ destroyed \in BOOLEAN
    /\ closing \in {"no", "flag", "bumped", "counted", "done"}
    /\ backend \in Backends
    /\ tokens \in Nat
    /\ destroyed <=> closing # "no"

Registers ==
    /\ pc \in [Threads -> Labels]
    /\ seen \in [Consumers -> Nat] /\ snap \in [Consumers -> Nat]
    /\ seq \in Nat /\ waiters \in Nat
    /\ Snapshots

\* The two halves of the type invariant, and what the counts add to them.
LEMMA TypeParts ==
    TypeInv <=> /\ Cursors /\ Registers /\ SeqBounded /\ CountBounded
                /\ owed \in 0 .. Cardinality(Consumers)
  <1>1. Signallers \subseteq Threads /\ Consumers \subseteq Threads
    BY DEF Signallers, Threads
  <1>2. Cardinality(Signallers) \in Nat /\ Cardinality(Consumers) \in Nat
    BY <1>1, Counts
  <1>3. TypeInv => Cursors /\ Registers
    BY GateAssumption
       DEF TypeInv, TypeOK, Cursors, Registers, Snapshots, Pending, Threads, Labels
  <1>4. ASSUME Cursors, Registers, SeqBounded, owed \in 0 .. Cardinality(Consumers)
        PROVE  TypeOK
    <2>1. seq <= MaxPublish + 1
      BY <1>2, <1>4 DEF SeqBounded, Cursors, Registers
    <2>2. seq \in 0 .. MaxPublish + 1 /\ published \in 0 .. MaxPublish /\ taken \in 0 .. published
      BY <1>4, <2>1 DEF Cursors, Registers
    <2>3. seen \in [Consumers -> 0 .. MaxPublish] /\ snap \in [Consumers -> 0 .. MaxPublish + 1]
      BY <1>4, <2>1 DEF Cursors, Registers, Snapshots
    <2> QED
      BY <1>4, <2>2, <2>3 DEF TypeOK, Cursors, Registers, Pending, Threads, Labels
  <1> QED
    BY <1>3, <1>4 DEF TypeInv, Cursors, Registers, TypeOK

\* The same after a step.
LEMMA TypePartsNext ==
    TypeInv' <=> /\ Cursors' /\ Registers' /\ SeqBounded' /\ CountBounded'
                 /\ (owed \in 0 .. Cardinality(Consumers))'
  BY TypeParts, PTL

\* Only consumer c moves, and only its registers change.
MovesAlone(c) ==
    /\ pc' \in [Threads -> Labels] /\ \A x \in Threads : x # c => pc'[x] = pc[x]
    /\ pc[c] # "dead" /\ pc'[c] # "dead"
    /\ seen' \in [Consumers -> Nat] /\ \A d \in Consumers : d # c => seen'[d] = seen[d]
    /\ snap' \in [Consumers -> Nat] /\ \A d \in Consumers : d # c => snap'[d] = snap[d]
    /\ seen'[c] <= published /\ snap'[c] <= seq
    /\ UNCHANGED <<published, destroyed, seq, closing, owed, backend>>

\* It enters the count when it registers and leaves it when it drops out.
CountsItself(c) ==
    /\ pc'[c] \in Enrolled /\ pc[c] \notin Enrolled => waiters' = waiters + 1
    /\ pc'[c] \notin Enrolled /\ pc[c] \in Enrolled => waiters' = waiters - 1
    /\ (pc'[c] \in Enrolled <=> pc[c] \in Enrolled) => waiters' = waiters

\* Taking entries does not add to the pending ones.
LEMMA Shrinks ==
    ASSUME NEW a \in Nat, NEW b \in Nat, NEW c \in Nat, NEW n \in Nat, a - b <= n, b <= c
    PROVE  a - c <= n
  OBVIOUS

\* A consumer moves between labels and counts itself in or out accordingly.
LEMMA ConsumerTypes ==
    ASSUME TypeInv, NEW c \in Consumers, MovesAlone(c), CountsItself(c),
           taken' \in Nat, taken <= taken', taken' <= published, tokens' \in Nat
    PROVE  TypeInv'
  <1>0. Cursors /\ Registers /\ SeqBounded /\ CountBounded /\ owed \in 0 .. Cardinality(Consumers)
    BY TypeParts
  <1>1. c \in Threads /\ c \notin Producers
    BY GateAssumption DEF Threads
  <1>2. Signallers' = Signallers
    BY <1>1 DEF Signallers, MovesAlone, Threads
  <1>3. SeqBounded'
    BY <1>0, <1>2 DEF SeqBounded, MovesAlone
  <1>4. Cursors'
    <2>1. /\ published \in Nat /\ taken \in Nat /\ Capacity \in Nat
          /\ published - taken <= Capacity /\ published' = published
      BY <1>0 DEF Cursors, MovesAlone
    <2>2. published - taken' <= Capacity
      BY <2>1, Shrinks
    <2> QED BY <1>0, <2>1, <2>2 DEF Cursors, MovesAlone
  <1>5. /\ Registered' = (IF pc'[c] \in Enrolled THEN Registered \cup {c} ELSE Registered \ {c})
        /\ Countable' = (IF pc'[c] \in Enrolled THEN Countable \cup {c} ELSE Countable \ {c})
        /\ c \in Registered <=> pc[c] \in Enrolled
        /\ c \in Countable <=> pc[c] \in Enrolled
        /\ Registered \subseteq Threads /\ Countable \subseteq Threads
        /\ Registered \subseteq Countable
    BY <1>1 DEF Registered, Countable, MovesAlone, Threads, Enrolled, Labels
  <1>6. waiters' \in Nat /\ CountBounded'
    <2> DEFINE R == Registered
               C == Countable
    <2>1. /\ Cardinality(R) \in Nat /\ Cardinality(C) \in Nat
          /\ Cardinality(R) <= waiters /\ waiters <= Cardinality(C) /\ waiters \in Nat
      BY <1>0, <1>5, Counts DEF CountBounded, RegisteredCounted, Registers
    <2>2. CASE pc'[c] \in Enrolled /\ pc[c] \notin Enrolled
      <3>1. /\ Cardinality(Registered') = Cardinality(R) + 1
            /\ Cardinality(Countable') = Cardinality(C) + 1
        BY <1>5, <2>2, Counts
      <3> QED BY <2>1, <2>2, <3>1 DEF CountBounded, RegisteredCounted, CountsItself
    <2>3. CASE pc'[c] \notin Enrolled /\ pc[c] \in Enrolled
      <3>1. /\ Cardinality(Registered') = Cardinality(R) - 1
            /\ Cardinality(Countable') = Cardinality(C) - 1
            /\ Cardinality(Registered') \in Nat
        BY <1>5, <2>3, Counts
      <3> QED BY <2>1, <2>3, <3>1 DEF CountBounded, RegisteredCounted, CountsItself
    <2>4. CASE pc'[c] \in Enrolled <=> pc[c] \in Enrolled
      <3>1. Registered' = R /\ Countable' = C /\ waiters' = waiters
        BY <1>5, <2>4 DEF CountsItself
      <3> QED BY <2>1, <3>1 DEF CountBounded, RegisteredCounted
    <2> QED BY <2>2, <2>3, <2>4
  <1>7. Registers'
    BY <1>0, <1>6 DEF Registers, Snapshots, MovesAlone
  <1> QED
    BY <1>0, <1>3, <1>4, <1>6, <1>7, TypePartsNext DEF MovesAlone

\* Every step of a consumer is one.
LEMMA ConsumerMoves ==
    ASSUME TypeInv, NEW c \in Consumers,
           CallRead(c) \/ ConsumerStep(c) \/ WakeEarly(c) \/ Expire(c)
    PROVE  /\ MovesAlone(c) /\ CountsItself(c)
           /\ taken' \in Nat /\ taken <= taken' /\ taken' <= published /\ tokens' \in Nat
  <1>0. Cursors /\ Registers /\ c \in Threads
    BY TypeParts DEF Threads
  <1> USE DEF Cursors, Registers, Snapshots, Labels, Enrolled, Move, MovesAlone,
              CountsItself, shutdown
  <1>1. CASE CallRead(c)
    BY <1>0, <1>1 DEF CallRead
  <1>2. CASE Take(c)
    BY <1>0, <1>2 DEF Take, Pending
  <1>3. CASE TakeNothing(c)
    BY <1>0, <1>3 DEF TakeNothing
  <1>4. CASE TakeExpired(c)
    BY <1>0, <1>4 DEF TakeExpired
  <1>5. CASE Check(c)
    BY <1>0, <1>5 DEF Check, LoadWritten
  <1>6. CASE Compare(c)
    BY <1>0, <1>6 DEF Compare
  <1>7. CASE TimeOut(c)
    BY <1>0, <1>7 DEF TimeOut
  <1>8. CASE Snapshot(c)
    BY <1>0, <1>8 DEF Snapshot
  <1>9. CASE Enroll(c)
    BY <1>0, <1>9 DEF Enroll
  <1>10. CASE VerifyLoad(c)
    <2>1. CASE destroyed
      BY <1>0, <1>10, <2>1 DEF VerifyLoad, LoadWritten
    <2>2. CASE ~destroyed
      BY <1>0, <1>10, <2>2 DEF VerifyLoad, LoadWritten
    <2> QED BY <2>1, <2>2
  <1>11. CASE VerifyData(c)
    BY <1>0, <1>11 DEF VerifyData
  <1>12. CASE VerifySeq(c)
    BY <1>0, <1>12 DEF VerifySeq
  <1>13. CASE Block(c)
    BY <1>0, <1>13 DEF Block
  <1>14. CASE WakeByToken(c)
    BY <1>0, <1>14 DEF WakeByToken
  <1>15. CASE WakeEarly(c)
    BY <1>0, <1>15 DEF WakeEarly
  <1>16. CASE Leave(c)
    BY <1>0, <1>16 DEF Leave
  <1>17. CASE Consume(c)
    BY <1>0, <1>17 DEF Consume
  <1> QED
    BY <1>1, <1>2, <1>3, <1>4, <1>5, <1>6, <1>7, <1>8, <1>9, <1>10, <1>11, <1>12, <1>13,
       <1>14, <1>15, <1>16, <1>17 DEF ConsumerStep, Expire

\* It keeps the types.
LEMMA ConsumerStepTypes ==
    ASSUME TypeInv, NEW c \in Consumers,
           CallRead(c) \/ ConsumerStep(c) \/ WakeEarly(c) \/ Expire(c)
    PROVE  TypeInv'
  BY ConsumerMoves, ConsumerTypes

\* Committing and signalling.
LEMMA ProducerStepTypes ==
    ASSUME TypeInv, NEW p \in Producers, Publish(p) \/ ProducerStep(p)
    PROVE  TypeInv'
  <1>0. Cursors /\ Registers /\ SeqBounded /\ CountBounded /\ owed \in 0 .. Cardinality(Consumers)
    BY TypeParts
  <1>1. p \in Threads /\ p \notin Consumers /\ Consumers \subseteq Threads
    BY GateAssumption DEF Threads
  <1>2. /\ UNCHANGED <<destroyed, waiters, seen, snap, closing, owed, backend, taken>>
        /\ \A c \in Consumers : pc'[c] = pc[c] \/ (pc[c] = "asleep" /\ pc'[c] = "roused")
        /\ \A q \in Producers : q # p => pc'[q] = pc[q]
        /\ pc' \in [Threads -> Labels]
    <2>1. UNCHANGED <<destroyed, waiters, seen, snap, closing, owed, backend, taken>>
      BY DEF Publish, ProducerStep, Bump, Look, Wake, shutdown
    <2>2. \/ \E to \in Labels : pc' = [pc EXCEPT ![p] = to]
          \/ \E c \in Sleepers : pc' = [pc EXCEPT ![p] = "out", ![c] = "roused"]
      BY DEF Publish, ProducerStep, Bump, Look, Wake, Move, Labels
    <2>3. pc \in [Threads -> Labels] /\ Sleepers \subseteq Threads
      BY <1>0 DEF Registers, Sleepers, Threads
    <2>4. CASE \E to \in Labels : pc' = [pc EXCEPT ![p] = to]
      BY <1>1, <2>1, <2>3, <2>4 DEF Threads
    <2>5. CASE \E c \in Sleepers : pc' = [pc EXCEPT ![p] = "out", ![c] = "roused"]
      <3>1. PICK c \in Sleepers : pc' = [pc EXCEPT ![p] = "out", ![c] = "roused"]
        BY <2>5
      <3>2. c \in Consumers /\ c \notin Producers /\ c # p /\ pc[c] = "asleep"
        BY <1>1, GateAssumption DEF Sleepers
      <3>3. /\ pc' \in [Threads -> Labels] /\ pc'[c] = "roused"
            /\ \A x \in Threads : x # p /\ x # c => pc'[x] = pc[x]
        BY <1>1, <2>3, <3>1, <3>2 DEF Labels
      <3> QED BY <1>1, <2>1, <3>2, <3>3 DEF Threads
    <2> QED BY <2>2, <2>4, <2>5
  <1>3. Registered' = Registered /\ Countable' = Countable
    BY <1>2 DEF Registered, Countable
  <1>4. CountBounded'
    BY <1>0, <1>2, <1>3 DEF CountBounded, RegisteredCounted
  <1>5. Signallers \subseteq Threads
    BY DEF Signallers, Threads
  <1>6. CASE Publish(p)
    <2>1. /\ pc[p] = "out" /\ pc'[p] = "signal" /\ published' = published + 1
          /\ published < MaxPublish /\ published - taken < Capacity
          /\ UNCHANGED <<seq, tokens>>
      BY <1>0, <1>1, <1>6 DEF Publish, Move, Registers, Pending
    <2>2. Signallers' = Signallers \cup {p} /\ p \notin Signallers
      BY <1>2, <2>1 DEF Signallers
    <2>3. Cardinality(Signallers') = Cardinality(Signallers) + 1 /\ Cardinality(Signallers) \in Nat
      BY <1>5, <2>2, Counts
    <2>4. SeqBounded'
      BY <1>0, <1>2, <2>1, <2>3 DEF SeqBounded, Registers, Cursors
    <2>5. Cursors' /\ Registers'
      BY <1>0, <1>2, <2>1 DEF Cursors, Registers, Snapshots
    <2> QED BY <1>0, <1>2, <1>4, <2>4, <2>5, TypePartsNext
  <1>7. CASE Bump(p)
    <2>1. /\ pc[p] = "signal" /\ pc'[p] = "look" /\ seq' = seq + 1
          /\ UNCHANGED <<published, tokens>>
      BY <1>0, <1>1, <1>7 DEF Bump, Move, Registers
    <2>2. Signallers' = Signallers \ {p} /\ p \in Signallers
      BY <1>2, <2>1 DEF Signallers
    <2>3. Cardinality(Signallers') = Cardinality(Signallers) - 1 /\ Cardinality(Signallers) \in Nat
      BY <1>5, <2>2, Counts
    <2>4. SeqBounded'
      BY <1>0, <1>2, <2>1, <2>3 DEF SeqBounded, Registers, Cursors
    <2>5. Cursors' /\ Registers'
      BY <1>0, <1>2, <2>1 DEF Cursors, Registers, Snapshots
    <2> QED BY <1>0, <1>2, <1>4, <2>4, <2>5, TypePartsNext
  <1>8. CASE Look(p) \/ Wake(p)
    <2>1. /\ pc[p] # "signal" /\ pc'[p] # "signal" /\ tokens' \in Nat
          /\ UNCHANGED <<published, seq>>
      BY <1>0, <1>1, <1>8 DEF Look, Wake, Move, Registers, Cursors, Sleepers
    <2>2. Signallers' = Signallers
      BY <1>2, <2>1 DEF Signallers
    <2>3. SeqBounded'
      BY <1>0, <1>2, <2>1, <2>2 DEF SeqBounded
    <2>4. Cursors' /\ Registers'
      BY <1>0, <1>2, <2>1 DEF Cursors, Registers, Snapshots
    <2> QED BY <1>0, <1>2, <1>4, <2>3, <2>4, TypePartsNext
  <1> QED
    BY <1>6, <1>7, <1>8 DEF ProducerStep

\* destroy().
LEMMA DestroyTypes ==
    ASSUME TypeInv, DestroyFlag \/ DestroyStep
    PROVE  TypeInv'
  <1>0. Cursors /\ Registers /\ SeqBounded /\ CountBounded /\ owed \in 0 .. Cardinality(Consumers)
    BY TypeParts
  <1>1. /\ Signallers \subseteq Threads /\ Countable \subseteq Consumers
        /\ Consumers \subseteq Threads
    BY DEF Signallers, Countable, Registered, Threads
  <1>2. /\ Cardinality(Signallers) \in Nat /\ Cardinality(Consumers) \in Nat
        /\ Cardinality(Countable) <= Cardinality(Consumers) /\ Cardinality(Countable) \in Nat
    BY <1>1, Counts
  <1>3. /\ pc' \in [Threads -> Labels]
        /\ \A x \in Threads : pc'[x] = pc[x] \/ (x \in Sleepers /\ pc'[x] = "roused")
        /\ UNCHANGED <<published, taken, waiters, seen, snap, backend>>
    BY <1>0
       DEF DestroyFlag, DestroyStep, DestroyBump, DestroyCount, DestroyWake, Registers, Labels
  <1>4. /\ Signallers' = Signallers /\ Registered' = Registered /\ Countable' = Countable
    BY <1>3, GateAssumption DEF Signallers, Registered, Countable, Sleepers, Threads
  <1>5. CountBounded'
    BY <1>0, <1>3, <1>4 DEF CountBounded, RegisteredCounted
  <1>6. CASE DestroyFlag
    <2>1. Cursors' /\ Registers'
      BY <1>0, <1>3, <1>6 DEF DestroyFlag, Cursors, Registers, Snapshots
    <2>2. SeqBounded'
      BY <1>0, <1>4, <1>6 DEF DestroyFlag, SeqBounded
    <2> QED BY <1>0, <1>5, <1>6, <2>1, <2>2, TypePartsNext DEF DestroyFlag
  <1>7. CASE DestroyBump
    <2>1. Cursors' /\ Registers'
      BY <1>0, <1>3, <1>7 DEF DestroyBump, Cursors, Registers, Snapshots
    <2>2. SeqBounded'
      BY <1>0, <1>2, <1>4, <1>7 DEF DestroyBump, SeqBounded, Cursors, Registers
    <2> QED BY <1>0, <1>5, <1>7, <2>1, <2>2, TypePartsNext DEF DestroyBump
  <1>8. CASE DestroyCount
    <2>1. Cursors' /\ Registers'
      BY <1>0, <1>3, <1>8 DEF DestroyCount, Cursors, Registers, Snapshots
    <2>2. SeqBounded'
      BY <1>0, <1>4, <1>8 DEF DestroyCount, SeqBounded
    <2>3. owed' \in 0 .. Cardinality(Consumers)
      BY <1>0, <1>2, <1>8 DEF DestroyCount, CountBounded, Registers
    <2> QED BY <1>5, <2>1, <2>2, <2>3, TypePartsNext
  <1>9. CASE DestroyWake
    <2>1. /\ tokens' \in Nat /\ owed' \in Nat /\ owed' <= owed /\ closing = "counted"
          /\ closing' \in {"counted", "done"} /\ UNCHANGED <<seq, destroyed>>
      BY <1>0, <1>2, <1>9 DEF DestroyWake, Cursors
    <2>2. Cursors' /\ Registers'
      BY <1>0, <1>3, <2>1 DEF Cursors, Registers, Snapshots
    <2>3. SeqBounded'
      BY <1>0, <1>3, <1>4, <2>1 DEF SeqBounded
    <2>4. owed' \in 0 .. Cardinality(Consumers)
      BY <1>0, <1>2, <2>1
    <2> QED BY <1>5, <2>2, <2>3, <2>4, TypePartsNext
  <1> QED
    BY <1>6, <1>7, <1>8, <1>9 DEF DestroyStep

\* A death leaves the shared count alone.
LEMMA DieTypes ==
    ASSUME TypeInv, NEW x \in Mortal, Die(x)
    PROVE  TypeInv'
  <1>0. Cursors /\ Registers /\ SeqBounded /\ CountBounded /\ owed \in 0 .. Cardinality(Consumers)
    BY TypeParts
  <1>1. /\ x \in Threads /\ Signallers \subseteq Threads /\ Signallers' \subseteq Signallers
        /\ Countable \subseteq Countable' /\ Registered' \subseteq Registered
        /\ Countable' \subseteq Threads /\ Registered \subseteq Threads
    BY <1>0, GateAssumption
       DEF Die, Signallers, Countable, Registered, Registers, Threads, Labels
  <1>2. /\ Cardinality(Signallers') <= Cardinality(Signallers)
        /\ Cardinality(Countable) <= Cardinality(Countable')
        /\ Cardinality(Registered') <= Cardinality(Registered)
        /\ Cardinality(Signallers) \in Nat /\ Cardinality(Signallers') \in Nat
        /\ Cardinality(Registered) \in Nat /\ Cardinality(Registered') \in Nat
        /\ Cardinality(Countable) \in Nat /\ Cardinality(Countable') \in Nat
    BY <1>1, Counts
  <1>3. SeqBounded'
    BY <1>0, <1>2 DEF Die, SeqBounded, Cursors, Registers, shutdown
  <1>4. CountBounded'
    BY <1>0, <1>2 DEF Die, CountBounded, RegisteredCounted, Registers
  <1>5. Cursors' /\ Registers'
    BY <1>0, <1>1 DEF Die, Cursors, Registers, Snapshots, Labels, shutdown
  <1> QED BY <1>0, <1>3, <1>4, <1>5, TypePartsNext DEF Die, shutdown

\* Nobody is inside a call to begin with.
LEMMA InitTypes == Init => TypeInv
  <1> SUFFICES ASSUME Init PROVE TypeInv
    OBVIOUS
  <1>1. Signallers = {} /\ Registered = {} /\ Countable = {}
    BY GateAssumption DEF Init, Signallers, Registered, Countable
  <1>2. Cardinality(Signallers) = 0 /\ Cardinality(Registered) = 0 /\ Cardinality(Countable) = 0
    BY <1>1, FS_EmptySet
  <1>3. SeqBounded /\ CountBounded
    BY <1>2 DEF Init, SeqBounded, CountBounded, RegisteredCounted
  <1>4. Cursors /\ Registers
    <2>1. destroyed \in BOOLEAN /\ (destroyed <=> closing # "no")
      BY DEF Init
    <2>2. Registers
      BY DEF Init, Registers, Snapshots, Threads, Labels
    <2> QED BY <2>1, <2>2, GateAssumption DEF Init, Cursors
  <1>5. owed \in 0 .. Cardinality(Consumers)
    BY Counts DEF Init, Threads
  <1> QED BY <1>3, <1>4, <1>5, TypeParts

\* Every step keeps the types.
LEMMA NextTypes == TypeInv /\ [Next]_vars => TypeInv'
  <1> SUFFICES ASSUME TypeInv, [Next]_vars PROVE TypeInv'
    OBVIOUS
  <1>1. CASE UNCHANGED vars
    BY <1>1
       DEF vars, shutdown, TypeInv, TypeOK, SeqBounded, CountBounded, RegisteredCounted,
           Registered, Countable, Signallers, Snapshots, Pending
  <1>2. CASE Next
    BY <1>2, ConsumerStepTypes, ProducerStepTypes, DestroyTypes, DieTypes DEF Next
  <1> QED BY <1>1, <1>2

\* TypeInv holds throughout.
LEMMA Typed == Spec => []TypeInv
  BY InitTypes, NextTypes, PTL DEF Spec

\* Cursors, sequence, count and registers keep their types and bounds: the
\* waiter count is never decremented below zero, and destroy() never owes more
\* wake-ups than there are consumers, however many have died registered.
THEOREM TypeCorrect == Spec => []TypeOK
  <1>1. TypeInv => TypeOK
    BY DEF TypeInv
  <1> QED BY <1>1, Typed, PTL

\* The count is never below the number of registered waiters.
THEOREM WaitersAreCounted == Spec => []RegisteredCounted
  <1>1. TypeInv => RegisteredCounted
    BY DEF TypeInv, CountBounded
  <1> QED BY <1>1, Typed, PTL

------------------------------------------------------------------------------
(* Lost wake-ups *)

\* What the labels a consumer reaches say about the step it took.
Turns(c) ==
    /\ pc'[c] = "verifyData" =>
         pc[c] = "verifyLoad" /\ ~destroyed /\ seen'[c] = published /\ snap'[c] = snap[c]
    /\ pc'[c] = "verifySeq" =>
         pc[c] = "verifyData" /\ seen[c] = taken /\ snap'[c] = snap[c]
    /\ pc'[c] = "block" => pc[c] = "verifySeq" /\ snap[c] = seq /\ snap'[c] = snap[c]
    /\ pc'[c] = "asleep" => pc[c] = "block" /\ (backend = "futex" => seq = snap[c])
    /\ pc'[c] = "polled" => pc[c] = "asleep" /\ backend = "eventfd"
    /\ pc'[c] = "consume" => pc[c] = "polled"
    /\ pc[c] = "block" => pc'[c] \in {"asleep", "roused"}
    /\ pc[c] = "verifySeq" /\ snap[c] # seq => pc'[c] = "check"

\* What becomes of the tokens and of the pending entries.
Spends(c) ==
    /\ tokens' # tokens =>
         /\ tokens' = tokens - 1
         /\ \/ backend = "semaphore" /\ pc[c] = "asleep" /\ pc'[c] = "roused"
            \/ pc[c] = "consume" /\ pc'[c] = "check"
    /\ taken' # taken => taken' = taken + 1 /\ pc[c] = "take" /\ pc'[c] = "out"
    /\ pc'[c] = "out" /\ ~destroyed /\ Timed = {} => taken' = taken + 1

\* Every step of a consumer is of that kind.
LEMMA ConsumerTurns ==
    ASSUME TypeInv, NEW c \in Consumers,
           CallRead(c) \/ ConsumerStep(c) \/ WakeEarly(c) \/ Expire(c)
    PROVE  Turns(c) /\ Spends(c)
  <1>0. /\ pc \in [Threads -> Labels] /\ c \in Threads
        /\ seen \in [Consumers -> Nat] /\ snap \in [Consumers -> Nat]
        /\ tokens \in Nat /\ taken \in Nat
    BY TypeParts DEF Threads, Cursors, Registers
  <1> USE DEF Move, Turns, Spends
  <1>1. CASE CallRead(c)
    BY <1>0, <1>1 DEF CallRead
  <1>2. CASE Take(c)
    BY <1>0, <1>2 DEF Take
  <1>3. CASE TakeNothing(c)
    BY <1>0, <1>3 DEF TakeNothing
  <1>4. CASE TakeExpired(c)
    BY <1>0, <1>4 DEF TakeExpired
  <1>5. CASE Check(c)
    BY <1>0, <1>5 DEF Check, LoadWritten
  <1>6. CASE Compare(c)
    BY <1>0, <1>6 DEF Compare
  <1>7. CASE TimeOut(c)
    BY <1>0, <1>7 DEF TimeOut
  <1>8. CASE Snapshot(c)
    BY <1>0, <1>8 DEF Snapshot
  <1>9. CASE Enroll(c)
    BY <1>0, <1>9 DEF Enroll
  <1>10. CASE VerifyLoad(c)
    <2>1. CASE destroyed
      BY <1>0, <1>10, <2>1 DEF VerifyLoad, LoadWritten
    <2>2. CASE ~destroyed
      BY <1>0, <1>10, <2>2 DEF VerifyLoad, LoadWritten
    <2> QED BY <2>1, <2>2
  <1>11. CASE VerifyData(c)
    BY <1>0, <1>11 DEF VerifyData, LooksReady
  <1>12. CASE VerifySeq(c)
    BY <1>0, <1>12 DEF VerifySeq
  <1>13. CASE Block(c)
    BY <1>0, <1>13 DEF Block
  <1>14. CASE WakeByToken(c)
    BY <1>0, <1>14 DEF WakeByToken
  <1>15. CASE WakeEarly(c)
    BY <1>0, <1>15 DEF WakeEarly
  <1>16. CASE Leave(c)
    BY <1>0, <1>16 DEF Leave
  <1>17. CASE Consume(c)
    BY <1>0, <1>17 DEF Consume
  <1> QED
    BY <1>1, <1>2, <1>3, <1>4, <1>5, <1>6, <1>7, <1>8, <1>9, <1>10, <1>11, <1>12, <1>13,
       <1>14, <1>15, <1>16, <1>17 DEF ConsumerStep, Expire

\* A consumer that is awake looks for data before it sleeps: it stays awake, it
\* takes an entry, or it has just loaded cursors that agree.
LEMMA AwakeStays ==
    ASSUME TypeInv, NEW c \in Consumers, Timed = {}, ~destroyed, Awake(c),
           CallRead(c) \/ ConsumerStep(c) \/ WakeEarly(c) \/ Expire(c)
    PROVE  Awake(c)' \/ taken' = taken + 1 \/ (Idle(c)' /\ pc'[c] = "verifyData")
  <1>0. /\ pc \in [Threads -> Labels] /\ c \in Threads /\ c \notin Timed
        /\ seen \in [Consumers -> Nat] /\ snap \in [Consumers -> Nat]
    BY TypeParts DEF Threads, Registers
  <1> USE DEF Move, Awake
  <1>2. CASE Take(c)
    BY <1>0, <1>2 DEF Take
  <1>3. CASE TakeNothing(c)
    BY <1>0, <1>3 DEF TakeNothing
  <1>5. CASE Check(c)
    BY <1>0, <1>5 DEF Check, LoadWritten
  <1>6. CASE Compare(c)
    BY <1>0, <1>6 DEF Compare
  <1>8. CASE Snapshot(c)
    BY <1>0, <1>8 DEF Snapshot
  <1>9. CASE Enroll(c)
    BY <1>0, <1>9 DEF Enroll
  <1>10. CASE VerifyLoad(c)
    <2>1. pc'[c] = "verifyData"
      BY <1>0, <1>10 DEF VerifyLoad, LoadWritten
    <2> QED BY <2>1 DEF Idle
  <1>11. CASE VerifyData(c)
    BY <1>0, <1>11 DEF VerifyData, LooksReady
  <1>12. CASE VerifySeq(c)
    BY <1>0, <1>12 DEF VerifySeq
  <1>13. CASE Block(c)
    BY <1>0, <1>13 DEF Block
  <1>16. CASE Leave(c)
    BY <1>0, <1>16 DEF Leave
  <1>17. CASE CallRead(c) \/ WakeByToken(c) \/ WakeEarly(c) \/ Consume(c)
    BY <1>17 DEF CallRead, WakeByToken, WakeEarly, Consume
  <1> QED
    BY <1>0, <1>2, <1>3, <1>5, <1>6, <1>8, <1>9, <1>10, <1>11, <1>12, <1>13, <1>16, <1>17
       DEF ConsumerStep, Expire, TakeExpired, TimeOut

\* The counts in Served, as numbers.
LEMMA ServedCounts ==
    /\ Movers \subseteq Threads /\ Signallers \subseteq Movers
    /\ Cardinality(Movers) \in Nat /\ Cardinality(Signallers) \in Nat
    /\ Cardinality(Signallers) <= Cardinality(Movers)
  <1>1. Movers \subseteq Threads /\ Signallers \subseteq Movers
    BY DEF Movers, Signallers, Threads
  <1> QED BY <1>1, Counts

\* The same after a step.
LEMMA ServedCountsNext ==
    /\ Movers' \subseteq Threads /\ Signallers' \subseteq Movers'
    /\ Cardinality(Movers)' \in Nat /\ Cardinality(Signallers)' \in Nat
    /\ Cardinality(Signallers)' <= Cardinality(Movers)'
  <1>1. Movers' \subseteq Threads /\ Signallers' \subseteq Movers'
    BY DEF Movers, Signallers, Threads
  <1> QED BY <1>1, Counts

\* A consumer that goes idle before the system call leaves nothing unserved.
Fresh(c) ==
    /\ Idle(c)
    /\ pc[c] \in {"verifyData", "verifySeq"} \/ (pc[c] = "block" /\ snap[c] = seq)

\* Its entries are still to be signalled.
LEMMA FreshServed ==
    ASSUME TypeInv', UnseenUnsignalled', NEW c \in Consumers, Fresh(c)'
    PROVE  Pending' <= Cardinality(Movers)' + tokens'
  <1>1. /\ Cursors' /\ Registers'
    BY TypePartsNext
  <1>2. /\ published' \in Nat /\ taken' \in Nat /\ tokens' \in Nat
        /\ Cardinality(Movers)' \in Nat /\ Cardinality(Signallers)' \in Nat
        /\ Cardinality(Signallers)' <= Cardinality(Movers)'
    BY <1>1, ServedCountsNext DEF Cursors
  <1>3. (published - taken)' <= Cardinality(Signallers)'
    BY DEF UnseenUnsignalled, Fresh, Idle, Awake, Pending
  <1> QED BY <1>2, <1>3 DEF Pending

\* A consumer's step keeps a mover or a token for every entry.
LEMMA ConsumerServed ==
    ASSUME TypeInv, TypeInv', NEW c \in Consumers, Timed = {}, Served,
           AllLive, closing = "no",
           CallRead(c) \/ ConsumerStep(c) \/ WakeEarly(c) \/ Expire(c)
    PROVE  EntriesServed' /\ UnseenUnsignalled'
  <1>0. /\ Cursors /\ Registers /\ c \in Threads /\ c \notin Producers /\ ~destroyed
        /\ EntriesServed /\ UnseenUnsignalled
    BY TypeParts, GateAssumption DEF Threads, Served, Cursors
  <1>1. /\ MovesAlone(c) /\ Turns(c) /\ Spends(c)
        /\ taken' \in Nat /\ taken <= taken' /\ tokens' \in Nat
    BY ConsumerMoves, ConsumerTurns
  <1>2. /\ Signallers' = Signallers
        /\ UNCHANGED <<published, seq, backend>>
        /\ \A d \in Consumers : d # c => /\ pc'[d] = pc[d] /\ seen'[d] = seen[d]
                                         /\ snap'[d] = snap[d]
    BY <1>0, <1>1 DEF Signallers, MovesAlone, Threads
  <1>3. /\ published \in Nat /\ taken \in Nat /\ tokens \in Nat
        /\ Cardinality(Movers) \in Nat /\ Cardinality(Signallers) \in Nat
        /\ Cardinality(Movers)' \in Nat
        /\ Movers \subseteq Threads /\ Movers' \subseteq Threads
    BY <1>0, ServedCounts, ServedCountsNext DEF Cursors
  <1>4. UnseenUnsignalled'
    <2> SUFFICES ASSUME NEW d \in Consumers, snap'[d] = seq
                 PROVE  /\ pc'[d] = "verifyData" =>
                             published - seen'[d] <= Cardinality(Signallers)
                        /\ pc'[d] \in {"verifySeq", "block"} =>
                             published - taken' <= Cardinality(Signallers)
      BY <1>2 DEF UnseenUnsignalled, Pending
    <2>1. CASE d # c
      <3>1. pc[d] \in {"verifySeq", "block"} => published - taken <= Cardinality(Signallers)
        BY <1>0, <1>2, <2>1 DEF UnseenUnsignalled, Pending
      <3>2. pc[d] \in {"verifySeq", "block"} => published - taken' <= Cardinality(Signallers)
        BY <1>1, <1>3, <3>1, Shrinks
      <3> QED BY <1>0, <1>2, <2>1, <3>2 DEF UnseenUnsignalled
    <2>2. CASE d = c
      <3>1. CASE pc'[c] = "verifyData"
        BY <1>1, <1>3, <2>2, <3>1 DEF Turns
      <3>2. CASE pc'[c] \in {"verifySeq", "block"}
        <4>1. published - taken <= Cardinality(Signallers)
          BY <1>0, <1>1, <2>2, <3>2 DEF UnseenUnsignalled, Pending, Turns
        <4> QED BY <1>1, <1>3, <2>2, <3>2, <4>1, Shrinks
      <3> QED BY <2>2, <3>1, <3>2
    <2> QED BY <2>1, <2>2
  <1>5. ASSUME NEW d \in Consumers, Fresh(d)' PROVE EntriesServed'
    BY <1>4, <1>5, FreshServed DEF EntriesServed
  <1>6. ASSUME \A d \in Consumers : ~Fresh(d)', NEW e \in Consumers, Idle(e)'
        PROVE  Pending' <= Cardinality(Movers)' + tokens'
    <2>1. Idle(e)
      <3>1. pc'[e] \in {"block", "asleep", "polled"} /\ (pc'[e] = "block" => snap'[e] # seq)
        BY <1>2, <1>6 DEF Fresh, Idle
      <3>2. CASE e # c
        BY <1>2, <1>6, <3>1, <3>2 DEF Idle, Awake
      <3>3. CASE e = c
        BY <1>1, <3>1, <3>3 DEF Turns, Idle, Awake
      <3> QED BY <3>2, <3>3
    <2>2. published - taken <= Cardinality(Movers) + tokens
      BY <1>0, <2>1 DEF EntriesServed, Pending
    <2>3. Movers \ {c} \subseteq Movers'
      <3>1. ASSUME NEW d \in Consumers, d # c, Awake(d) PROVE Awake(d)'
        <4>1. pc[d] = "verifyData" => Awake(d)'
          BY <1>2, <1>6, <3>1 DEF Fresh, Idle
        <4>2. pc[d] # "verifyData" => Awake(d)'
          BY <1>2, <3>1 DEF Awake
        <4> QED BY <4>1, <4>2
      <3>2. \A p \in Producers : pc'[p] = pc[p]
        BY <1>0, <1>1 DEF MovesAlone, Threads
      <3> QED BY <3>1, <3>2 DEF Movers
    <2>4. CASE taken' = taken + 1
      <3>1. tokens' = tokens
        BY <1>1, <1>3, <2>4 DEF Spends
      <3>2. Cardinality(Movers \ {c}) <= Cardinality(Movers)'
        BY <1>3, <2>3, Counts
      <3>3. Cardinality(Movers \ {c}) >= Cardinality(Movers) - 1 /\ Cardinality(Movers \ {c}) \in Nat
        BY <1>3, Counts
      <3> QED BY <1>2, <1>3, <2>2, <2>4, <3>1, <3>2, <3>3 DEF Pending
    <2>5. CASE taken' = taken /\ tokens' # tokens
      <3>1. /\ tokens' = tokens - 1 /\ pc[c] \in {"asleep", "consume"}
            /\ pc'[c] \in {"roused", "check"}
        BY <1>1, <2>5 DEF Spends
      <3>2. c \notin Movers /\ c \in Movers'
        BY <1>0, <3>1 DEF Movers, Awake
      <3>3. Movers \cup {c} \subseteq Movers'
        BY <2>3, <3>2
      <3>4. Cardinality(Movers \cup {c}) = Cardinality(Movers) + 1
        BY <1>3, <3>2, Counts
      <3>5. Cardinality(Movers \cup {c}) <= Cardinality(Movers)'
        BY <1>3, <3>3, Counts
      <3> QED BY <1>2, <1>3, <2>2, <2>5, <3>1, <3>4, <3>5 DEF Pending
    <2>6. CASE taken' = taken /\ tokens' = tokens
      <3>1. Awake(c) => Awake(c)'
        <4>1. ~(Idle(c)' /\ pc'[c] = "verifyData")
          BY <1>6 DEF Fresh
        <4> QED BY <1>0, <1>3, <2>6, <4>1, AwakeStays
      <3>2. Movers \subseteq Movers'
        BY <1>0, <2>3, <3>1 DEF Movers
      <3>3. Cardinality(Movers) <= Cardinality(Movers)'
        BY <1>3, <3>2, Counts
      <3> QED BY <1>2, <1>3, <2>2, <2>6, <3>3 DEF Pending
    <2> QED BY <1>1, <2>4, <2>5, <2>6 DEF Spends
  <1> QED
    BY <1>4, <1>5, <1>6 DEF EntriesServed

\* Committing an entry adds a mover; a signaller leaves when it has woken
\* somebody, has left a token, or has nobody to wake.
LEMMA ProducerServed ==
    ASSUME TypeInv, TypeInv', PollsEventfd, NEW p \in Producers, Served,
           AllLive, closing = "no", Publish(p) \/ ProducerStep(p)
    PROVE  EntriesServed' /\ UnseenUnsignalled'
  <1>0. /\ Cursors /\ Registers /\ p \in Threads /\ p \notin Consumers
        /\ EntriesServed /\ UnseenUnsignalled /\ CountBounded
    BY TypeParts, GateAssumption DEF Threads, Served
  <1>1. /\ published \in Nat /\ taken \in Nat /\ tokens \in Nat
        /\ Cardinality(Movers) \in Nat /\ Cardinality(Signallers) \in Nat
        /\ Cardinality(Movers)' \in Nat /\ Cardinality(Signallers)' \in Nat
        /\ Movers \subseteq Threads /\ Movers' \subseteq Threads
        /\ Signallers \subseteq Threads /\ Signallers' \subseteq Threads
        /\ pc \in [Threads -> Labels] /\ seen \in [Consumers -> Nat]
        /\ snap \in [Consumers -> Nat] /\ seq \in Nat
    BY <1>0, ServedCounts, ServedCountsNext DEF Cursors, Registers
  <1>2. UNCHANGED <<taken, seen, snap, backend>>
    BY DEF Publish, ProducerStep, Bump, Look, Wake
  <1>3. CASE Publish(p)
    <2>1. /\ pc[p] = "out" /\ pc'[p] = "signal" /\ published' = published + 1
          /\ \A x \in Threads : x # p => pc'[x] = pc[x]
          /\ UNCHANGED <<seq, tokens>>
      BY <1>0, <1>1, <1>3 DEF Publish, Move
    <2>2. \A c \in Consumers : pc'[c] = pc[c] /\ (Awake(c)' <=> Awake(c)) /\ (Idle(c)' <=> Idle(c))
      BY <1>0, <1>2, <2>1 DEF Threads, Awake, Idle
    <2>3. /\ p \notin Signallers /\ Signallers \cup {p} \subseteq Signallers'
          /\ p \notin Movers /\ Movers \cup {p} \subseteq Movers'
      BY <1>0, <2>1, <2>2 DEF Signallers, Movers, Threads
    <2>4. /\ Cardinality(Signallers) + 1 <= Cardinality(Signallers)'
          /\ Cardinality(Movers) + 1 <= Cardinality(Movers)'
      <3>1. /\ Cardinality(Signallers \cup {p}) = Cardinality(Signallers) + 1
            /\ Cardinality(Movers \cup {p}) = Cardinality(Movers) + 1
        BY <1>1, <2>3, Counts
      <3>2. /\ Cardinality(Signallers \cup {p}) <= Cardinality(Signallers)'
            /\ Cardinality(Movers \cup {p}) <= Cardinality(Movers)'
        BY <1>1, <2>3, Counts
      <3> QED BY <3>1, <3>2
    <2>5. EntriesServed'
      BY <1>0, <1>1, <1>2, <2>1, <2>2, <2>4 DEF EntriesServed, Pending
    <2>6. UnseenUnsignalled'
      <3>0. \A c \in Consumers : pc'[c] = pc[c]
        BY <2>2
      <3> SUFFICES ASSUME NEW c \in Consumers, snap[c] = seq
                   PROVE  /\ pc[c] = "verifyData" =>
                               published + 1 - seen[c] <= Cardinality(Signallers)'
                          /\ pc[c] \in {"verifySeq", "block"} =>
                               published + 1 - taken <= Cardinality(Signallers)'
        BY <1>1, <1>2, <2>1, <3>0 DEF UnseenUnsignalled, Pending
      <3>1. /\ pc[c] = "verifyData" => published - seen[c] <= Cardinality(Signallers)
            /\ pc[c] \in {"verifySeq", "block"} => published - taken <= Cardinality(Signallers)
            /\ seen[c] \in Nat
        BY <1>0, <1>1 DEF UnseenUnsignalled, Pending
      <3> QED BY <1>1, <2>4, <3>1
    <2> QED BY <2>5, <2>6
  <1>4. CASE Bump(p)
    <2>1. /\ pc[p] = "signal" /\ pc'[p] = "look" /\ seq' = seq + 1
          /\ \A x \in Threads : x # p => pc'[x] = pc[x]
          /\ UNCHANGED <<published, tokens>>
      BY <1>0, <1>1, <1>4 DEF Bump, Move
    <2>2. \A c \in Consumers : snap'[c] < seq'
      BY <1>0, <1>1, <1>2, <2>1 DEF Registers, Snapshots
    <2>3. UnseenUnsignalled'
      <3>1. \A c \in Consumers : snap'[c] # seq'
        BY <1>1, <1>2, <2>1, <2>2
      <3> QED BY <3>1 DEF UnseenUnsignalled
    <2>4. \A c \in Consumers : (Awake(c) => Awake(c)') /\ (Idle(c)' => Idle(c))
      <3> SUFFICES ASSUME NEW c \in Consumers
                   PROVE  (Awake(c) => Awake(c)') /\ (Idle(c)' => Idle(c))
        OBVIOUS
      <3>1. pc'[c] = pc[c] /\ snap'[c] # seq'
        BY <1>0, <1>1, <1>2, <2>1, <2>2 DEF Threads
      <3>2. Awake(c) => Awake(c)'
        BY <1>2, <3>1 DEF Awake
      <3> QED BY <3>1, <3>2 DEF Idle
    <2>5. Movers \subseteq Movers'
      BY <2>1, <2>4 DEF Movers, Threads
    <2>6. Cardinality(Movers) <= Cardinality(Movers)'
      BY <1>1, <2>5, Counts
    <2>7. EntriesServed'
      BY <1>0, <1>1, <1>2, <2>1, <2>4, <2>6 DEF EntriesServed, Pending
    <2> QED BY <2>3, <2>7
  <1>5. CASE Look(p) \/ Wake(p)
    <2>1. /\ pc[p] \in {"look", "wake"} /\ pc'[p] \in {"wake", "out"}
          /\ \A x \in Producers : x # p => pc'[x] = pc[x]
          /\ \A x \in Consumers : pc'[x] = pc[x] \/ (pc[x] = "asleep" /\ pc'[x] = "roused")
          /\ UNCHANGED <<published, seq>>
      BY <1>0, <1>1, <1>5, GateAssumption DEF Look, Wake, Move, Sleepers, Threads
    <2>2. Signallers' = Signallers
      BY <2>1 DEF Signallers
    <2>3. UnseenUnsignalled'
      BY <1>0, <1>2, <2>1, <2>2 DEF UnseenUnsignalled, Pending
    <2>4. \A c \in Consumers : (Awake(c) => Awake(c)') /\ (Idle(c)' => Idle(c))
      BY <1>2, <2>1 DEF Awake, Idle
    <2>5. Movers \ {p} \subseteq Movers'
      BY <2>1, <2>4 DEF Movers
    <2>6. EntriesServed'
      <3> SUFFICES ASSUME NEW d \in Consumers, Idle(d)'
                   PROVE  Pending' <= Cardinality(Movers)' + tokens'
        BY DEF EntriesServed
      <3>1. /\ Idle(d) /\ published - taken <= Cardinality(Movers) + tokens
        BY <1>0, <2>4 DEF EntriesServed, Pending
      <3>2. CASE Look(p)
        <4>1. waiters > 0
          <5>1. d \in Registered /\ Registered \subseteq Threads
            BY <3>1 DEF Idle, Registered, Threads
          <5>2. Cardinality(Registered) > 0 /\ Cardinality(Registered) \in Nat
            BY <5>1, Counts
          <5> QED BY <1>0, <5>2 DEF CountBounded, RegisteredCounted, Registers
        <4>2. pc'[p] = "wake" /\ tokens' = tokens
          BY <1>0, <1>1, <3>2, <4>1 DEF Look, Move
        <4>3. Movers \subseteq Movers'
          BY <2>5, <4>2 DEF Movers
        <4>4. Cardinality(Movers) <= Cardinality(Movers)'
          BY <1>1, <4>3, Counts
        <4> QED BY <1>1, <1>2, <2>1, <3>1, <4>2, <4>4 DEF Pending
      <3>3. CASE Wake(p) /\ backend # "futex"
        <4>1. tokens' = tokens + 1
          BY <3>3 DEF Wake
        <4>2. Cardinality(Movers \ {p}) <= Cardinality(Movers)'
          BY <1>1, <2>5, Counts
        <4>3. Cardinality(Movers \ {p}) >= Cardinality(Movers) - 1 /\ Cardinality(Movers \ {p}) \in Nat
          BY <1>1, Counts
        <4> QED BY <1>1, <1>2, <2>1, <3>1, <4>1, <4>2, <4>3 DEF Pending
      <3>4. CASE Wake(p) /\ backend = "futex" /\ Sleepers # {}
        <4>1. PICK c \in Sleepers : pc' = [pc EXCEPT ![p] = "out", ![c] = "roused"]
          BY <3>4 DEF Wake
        <4>2. c \in Consumers /\ pc[c] = "asleep" /\ c # p /\ c \in Threads
          BY <1>0 DEF Sleepers, Threads
        <4>3. pc'[c] = "roused" /\ tokens' = tokens
          BY <1>1, <3>4, <4>1, <4>2 DEF Wake
        <4>4. c \notin Movers /\ c \in Movers'
          BY <4>2, <4>3, GateAssumption DEF Movers, Awake
        <4>5. Cardinality(Movers) <= Cardinality(Movers')
          BY <1>1, <2>5, <4>4, Swapped
        <4> QED BY <1>1, <1>2, <2>1, <3>1, <4>3, <4>5 DEF Pending
      <3>5. CASE Wake(p) /\ backend = "futex" /\ Sleepers = {}
        <4>1. pc[d] # "asleep" /\ pc[d] # "polled" /\ pc'[d] = pc[d]
          BY <2>1, <3>5 DEF Sleepers, PollsEventfd
        <4>2. Fresh(d)'
          BY <1>2, <2>1, <3>5, <4>1 DEF Fresh, Idle, Awake
        <4> QED BY <2>3, <4>2, FreshServed
      <3> QED BY <1>5, <3>2, <3>3, <3>4, <3>5
    <2> QED BY <2>3, <2>6
  <1> QED
    BY <1>3, <1>4, <1>5 DEF ProducerStep

\* A step that leaves destroy() where it is keeps the sleepers released when
\* nobody new commits to sleep and no token goes but to one of them.
LEMMA ReleasedKept ==
    ASSUME TypeInv, TypeInv', Released, UNCHANGED <<closing, owed, backend>>,
           closing \in {"bumped", "counted", "done"},
           \A c \in Consumers :
             /\ pc'[c] \in {"verifyData", "verifySeq"} => snap'[c] < seq'
             /\ pc'[c] = "block" /\ backend = "futex" => snap'[c] < seq',
           Committed' \subseteq Committed, Sleepers' \subseteq Sleepers \/ backend # "futex",
           \/ backend # "semaphore"
           \/ tokens <= tokens'
           \/ tokens' = tokens - 1 /\ \E c \in Committed : c \notin Committed'
    PROVE  Released'
  <1>1. /\ Committed \subseteq Threads /\ Committed' \subseteq Threads
        /\ Cardinality(Committed) \in Nat /\ Cardinality(Committed') \in Nat
        /\ Cardinality(Committed') <= Cardinality(Committed)
    <2>1. Committed \subseteq Threads /\ Committed' \subseteq Threads
      BY DEF Committed, Threads
    <2> QED BY <2>1, Counts
  <1>2. tokens \in Nat /\ tokens' \in Nat /\ owed \in Nat
    <2>1. Cardinality(Consumers) \in Nat
      BY Counts DEF Threads
    <2>2. Cursors /\ Cursors' /\ owed \in 0 .. Cardinality(Consumers)
      BY TypeParts, TypePartsNext
    <2> QED BY <2>1, <2>2 DEF Cursors
  <1>3. ASSUME closing # "bumped", backend = "semaphore"
        PROVE  Cardinality(Committed') <= tokens' + owed
    <2>1. Cardinality(Committed) <= tokens + owed
      BY <1>3 DEF Released
    <2>2. CASE tokens <= tokens'
      BY <1>1, <1>2, <2>1, <2>2
    <2>3. CASE tokens' = tokens - 1 /\ \E c \in Committed : c \notin Committed'
      <3>1. PICK c \in Committed : c \notin Committed'
        BY <2>3
      <3>2. Committed' \subseteq Committed \ {c} /\ Committed \ {c} \subseteq Threads
        BY <1>1, <3>1
      <3>3. Cardinality(Committed \ {c}) = Cardinality(Committed) - 1
        BY <1>1, <3>1, Counts
      <3>4. Cardinality(Committed') <= Cardinality(Committed \ {c})
        BY <3>2, Counts
      <3> QED BY <1>1, <1>2, <2>1, <2>3, <3>3, <3>4
    <2> QED BY <1>3, <2>2, <2>3
  <1> QED
    BY <1>3 DEF Released

\* Consumers after destroy() has advanced the sequence: they find the flag or
\* the moved sequence, and nobody new commits to sleep.
LEMMA ConsumerReleased ==
    ASSUME TypeInv, TypeInv', PollsEventfd, Released, NEW c \in Consumers,
           closing \in {"bumped", "counted", "done"},
           CallRead(c) \/ ConsumerStep(c) \/ WakeEarly(c) \/ Expire(c)
    PROVE  Released'
  <1>0. /\ destroyed /\ c \in Threads
        /\ tokens \in Nat /\ snap \in [Consumers -> Nat] /\ seq \in Nat
    BY TypeParts DEF Threads, Cursors, Registers
  <1>1. MovesAlone(c) /\ Turns(c) /\ Spends(c)
    BY ConsumerMoves, ConsumerTurns
  <1>2. /\ UNCHANGED <<closing, owed, backend, seq>>
        /\ \A d \in Consumers : d # c => pc'[d] = pc[d] /\ snap'[d] = snap[d]
    BY <1>1 DEF MovesAlone, Threads
  <1>3. \A d \in Consumers :
          /\ pc[d] \in {"verifyData", "verifySeq"} => snap[d] < seq
          /\ pc[d] = "block" /\ backend = "futex" => snap[d] < seq
    BY DEF Released
  <1>4. /\ pc'[c] # "verifyData"
        /\ pc'[c] = "verifySeq" => snap'[c] < seq
        /\ pc'[c] # "block"
        /\ pc'[c] = "asleep" => pc[c] = "block" /\ backend # "futex"
    BY <1>0, <1>1, <1>3 DEF Turns
  <1>5. \A d \in Consumers :
          /\ pc'[d] \in {"verifyData", "verifySeq"} => snap'[d] < seq'
          /\ pc'[d] = "block" /\ backend = "futex" => snap'[d] < seq'
    BY <1>2, <1>3, <1>4
  <1>6. Committed' \subseteq Committed /\ (Sleepers' \subseteq Sleepers \/ backend # "futex")
    BY <1>2, <1>4 DEF Committed, Sleepers
  <1>7. \/ backend # "semaphore"
        \/ tokens <= tokens'
        \/ tokens' = tokens - 1 /\ \E d \in Committed : d \notin Committed'
    <2>1. CASE tokens' # tokens /\ backend = "semaphore"
      <3>1. tokens' = tokens - 1 /\ pc[c] = "asleep" /\ pc'[c] = "roused"
        BY <1>1, <2>1 DEF Spends, PollsEventfd
      <3>2. c \in Committed /\ c \notin Committed'
        BY <3>1 DEF Committed
      <3> QED BY <3>1, <3>2
    <2> QED BY <1>0, <2>1
  <1> QED
    BY <1>2, <1>5, <1>6, <1>7, ReleasedKept

\* Producers that still signal, and deaths.
LEMMA OthersReleased ==
    ASSUME TypeInv, TypeInv', Released, closing \in {"bumped", "counted", "done"},
           \/ \E p \in Producers : Publish(p) \/ ProducerStep(p)
           \/ \E x \in Mortal : Die(x)
    PROVE  Released'
  <1>0. /\ destroyed /\ tokens \in Nat /\ pc \in [Threads -> Labels]
        /\ snap \in [Consumers -> Nat] /\ seq \in Nat
    BY TypeParts DEF Cursors, Registers
  <1>1. /\ UNCHANGED <<closing, owed, backend, snap>> /\ seq' \in {seq, seq + 1}
        /\ tokens' \in {tokens, tokens + 1}
    BY DEF Publish, ProducerStep, Bump, Look, Wake, Die, shutdown
  <1>2. \A d \in Consumers : pc'[d] = pc[d] \/ pc'[d] \in {"roused", "dead"}
    BY <1>0, GateAssumption
       DEF Publish, ProducerStep, Bump, Look, Wake, Die, Move, Sleepers, Threads
  <1>3. \A d \in Consumers :
          /\ pc'[d] \in {"verifyData", "verifySeq"} => snap'[d] < seq'
          /\ pc'[d] = "block" /\ backend = "futex" => snap'[d] < seq'
    BY <1>0, <1>1, <1>2 DEF Released
  <1>4. Committed' \subseteq Committed /\ Sleepers' \subseteq Sleepers
    BY <1>2 DEF Committed, Sleepers
  <1>5. tokens <= tokens'
    BY <1>0, <1>1
  <1> QED
    BY <1>1, <1>3, <1>4, <1>5, ReleasedKept

\* destroy(): the sequence is advanced after the flag and the waiters are
\* counted after that, so whoever commits to sleep is counted.
LEMMA DestroyReleases ==
    ASSUME TypeInv, TypeInv', Released, DestroyFlag \/ DestroyStep
    PROVE  Released'
  <1>0. /\ Cursors /\ Registers /\ CountBounded /\ owed \in Nat
    <2>1. Cardinality(Consumers) \in Nat
      BY Counts DEF Threads
    <2> QED BY <2>1, TypeParts
  <1>1. CASE DestroyFlag
    BY <1>1 DEF DestroyFlag, Released
  <1>2. CASE DestroyBump
    <2>1. \A c \in Consumers : snap'[c] < seq'
      BY <1>0, <1>2 DEF DestroyBump, Registers, Snapshots
    <2> QED BY <1>2, <2>1 DEF DestroyBump, Released
  <1>3. CASE DestroyCount
    <2>1. Committed \subseteq Registered /\ Registered \subseteq Threads
      BY DEF Committed, Registered, Threads
    <2>2. /\ Cardinality(Committed) <= Cardinality(Registered)
          /\ Cardinality(Committed) \in Nat /\ Cardinality(Registered) \in Nat
      BY <2>1, Counts
    <2>3. backend = "semaphore" => Cardinality(Committed) <= tokens + waiters
      BY <1>0, <2>2 DEF CountBounded, RegisteredCounted, Registers, Cursors
    <2>4. Committed' = Committed
      BY <1>3 DEF DestroyCount, Committed
    <2> QED BY <1>3, <2>3, <2>4 DEF DestroyCount, Released
  <1>4. CASE DestroyWake
    <2>1. /\ closing = "counted" /\ UNCHANGED <<seq, snap, backend>>
          /\ tokens' + owed' = tokens + owed
          /\ closing' = "done" => owed' = 0
      BY <1>0, <1>4 DEF DestroyWake, Cursors
    <2>2. /\ \A c \in Consumers : pc'[c] = pc[c] \/ (pc[c] = "asleep" /\ pc'[c] = "roused")
          /\ backend = "futex" => Sleepers' = {}
      BY <1>0, <1>4 DEF DestroyWake, Sleepers, Registers, Threads
    <2>3. Committed' \subseteq Committed /\ Committed \subseteq Threads
      BY <2>2 DEF Committed, Threads
    <2>4. Cardinality(Committed') <= Cardinality(Committed) /\ Cardinality(Committed) \in Nat
          /\ Cardinality(Committed') \in Nat
      BY <2>3, Counts
    <2>5. backend = "semaphore" => Cardinality(Committed') <= tokens' + owed'
      <3>1. backend = "semaphore" => Cardinality(Committed) <= tokens + owed
        BY <2>1 DEF Released
      <3> QED BY <1>0, <2>1, <2>4, <3>1 DEF Cursors
    <2>6. \A c \in Consumers :
            /\ pc'[c] \in {"verifyData", "verifySeq"} => snap'[c] < seq'
            /\ pc'[c] = "block" /\ backend = "futex" => snap'[c] < seq'
      BY <2>1, <2>2 DEF Released
    <2> QED BY <2>1, <2>2, <2>5, <2>6 DEF Released
  <1> QED
    BY <1>1, <1>2, <1>3, <1>4 DEF DestroyStep

\* Only poll leads to the labels of an eventfd.
LEMMA NextPolls ==
    ASSUME TypeInv, PollsEventfd, Next
    PROVE  PollsEventfd'
  <1>1. ASSUME NEW c \in Consumers, CallRead(c) \/ ConsumerStep(c) \/ WakeEarly(c) \/ Expire(c)
        PROVE  PollsEventfd'
    <2>1. MovesAlone(c) /\ Turns(c)
      BY <1>1, ConsumerMoves, ConsumerTurns
    <2> QED BY <2>1 DEF PollsEventfd, MovesAlone, Turns, Threads
  <1>2. CASE ~\E c \in Consumers :
                CallRead(c) \/ ConsumerStep(c) \/ WakeEarly(c) \/ Expire(c)
    <2>1. /\ backend' = backend
          /\ \A d \in Consumers : pc'[d] = pc[d] \/ pc'[d] \in {"roused", "dead"}
      <3>1. pc \in [Threads -> Labels]
        BY TypeParts DEF Registers
      <3> QED
        BY <1>2, <3>1, GateAssumption
           DEF Next, Publish, ProducerStep, Bump, Look, Wake, Die, Move, Sleepers, Threads,
               DestroyFlag, DestroyStep, DestroyBump, DestroyCount, DestroyWake
    <2> QED BY <2>1 DEF PollsEventfd
  <1> QED BY <1>1, <1>2

\* Every step keeps the gate sound.
LEMMA NextGate == GateInv /\ [Next]_vars => GateInv'
  <1> SUFFICES ASSUME GateInv, [Next]_vars PROVE GateInv'
    OBVIOUS
  <1>0. TypeInv /\ TypeInv' /\ PollsEventfd /\ Released /\ (Timed = {} => Served)
    BY NextTypes DEF GateInv
  <1>1. CASE UNCHANGED vars
    BY <1>0, <1>1
       DEF GateInv, PollsEventfd, Released, Served, AllLive, EntriesServed, UnseenUnsignalled,
           Idle, Awake, Movers, Signallers, Committed, Sleepers, Pending, vars, shutdown
  <1>2. CASE Next
    <2>1. PollsEventfd'
      BY <1>0, <1>2, NextPolls
    <2>2. Released'
      <3>1. CASE DestroyFlag \/ DestroyStep
        BY <1>0, <3>1, DestroyReleases
      <3>2. CASE ~(DestroyFlag \/ DestroyStep)
        <4>1. closing' = closing
          BY <1>2, <3>2
             DEF Next, CallRead, ConsumerStep, WakeEarly, Expire, Take, TakeNothing,
                 TakeExpired, Check, Compare, TimeOut, Snapshot, Enroll, VerifyLoad,
                 VerifyData, VerifySeq, Block, WakeByToken, Leave, Consume, Publish,
                 ProducerStep, Bump, Look, Wake, Die, shutdown
        <4>2. CASE closing \in {"bumped", "counted", "done"}
          BY <1>0, <1>2, <3>2, <4>2, ConsumerReleased, OthersReleased DEF Next
        <4>3. CASE closing \notin {"bumped", "counted", "done"}
          BY <4>1, <4>3 DEF Released
        <4> QED BY <4>2, <4>3
      <3> QED BY <3>1, <3>2
    <2>3. ASSUME Timed = {} PROVE Served'
      <3> SUFFICES ASSUME AllLive', closing' = "no"
                   PROVE  EntriesServed' /\ UnseenUnsignalled'
        BY DEF Served
      <3>1. ~\E x \in Mortal : Die(x)
        <4>1. pc \in [Threads -> Labels] /\ Mortal \subseteq Threads
          BY <1>0, TypeParts, GateAssumption DEF Registers, Threads
        <4> QED BY <4>1 DEF Die, AllLive
      <3>2. ~(DestroyFlag \/ DestroyStep)
        BY DEF DestroyFlag, DestroyStep, DestroyBump, DestroyCount, DestroyWake
      <3>3. closing = "no"
        BY <1>2, <3>2
           DEF Next, CallRead, ConsumerStep, WakeEarly, Expire, Take, TakeNothing,
               TakeExpired, Check, Compare, TimeOut, Snapshot, Enroll, VerifyLoad,
               VerifyData, VerifySeq, Block, WakeByToken, Leave, Consume, Publish,
               ProducerStep, Bump, Look, Wake, Die, shutdown
      <3>4. ASSUME NEW c \in Consumers,
                   CallRead(c) \/ ConsumerStep(c) \/ WakeEarly(c) \/ Expire(c)
            PROVE  EntriesServed' /\ UnseenUnsignalled'
        <4>1. AllLive
          <5>1. MovesAlone(c)
            BY <1>0, <3>4, ConsumerMoves
          <5> QED BY <5>1 DEF MovesAlone, AllLive
        <4> QED BY <1>0, <2>3, <3>3, <3>4, <4>1, ConsumerServed
      <3>5. ASSUME NEW p \in Producers, Publish(p) \/ ProducerStep(p)
            PROVE  EntriesServed' /\ UnseenUnsignalled'
        <4>1. AllLive
          <5>1. pc \in [Threads -> Labels]
            BY <1>0, TypeParts DEF Registers
          <5>2. \A x \in Threads : pc[x] = "dead" => pc'[x] = "dead"
            BY <3>5, <5>1
               DEF Publish, ProducerStep, Bump, Look, Wake, Move, Sleepers, Threads
          <5> QED BY <5>2 DEF AllLive
        <4> QED BY <1>0, <2>3, <3>3, <3>5, <4>1, ProducerServed
      <3> QED BY <1>2, <3>1, <3>2, <3>4, <3>5 DEF Next
    <2> QED BY <1>0, <2>1, <2>2, <2>3 DEF GateInv
  <1> QED BY <1>1, <1>2

\* GateInv holds to begin with.
LEMMA InitGate == Init => GateInv
  <1> SUFFICES ASSUME Init PROVE GateInv
    OBVIOUS
  <1>1. TypeInv
    BY InitTypes
  <1>2. \A c \in Consumers : pc[c] = "out"
    BY DEF Init
  <1>3. PollsEventfd /\ EntriesServed /\ UnseenUnsignalled
    BY <1>2 DEF PollsEventfd, EntriesServed, UnseenUnsignalled, Idle
  <1>4. Released
    BY DEF Init, Released
  <1> QED BY <1>1, <1>3, <1>4 DEF GateInv, Served

\* The invariant leaves no state in which a wake-up is lost.
LEMMA GateMissesNothing == GateInv /\ Timed = {} => NoMissedSignal
  <1> SUFFICES ASSUME GateInv, Timed = {},
                      Pending > 0, Registered # {},
                      \A c \in Registered : pc[c] = "asleep",
                      \A c \in Consumers : pc[c] \in {"out", "asleep"},
                      tokens = 0, closing \in {"no", "done"}, ~StrandedByEventfd,
                      \A p \in Producers : pc[p] = "out"
               PROVE  FALSE
    BY DEF NoMissedSignal
  <1>0. /\ Cursors /\ Served /\ Released
    BY TypeParts DEF GateInv
  <1>1. PICK c \in Consumers : pc[c] = "asleep"
    BY DEF Registered
  <1>2. CASE closing = "no"
    <2>1. AllLive
      BY DEF AllLive, Threads
    <2>2. Idle(c)
      BY <1>1 DEF Idle, Awake
    <2>3. Movers = {}
      BY DEF Movers, Awake
    <2>4. Cardinality(Movers) = 0
      BY <2>3, FS_EmptySet
    <2>5. published - taken <= 0
      BY <1>0, <1>2, <2>1, <2>2, <2>4 DEF Served, EntriesServed, Pending
    <2> QED BY <1>0, <2>5 DEF Pending, Cursors
  <1>3. CASE closing = "done"
    <2>1. backend \in {"futex", "semaphore"}
      BY <1>0, <1>3, GateAssumption DEF StrandedByEventfd, Cursors
    <2>2. c \in Sleepers /\ c \in Committed /\ Committed \subseteq Threads
      BY <1>1 DEF Sleepers, Committed, Threads
    <2>3. Cardinality(Committed) > 0 /\ Cardinality(Committed) \in Nat
      BY <2>2, Counts
    <2> QED BY <1>0, <1>3, <2>1, <2>2, <2>3 DEF Released
  <1> QED BY <1>2, <1>3

\* While no reader gives up on a deadline, no wake-up is lost: consumers do not
\* all sleep on a pending entry once every signaller has gone on, for any
\* number of consumers and producers on each of the three kernel objects.
THEOREM NoSignalIsMissed ==
    ASSUME Timed = {} PROVE Spec => []NoMissedSignal
  <1>1. GateInv => NoMissedSignal
    BY GateMissesNothing
  <1> QED BY <1>1, InitGate, NextGate, PTL DEF Spec
=============================================================================
