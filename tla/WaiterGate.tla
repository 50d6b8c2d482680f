----------------------------- MODULE WaiterGate -----------------------------
(***************************************************************************)
(* Waiting for and signalling one channel of a TypedRingBuffer: the        *)
(* sequence/waiter handshake of WaiterGate (backends/common.rs), the three *)
(* kernel objects behind it (a futex word, a POSIX semaphore, an           *)
(* EFD_SEMAPHORE eventfd), and the callers: consumers in                   *)
(* read_message_timeout, producers that commit and then signal, and        *)
(* destroy().  The queue itself is a count of pending entries: RingChannel *)
(* shows that its operations are atomic.                                   *)
(***************************************************************************)
EXTENDS Naturals, FiniteSets

CONSTANTS
    Consumers,   \* threads in read_message_timeout / receive_command_timeout
    Producers,   \* threads in try_write_message / try_send_command
    Backends,    \* the kernel objects a ring may be created with
    Capacity,    \* slots of the ring
    MaxPublish,  \* bound: entries committed in a behaviour.  It also keeps the
                 \* 32-bit sequence from coming round to a snapshot.
    Timed,       \* consumers that wait with a timeout
    Mortal       \* consumers and producers that may die inside a call

ASSUME GateAssumption ==
    /\ IsFiniteSet(Consumers) /\ IsFiniteSet(Producers)
    /\ Backends \subseteq {"futex", "semaphore", "eventfd"}
    /\ Capacity \in Nat \ {0}
    /\ MaxPublish \in Nat
    /\ Timed \subseteq Consumers
    /\ Mortal \subseteq Consumers \cup Producers
    /\ Consumers \cap Producers = {}

VARIABLES
    published,   \* entries committed so far: the write cursor
    taken,       \* entries consumed so far: the read cursor
    destroyed,   \* header.is_destroyed
    seq,         \* WaiterGate.sequence
    waiters,     \* WaiterGate.waiters
    tokens,      \* count of the semaphore or eventfd; unused by the futex
    pc,          \* where each consumer and producer is
    seen,        \* the write cursor each consumer loaded in has_message,
                 \* 0 when the register is dead
    snap,        \* the sequence each consumer loaded in register, likewise
    closing,     \* progress of destroy(): "no", "flag", "bumped", "counted", "done"
    owed,        \* waiters destroy() has counted and not yet woken
    backend      \* SyncBackend the ring was created with; never changes

shutdown == <<closing, owed>>
vars == <<published, taken, destroyed, seq, waiters, tokens, pc, seen, snap, shutdown, backend>>

Pending == published - taken

Init ==
    /\ published = 0
    /\ taken = 0
    /\ destroyed = FALSE
    /\ seq = 0
    /\ waiters = 0
    /\ tokens = 0
    /\ pc = [x \in Consumers \cup Producers |-> "out"]
    /\ seen = [c \in Consumers |-> 0]
    /\ snap = [c \in Consumers |-> 0]
    /\ closing = "no"
    /\ owed = 0
    /\ backend \in Backends

Move(x, from, to) ==
    /\ pc[x] = from
    /\ pc' = [pc EXCEPT ![x] = to]

Sleepers == {c \in Consumers : pc[c] = "asleep"}

------------------------------------------------------------------------------
(* Consumers *)

\* read_message_timeout begins; on a destroyed buffer it returns at once.
CallRead(c) ==
    /\ ~destroyed
    /\ Move(c, "out", "take")
    /\ UNCHANGED <<published, taken, destroyed, seq, waiters, tokens, seen,
                   snap, shutdown, backend>>

\* read_next_message_until: an entry, or "closed".
Take(c) ==
    /\ \/ destroyed /\ UNCHANGED taken
       \/ ~destroyed /\ Pending > 0 /\ taken' = taken + 1
    /\ Move(c, "take", "out")
    /\ UNCHANGED <<published, destroyed, seq, waiters, tokens, seen, snap,
                   shutdown, backend>>

\* Nothing: the channel is empty, or the read lock stayed contended for
\* LOCK_CONTENTION_LIMIT.  The read waits for a message.
TakeNothing(c) ==
    /\ ~destroyed
    /\ Move(c, "take", "check")
    /\ UNCHANGED <<published, taken, destroyed, seq, waiters, tokens, seen,
                   snap, shutdown, backend>>

\* Nothing, and the deadline has passed, perhaps while the read lock was
\* contended: the read returns although an entry may be pending.
TakeExpired(c) ==
    /\ c \in Timed
    /\ Move(c, "take", "out")
    /\ UNCHANGED <<published, taken, destroyed, seq, waiters, tokens, seen,
                   snap, shutdown, backend>>

\* The closure wait_channel hands to the backend, is_destroyed || has_message,
\* tests the flag and loads the write cursor, ...
LoadWritten(c, from, to) ==
    /\ Move(c, from, IF destroyed THEN "take" ELSE to)
    /\ seen' = [seen EXCEPT ![c] = published]

\* ... then loads the read cursor: available_messages() > 0.  Another consumer
\* may have passed the loaded write cursor; the difference wraps, not to zero.
LooksReady(c) == seen[c] # taken

\* The loops of wait_channel and of the backend: data to read, ...
Check(c) ==
    /\ LoadWritten(c, "check", "compare")
    /\ UNCHANGED <<published, taken, destroyed, seq, waiters, tokens, snap,
                   shutdown, backend>>

\* ... or register, ...
Compare(c) ==
    /\ Move(c, "compare", IF LooksReady(c) THEN "take" ELSE "snapshot")
    /\ seen' = [seen EXCEPT ![c] = 0]
    /\ UNCHANGED <<published, taken, destroyed, seq, waiters, tokens, snap,
                   shutdown, backend>>

\* ... unless the deadline has passed: the read returns nothing.
TimeOut(c) ==
    /\ c \in Timed
    /\ ~LooksReady(c)
    /\ Move(c, "compare", "out")
    /\ seen' = [seen EXCEPT ![c] = 0]
    /\ UNCHANGED <<published, taken, destroyed, seq, waiters, tokens, snap,
                   shutdown, backend>>

\* register: snapshot the sequence, ...
Snapshot(c) ==
    /\ Move(c, "snapshot", "enroll")
    /\ snap' = [snap EXCEPT ![c] = seq]
    /\ UNCHANGED <<published, taken, destroyed, seq, waiters, tokens, seen,
                   shutdown, backend>>

\* ... count the waiter, ...
Enroll(c) ==
    /\ Move(c, "enroll", "verifyLoad")
    /\ waiters' = waiters + 1
    /\ UNCHANGED <<published, taken, destroyed, seq, tokens, seen, snap,
                   shutdown, backend>>

\* Mutant: registering does not look for data again.
VerifySkipped(c) ==
    /\ Move(c, "verifyLoad", "verifySeq")
    /\ UNCHANGED <<published, taken, destroyed, seq, waiters, tokens, seen,
                   snap, shutdown, backend>>

\* ... look for data again (DataReady drops the registration), ...
VerifyLoad(c) ==
    /\ LoadWritten(c, "verifyLoad", "verifyData")
    /\ waiters' = IF destroyed THEN waiters - 1 ELSE waiters
    /\ UNCHANGED <<published, taken, destroyed, seq, tokens, snap, shutdown,
                   backend>>

VerifyData(c) ==
    /\ \/ LooksReady(c) /\ waiters' = waiters - 1 /\ Move(c, "verifyData", "take")
       \/ ~LooksReady(c) /\ Move(c, "verifyData", "verifySeq") /\ UNCHANGED waiters
    /\ seen' = [seen EXCEPT ![c] = 0]
    /\ UNCHANGED <<published, taken, destroyed, seq, tokens, snap, shutdown,
                   backend>>

\* ... and compare the sequence (Retry drops the registration).
VerifySeq(c) ==
    /\ \/ /\ seq # snap[c]
          /\ waiters' = waiters - 1
          /\ snap' = [snap EXCEPT ![c] = 0]
          /\ Move(c, "verifySeq", "check")
       \/ /\ seq = snap[c]
          /\ Move(c, "verifySeq", "block")
          /\ UNCHANGED <<waiters, snap>>
    /\ UNCHANGED <<published, taken, destroyed, seq, tokens, seen, shutdown,
                   backend>>

\* The system call: FUTEX_WAIT compares the sequence before it sleeps,
\* sem_wait and poll sleep until the count is positive.
Block(c) ==
    /\ Move(c, "block",
            IF backend = "futex" /\ seq # snap[c] THEN "roused" ELSE "asleep")
    /\ UNCHANGED <<published, taken, destroyed, seq, waiters, tokens, seen,
                   snap, shutdown, backend>>

\* sem_wait takes the token it wakes for; poll only sees that there is one.
WakeByToken(c) ==
    /\ tokens > 0
    /\ \/ /\ backend = "semaphore"
          /\ tokens' = tokens - 1
          /\ Move(c, "asleep", "roused")
       \/ /\ backend = "eventfd"
          /\ Move(c, "asleep", "polled")
          /\ UNCHANGED tokens
    /\ UNCHANGED <<published, taken, destroyed, seq, waiters, seen, snap,
                   shutdown, backend>>

\* Mutant: the deadline is not handed to the system call.
WakeEarlyUntimed(c) ==
    /\ c \notin Timed
    /\ backend # "semaphore"
    /\ Move(c, "asleep", "roused")
    /\ UNCHANGED <<published, taken, destroyed, seq, waiters, tokens, seen,
                   snap, shutdown, backend>>

\* A wait ends without a wake-up: its timeout, or a signal handler (sem_wait
\* restarts after EINTR).
WakeEarly(c) ==
    /\ c \in Timed \/ backend # "semaphore"
    /\ Move(c, "asleep", "roused")
    /\ UNCHANGED <<published, taken, destroyed, seq, waiters, tokens, seen,
                   snap, shutdown, backend>>

\* Mutant: leaving stores zero instead of subtracting one.
LeaveResets(c) ==
    /\ waiters' = 0
    /\ Move(c, "roused", "check") \/ Move(c, "polled", "consume")
    /\ snap' = [snap EXCEPT ![c] = 0]
    /\ UNCHANGED <<published, taken, destroyed, seq, tokens, seen, shutdown,
                   backend>>

\* The registration is dropped; a polled eventfd is read afterwards.
Leave(c) ==
    /\ waiters' = waiters - 1
    /\ Move(c, "roused", "check") \/ Move(c, "polled", "consume")
    /\ snap' = [snap EXCEPT ![c] = 0]
    /\ UNCHANGED <<published, taken, destroyed, seq, tokens, seen, shutdown,
                   backend>>

\* Mutant: the read counts as done even when it would block.
ConsumeBlind(c) ==
    /\ Move(c, "consume", "check")
    /\ tokens' = tokens - 1
    /\ UNCHANGED <<published, taken, destroyed, seq, waiters, seen, snap,
                   shutdown, backend>>

\* consume_one_eventfd: a non-blocking read of one token.
Consume(c) ==
    /\ Move(c, "consume", "check")
    /\ tokens' = IF tokens > 0 THEN tokens - 1 ELSE 0
    /\ UNCHANGED <<published, taken, destroyed, seq, waiters, seen, snap,
                   shutdown, backend>>

------------------------------------------------------------------------------
(* Producers *)

\* An entry is committed.
Publish(p) ==
    /\ ~destroyed
    /\ Pending < Capacity
    /\ published < MaxPublish
    /\ published' = published + 1
    /\ Move(p, "out", "signal")
    /\ UNCHANGED <<taken, destroyed, seq, waiters, tokens, seen, snap, shutdown,
                   backend>>

\* WaiterGate::signal: advance the sequence, ...
Bump(p) ==
    /\ Move(p, "signal", "look")
    /\ seq' = seq + 1
    /\ UNCHANGED <<published, taken, destroyed, waiters, tokens, seen, snap,
                   shutdown, backend>>

\* Mutant: off by one, a single waiter is not worth a system call.
LookForTwo(p) ==
    /\ Move(p, "look", IF waiters > 1 THEN "wake" ELSE "out")
    /\ UNCHANGED <<published, taken, destroyed, seq, waiters, tokens, seen,
                   snap, shutdown, backend>>

\* ... then load the count; no waiter, no system call.
Look(p) ==
    /\ Move(p, "look", IF waiters > 0 THEN "wake" ELSE "out")
    /\ UNCHANGED <<published, taken, destroyed, seq, waiters, tokens, seen,
                   snap, shutdown, backend>>

\* futex_wake(1), sem_post, or write(eventfd, 1).
Wake(p) ==
    /\ IF backend = "futex"
         THEN /\ UNCHANGED tokens
              /\ \/ \E c \in Sleepers :
                      /\ pc[p] = "wake"
                      /\ pc' = [pc EXCEPT ![p] = "out", ![c] = "roused"]
                 \/ Sleepers = {} /\ Move(p, "wake", "out")
         ELSE /\ tokens' = tokens + 1
              /\ Move(p, "wake", "out")
    /\ UNCHANGED <<published, taken, destroyed, seq, waiters, seen, snap,
                   shutdown, backend>>

------------------------------------------------------------------------------
(* Shutdown and death *)

\* destroy(): publish the flag, ...
DestroyFlag ==
    /\ closing = "no"
    /\ closing' = "flag"
    /\ destroyed' = TRUE
    /\ UNCHANGED <<published, taken, seq, waiters, tokens, pc, seen, snap, owed,
                   backend>>

\* ... advance the sequence and load the count (broadcast_count), ...
DestroyBump ==
    /\ closing = "flag"
    /\ closing' = "bumped"
    /\ seq' = seq + 1
    /\ UNCHANGED <<published, taken, destroyed, waiters, tokens, pc, seen, snap,
                   owed, backend>>

DestroyCount ==
    /\ closing = "bumped"
    /\ closing' = "counted"
    /\ owed' = IF backend = "futex" THEN 0 ELSE waiters
    /\ UNCHANGED <<published, taken, destroyed, seq, waiters, tokens, pc, seen,
                   snap, backend>>

\* Mutant: destroy() leaves the waiters to their timeouts.
DestroyWakeNone ==
    /\ closing = "counted"
    /\ closing' = "done"
    /\ owed' = 0
    /\ UNCHANGED <<published, taken, destroyed, seq, waiters, tokens, pc, seen,
                   snap, backend>>

\* ... and wake: every futex sleeper, or a token per counted waiter, by one
\* sem_post each or by one write to the eventfd.
DestroyWake ==
    /\ closing = "counted"
    /\ LET n == IF backend = "semaphore" /\ owed > 0 THEN 1 ELSE owed IN
         /\ tokens' = tokens + n
         /\ owed' = owed - n
         /\ closing' = IF owed = n THEN "done" ELSE "counted"
    /\ pc' = IF backend = "futex"
               THEN [x \in DOMAIN pc |-> IF x \in Sleepers THEN "roused" ELSE pc[x]]
               ELSE pc
    /\ UNCHANGED <<published, taken, destroyed, seq, waiters, seen, snap,
                   backend>>

\* A thread dies inside a call.  The kernel forgets a sleeper; the shared
\* waiter count does not.
Die(x) ==
    /\ x \in Mortal
    /\ pc[x] \notin {"out", "dead"}
    /\ pc' = [pc EXCEPT ![x] = "dead"]
    /\ UNCHANGED <<published, taken, destroyed, seq, waiters, tokens, seen,
                   snap, shutdown, backend>>

ConsumerStep(c) ==
    \/ Take(c) \/ TakeNothing(c) \/ Check(c) \/ Compare(c)
    \/ Snapshot(c) \/ Enroll(c) \/ VerifyLoad(c)
    \/ VerifyData(c) \/ VerifySeq(c) \/ Block(c) \/ WakeByToken(c)
    \/ Leave(c) \/ Consume(c)

\* A read gives up because its deadline has passed.
Expire(c) == TakeExpired(c) \/ TimeOut(c)

ProducerStep(p) == Bump(p) \/ Look(p) \/ Wake(p)

DestroyStep == DestroyBump \/ DestroyCount \/ DestroyWake

Next ==
    \/ \E c \in Consumers :
           CallRead(c) \/ ConsumerStep(c) \/ WakeEarly(c) \/ Expire(c)
    \/ \E p \in Producers : Publish(p) \/ ProducerStep(p)
    \/ DestroyFlag \/ DestroyStep
    \/ \E x \in Mortal : Die(x)

Spec == Init /\ [][Next]_vars

\* Threads inside a call keep running; nobody has to make a call, and a wait
\* without a timeout need not be interrupted.  Critical sections are short, so
\* a read that keeps trying gets the read lock.  A timed sleep ends, and since
\* the clock only advances, a loop that keeps testing its deadline passes it.
FairSpec ==
    /\ Spec
    /\ \A c \in Consumers : WF_vars(ConsumerStep(c)) /\ SF_vars(Take(c))
    /\ \A c \in Timed : WF_vars(WakeEarly(c)) /\ SF_vars(Expire(c))
    /\ \A p \in Producers : WF_vars(ProducerStep(p))
    /\ WF_vars(DestroyStep)

------------------------------------------------------------------------------
(* Properties *)

\* Every variable holds a value of its type; the count never goes negative.
TypeOK ==
    /\ published \in 0 .. MaxPublish
    /\ taken \in 0 .. published
    /\ Pending <= Capacity
    /\ destroyed \in BOOLEAN
    /\ seq \in 0 .. MaxPublish + 1
    /\ waiters \in Nat
    /\ tokens \in Nat
    /\ pc \in [Consumers \cup Producers ->
                 {"out", "take", "check", "compare", "snapshot", "enroll",
                  "verifyLoad", "verifyData", "verifySeq", "block", "asleep", "roused", "polled",
                  "consume", "signal", "look", "wake", "dead"}]
    /\ seen \in [Consumers -> 0 .. MaxPublish]
    /\ snap \in [Consumers -> 0 .. MaxPublish + 1]
    /\ closing \in {"no", "flag", "bumped", "counted", "done"}
    /\ owed \in 0 .. Cardinality(Consumers)
    /\ backend \in Backends

Registered ==
    {c \in Consumers :
        pc[c] \in {"verifyLoad", "verifyData", "verifySeq", "block", "asleep", "roused", "polled"}}

\* Every registered waiter is counted, so a signaller that skips the kernel
\* has nobody to wake; a dead waiter leaves the count too high, never too low.
RegisteredCounted == Cardinality(Registered) <= waiters

\* With three eventfd consumers a token of destroy() may go to one that does
\* not need it and leave another asleep (run gate_eventfd_destroy).
StrandedByEventfd == destroyed /\ backend = "eventfd"

\* No consumer sleeps through a committed entry while every signaller that
\* could wake it, destroy() included, has gone on: the skipped system call
\* never loses a wake-up.
NoMissedSignal ==
    ~ /\ Pending > 0
      /\ Registered # {}
      /\ \A c \in Registered : pc[c] = "asleep"
      /\ \A c \in Consumers : pc[c] \in {"out", "asleep"}
      /\ tokens = 0
      /\ closing \in {"no", "done"}
      /\ ~StrandedByEventfd
      /\ \A p \in Producers : pc[p] = "out"

\* A consumer that sleeps while an entry is pending wakes up, or another
\* consumer takes the last entry.
SleeperWakes ==
    \A c \in Consumers :
        (pc[c] = "asleep" /\ Pending > 0) ~>
            (pc[c] # "asleep" \/ Pending = 0 \/ StrandedByEventfd)

\* Once the buffer is destroyed every blocked read returns, including one that
\* was registering when the flag was set and with dead waiters still counted.
DestroyReleasesAll ==
    \A c \in Consumers : destroyed ~> (pc[c] \in {"out", "dead"})

\* A read with a timeout returns, even if the signaller or the consumer that
\* was woken in its place died.
TimedReadReturns ==
    \A c \in Timed : pc[c] # "out" ~> (pc[c] \in {"out", "dead"})
=============================================================================
