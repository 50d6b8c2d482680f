----------------------------- MODULE RingChannel -----------------------------
(***************************************************************************)
(* One channel of a TypedRingBuffer (crates/shared_structures): a ring of  *)
(* slots in shared memory, a write cursor and a read cursor, each an index *)
(* that wraps and a direction lock whose word is the holder's Linux TID.   *)
(* Threads of several processes run the operations below; a step is one    *)
(* access to shared memory that another thread can observe.  A thread may  *)
(* die at any step (its lock word stays behind) or be stopped for ever;    *)
(* other threads probe a lock's holder and take the lock of a dead one.    *)
(*                                                                         *)
(* The message channel has every operation; the command channel has "write"*)
(* and "next" only.  The kernel's wake-ups are in WaiterGate.              *)
(***************************************************************************)
EXTENDS Naturals, Sequences

CONSTANTS
    Threads,     \* TIDs of the threads that map the ring
    Msgs,        \* payloads
    Capacity,    \* buffer_size: number of slots, a power of two in the code
    IndexSpace,  \* number of index values, 2^32 in the code
    Ops,         \* Ops[t]: operations thread t calls, a subset of AllOps
    Mortal,      \* threads that may die inside a call
    Stopped,     \* threads that may halt for ever (SIGSTOP, a debugger)
    TidReuse,    \* whether the kernel hands a dead thread's TID to a new one
    Free,        \* the lock word 0
    None,        \* no payload
    Torn         \* contents of a slot or copy that mixes two writes

WriteOps == {"write", "overwrite"}
ReadOps == {"next", "latest", "peek", "drain"}
AllOps == WriteOps \cup ReadOps
Locks == {"w", "r"}

ASSUME CapacityAssumption == Capacity \in Nat \ {0}
ASSUME IndexAssumption == /\ IndexSpace \in Nat
                          /\ IndexSpace >= 2 * Capacity
                          /\ IndexSpace % Capacity = 0
ASSUME ThreadAssumption == /\ Free \notin Threads
                           /\ Mortal \subseteq Threads
                           /\ Stopped \subseteq Threads
                           /\ Ops \in [Threads -> SUBSET AllOps]
                           /\ TidReuse \in BOOLEAN
ASSUME MsgAssumption == None \notin Msgs /\ Torn \notin Msgs /\ None # Torn

VARIABLES
    wIdx, rIdx,  \* message_write.index, message_read.index
    lock,        \* message_write.lock ("w") and message_read.lock ("r")
    slots,       \* message_slots
    destroyed,   \* header.is_destroyed
    pc,          \* where each thread is in its call; "dead" once it died
    call,        \* the registers of each thread's call
    got          \* the payload each thread was handed last

vars == <<wIdx, rIdx, lock, slots, destroyed, pc, call, got>>

Indices == 0 .. IndexSpace - 1

\* Mutant: a plain addition in place of wrapping_add.
PlainInc(i) == i + 1

\* u32::wrapping_add(1) and u32::wrapping_sub.
WrapInc(i) == IF i = IndexSpace - 1 THEN 0 ELSE i + 1
WrapSub(i, j) == IF i >= j THEN i - j ELSE i + IndexSpace - j
WrapDec(i) == WrapSub(i, 1)

\* index & buffer_mask().
SlotOf(i) == i % Capacity

Pending == WrapSub(wIdx, rIdx)

\* Registers of a call: the operation and its payload, the lock it is after,
\* the dead holder it saw, the indices it loaded, the slot contents it copied.
NoCall == [op |-> "none", msg |-> None, want |-> "w", holder |-> Free,
           w |-> 0, r |-> 0, copy |-> None]

\* The direction lock an operation takes first.
Home(op) == IF op \in WriteOps THEN "w" ELSE "r"

Calling(t) == pc[t] \notin {"idle", "dead"}

Init ==
    /\ wIdx = 0
    /\ rIdx = 0
    /\ lock = [l \in Locks |-> Free]
    /\ slots = [i \in 0 .. Capacity - 1 |-> None]
    /\ destroyed = FALSE
    /\ pc = [t \in Threads |-> "idle"]
    /\ call = [t \in Threads |-> NoCall]
    /\ got = [t \in Threads |-> None]

Goto(t, label) == pc' = [pc EXCEPT ![t] = label]

------------------------------------------------------------------------------
(* Direction locks *)

\* An operation begins: the is_destroyed test at its head, then the first
\* is_cancelled test of the lock loop.
Start(t, op, m) ==
    /\ pc[t] = "idle"
    /\ ~destroyed
    /\ call' = [call EXCEPT ![t] =
                  [NoCall EXCEPT !.op = op, !.msg = m, !.want = Home(op)]]
    /\ Goto(t, "acquire")
    /\ UNCHANGED <<wIdx, rIdx, lock, slots, destroyed, got>>

\* compare_exchange(0, self) succeeds.
CasLock(t) ==
    /\ pc[t] = "acquire"
    /\ lock[call[t].want] = Free
    /\ lock' = [lock EXCEPT ![call[t].want] = t]
    /\ Goto(t, "recheck")
    /\ UNCHANGED <<wIdx, rIdx, slots, destroyed, call, got>>

\* The call returns to its caller.
Finish(t) ==
    /\ Goto(t, "idle")
    /\ call' = [call EXCEPT ![t] = NoCall]

\* A call that does not get the lock it is after: an overwriter that wanted
\* the read lock still has to release the write lock.
Abandon(t) ==
    IF call[t].want = Home(call[t].op)
      THEN Finish(t)
      ELSE Goto(t, "unlock") /\ UNCHANGED call

\* Mutant: no LOCK_CONTENTION_LIMIT, only shutdown ends the spin.
GiveUpWhenDestroyed(t) ==
    /\ pc[t] = "acquire"
    /\ destroyed
    /\ lock[call[t].want] # Free
    /\ Abandon(t)
    /\ UNCHANGED <<wIdx, rIdx, lock, slots, destroyed, got>>

\* The compare_exchange fails and the caller stops: the buffer is destroyed,
\* the read's deadline has passed, or LOCK_CONTENTION_LIMIT is exhausted.
\* Time is not modelled: the limit may expire after any failed attempt.
GiveUp(t) ==
    /\ pc[t] = "acquire"
    /\ lock[call[t].want] # Free
    /\ Abandon(t)
    /\ UNCHANGED <<wIdx, rIdx, lock, slots, destroyed, got>>

\* Mutant: any holder that keeps the lock long enough counts as dead.
ProbeImpatient(t) ==
    /\ pc[t] = "acquire"
    /\ ~destroyed
    /\ lock[call[t].want] \notin {Free, t}
    /\ call' = [call EXCEPT ![t].holder = lock[call[t].want]]
    /\ Goto(t, "steal")
    /\ UNCHANGED <<wIdx, rIdx, lock, slots, destroyed, got>>

\* process_alive(holder) is false for the holder the compare_exchange saw.
Probe(t) ==
    /\ pc[t] = "acquire"
    /\ ~destroyed
    /\ LET h == lock[call[t].want] IN
         /\ h \notin {Free, t}
         /\ pc[h] = "dead"
         /\ call' = [call EXCEPT ![t].holder = h]
    /\ Goto(t, "steal")
    /\ UNCHANGED <<wIdx, rIdx, lock, slots, destroyed, got>>

\* Mutant: the lock of a dead holder is stored into, not exchanged.
StealBlind(t) ==
    /\ pc[t] = "steal"
    /\ lock' = [lock EXCEPT ![call[t].want] = t]
    /\ Goto(t, "recheck")
    /\ call' = [call EXCEPT ![t].holder = Free]
    /\ UNCHANGED <<wIdx, rIdx, slots, destroyed, got>>

\* compare_exchange(holder, self), or another round of the loop.
Steal(t) ==
    /\ pc[t] = "steal"
    /\ IF lock[call[t].want] = call[t].holder
         THEN /\ lock' = [lock EXCEPT ![call[t].want] = t]
              /\ Goto(t, "recheck")
         ELSE /\ Goto(t, "acquire")
              /\ UNCHANGED lock
    /\ call' = [call EXCEPT ![t].holder = Free]
    /\ UNCHANGED <<wIdx, rIdx, slots, destroyed, got>>

\* is_cancelled is tested again once the lock is held, and is_destroyed by
\* the operation: the guard is dropped, or the critical section begins.
RecheckFail(t) ==
    /\ pc[t] = "recheck"
    /\ lock' = [lock EXCEPT ![call[t].want] = Free]
    /\ Abandon(t)
    /\ UNCHANGED <<wIdx, rIdx, slots, destroyed, got>>

Enter(t) ==
    /\ pc[t] = "recheck"
    /\ ~destroyed
    /\ Goto(t, IF call[t].want = Home(call[t].op) THEN "load" ELSE "evict")
    /\ UNCHANGED <<wIdx, rIdx, lock, slots, destroyed, call, got>>

\* The guard of the operation's home lock is dropped: lock.store(0).
Unlock(t) ==
    /\ pc[t] = "unlock"
    /\ lock' = [lock EXCEPT ![Home(call[t].op)] = Free]
    /\ Finish(t)
    /\ UNCHANGED <<wIdx, rIdx, slots, destroyed, got>>

------------------------------------------------------------------------------
(* Producers: try_write_message, try_send_command, write_message_overwrite *)

\* Mutant: the full test is off by one.
LoadProducerFull(t) ==
    /\ pc[t] = "load"
    /\ call[t].op \in WriteOps
    /\ Pending <= Capacity
    /\ Goto(t, "fill")
    /\ call' = [call EXCEPT ![t].w = wIdx]
    /\ UNCHANGED <<wIdx, rIdx, lock, slots, destroyed, got>>

\* Load the cursors under the write lock.  checked_pending refuses an
\* impossible distance; a full ring ends a write and sends an overwrite after
\* the read lock (lock order: write, then read).
LoadProducer(t) ==
    /\ pc[t] = "load"
    /\ call[t].op \in WriteOps
    /\ \/ /\ Pending > Capacity \/ (Pending = Capacity /\ call[t].op = "write")
          /\ Goto(t, "unlock")
          /\ UNCHANGED call
       \/ /\ Pending < Capacity
          /\ Goto(t, "fill")
          /\ call' = [call EXCEPT ![t].w = wIdx]
       \/ /\ Pending = Capacity
          /\ call[t].op = "overwrite"
          /\ Goto(t, "acquire")
          /\ call' = [call EXCEPT ![t].w = wIdx, ![t].want = "r"]
    /\ UNCHANGED <<wIdx, rIdx, lock, slots, destroyed, got>>

\* Mutant: the ring is not tested again under the read lock.
EvictUnchecked(t) ==
    /\ pc[t] = "evict"
    /\ rIdx' = WrapInc(rIdx)
    /\ Goto(t, "evicted")
    /\ UNCHANGED <<wIdx, lock, slots, destroyed, call, got>>

\* Under both locks the read cursor is loaded again: drop the oldest entry if
\* the ring is still full.
Evict(t) ==
    /\ pc[t] = "evict"
    /\ LET pending == WrapSub(call[t].w, rIdx) IN
         /\ rIdx' = IF pending = Capacity THEN WrapInc(rIdx) ELSE rIdx
         /\ Goto(t, IF pending > Capacity THEN "evictFail" ELSE "evicted")
    /\ UNCHANGED <<wIdx, lock, slots, destroyed, call, got>>

\* The read guard is dropped: at the end of its block, or on the error path.
ReleaseRead(t) ==
    /\ pc[t] \in {"evicted", "evictFail"}
    /\ lock' = [lock EXCEPT !["r"] = Free]
    /\ Goto(t, IF pc[t] = "evicted" THEN "fill" ELSE "unlock")
    /\ UNCHANGED <<wIdx, rIdx, slots, destroyed, call, got>>

\* Mutant: the index is stored before the slot is written.
FillPublished(t) ==
    /\ pc[t] = "fill"
    /\ slots' = [slots EXCEPT ![SlotOf(call[t].w)] = Torn]
    /\ wIdx' = WrapInc(call[t].w)
    /\ Goto(t, "filling")
    /\ UNCHANGED <<rIdx, lock, destroyed, call, got>>

\* The slot is written, which takes time: until it is complete it holds
\* neither the old nor the new payload.
FillBegin(t) ==
    /\ pc[t] = "fill"
    /\ slots' = [slots EXCEPT ![SlotOf(call[t].w)] = Torn]
    /\ Goto(t, "filling")
    /\ UNCHANGED <<wIdx, rIdx, lock, destroyed, call, got>>

FillEnd(t) ==
    /\ pc[t] = "filling"
    /\ slots' = [slots EXCEPT ![SlotOf(call[t].w)] = call[t].msg]
    /\ Goto(t, "publish")
    /\ UNCHANGED <<wIdx, rIdx, lock, destroyed, call, got>>

\* index.store(write_idx + 1): the payload is committed.
Publish(t) ==
    /\ pc[t] = "publish"
    /\ wIdx' = WrapInc(call[t].w)
    /\ Goto(t, "unlock")
    /\ UNCHANGED <<rIdx, lock, slots, destroyed, call, got>>

------------------------------------------------------------------------------
(* Consumers: read_next_message_until, receive_command_until,             *)
(* try_read_latest_message, try_peek_message, drain_messages_into_with    *)

LoadConsumer(t) ==
    /\ pc[t] = "load"
    /\ call[t].op \in ReadOps
    /\ \/ /\ Pending = 0 \/ Pending > Capacity
          /\ Goto(t, "unlock")
          /\ UNCHANGED call
       \/ /\ Pending \in 1 .. Capacity
          /\ Goto(t, "copy")
          /\ call' = [call EXCEPT ![t].w = wIdx, ![t].r = rIdx]
    /\ UNCHANGED <<wIdx, rIdx, lock, slots, destroyed, got>>

\* Mutant: the latest entry is sought at the write cursor, not before it.
CopySlotPastEnd(c) == SlotOf(IF c.op = "latest" THEN c.w ELSE c.r)

\* The slot an operation copies: the newest entry, or the oldest one.
CopySlot(c) == SlotOf(IF c.op = "latest" THEN WrapDec(c.w) ELSE c.r)

\* The slot is copied out, which takes time: a slot that changes meanwhile
\* leaves a mixed copy, whose checksum does not match.
CopyBegin(t) ==
    /\ pc[t] = "copy"
    /\ call' = [call EXCEPT ![t].copy = slots[CopySlot(call[t])]]
    /\ Goto(t, "copying")
    /\ UNCHANGED <<wIdx, rIdx, lock, slots, destroyed, got>>

CopyEnd(t) ==
    /\ pc[t] = "copying"
    /\ LET c == call[t]
           copied == IF slots[CopySlot(c)] = c.copy THEN c.copy ELSE Torn
       IN IF c.op = "peek"
            THEN /\ got' = [got EXCEPT ![t] = copied]
                 /\ Goto(t, "unlock")
                 /\ UNCHANGED call
            ELSE /\ call' = [call EXCEPT ![t].copy = copied]
                 /\ Goto(t, "advance")
                 /\ UNCHANGED got
    /\ UNCHANGED <<wIdx, rIdx, lock, slots, destroyed>>

\* The read cursor is stored and the copy handed out; a mixed copy (Torn)
\* consumes its slot all the same.  A drain goes on while its snapshot of
\* pending entries lasts and its caller's limit, any number, is not reached.
Advance(t) ==
    /\ pc[t] = "advance"
    /\ LET c == call[t]
           next == IF c.op = "latest" THEN c.w ELSE WrapInc(c.r)
       IN /\ rIdx' = next
          /\ got' = [got EXCEPT ![t] = c.copy]
          /\ \/ /\ Goto(t, "unlock")
                /\ UNCHANGED call
             \/ /\ c.op = "drain"
                /\ next # c.w
                /\ call' = [call EXCEPT ![t].r = next, ![t].copy = None]
                /\ Goto(t, "copy")
    /\ UNCHANGED <<wIdx, lock, slots, destroyed>>

------------------------------------------------------------------------------
(* Shutdown, death and reuse of thread ids *)

\* destroy(): the flag; the wake-up that follows is in WaiterGate.
Destroy(t) ==
    /\ pc[t] = "idle"
    /\ ~destroyed
    /\ destroyed' = TRUE
    /\ UNCHANGED <<wIdx, rIdx, lock, slots, pc, call, got>>

\* A thread dies inside a call; its lock words stay behind.
Die(t) ==
    /\ t \in Mortal
    /\ Calling(t)
    /\ Goto(t, "dead")
    /\ call' = [call EXCEPT ![t] = NoCall]
    /\ UNCHANGED <<wIdx, rIdx, lock, slots, destroyed, got>>

\* A new thread receives the TID of a dead one.
Respawn(t) ==
    /\ TidReuse
    /\ pc[t] = "dead"
    /\ Goto(t, "idle")
    /\ UNCHANGED <<wIdx, rIdx, lock, slots, destroyed, call, got>>

Begin(t) ==
    \/ \E op \in Ops[t] \cap WriteOps, m \in Msgs : Start(t, op, m)
    \/ \E op \in Ops[t] \cap ReadOps : Start(t, op, None)

\* A step of thread t inside a call.
Step(t) ==
    \/ CasLock(t) \/ GiveUp(t) \/ Probe(t) \/ Steal(t)
    \/ RecheckFail(t) \/ Enter(t) \/ Unlock(t)
    \/ LoadProducer(t) \/ Evict(t) \/ ReleaseRead(t)
    \/ FillBegin(t) \/ FillEnd(t) \/ Publish(t)
    \/ LoadConsumer(t) \/ CopyBegin(t) \/ CopyEnd(t) \/ Advance(t)

Next == \E t \in Threads :
    Begin(t) \/ Step(t) \/ Destroy(t) \/ Die(t) \/ Respawn(t)

Spec == Init /\ [][Next]_vars

\* The scheduler runs every thread outside Stopped: it takes its next step.
\* The clock advances, so a thread whose attempts on a lock keep failing finds
\* LOCK_CONTENTION_LIMIT expired.
FairSpec ==
    /\ Spec
    /\ \A t \in Threads \ Stopped : WF_vars(Step(t)) /\ SF_vars(GiveUp(t))

------------------------------------------------------------------------------
(* Properties *)

Labels == {"idle", "acquire", "steal", "recheck", "load", "evict", "evicted",
           "evictFail", "fill", "filling", "publish", "copy", "copying",
           "advance", "unlock", "dead"}

Calls == [op : AllOps \cup {"none"}, msg : Msgs \cup {None}, want : Locks,
          holder : Threads \cup {Free}, w : Indices, r : Indices,
          copy : Msgs \cup {None, Torn}]

\* Every variable holds a value of the type the code gives it.
TypeOK ==
    /\ wIdx \in Indices
    /\ rIdx \in Indices
    /\ lock \in [Locks -> Threads \cup {Free}]
    /\ slots \in [0 .. Capacity - 1 -> Msgs \cup {None, Torn}]
    /\ destroyed \in BOOLEAN
    /\ pc \in [Threads -> Labels]
    /\ call \in [Threads -> Calls]
    /\ got \in [Threads -> Msgs \cup {None, Torn}]

\* Thread t is between taking and dropping a guard of lock l.
Owns(t, l) ==
    \/ /\ call[t].op \in AllOps
       /\ l = Home(call[t].op)
       /\ \/ pc[t] \in {"load", "evict", "evicted", "evictFail", "fill",
                        "filling", "publish", "copy", "copying", "advance",
                        "unlock"}
          \/ pc[t] = "recheck"
          \/ pc[t] \in {"acquire", "steal"} /\ call[t].want # l
    \/ /\ call[t].op = "overwrite"
       /\ l = "r"
       /\ \/ pc[t] \in {"evict", "evicted", "evictFail"}
          \/ pc[t] = "recheck" /\ call[t].want = "r"

\* No two live threads are ever inside the critical section of one direction,
\* whatever threads died holding its lock and whoever took it from them.
MutualExclusion ==
    \A l \in Locks : \A t, u \in Threads : Owns(t, l) /\ Owns(u, l) => t = u

\* A lock word passes from one thread to another only when the first one left
\* its critical section for good: the probe of the holder and the
\* compare_exchange that takes the lock over never evict a live holder.
TakeoverSafe ==
    [][\A l \in Locks :
          (lock[l] \in Threads /\ lock'[l] \in Threads /\ lock'[l] # lock[l])
            => ~Owns(lock[l], l)]_vars

\* The cursors are never further apart than the ring is long, across index
\* wrap-around, eviction and death of a producer between its loads and its
\* stores: checked_pending never reports InvalidData on an undamaged ring.
PendingBound == Pending <= Capacity

\* The pending entries, oldest first: the slots between the cursors.
Window == [k \in 1 .. Pending |-> slots[SlotOf(rIdx + k - 1)]]

\* A slot between the cursors is complete: a producer that died while filling
\* a slot left it unpublished, and whoever took its lock filled it again.
WindowIntact == \A k \in DOMAIN Window : Window[k] \in Msgs

\* The channel implements the bounded queue: payloads come out whole, in
\* order, at most once, and only overwriting a full ring, reading the latest
\* entry, or death after storing the read cursor loses one.
Queue == INSTANCE RingQueue WITH queue <- Window
QueueSpec == Queue!Spec

\* A call of a running thread returns, even when the thread that holds the
\* lock it needs is stopped or dead: the caller never spins for ever.
CallsReturn ==
    \A t \in Threads \ Stopped : Calling(t) ~> ~Calling(t)
==============================================================================
