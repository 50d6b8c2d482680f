------------------------------ MODULE RingQueue ------------------------------
(***************************************************************************)
(* What a channel of a TypedRingBuffer promises its callers: a bounded     *)
(* FIFO queue whose operations are atomic.  Producers append, an           *)
(* overwriting producer may discard the oldest entry of a full queue, and  *)
(* consumers take the oldest entry, look at it, or take the newest one and *)
(* discard the rest.  Locks, cursors, slots, crashes and lock takeover do  *)
(* not appear here: RingChannel implements this specification.             *)
(***************************************************************************)
EXTENDS Naturals, Sequences

CONSTANTS
    Threads,    \* the threads of all processes that map the ring
    Msgs,       \* the payloads
    Capacity,   \* slots of the ring
    None        \* "no payload delivered yet"

VARIABLES
    queue,      \* the pending payloads, oldest first
    got         \* got[t]: the payload thread t was handed last

Init ==
    /\ queue = << >>
    /\ got = [t \in Threads |-> None]

\* try_write_message, try_send_command, or the second half of an overwrite.
Put(m) ==
    /\ Len(queue) < Capacity
    /\ queue' = Append(queue, m)
    /\ UNCHANGED got

\* write_message_overwrite discards the oldest entry, only of a full queue.
Evict ==
    /\ Len(queue) = Capacity
    /\ queue' = Tail(queue)
    /\ UNCHANGED got

\* try_read_next_message, try_receive_command, one entry of a drain.
Take(t) ==
    /\ queue # << >>
    /\ got' = [got EXCEPT ![t] = Head(queue)]
    /\ queue' = Tail(queue)

\* try_read_latest_message: the newest entry; all entries leave the queue.
\* Entries appended while the newest one is copied stay queued.
TakeLatest(t) ==
    \E n \in 1..Len(queue) :
        /\ got' = [got EXCEPT ![t] = queue[n]]
        /\ queue' = SubSeq(queue, n + 1, Len(queue))

\* try_peek_message.
Peek(t) ==
    /\ queue # << >>
    /\ got' = [got EXCEPT ![t] = Head(queue)]
    /\ UNCHANGED queue

Next ==
    \/ \E m \in Msgs : Put(m)
    \/ Evict
    \/ \E t \in Threads : Take(t) \/ TakeLatest(t) \/ Peek(t)

Spec == Init /\ [][Next]_<<queue, got>>
==============================================================================
