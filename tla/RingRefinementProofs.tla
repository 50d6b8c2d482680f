------------------------ MODULE RingRefinementProofs ------------------------
(***************************************************************************)
(* RingChannel implements RingQueue: the slots between the cursors are a   *)
(* queue of whole payloads, and every step of the channel is a step of the *)
(* queue or leaves it alone.                                               *)
(***************************************************************************)
EXTENDS RingChannelProofs, SequenceTheorems

------------------------------------------------------------------------------
(* Slots *)

\* Quotient and remainder.
LEMMA Division ==
    ASSUME NEW i \in Nat
    PROVE  /\ i \div Capacity \in Int
           /\ i % Capacity \in 0 .. Capacity - 1
           /\ i = Capacity * (i \div Capacity) + (i % Capacity)
  BY CapacityAssumption

\* Two remainders a multiple apart are the same.
LEMMA Turn ==
    ASSUME NEW c \in Nat \ {0}, NEW a \in 0 .. c - 1, NEW b \in 0 .. c - 1,
           NEW d \in Int, a - b = c * d
    PROVE  a = b
  <1>1. CASE d >= 1
    BY <1>1
  <1>2. CASE d <= -1
    BY <1>2
  <1>3. CASE d = 0
    BY <1>3
  <1> QED
    BY <1>1, <1>2, <1>3

\* Two positions less than a turn apart have different slots.
LEMMA SlotsDiffer ==
    ASSUME NEW i \in Nat, NEW j \in Nat, i < j, j - i < Capacity
    PROVE  SlotOf(i) # SlotOf(j)
  <1> DEFINE q == i \div Capacity
             p == j \div Capacity
  <1>1. /\ q \in Int /\ p \in Int
        /\ i % Capacity \in 0 .. Capacity - 1
        /\ i = Capacity * q + (i % Capacity) /\ j = Capacity * p + (j % Capacity)
    BY Division
  <1> HIDE DEF q, p
  <1>2. SUFFICES ASSUME i % Capacity = j % Capacity PROVE FALSE
    BY DEF SlotOf
  <1>3. j - i = Capacity * (p - q)
    BY <1>1, <1>2, CapacityAssumption
  <1>4. CASE p - q <= 0
    BY <1>1, <1>3, <1>4, CapacityAssumption
  <1>5. CASE p - q >= 1
    BY <1>1, <1>3, <1>5, CapacityAssumption
  <1> QED
    BY <1>1, <1>4, <1>5

\* A turn of the index space is a whole number of turns of the ring.
LEMMA SlotsWrap ==
    ASSUME NEW i \in Nat
    PROVE  SlotOf(i + IndexSpace) = SlotOf(i)
  <1> DEFINE q == i \div Capacity
             n == IndexSpace \div Capacity
             p == (i + IndexSpace) \div Capacity
  <1>1. /\ q \in Int /\ n \in Int /\ p \in Int
        /\ i % Capacity \in 0 .. Capacity - 1
        /\ (i + IndexSpace) % Capacity \in 0 .. Capacity - 1
        /\ i = Capacity * q + (i % Capacity)
        /\ IndexSpace = Capacity * n + (IndexSpace % Capacity)
        /\ IndexSpace % Capacity = 0
        /\ i + IndexSpace = Capacity * p + ((i + IndexSpace) % Capacity)
    <2>1. i + IndexSpace \in Nat /\ IndexSpace \in Nat
      BY IndexAssumption
    <2> QED
      BY <2>1, Division, IndexAssumption
  <1> DEFINE a == i % Capacity
             b == (i + IndexSpace) % Capacity
  <1>2. /\ a \in 0 .. Capacity - 1 /\ b \in 0 .. Capacity - 1
        /\ i = Capacity * q + a
        /\ IndexSpace = Capacity * n
        /\ i + IndexSpace = Capacity * p + b
    BY <1>1, CapacityAssumption, IndexAssumption
  <1>3. p - q - n \in Int
    BY <1>1
  <1>4. SUFFICES a = b
    BY DEF SlotOf
  <1> HIDE DEF q, n, p, a, b
  <1>5. a - b = Capacity * (p - q - n)
    BY <1>1, <1>2, CapacityAssumption
  <1> QED
    BY <1>2, <1>3, <1>5, Turn, CapacityAssumption

\* Counting positions from another index does not change their slots.
LEMMA SlotsFrom ==
    ASSUME NEW x \in Indices, NEW r \in Indices, NEW j \in Nat
    PROVE  SlotOf(x + j) = SlotOf(r + WrapSub(x, r) + j)
  <1>1. CASE x >= r
    <2>1. r + WrapSub(x, r) + j = x + j
      BY <1>1, IndexAssumption DEF WrapSub, Indices
    <2> QED BY <2>1
  <1>2. CASE ~(x >= r)
    <2>1. r + WrapSub(x, r) + j = (x + j) + IndexSpace /\ x + j \in Nat
      BY <1>2, IndexAssumption DEF WrapSub, Indices
    <2> QED BY <2>1, SlotsWrap
  <1> QED BY <1>1, <1>2

\* While the ring is not full, the slot at the write cursor is none of the
\* pending ones.
LEMMA WriteSlotOutside ==
    ASSUME CursorInv, Pending < Capacity, NEW k \in 1 .. Pending
    PROVE  SlotOf(rIdx + k - 1) # SlotOf(wIdx)
  <1>1. wIdx \in Indices /\ rIdx \in Indices /\ Pending \in Nat
    BY Distance DEF CursorInv, LockInv, TypeOK, Pending
  <1>2. SlotOf(wIdx + 0) = SlotOf(rIdx + Pending + 0)
    BY <1>1, SlotsFrom DEF Pending
  <1>3. wIdx + 0 = wIdx /\ rIdx + Pending + 0 = rIdx + Pending
    BY <1>1, IndexAssumption DEF Indices
  <1>4. /\ rIdx + k - 1 \in Nat /\ rIdx + Pending \in Nat
        /\ rIdx + k - 1 < rIdx + Pending
        /\ (rIdx + Pending) - (rIdx + k - 1) < Capacity
    BY <1>1, IndexAssumption, CapacityAssumption DEF Indices
  <1> QED
    BY <1>2, <1>3, <1>4, SlotsDiffer

\* The position in the window of the entry a consumer copies: the newest one
\* it saw, or the oldest.
Copied(c) == IF c.op = "latest" THEN WrapSub(c.w, rIdx) ELSE 1

\* It is a pending entry, in the slot the consumer copies.
LEMMA CopyInside ==
    ASSUME CursorInv, NEW t \in Threads, pc[t] \in {"copy", "copying", "advance"}
    PROVE  /\ Copied(call[t]) \in 1 .. Pending
           /\ CopySlot(call[t]) = SlotOf(rIdx + Copied(call[t]) - 1)
  <1> DEFINE w == call[t].w
  <1>1. /\ w \in Indices /\ rIdx \in Indices /\ wIdx \in Indices
        /\ call[t].r = rIdx /\ w # rIdx /\ WrapSub(w, rIdx) <= Pending
    BY DEF CursorInv, LockInv, TypeOK, ConsumerView, Calls
  <1>2. Pending \in Nat /\ WrapSub(w, rIdx) \in Nat /\ WrapSub(w, rIdx) # 0
    BY <1>1, Distance DEF Pending
  <1>3. CASE call[t].op = "latest"
    <2>1. /\ WrapDec(w) \in Indices
          /\ WrapSub(WrapDec(w), rIdx) = WrapSub(w, rIdx) - 1
          /\ WrapDec(w) + 0 = WrapDec(w)
          /\ rIdx + WrapSub(WrapDec(w), rIdx) + 0 = rIdx + WrapSub(w, rIdx) - 1
      BY <1>1, IndexAssumption, CapacityAssumption DEF Indices, WrapDec, WrapSub
    <2>2. SlotOf(WrapDec(w) + 0) = SlotOf(rIdx + WrapSub(WrapDec(w), rIdx) + 0)
      BY <1>1, <2>1, SlotsFrom
    <2> QED
      BY <1>1, <1>2, <1>3, <2>1, <2>2 DEF Copied, CopySlot
  <1>4. CASE call[t].op # "latest"
    <2>1. rIdx + 1 - 1 = rIdx
      BY <1>1, IndexAssumption DEF Indices
    <2> QED
      BY <1>1, <1>2, <1>4, <2>1 DEF Copied, CopySlot
  <1> QED
    BY <1>3, <1>4

------------------------------------------------------------------------------
(* The window as a queue *)

\* The elements of a sequence of payloads are payloads.
LEMMA SeqOfMsgs == \A s \in Seq(Msgs) : \A k \in DOMAIN s : s[k] \in Msgs
  BY ElementOfSeq, LenProperties

\* A window of payloads is a sequence of payloads, and conversely.
LEMMA WindowSeq ==
    ASSUME CursorInv
    PROVE  /\ DOMAIN Window = 1 .. Pending /\ Pending \in Nat
           /\ \A k \in 1 .. Pending : Window[k] = slots[SlotOf(rIdx + k - 1)]
           /\ WindowIntact => Window \in Seq(Msgs) /\ Len(Window) = Pending
           /\ Window \in Seq(Msgs) => WindowIntact
  <1>1. Pending \in Nat
    BY Distance DEF CursorInv, LockInv, TypeOK, Pending
  <1>2. /\ DOMAIN Window = 1 .. Pending
        /\ \A k \in 1 .. Pending : Window[k] = slots[SlotOf(rIdx + k - 1)]
    BY DEF Window
  <1>3. ASSUME WindowIntact
        PROVE  Window \in Seq(Msgs) /\ Len(Window) = Pending
    <2>1. Window \in [1 .. Pending -> Msgs]
      BY <1>2, <1>3 DEF WindowIntact, Window
    <2> QED BY <1>1, <2>1, IsASeq, LenProperties
  <1>4. ASSUME Window \in Seq(Msgs) PROVE WindowIntact
    BY <1>4, ElementOfSeq, LenProperties DEF WindowIntact
  <1> QED
    BY <1>1, <1>2, <1>3, <1>4

\* Filling the slot at the write cursor of a ring that is not full leaves the
\* window alone.
LEMMA WindowKept ==
    ASSUME CursorInv, UNCHANGED <<wIdx, rIdx>>,
           \/ UNCHANGED slots
           \/ /\ Pending < Capacity
              /\ \E v : slots' = [slots EXCEPT ![SlotOf(wIdx)] = v]
    PROVE  UNCHANGED Window
  <1>1. Pending' = Pending
    BY DEF Pending
  <1>2. ASSUME NEW k \in 1 .. Pending
        PROVE  slots'[SlotOf(rIdx' + k - 1)] = slots[SlotOf(rIdx + k - 1)]
    <2>1. SlotOf(rIdx + k - 1) \in 0 .. Capacity - 1
      <3>1. rIdx + k - 1 \in Nat
        BY IndexAssumption DEF CursorInv, LockInv, TypeOK, Indices
      <3> QED BY <3>1, SlotType
    <2>2. CASE UNCHANGED slots
      BY <2>2
    <2>3. CASE Pending < Capacity /\ \E v : slots' = [slots EXCEPT ![SlotOf(wIdx)] = v]
      <3>1. SlotOf(rIdx + k - 1) # SlotOf(wIdx)
        BY <2>3, WriteSlotOutside
      <3> QED
        BY <2>1, <2>3, <3>1 DEF CursorInv, LockInv, TypeOK
    <2> QED BY <2>2, <2>3
  <1> QED
    BY <1>1, <1>2 DEF Window

\* Storing the write cursor appends the entry in the slot it pointed to.
LEMMA WindowAppend ==
    ASSUME CursorInv, CursorInv', WindowIntact, Pending < Capacity,
           wIdx' = WrapInc(wIdx), UNCHANGED <<rIdx, slots>>,
           slots[SlotOf(wIdx)] \in Msgs
    PROVE  /\ Window' = Append(Window, slots[SlotOf(wIdx)])
           /\ WindowIntact'
  <1> DEFINE m == slots[SlotOf(wIdx)]
  <1>1. wIdx \in Indices /\ rIdx \in Indices
    BY DEF CursorInv, LockInv, TypeOK
  <1>2. Pending \in Nat /\ Pending' = Pending + 1
    BY <1>1, Distance DEF Pending
  <1>3. Window \in Seq(Msgs) /\ Len(Window) = Pending /\ m \in Msgs
    BY WindowSeq
  <1>4. /\ Append(Window, m) \in Seq(Msgs)
        /\ Len(Append(Window, m)) = Pending + 1
        /\ \A k \in 1 .. Pending : Append(Window, m)[k] = Window[k]
        /\ Append(Window, m)[Pending + 1] = m
        /\ DOMAIN Append(Window, m) = 1 .. Pending + 1
    BY <1>2, <1>3, AppendProperties, LenProperties
  <1>5. /\ DOMAIN Window' = 1 .. Pending + 1
        /\ \A k \in 1 .. Pending + 1 : Window'[k] = slots[SlotOf(rIdx + k - 1)]
    BY <1>2 DEF Window
  <1>6. Window'[Pending + 1] = m
    <2>1. SlotOf(wIdx + 0) = SlotOf(rIdx + Pending + 0)
      BY <1>1, SlotsFrom DEF Pending
    <2>2. wIdx + 0 = wIdx /\ rIdx + Pending + 0 = rIdx + (Pending + 1) - 1
      BY <1>1, <1>2, IndexAssumption DEF Indices
    <2> QED
      BY <1>2, <1>5, <2>1, <2>2
  <1>7. \A k \in 1 .. Pending + 1 : Window'[k] = Append(Window, m)[k]
    <2>1. \A k \in 1 .. Pending : Window[k] = slots[SlotOf(rIdx + k - 1)]
      BY WindowSeq
    <2> QED
      BY <1>2, <1>4, <1>5, <1>6, <2>1
  <1>8. Window' = Append(Window, m)
    <2>1. Window' = [k \in 1 .. Pending + 1 |-> Window'[k]]
      BY <1>2 DEF Window
    <2>2. Append(Window, m) = [k \in 1 .. Pending + 1 |-> Append(Window, m)[k]]
      BY <1>4, LenProperties
    <2> QED BY <1>7, <2>1, <2>2
  <1> QED
    BY <1>4, <1>8, SeqOfMsgs DEF WindowIntact

\* Storing the read cursor n entries further on removes the n oldest ones.
LEMMA WindowCut ==
    ASSUME CursorInv, CursorInv', WindowIntact, UNCHANGED <<wIdx, slots>>,
           NEW n \in 1 .. Pending, n = WrapSub(rIdx', rIdx)
    PROVE  /\ Window' = SubSeq(Window, n + 1, Len(Window))
           /\ n = 1 => Window' = Tail(Window)
           /\ WindowIntact'
  <1> DEFINE s == SubSeq(Window, n + 1, Len(Window))
  <1>1. wIdx \in Indices /\ rIdx \in Indices /\ rIdx' \in Indices
    BY DEF CursorInv, LockInv, TypeOK
  <1>2. Pending \in Nat /\ Pending' = Pending - n
    BY <1>1, Distance DEF Pending
  <1>3. Window \in Seq(Msgs) /\ Len(Window) = Pending /\ Window # << >>
    BY <1>2, WindowSeq
  <1>4. /\ s \in Seq(Msgs)
        /\ Len(s) = Pending - n
        /\ \A k \in 1 .. Pending - n : s[k] = Window[n + k]
    <2>1. n + 1 \in 1 .. Len(Window) + 1 /\ Len(Window) \in n .. Len(Window)
      BY <1>2, <1>3
    <2> QED
      BY <1>2, <1>3, <2>1, SubSeqProperties
  <1>5. \A k \in 1 .. Pending - n : Window'[k] = Window[n + k]
    <2> SUFFICES ASSUME NEW k \in 1 .. Pending - n
                 PROVE  slots[SlotOf(rIdx' + k - 1)] = slots[SlotOf(rIdx + (n + k) - 1)]
      BY <1>2, SMTT(30) DEF Window
    <2>1. k - 1 \in Nat
      OBVIOUS
    <2>2. SlotOf(rIdx' + (k - 1)) = SlotOf(rIdx + n + (k - 1))
      BY <1>1, <2>1, SlotsFrom
    <2>3. rIdx' + (k - 1) = rIdx' + k - 1 /\ rIdx + n + (k - 1) = rIdx + (n + k) - 1
      BY <1>1, IndexAssumption DEF Indices
    <2> QED BY <2>2, <2>3
  <1>6. Window' = s
    <2>1. Window' = [k \in 1 .. Pending - n |-> Window'[k]]
      BY <1>2 DEF Window
    <2>2. s = [k \in 1 .. Pending - n |-> s[k]]
      BY <1>4, LenProperties
    <2> QED BY <1>4, <1>5, <2>1, <2>2, ZenonT(40)
  <1>7. n = 1 => s = Tail(Window)
    BY <1>3, TailIsSubSeq
  <1> QED
    BY <1>4, <1>6, <1>7, SeqOfMsgs DEF WindowIntact

------------------------------------------------------------------------------
(* Threads in the middle of an operation *)

\* What a thread in mid-operation knows of its slot: the entry about to be
\* published is in the slot at the write cursor, and a copy under way matches
\* the slot it is made of.
Entry(t) ==
    /\ Calling(t) /\ call[t].op \in WriteOps => call[t].msg \in Msgs
    /\ pc[t] = "publish" => slots[SlotOf(call[t].w)] = call[t].msg
    /\ pc[t] \in {"copying", "advance"} => call[t].copy = slots[CopySlot(call[t])]

WindowInv == CursorInv /\ WindowIntact /\ \A t \in Threads : Entry(t)

\* A step of the queue, or none.
QueueStep == [Queue!Next]_<<Window, got>>

\* A step that writes no slot keeps what the other threads know.
LEMMA EntriesKept ==
    ASSUME WindowInv, NEW t \in Threads, UNCHANGED slots,
           \A u \in Threads \ {t} : pc'[u] = pc[u] /\ call'[u] = call[u],
           Entry(t)'
    PROVE  \A u \in Threads : Entry(u)'
  <1> SUFFICES ASSUME NEW u \in Threads, u # t PROVE Entry(u)'
    OBVIOUS
  <1>1. Entry(u) /\ pc'[u] = pc[u] /\ call'[u] = call[u]
    BY DEF WindowInv
  <1> QED
    BY <1>1 DEF Entry, Calling, CopySlot

\* A step that touches neither cursors, slots nor deliveries leaves the queue
\* alone.
LEMMA QueueKept ==
    ASSUME WindowInv, CursorInv', NEW t \in Threads,
           UNCHANGED <<wIdx, rIdx, slots, got>>,
           \A u \in Threads \ {t} : pc'[u] = pc[u] /\ call'[u] = call[u],
           Entry(t)'
    PROVE  WindowInv' /\ QueueStep
  <1>1. UNCHANGED Window
    BY WindowKept DEF WindowInv
  <1>2. WindowIntact'
    BY <1>1 DEF WindowInv, WindowIntact
  <1>3. \A u \in Threads : Entry(u)'
    BY EntriesKept
  <1> QED
    BY <1>1, <1>2, <1>3 DEF WindowInv, QueueStep

\* Steps of the lock protocol, loads and releases.
LEMMA LockSteps ==
    ASSUME WindowInv, CursorInv', NEW t \in Threads,
           \/ CasLock(t) \/ GiveUp(t) \/ Probe(t) \/ Steal(t) \/ RecheckFail(t)
           \/ Enter(t) \/ Unlock(t) \/ LoadProducer(t) \/ ReleaseRead(t)
           \/ LoadConsumer(t)
    PROVE  WindowInv' /\ QueueStep
  <1>1. /\ pc \in [Threads -> Labels] /\ call \in [Threads -> Calls]
        /\ call[t] \in Calls /\ Entry(t)
    BY DEF WindowInv, CursorInv, LockInv, TypeOK
  <1>2. UNCHANGED <<wIdx, rIdx, slots, got>>
    BY DEF CasLock, GiveUp, Probe, Steal, RecheckFail, Enter, Unlock, LoadProducer,
           ReleaseRead, LoadConsumer
  <1>3. \A u \in Threads \ {t} : pc'[u] = pc[u] /\ call'[u] = call[u]
    BY <1>1 DEF CasLock, GiveUp, Probe, Steal, RecheckFail, Enter, Unlock, LoadProducer,
                ReleaseRead, LoadConsumer, Abandon, Finish, Goto
  <1>4. /\ pc'[t] \notin {"publish", "copying", "advance"}
        /\ Calling(t)
        /\ pc'[t] # "idle" => call'[t].op = call[t].op /\ call'[t].msg = call[t].msg
    BY <1>1 DEF CasLock, GiveUp, Probe, Steal, RecheckFail, Enter, Unlock, LoadProducer,
                ReleaseRead, LoadConsumer, Abandon, Finish, Goto, Calls, Calling
  <1>5. Entry(t)'
    BY <1>1, <1>4 DEF Entry, Calling
  <1> QED
    BY <1>2, <1>3, <1>5, QueueKept

\* Writing a slot: it is not among the pending ones.
LEMMA FillSteps ==
    ASSUME WindowInv, CursorInv', NEW t \in Threads, FillBegin(t) \/ FillEnd(t)
    PROVE  WindowInv' /\ QueueStep
  <1>1. /\ pc \in [Threads -> Labels] /\ call \in [Threads -> Calls]
        /\ slots \in [0 .. Capacity - 1 -> Msgs \cup {None, Torn}]
        /\ wIdx \in Indices /\ Entry(t) /\ LockInv /\ CursorInv /\ WindowIntact
    BY DEF WindowInv, CursorInv, LockInv, TypeOK
  <1>2. /\ UNCHANGED <<wIdx, rIdx, got, call>>
        /\ pc[t] \in {"fill", "filling"} /\ pc'[t] \in {"filling", "publish"}
        /\ pc'[t] = "publish" => slots' = [slots EXCEPT ![SlotOf(call[t].w)] = call[t].msg]
        /\ \A u \in Threads \ {t} : pc'[u] = pc[u]
        /\ \E v : slots' = [slots EXCEPT ![SlotOf(call[t].w)] = v]
    BY <1>1 DEF FillBegin, FillEnd, Goto
  <1>3. call[t].w = wIdx /\ Pending < Capacity /\ Owns(t, "w")
    BY <1>1, <1>2, ViewersOwn DEF CursorInv, ProducerView
  <1>4. SlotOf(wIdx) \in 0 .. Capacity - 1
    BY <1>1, SlotType DEF Indices
  <1>5. UNCHANGED Window
    BY <1>1, <1>2, <1>3, WindowKept
  <1>6. Entry(t)'
    BY <1>1, <1>2, <1>3, <1>4 DEF Entry, Calling
  <1>7. ASSUME NEW u \in Threads, u # t PROVE Entry(u)'
    <2>1. Entry(u) /\ pc'[u] = pc[u] /\ call'[u] = call[u]
      BY <1>2, <1>7 DEF WindowInv
    <2>2. pc[u] # "publish"
      <3>1. lock["w"] = t /\ (Owns(u, "w") => lock["w"] = u)
        BY <1>1, <1>3 DEF LockInv, HoldersMarked, Locks
      <3> QED BY <1>1, <1>7, <3>1, ViewersOwn
    <2>3. ASSUME pc[u] \in {"copying", "advance"}
          PROVE  slots'[CopySlot(call[u])] = slots[CopySlot(call[u])]
      <3>1. PICK k \in 1 .. Pending : CopySlot(call[u]) = SlotOf(rIdx + k - 1)
        BY <1>1, <2>3, CopyInside
      <3>2. CopySlot(call[u]) # SlotOf(wIdx)
        BY <1>1, <1>3, <3>1, WriteSlotOutside
      <3>3. CopySlot(call[u]) \in 0 .. Capacity - 1
        BY <1>1, CopySlotType DEF Calls
      <3> QED
        BY <1>1, <1>2, <1>3, <1>4, <3>2, <3>3
    <2> QED
      BY <2>1, <2>2, <2>3 DEF Entry, Calling, CopySlot
  <1> QED
    BY <1>1, <1>2, <1>5, <1>6, <1>7 DEF WindowInv, WindowIntact, QueueStep

\* Storing the write cursor is the queue's Put.
LEMMA PublishStep ==
    ASSUME WindowInv, CursorInv', NEW t \in Threads, Publish(t)
    PROVE  WindowInv' /\ QueueStep
  <1>1. /\ pc \in [Threads -> Labels] /\ Entry(t) /\ CursorInv /\ WindowIntact
        /\ call[t].op \in WriteOps /\ Calling(t)
    BY DEF WindowInv, CursorInv, LockInv, TypeOK, OpsInProgress, Publish, Calling
  <1>2. /\ pc[t] = "publish" /\ pc'[t] = "unlock" /\ UNCHANGED <<rIdx, slots, got, call>>
        /\ \A u \in Threads \ {t} : pc'[u] = pc[u] /\ call'[u] = call[u]
        /\ wIdx' = WrapInc(wIdx) /\ call[t].w = wIdx /\ Pending < Capacity
    BY <1>1 DEF Publish, Goto, CursorInv, ProducerView
  <1>3. slots[SlotOf(wIdx)] = call[t].msg /\ call[t].msg \in Msgs
    BY <1>1, <1>2 DEF Entry
  <1>4. Window' = Append(Window, call[t].msg) /\ WindowIntact'
    BY <1>1, <1>2, <1>3, WindowAppend
  <1>5. \A u \in Threads : Entry(u)'
    <2>1. Entry(t)'
      BY <1>1, <1>2 DEF Entry, Calling
    <2> QED BY <1>2, <2>1, EntriesKept
  <1>6. Queue!Put(call[t].msg)
    <2>1. Len(Window) < Capacity
      BY <1>1, <1>2, WindowSeq
    <2> QED BY <1>2, <1>4, <2>1 DEF Queue!Put
  <1>7. Queue!Next
    BY <1>3, <1>6 DEF Queue!Next
  <1> QED
    BY <1>4, <1>5, <1>7 DEF WindowInv, QueueStep

\* Storing the read cursor over a full ring is the queue's Evict.
LEMMA EvictStep ==
    ASSUME WindowInv, CursorInv', NEW t \in Threads, Evict(t)
    PROVE  WindowInv' /\ QueueStep
  <1>1. /\ pc \in [Threads -> Labels] /\ Entry(t) /\ CursorInv /\ WindowIntact
        /\ wIdx \in Indices /\ rIdx \in Indices
    BY DEF WindowInv, CursorInv, LockInv, TypeOK
  <1>2. /\ pc[t] = "evict" /\ pc'[t] \in {"evicted", "evictFail"}
        /\ UNCHANGED <<wIdx, slots, got, call>>
        /\ \A u \in Threads \ {t} : pc'[u] = pc[u] /\ call'[u] = call[u]
        /\ call[t].w = wIdx
        /\ rIdx' = IF Pending = Capacity THEN WrapInc(rIdx) ELSE rIdx
    BY <1>1 DEF Evict, Goto, CursorInv, ProducerView, Pending
  <1>3. Entry(t)'
    BY <1>1, <1>2 DEF Entry, Calling
  <1>4. CASE Pending # Capacity
    BY <1>1, <1>2, <1>3, <1>4, QueueKept
  <1>5. CASE Pending = Capacity
    <2>1. WrapSub(rIdx', rIdx) = 1 /\ 1 \in 1 .. Pending
      BY <1>1, <1>2, <1>5, IndexAssumption, CapacityAssumption DEF Indices, WrapInc, WrapSub
    <2>2. Window' = Tail(Window) /\ WindowIntact'
      BY <1>1, <1>2, <2>1, WindowCut
    <2>3. Len(Window) = Capacity
      BY <1>1, <1>5, WindowSeq
    <2>4. Queue!Evict
      BY <1>2, <2>2, <2>3 DEF Queue!Evict
    <2>5. Queue!Next
      BY <2>4 DEF Queue!Next
    <2>6. \A u \in Threads : Entry(u)'
      BY <1>2, <1>3, EntriesKept
    <2> QED
      BY <2>2, <2>5, <2>6 DEF WindowInv, QueueStep
  <1> QED
    BY <1>4, <1>5

\* Copying a slot out: a peek ends in the queue's Peek.
LEMMA CopySteps ==
    ASSUME WindowInv, CursorInv', NEW t \in Threads, CopyBegin(t) \/ CopyEnd(t)
    PROVE  WindowInv' /\ QueueStep
  <1>1. /\ pc \in [Threads -> Labels] /\ call \in [Threads -> Calls] /\ call[t] \in Calls
        /\ Entry(t) /\ CursorInv /\ WindowIntact
        /\ got \in [Threads -> Msgs \cup {None, Torn}]
    BY DEF WindowInv, CursorInv, LockInv, TypeOK
  <1>2. /\ UNCHANGED <<wIdx, rIdx, slots>>
        /\ \A u \in Threads \ {t} : pc'[u] = pc[u] /\ call'[u] = call[u]
    BY <1>1 DEF CopyBegin, CopyEnd, Goto
  <1>3. /\ call'[t].op = call[t].op /\ call'[t].w = call[t].w /\ call'[t].r = call[t].r
        /\ call'[t].msg = call[t].msg
        /\ pc[t] \in {"copy", "copying"} /\ pc'[t] \in {"copying", "unlock", "advance"}
        /\ pc'[t] \in {"copying", "advance"} => call'[t].copy = slots[CopySlot(call[t])]
    BY <1>1 DEF CopyBegin, CopyEnd, Goto, Calls, Entry
  <1>4. Entry(t)'
    BY <1>1, <1>2, <1>3 DEF Entry, Calling, CopySlot
  <1>5. CASE UNCHANGED got
    BY <1>2, <1>4, <1>5, QueueKept
  <1>6. CASE CopyEnd(t) /\ call[t].op = "peek"
    <2>1. got' = [got EXCEPT ![t] = slots[CopySlot(call[t])]] /\ pc[t] = "copying"
      BY <1>1, <1>6 DEF CopyEnd, Entry
    <2>2. 1 \in 1 .. Pending /\ CopySlot(call[t]) = SlotOf(rIdx + 1 - 1)
      BY <1>1, <1>6, <2>1, CopyInside DEF Copied
    <2>3. Window # << >> /\ Head(Window) = slots[CopySlot(call[t])]
      <3>1. /\ Window \in Seq(Msgs) /\ Len(Window) = Pending /\ Pending \in Nat
            /\ Window[1] = slots[CopySlot(call[t])]
        BY <1>1, <2>2, WindowSeq
      <3>2. Window # << >> /\ Head(Window) = Window[1]
        BY <2>2, <3>1
      <3> QED BY <3>1, <3>2
    <2>4. UNCHANGED Window
      BY <1>1, <1>2, WindowKept
    <2>5. Queue!Peek(t)
      BY <2>1, <2>3, <2>4 DEF Queue!Peek
    <2>6. Queue!Next
      BY <2>5 DEF Queue!Next
    <2>7. \A u \in Threads : Entry(u)'
      BY <1>2, <1>4, EntriesKept
    <2> QED
      BY <1>1, <2>4, <2>6, <2>7 DEF WindowInv, WindowIntact, QueueStep
  <1> QED
    BY <1>5, <1>6 DEF CopyBegin, CopyEnd

\* Storing the read cursor and handing out the copy: Take or TakeLatest.
LEMMA AdvanceStep ==
    ASSUME WindowInv, CursorInv', NEW t \in Threads, Advance(t)
    PROVE  WindowInv' /\ QueueStep
  <1> DEFINE n == Copied(call[t])
  <1>1. /\ pc \in [Threads -> Labels] /\ call \in [Threads -> Calls] /\ call[t] \in Calls
        /\ Entry(t) /\ CursorInv /\ WindowIntact
        /\ wIdx \in Indices /\ rIdx \in Indices
        /\ got \in [Threads -> Msgs \cup {None, Torn}]
    BY DEF WindowInv, CursorInv, LockInv, TypeOK
  <1>2. /\ UNCHANGED <<wIdx, slots>> /\ pc[t] = "advance"
        /\ \A u \in Threads \ {t} : pc'[u] = pc[u] /\ call'[u] = call[u]
        /\ call[t].r = rIdx
        /\ rIdx' = IF call[t].op = "latest" THEN call[t].w ELSE WrapInc(rIdx)
        /\ got' = [got EXCEPT ![t] = slots[CopySlot(call[t])]]
    BY <1>1 DEF Advance, Goto, CursorInv, ConsumerView, Entry
  <1>3. n \in 1 .. Pending /\ CopySlot(call[t]) = SlotOf(rIdx + n - 1)
    BY <1>1, <1>2, CopyInside
  <1>4. n = WrapSub(rIdx', rIdx)
    BY <1>1, <1>2, IndexAssumption, CapacityAssumption
       DEF Copied, Indices, WrapInc, WrapSub
  <1>5. /\ Window' = SubSeq(Window, n + 1, Len(Window)) /\ WindowIntact'
        /\ n = 1 => Window' = Tail(Window)
    BY <1>1, <1>2, <1>3, <1>4, WindowCut
  <1>6. /\ Window \in Seq(Msgs) /\ Len(Window) = Pending /\ Pending \in Nat
        /\ Window[n] = slots[CopySlot(call[t])]
    BY <1>1, <1>3, WindowSeq
  <1>7. Queue!Next
    <2>1. CASE call[t].op = "latest"
      <3>1. Queue!TakeLatest(t)
        BY <1>2, <1>3, <1>5, <1>6 DEF Queue!TakeLatest
      <3> QED BY <3>1 DEF Queue!Next
    <2>2. CASE call[t].op # "latest"
      <3>1. n = 1 /\ Window # << >> /\ Head(Window) = Window[1]
        BY <1>3, <1>6, <2>2 DEF Copied
      <3>2. Queue!Take(t)
        BY <1>2, <1>5, <1>6, <3>1 DEF Queue!Take
      <3> QED BY <3>2 DEF Queue!Next
    <2> QED BY <2>1, <2>2
  <1>8. Entry(t)'
    <2>1. pc'[t] \in {"unlock", "copy"} /\ call'[t].op = call[t].op
          /\ call'[t].msg = call[t].msg
      BY <1>1 DEF Advance, Goto, Calls
    <2> QED
      BY <1>1, <1>2, <2>1 DEF Entry, Calling
  <1>9. \A u \in Threads : Entry(u)'
    BY <1>2, <1>8, EntriesKept
  <1> QED
    BY <1>5, <1>7, <1>9 DEF WindowInv, QueueStep

------------------------------------------------------------------------------
(* The theorems *)

\* A freshly created channel is an empty queue.
LEMMA InitWindow == Init => WindowInv /\ Queue!Init
  <1> SUFFICES ASSUME Init PROVE WindowInv /\ Queue!Init
    OBVIOUS
  <1>1. CursorInv /\ Pending = 0
    BY InitCursors DEF Init, Pending, WrapSub
  <1>2. Window = << >>
    BY <1>1 DEF Window
  <1>3. WindowIntact
    BY <1>2 DEF WindowIntact
  <1>4. \A t \in Threads : Entry(t)
    BY DEF Init, Entry, Calling
  <1> QED
    BY <1>1, <1>2, <1>3, <1>4 DEF WindowInv, Queue!Init, Init

\* Every step of the channel keeps the window whole and is a step of the
\* queue, while no TID is reused.
LEMMA NextWindow == ~TidReuse /\ WindowInv /\ [Next]_vars => WindowInv' /\ QueueStep
  <1> SUFFICES ASSUME ~TidReuse, WindowInv, [Next]_vars PROVE WindowInv' /\ QueueStep
    OBVIOUS
  <1>0. /\ CursorInv /\ CursorInv' /\ pc \in [Threads -> Labels]
        /\ call \in [Threads -> Calls]
    BY NextCursors DEF WindowInv, CursorInv, LockInv, TypeOK
  <1>1. CASE UNCHANGED vars
    <2>1. UNCHANGED Window
      BY <1>0, <1>1, WindowKept DEF vars
    <2>2. \A t \in Threads : Entry(t)'
      BY <1>1 DEF WindowInv, Entry, Calling, CopySlot, vars
    <2> QED
      BY <1>0, <1>1, <2>1, <2>2 DEF WindowInv, WindowIntact, QueueStep, vars
  <1>2. ASSUME NEW t \in Threads, Begin(t) PROVE WindowInv' /\ QueueStep
    <2>1. PICK op \in AllOps, m \in Msgs \cup {None} :
                 Start(t, op, m) /\ (op \in WriteOps => m \in Msgs)
      BY <1>2 DEF Begin, AllOps, WriteOps, ReadOps
    <2>2. Entry(t)'
      BY <1>0, <2>1 DEF Start, Goto, Entry, NoCall
    <2> QED
      BY <1>0, <2>1, <2>2, QueueKept DEF Start, Goto
  <1>3. ASSUME NEW t \in Threads, Step(t) PROVE WindowInv' /\ QueueStep
    BY <1>0, <1>3, LockSteps, FillSteps, PublishStep, EvictStep, CopySteps,
       AdvanceStep DEF Step
  <1>4. ASSUME NEW t \in Threads, Destroy(t) PROVE WindowInv' /\ QueueStep
    <2>1. Entry(t)'
      BY <1>4 DEF WindowInv, Destroy, Entry, Calling, CopySlot
    <2> QED
      BY <1>0, <1>4, <2>1, QueueKept DEF Destroy
  <1>5. ASSUME NEW t \in Threads, Die(t) PROVE WindowInv' /\ QueueStep
    <2>1. Entry(t)'
      BY <1>0, <1>5 DEF Die, Goto, Entry, Calling
    <2> QED
      BY <1>0, <1>5, <2>1, QueueKept DEF Die, Goto
  <1>6. ASSUME NEW t \in Threads, Respawn(t) PROVE WindowInv' /\ QueueStep
    BY <1>6 DEF Respawn
  <1> QED
    BY <1>1, <1>2, <1>3, <1>4, <1>5, <1>6 DEF Next

\* No consumer ever finds a torn or unwritten slot between the cursors,
\* whichever producers died while they were filling one, for every capacity
\* and index width, as long as no TID is reused.
THEOREM WindowStaysIntact == ASSUME ~TidReuse PROVE Spec => []WindowIntact
  <1>1. WindowInv => WindowIntact
    BY DEF WindowInv
  <1>2. WindowInv /\ [Next]_vars => WindowInv'
    BY NextWindow
  <1>3. Init => WindowInv
    BY InitWindow
  <1> QED
    BY <1>1, <1>2, <1>3, PTL DEF Spec

\* The channel implements the bounded queue: locks, takeovers, wrap-around and
\* deaths between any two accesses are invisible in what callers are handed.
THEOREM ImplementsQueue == ASSUME ~TidReuse PROVE Spec => QueueSpec
  <1>1. Init => WindowInv /\ Queue!Init
    BY InitWindow
  <1>2. WindowInv /\ [Next]_vars => WindowInv' /\ [Queue!Next]_<<Window, got>>
    BY NextWindow DEF QueueStep
  <1> QED
    BY <1>1, <1>2, PTL DEF Spec, QueueSpec, Queue!Spec
=============================================================================
