-------------------------- MODULE RingChannelProofs --------------------------
(***************************************************************************)
(* Proofs about RingChannel, for every set of threads, mix of operations,  *)
(* capacity and index width.                                               *)
(***************************************************************************)
EXTENDS RingChannel, TLAPS

------------------------------------------------------------------------------
(* The operators the model is built from *)

\* wrapping_add(1), wrapping_sub and the mask keep an index in its range.
LEMMA IndexTypes ==
    /\ 0 \in Indices
    /\ \A i \in Indices : WrapInc(i) \in Indices
    /\ \A i, j \in Indices : WrapSub(i, j) \in Indices
    /\ \A i \in Indices : WrapDec(i) \in Indices
  BY CapacityAssumption, IndexAssumption
     DEF Indices, WrapInc, WrapSub, WrapDec

\* index & buffer_mask() names a slot.
LEMMA SlotType == \A i \in Nat : SlotOf(i) \in 0 .. Capacity - 1
  BY CapacityAssumption DEF SlotOf

\* The slot an operation copies is a slot of the ring.
LEMMA CopySlotType ==
    ASSUME NEW c, c.w \in Indices, c.r \in Indices
    PROVE  CopySlot(c) \in 0 .. Capacity - 1
  <1>1. WrapDec(c.w) \in Nat /\ c.r \in Nat
    BY CapacityAssumption, IndexAssumption DEF Indices, WrapDec, WrapSub
  <1> QED
    BY <1>1, SlotType DEF CopySlot

\* The registers of an idle thread are registers of a call.
LEMMA NoCallType == NoCall \in Calls
  BY IndexTypes DEF NoCall, Calls, Locks

\* An operation starts with the lock of its direction.
LEMMA HomeType == \A op : Home(op) \in Locks
  BY DEF Home, Locks

------------------------------------------------------------------------------
(* Type correctness *)

\* A freshly created channel is well typed.
LEMMA InitTypeOK == Init => TypeOK
  BY IndexTypes, NoCallType, CapacityAssumption
     DEF Init, TypeOK, Locks, Labels

\* Giving up a lock attempt keeps the registers and the label well typed.
LEMMA AbandonType ==
    ASSUME TypeOK, NEW t \in Threads, Abandon(t)
    PROVE  pc' \in [Threads -> Labels] /\ call' \in [Threads -> Calls]
  BY NoCallType DEF TypeOK, Abandon, Finish, Goto, Labels

\* The head of an operation keeps the types.
LEMMA StartType ==
    ASSUME TypeOK, NEW t \in Threads, NEW op \in AllOps,
           NEW m \in Msgs \cup {None}, Start(t, op, m)
    PROVE  TypeOK'
  <1>1. [NoCall EXCEPT !.op = op, !.msg = m, !.want = Home(op)] \in Calls
    BY HomeType, IndexTypes DEF NoCall, Calls
  <1> QED
    BY <1>1 DEF TypeOK, Start, Goto, Labels

\* Every step of a call keeps the types.
LEMMA StepType ==
    ASSUME TypeOK, NEW t \in Threads, Step(t)
    PROVE  TypeOK'
  <1> USE DEF TypeOK, Labels
  <1>0. call[t] \in Calls /\ call[t].want \in Locks /\ call[t].w \in Indices
        /\ call[t].r \in Indices
    BY DEF Calls
  <1>1. CASE CasLock(t)
    BY <1>0, <1>1 DEF CasLock, Goto
  <1>2. CASE GiveUp(t)
    BY <1>2, AbandonType DEF GiveUp
  <1>3. CASE Probe(t)
    <2>1. [call[t] EXCEPT !.holder = lock[call[t].want]] \in Calls
      BY <1>0 DEF Calls
    <2> QED BY <1>0, <1>3, <2>1 DEF Probe, Goto
  <1>4. CASE Steal(t)
    <2>1. [call[t] EXCEPT !.holder = Free] \in Calls
      BY <1>0 DEF Calls
    <2> QED BY <1>0, <1>4, <2>1 DEF Steal, Goto
  <1>5. CASE RecheckFail(t)
    BY <1>0, <1>5, AbandonType DEF RecheckFail
  <1>6. CASE Enter(t)
    BY <1>6 DEF Enter, Goto
  <1>7. CASE Unlock(t)
    BY <1>7, HomeType, NoCallType DEF Unlock, Finish, Goto
  <1>8. CASE LoadProducer(t)
    <2>1. /\ [call[t] EXCEPT !.w = wIdx] \in Calls
          /\ [call[t] EXCEPT !.w = wIdx, !.want = "r"] \in Calls
      BY <1>0 DEF Calls, Locks
    <2> QED BY <1>0, <1>8, <2>1 DEF LoadProducer, Goto
  <1>9. CASE Evict(t)
    BY <1>9, IndexTypes DEF Evict, Goto
  <1>10. CASE ReleaseRead(t)
    BY <1>10 DEF ReleaseRead, Goto, Locks
  <1>11. CASE FillBegin(t)
    BY <1>0, <1>11, SlotType DEF FillBegin, Goto, Indices
  <1>12. CASE FillEnd(t)
    <2>1. call[t].msg \in Msgs \cup {None}
      BY DEF Calls
    <2> QED BY <1>0, <1>12, <2>1, SlotType DEF FillEnd, Goto, Indices
  <1>13. CASE Publish(t)
    BY <1>0, <1>13, IndexTypes DEF Publish, Goto
  <1>14. CASE LoadConsumer(t)
    <2>1. [call[t] EXCEPT !.w = wIdx, !.r = rIdx] \in Calls
      BY <1>0 DEF Calls
    <2> QED BY <1>0, <1>14, <2>1 DEF LoadConsumer, Goto
  <1>15. CASE CopyBegin(t)
    <2>1. CopySlot(call[t]) \in 0 .. Capacity - 1
      BY <1>0, CopySlotType
    <2>2. [call[t] EXCEPT !.copy = slots[CopySlot(call[t])]] \in Calls
      BY <1>0, <2>1 DEF Calls
    <2> QED BY <1>15, <2>2 DEF CopyBegin, Goto
  <1>16. CASE CopyEnd(t)
    <2>1. call[t].copy \in Msgs \cup {None, Torn}
      BY DEF Calls
    <2>2. /\ [call[t] EXCEPT !.copy = call[t].copy] \in Calls
          /\ [call[t] EXCEPT !.copy = Torn] \in Calls
      BY <1>0, <2>1 DEF Calls
    <2> QED BY <1>16, <2>1, <2>2 DEF CopyEnd, Goto
  <1>17. CASE Advance(t)
    <2> DEFINE next == IF call[t].op = "latest" THEN call[t].w
                                                ELSE WrapInc(call[t].r)
    <2>1. next \in Indices
      BY <1>0, IndexTypes
    <2>2. call[t].copy \in Msgs \cup {None, Torn}
      BY DEF Calls
    <2>3. [call[t] EXCEPT !.r = next, !.copy = None] \in Calls
      BY <1>0, <2>1 DEF Calls
    <2> QED BY <1>17, <2>1, <2>2, <2>3, ZenonT(40) DEF Advance, Goto
  <1> QED
    BY <1>1, <1>2, <1>3, <1>4, <1>5, <1>6, <1>7, <1>8, <1>9, <1>10, <1>11,
       <1>12, <1>13, <1>14, <1>15, <1>16, <1>17 DEF Step

\* Every step, death and reuse of a TID included, keeps the types.
LEMMA NextType == TypeOK /\ [Next]_vars => TypeOK'
  <1> SUFFICES ASSUME TypeOK, [Next]_vars PROVE TypeOK'
    OBVIOUS
  <1>1. CASE UNCHANGED vars
    BY <1>1 DEF TypeOK, vars
  <1>2. ASSUME NEW t \in Threads, Begin(t) PROVE TypeOK'
    BY <1>2, StartType DEF Begin, AllOps
  <1>3. ASSUME NEW t \in Threads, Step(t) PROVE TypeOK'
    BY <1>3, StepType
  <1>4. ASSUME NEW t \in Threads, Destroy(t) PROVE TypeOK'
    BY <1>4 DEF Destroy, TypeOK
  <1>5. ASSUME NEW t \in Threads, Die(t) PROVE TypeOK'
    BY <1>5, NoCallType DEF Die, Goto, TypeOK, Labels
  <1>6. ASSUME NEW t \in Threads, Respawn(t) PROVE TypeOK'
    BY <1>6 DEF Respawn, Goto, TypeOK, Labels
  <1> QED
    BY <1>1, <1>2, <1>3, <1>4, <1>5, <1>6 DEF Next

\* Cursors, lock words, slots and registers keep their types in every state,
\* whatever the capacity and index width, dead and reborn threads included.
THEOREM TypeCorrect == Spec => []TypeOK
  BY InitTypeOK, NextType, PTL DEF Spec

------------------------------------------------------------------------------
(* Direction locks *)

\* What holds between two steps of the lock protocol while no TID is reused:
\* a thread inside a critical section finds its TID in the lock word, the
\* holder a thread is about to replace stays dead, and a thread that is after
\* a lock is after its home lock, or after the read lock as an overwriter.
HoldersMarked == \A t \in Threads : \A l \in Locks : Owns(t, l) => lock[l] = t

StolenAreDead ==
    \A t \in Threads : pc[t] = "steal" =>
        call[t].holder \in Threads /\ pc[call[t].holder] = "dead"

OpsInProgress ==
    \A t \in Threads :
        /\ Calling(t) => call[t].op \in AllOps
        /\ pc[t] \in {"acquire", "steal", "recheck"} =>
             \/ call[t].want = Home(call[t].op)
             \/ call[t].op = "overwrite" /\ call[t].want = "r"
        /\ pc[t] \in {"evict", "evicted", "evictFail"} => call[t].op = "overwrite"
        /\ pc[t] \in {"fill", "filling", "publish"} => call[t].op \in WriteOps
        /\ pc[t] \in {"copy", "copying", "advance"} => call[t].op \in ReadOps

LockInv == TypeOK /\ HoldersMarked /\ StolenAreDead /\ OpsInProgress

\* What LockInv says of one thread.
Local(t) ==
    /\ \A l \in Locks : Owns(t, l) => lock[l] = t
    /\ pc[t] = "steal" => call[t].holder \in Threads /\ pc[call[t].holder] = "dead"
    /\ Calling(t) => call[t].op \in AllOps
    /\ pc[t] \in {"acquire", "steal", "recheck"} =>
         \/ call[t].want = Home(call[t].op)
         \/ call[t].op = "overwrite" /\ call[t].want = "r"
    /\ pc[t] \in {"evict", "evicted", "evictFail"} => call[t].op = "overwrite"
    /\ pc[t] \in {"fill", "filling", "publish"} => call[t].op \in WriteOps
    /\ pc[t] \in {"copy", "copying", "advance"} => call[t].op \in ReadOps

\* LockInv is a statement about each thread by itself.
LEMMA LockInvLocal == LockInv <=> TypeOK /\ \A t \in Threads : Local(t)
  BY DEF LockInv, HoldersMarked, StolenAreDead, OpsInProgress, Local

\* A step of t keeps LockInv if it keeps the part about t, takes no lock word
\* from a thread inside its critical section, and t was not dead.
LEMMA LocalSuffices ==
    ASSUME LockInv, TypeOK', NEW t \in Threads, Local(t)',
           pc[t] # "dead" \/ pc'[t] = "dead",
           \A u \in Threads \ {t} : pc'[u] = pc[u] /\ call'[u] = call[u],
           \A l \in Locks, u \in Threads \ {t} :
               lock[l] = u /\ Owns(u, l) => lock'[l] = u
    PROVE  LockInv'
  <1> SUFFICES ASSUME NEW u \in Threads, u # t PROVE Local(u)'
    BY LockInvLocal DEF LockInv, HoldersMarked, StolenAreDead, OpsInProgress, Local
  <1>0. Local(u) /\ pc'[u] = pc[u] /\ call'[u] = call[u]
    BY LockInvLocal
  <1>1. \A l \in Locks : Owns(u, l)' => lock'[l] = u
    BY <1>0 DEF Local, Owns
  <1>2. (pc[u] = "steal" => call[u].holder \in Threads
                             /\ pc[call[u].holder] = "dead")'
    BY <1>0 DEF Local
  <1> QED
    BY <1>0, <1>1, <1>2 DEF Local, Calling

\* A step that leaves the lock words alone takes none.
LEMMA LockKept ==
    ASSUME LockInv, TypeOK', NEW t \in Threads, Local(t)', UNCHANGED lock,
           pc[t] # "dead",
           NEW label, pc' = [pc EXCEPT ![t] = label],
           \A u \in Threads \ {t} : call'[u] = call[u]
    PROVE  LockInv'
  <1>1. \A u \in Threads \ {t} : pc'[u] = pc[u] /\ call'[u] = call[u]
    BY DEF LockInv, TypeOK
  <1> QED
    BY <1>1, LocalSuffices

\* Every step of a call keeps LockInv: one case per action.
LEMMA StepLocks ==
    ASSUME LockInv, NEW t \in Threads, Step(t)
    PROVE  LockInv'
  <1>0. TypeOK /\ TypeOK' /\ Local(t)
    BY StepType, LockInvLocal DEF LockInv
  <1>a. Free \notin Threads /\ call[t] \in Calls /\ call[t].want \in Locks
    BY <1>0, ThreadAssumption DEF TypeOK, Calls
  <1>1. CASE CasLock(t)
    <2>1. \A l \in Locks, u \in Threads \ {t} : lock[l] = u => lock'[l] = u
      BY <1>0, <1>1, <1>a DEF CasLock, TypeOK
    <2>2. Local(t)'
      BY <1>0, <1>1, <1>a DEF CasLock, Goto, TypeOK, Local, Owns, Calling, Home, Locks
    <2> QED
      BY <1>0, <1>1, <2>1, <2>2, LocalSuffices DEF CasLock, Goto, TypeOK
  <1>2. CASE GiveUp(t)
    <2>2. Local(t)'
      BY <1>0, <1>2, <1>a DEF GiveUp, Abandon, Finish, Goto, TypeOK, Local, Owns, Calling, Home, Locks, AllOps, NoCall, WriteOps
    <2> QED
      BY <1>0, <1>2, <2>2, LocalSuffices DEF GiveUp, Abandon, Finish, Goto, TypeOK
  <1>3. CASE Probe(t)
    <2>1. lock[call[t].want] \in Threads
      BY <1>0, <1>3, <1>a DEF Probe, TypeOK
    <2>2. /\ call'[t] = [call[t] EXCEPT !.holder = lock[call[t].want]]
          /\ pc'[t] = "steal" /\ pc[t] = "acquire" /\ lock' = lock
          /\ pc'[lock[call[t].want]] = "dead"
      BY <1>0, <1>3, <1>a DEF Probe, TypeOK, Goto
    <2>3. Local(t)'
      BY <1>0, <2>1, <2>2, <1>a DEF Local, Owns, Calling, Calls
    <2> QED
      BY <1>0, <1>3, <2>3, LockKept DEF Probe, Goto, TypeOK
  <1>4. CASE Steal(t)
    <2>0. /\ call'[t] = [call[t] EXCEPT !.holder = Free]
          /\ pc[t] = "steal" /\ pc'[t] \in {"recheck", "acquire"}
          /\ \A u \in Threads \ {t} : pc'[u] = pc[u] /\ call'[u] = call[u]
      BY <1>0, <1>4 DEF Steal, Goto, TypeOK
    <2>1. ASSUME NEW l \in Locks, NEW u \in Threads \ {t}, lock[l] = u, Owns(u, l)
          PROVE  lock'[l] = u
      BY <1>0, <1>4, <2>1, <1>a DEF Steal, TypeOK, Local, Owns
    <2>2. Local(t)'
      BY <1>0, <1>4, <2>0, <1>a DEF Steal, Goto, TypeOK, Local, Owns, Calling, Home, Locks, Calls
    <2> QED
      BY <1>0, <2>0, <2>1, <2>2, LocalSuffices
  <1>5. CASE RecheckFail(t)
    <2>0. Owns(t, call[t].want) /\ lock[call[t].want] = t
      BY <1>0, <1>5, <1>a DEF RecheckFail, Local, Owns, Calling, Home, Locks
    <2>1. \A l \in Locks, u \in Threads \ {t} : lock[l] = u => lock'[l] = u
      BY <1>0, <1>5, <2>0, <1>a DEF RecheckFail, TypeOK
    <2>2. Local(t)'
      BY <1>0, <1>5, <1>a DEF RecheckFail, Abandon, Finish, Goto, TypeOK, Local, Owns, Calling, Home, Locks, AllOps, NoCall, WriteOps
    <2> QED
      BY <1>0, <1>5, <2>1, <2>2, LocalSuffices DEF RecheckFail, Abandon, Finish, Goto, TypeOK
  <1>6. CASE Enter(t)
    <2>2. Local(t)'
      BY <1>0, <1>6, <1>a DEF Enter, Goto, TypeOK, Local, Owns, Calling, Home, Locks, WriteOps
    <2> QED
      BY <1>0, <1>6, <2>2, LockKept DEF Enter, Goto
  <1>7. CASE Unlock(t)
    <2>0. Owns(t, Home(call[t].op)) /\ Home(call[t].op) \in Locks
      BY <1>0, <1>7, HomeType DEF Unlock, Local, Owns, Calling
    <2>1. \A l \in Locks, u \in Threads \ {t} : lock[l] = u => lock'[l] = u
      BY <1>0, <1>7, <2>0 DEF Unlock, TypeOK, Local
    <2>2. Local(t)'
      BY <1>0, <1>7 DEF Unlock, Finish, Goto, TypeOK, Local, Owns, Calling, NoCall, AllOps, WriteOps, ReadOps
    <2> QED
      BY <1>0, <1>7, <2>1, <2>2, LocalSuffices DEF Unlock, Finish, Goto, TypeOK
  <1>8. CASE LoadProducer(t)
    <2>2. Local(t)'
      BY <1>0, <1>8, <1>a DEF LoadProducer, Goto, TypeOK, Local, Owns, Calling, Home, Locks, Calls, WriteOps, AllOps
    <2> QED
      BY <1>0, <1>8, <2>2, LocalSuffices DEF LoadProducer, Goto, TypeOK
  <1>9. CASE Evict(t)
    <2>2. Local(t)'
      BY <1>0, <1>9, <1>a DEF Evict, Goto, TypeOK, Local, Owns, Calling
    <2> QED
      BY <1>0, <1>9, <2>2, LocalSuffices DEF Evict, Goto, TypeOK
  <1>10. CASE ReleaseRead(t)
    <2>0. Owns(t, "r") /\ lock["r"] = t
      BY <1>0, <1>10 DEF ReleaseRead, Local, Owns, Locks
    <2>1. \A l \in Locks, u \in Threads \ {t} : lock[l] = u => lock'[l] = u
      BY <1>0, <1>10, <2>0 DEF ReleaseRead, TypeOK
    <2>2. Local(t)'
      BY <1>0, <1>10, <1>a DEF ReleaseRead, Goto, TypeOK, Local, Owns, Calling, Home, Locks, WriteOps
    <2> QED
      BY <1>0, <1>10, <2>1, <2>2, LocalSuffices DEF ReleaseRead, Goto, TypeOK
  <1>11. CASE FillBegin(t)
    <2>2. Local(t)'
      BY <1>0, <1>11 DEF FillBegin, Goto, TypeOK, Local, Owns, Calling
    <2> QED
      BY <1>0, <1>11, <2>2, LockKept DEF FillBegin, Goto
  <1>12. CASE FillEnd(t)
    <2>2. Local(t)'
      BY <1>0, <1>12 DEF FillEnd, Goto, TypeOK, Local, Owns, Calling
    <2> QED
      BY <1>0, <1>12, <2>2, LockKept DEF FillEnd, Goto
  <1>13. CASE Publish(t)
    <2>2. Local(t)'
      BY <1>0, <1>13 DEF Publish, Goto, TypeOK, Local, Owns, Calling
    <2> QED
      BY <1>0, <1>13, <2>2, LockKept DEF Publish, Goto
  <1>14. CASE LoadConsumer(t)
    <2>2. Local(t)'
      BY <1>0, <1>14, <1>a DEF LoadConsumer, Goto, TypeOK, Local, Owns, Calling, Calls
    <2> QED
      BY <1>0, <1>14, <2>2, LocalSuffices DEF LoadConsumer, Goto, TypeOK
  <1>15. CASE CopyBegin(t)
    <2>2. Local(t)'
      BY <1>0, <1>15, <1>a DEF CopyBegin, Goto, TypeOK, Local, Owns, Calling, Calls
    <2> QED
      BY <1>0, <1>15, <2>2, LockKept DEF CopyBegin, Goto, TypeOK
  <1>16. CASE CopyEnd(t)
    <2>2. Local(t)'
      BY <1>0, <1>16, <1>a DEF CopyEnd, Goto, TypeOK, Local, Owns, Calling, Calls
    <2> QED
      BY <1>0, <1>16, <2>2, LocalSuffices DEF CopyEnd, Goto, TypeOK
  <1>17. CASE Advance(t)
    <2>2. Local(t)'
      BY <1>0, <1>17, <1>a DEF Advance, Goto, TypeOK, Local, Owns, Calling, Calls
    <2> QED
      BY <1>0, <1>17, <2>2, LocalSuffices DEF Advance, Goto, TypeOK
  <1> QED
    BY <1>1, <1>2, <1>3, <1>4, <1>5, <1>6, <1>7, <1>8, <1>9, <1>10, <1>11,
       <1>12, <1>13, <1>14, <1>15, <1>16, <1>17 DEF Step

\* LockInv holds of a freshly created channel: nobody is in a call.
LEMMA InitLocks == Init => LockInv
  <1> SUFFICES ASSUME Init PROVE \A t \in Threads : Local(t)
    BY InitTypeOK, LockInvLocal
  <1> QED
    BY DEF Init, Local, Owns, Calling

\* The head of an operation keeps LockInv: it holds no lock yet.
LEMMA BeginLocks ==
    ASSUME LockInv, NEW t \in Threads, Begin(t)
    PROVE  LockInv'
  <1>1. PICK op \in AllOps, m \in Msgs \cup {None} : Start(t, op, m)
    BY DEF Begin, AllOps
  <1>2. TypeOK'
    BY <1>1, StartType DEF LockInv
  <1>3. pc'[t] = "acquire" /\ call'[t].op = op /\ call'[t].want = Home(op)
    BY <1>1 DEF Start, Goto, LockInv, TypeOK, NoCall
  <1>4. Local(t)'
    BY <1>3 DEF Local, Owns
  <1> QED
    BY <1>1, <1>2, <1>4, LockKept DEF Start, Goto, LockInv, TypeOK

\* LockInv is inductive while no TID is reused.
LEMMA NextLocks == ~TidReuse /\ LockInv /\ [Next]_vars => LockInv'
  <1> SUFFICES ASSUME ~TidReuse, LockInv, [Next]_vars PROVE LockInv'
    OBVIOUS
  <1>0. TypeOK /\ TypeOK'
    BY NextType DEF LockInv
  <1>1. CASE UNCHANGED vars
    BY <1>1, <1>0 DEF LockInv, HoldersMarked, StolenAreDead, OpsInProgress, vars,
                      Owns, Calling
  <1>2. ASSUME NEW t \in Threads, Begin(t) PROVE LockInv'
    BY <1>2, BeginLocks
  <1>3. ASSUME NEW t \in Threads, Step(t) PROVE LockInv'
    BY <1>3, StepLocks
  <1>4. ASSUME NEW t \in Threads, Destroy(t) PROVE LockInv'
    BY <1>4, <1>0 DEF Destroy, LockInv, HoldersMarked, StolenAreDead,
                      OpsInProgress, Owns, Calling
  <1>5. ASSUME NEW t \in Threads, Die(t) PROVE LockInv'
    <2>1. pc'[t] = "dead" /\ lock' = lock /\ pc[t] # "dead"
      BY <1>0, <1>5 DEF Die, Goto, TypeOK, Calling
    <2>2. Local(t)'
      BY <2>1 DEF Local, Owns, Calling
    <2> QED
      BY <1>0, <1>5, <2>1, <2>2, LockKept DEF Die, Goto, TypeOK
  <1>6. ASSUME NEW t \in Threads, Respawn(t) PROVE LockInv'
    BY <1>6 DEF Respawn
  <1> QED
    BY <1>1, <1>2, <1>3, <1>4, <1>5, <1>6 DEF Next

\* LockInv holds in every state.
LEMMA LocksHold == ASSUME ~TidReuse PROVE Spec => []LockInv
  BY InitLocks, NextLocks, PTL DEF Spec

\* No two threads are ever inside the critical section of one direction, for
\* any number of threads, deaths and takeovers, as long as the kernel does not
\* hand the TID of a dead thread to a new one.
THEOREM Exclusion == ASSUME ~TidReuse PROVE Spec => []MutualExclusion
  <1>1. LockInv => MutualExclusion
    BY DEF LockInv, HoldersMarked, MutualExclusion
  <1> QED
    BY <1>1, LocksHold, PTL

\* The takeover compare_exchange never evicts a live holder, under the same
\* assumption: what the run of TakeoverSafe with reused TIDs refutes.
THEOREM TakeoverIsSafe == ASSUME ~TidReuse PROVE Spec => TakeoverSafe
  <1> DEFINE Kept == \A l \in Locks :
          (lock[l] \in Threads /\ lock'[l] \in Threads /\ lock'[l] # lock[l])
            => ~Owns(lock[l], l)
  <1>1. ASSUME LockInv, [Next]_vars PROVE [Kept]_vars
    <2>1. SUFFICES ASSUME NEW l \in Locks, NEW t \in Threads,
                          lock[l] \in Threads, lock'[l] \in Threads,
                          lock'[l] # lock[l], Step(t)
                   PROVE  ~Owns(lock[l], l)
      BY <1>1 DEF Next, vars, Begin, Start, Destroy, Die, Respawn
    <2>2. /\ Local(t) /\ call[t] \in Calls /\ call[t].want \in Locks
          /\ Free \notin Threads /\ Home(call[t].op) \in Locks
          /\ lock \in [Locks -> Threads \cup {Free}]
      BY <1>1, LockInvLocal, ThreadAssumption, HomeType
         DEF LockInv, TypeOK, Calls
    <2>3. CASE CasLock(t)
      BY <2>1, <2>2, <2>3 DEF CasLock
    <2>4. CASE Steal(t)
      BY <2>1, <2>2, <2>4 DEF Steal, Local, Owns
    <2>5. CASE RecheckFail(t) \/ Unlock(t) \/ ReleaseRead(t)
      BY <2>1, <2>2, <2>5 DEF RecheckFail, Unlock, ReleaseRead, Locks
    <2>6. CASE UNCHANGED lock
      BY <2>1, <2>6
    <2> QED
      BY <2>1, <2>3, <2>4, <2>5, <2>6
         DEF Step, GiveUp, Probe, Enter, LoadProducer, Evict, FillBegin,
             FillEnd, Publish, LoadConsumer, CopyBegin, CopyEnd, Advance
  <1>2. LockInv /\ [Next]_vars => [Kept]_vars
    BY <1>1
  <1> QED
    BY <1>2, LocksHold, PTL DEF Spec, TakeoverSafe

------------------------------------------------------------------------------
(* Cursors *)

\* The producer that is past its loads holds the write cursor it loaded and
\* has room for its entry.
ProducerView ==
    \A t \in Threads :
        /\ pc[t] \in {"fill", "filling", "publish", "evicted"} =>
             call[t].w = wIdx /\ Pending < Capacity
        /\ \/ pc[t] = "evict"
           \/ /\ pc[t] \in {"acquire", "steal", "recheck"}
              /\ call[t].op = "overwrite"
              /\ call[t].want = "r"
           => call[t].w = wIdx

\* The consumer that is past its loads holds the read cursor it loaded, and
\* the write cursor has not fallen behind the one it loaded.
ConsumerView ==
    \A t \in Threads : pc[t] \in {"copy", "copying", "advance"} =>
        /\ call[t].r = rIdx
        /\ call[t].w # rIdx
        /\ WrapSub(call[t].w, rIdx) <= Pending

CursorInv == LockInv /\ PendingBound /\ ProducerView /\ ConsumerView

\* Distances between indices, across the wrap.
LEMMA Distance ==
    ASSUME NEW w \in Indices, NEW r \in Indices
    PROVE  /\ WrapSub(w, r) \in Nat
           /\ WrapSub(w, r) = 0 <=> w = r
           /\ WrapSub(w, r) < Capacity => WrapSub(WrapInc(w), r) = WrapSub(w, r) + 1
           /\ w # r => WrapSub(w, WrapInc(r)) = WrapSub(w, r) - 1
           /\ \A x \in Indices : WrapSub(x, r) <= WrapSub(w, r) =>
                  WrapSub(w, x) = WrapSub(w, r) - WrapSub(x, r)
  BY CapacityAssumption, IndexAssumption DEF Indices, WrapSub, WrapInc

\* What the views say of one thread.
View(t) ==
    /\ pc[t] \in {"fill", "filling", "publish", "evicted"} =>
         call[t].w = wIdx /\ Pending < Capacity
    /\ \/ pc[t] = "evict"
       \/ /\ pc[t] \in {"acquire", "steal", "recheck"}
          /\ call[t].op = "overwrite"
          /\ call[t].want = "r"
       => call[t].w = wIdx
    /\ pc[t] \in {"copy", "copying", "advance"} =>
         /\ call[t].r = rIdx
         /\ call[t].w # rIdx
         /\ WrapSub(call[t].w, rIdx) <= Pending

\* CursorInv, too, is a statement about each thread by itself.
LEMMA CursorInvLocal ==
    CursorInv <=> LockInv /\ PendingBound /\ \A t \in Threads : View(t)
  BY DEF CursorInv, ProducerView, ConsumerView, View

\* The threads with a view of a cursor are inside its critical section.
LEMMA ViewersOwn ==
    ASSUME LockInv, NEW t \in Threads
    PROVE  /\ pc[t] \in {"fill", "filling", "publish", "evict", "evicted"}
                => Owns(t, "w")
           /\ pc[t] \in {"acquire", "steal", "recheck"} /\ call[t].op = "overwrite"
                /\ call[t].want = "r" => Owns(t, "w")
           /\ pc[t] \in {"copy", "copying", "advance", "evict", "evicted"}
                => Owns(t, "r")
  BY DEF LockInv, OpsInProgress, Owns, Calling, Home, AllOps, WriteOps, ReadOps

\* A step that moves no cursor keeps the views of the other threads.
LEMMA CursorsKept ==
    ASSUME CursorInv, LockInv', NEW t \in Threads, UNCHANGED <<wIdx, rIdx>>,
           \A u \in Threads \ {t} : pc'[u] = pc[u] /\ call'[u] = call[u],
           View(t)'
    PROVE  CursorInv'
  <1>1. ASSUME NEW u \in Threads, u # t PROVE View(u)'
    BY <1>1, CursorInvLocal DEF View, Pending
  <1>2. PendingBound'
    BY CursorInvLocal DEF PendingBound, Pending
  <1> QED
    BY <1>1, <1>2, CursorInvLocal
       DEF CursorInv, ProducerView, ConsumerView, View

\* Every step of a call keeps the cursor bound and the views.
LEMMA StepCursors ==
    ASSUME CursorInv, NEW t \in Threads, Step(t)
    PROVE  CursorInv'
  <1>0. TypeOK /\ LockInv /\ LockInv' /\ View(t) /\ PendingBound
    BY StepLocks, CursorInvLocal DEF LockInv
  <1>a. /\ wIdx \in Indices /\ rIdx \in Indices /\ call[t] \in Calls
        /\ call[t].w \in Indices /\ call[t].r \in Indices
        /\ pc \in [Threads -> Labels] /\ call \in [Threads -> Calls]
    BY <1>0 DEF TypeOK, Calls
  <1>b. \A l \in Locks : \A u \in Threads : Owns(t, l) /\ Owns(u, l) => u = t
    BY <1>0 DEF LockInv, HoldersMarked
  <1>c. Pending \in Nat /\ Pending <= Capacity
    BY <1>0, <1>a, Distance DEF Pending, PendingBound
  <1>1. CASE CasLock(t) \/ Enter(t) \/ FillBegin(t) \/ FillEnd(t) \/ ReleaseRead(t)
    <2>1. View(t)'
      BY <1>0, <1>a, <1>1
         DEF CasLock, Enter, FillBegin, FillEnd, ReleaseRead, Goto, View,
             Pending, LockInv, OpsInProgress, Home
    <2> QED
      BY <1>0, <1>a, <1>1, <2>1, CursorsKept
         DEF CasLock, Enter, FillBegin, FillEnd, ReleaseRead, Goto
  <1>2. CASE GiveUp(t) \/ RecheckFail(t) \/ Unlock(t)
    <2>1. pc'[t] \in {"idle", "unlock"} /\ UNCHANGED <<wIdx, rIdx>>
      BY <1>a, <1>2 DEF GiveUp, RecheckFail, Unlock, Abandon, Finish, Goto
    <2>2. View(t)'
      BY <2>1 DEF View
    <2> QED
      BY <1>0, <1>a, <1>2, <2>1, <2>2, CursorsKept
         DEF GiveUp, RecheckFail, Unlock, Abandon, Finish, Goto
  <1>3. CASE Probe(t) \/ Steal(t)
    <2>1. View(t)'
      BY <1>0, <1>a, <1>3 DEF Probe, Steal, Goto, View, Pending, Calls
    <2> QED
      BY <1>0, <1>a, <1>3, <2>1, CursorsKept DEF Probe, Steal, Goto
  <1>4. CASE LoadProducer(t)
    <2>1. View(t)'
      BY <1>0, <1>a, <1>4 DEF LoadProducer, Goto, View, Pending, Calls
    <2> QED
      BY <1>0, <1>a, <1>4, <2>1, CursorsKept DEF LoadProducer, Goto
  <1>5. CASE Evict(t)
    <2>1. /\ pc[t] = "evict" /\ pc'[t] \in {"evicted", "evictFail"}
          /\ wIdx' = wIdx /\ call' = call
          /\ Owns(t, "w") /\ Owns(t, "r")
          /\ call[t].w = wIdx
          /\ \A u \in Threads \ {t} : pc'[u] = pc[u]
      BY <1>0, <1>a, <1>5, ViewersOwn DEF Evict, Goto, View
    <2>2. rIdx' = IF Pending = Capacity THEN WrapInc(rIdx) ELSE rIdx
      BY <1>5, <2>1 DEF Evict, Pending
    <2>3. Pending' < Capacity
      <3>1. CASE Pending = Capacity
        <4>1. wIdx # rIdx
          BY <1>a, <3>1, Distance, CapacityAssumption DEF Pending
        <4>2. Pending' = Pending - 1
          BY <1>a, <2>1, <2>2, <3>1, <4>1, Distance DEF Pending
        <4> QED BY <3>1, <4>2, CapacityAssumption
      <3>2. CASE Pending # Capacity
        <4>1. Pending' = Pending
          BY <2>1, <2>2, <3>2 DEF Pending
        <4> QED BY <1>c, <3>2, <4>1, CapacityAssumption
      <3> QED BY <3>1, <3>2
    <2>4. View(t)'
      BY <2>1, <2>3 DEF View
    <2>5. ASSUME NEW u \in Threads, u # t PROVE View(u)'
      <3>1. ~Owns(u, "w") /\ ~Owns(u, "r")
        BY <1>b, <2>1, <2>5 DEF Locks
      <3> QED
        BY <1>0, <2>1, <2>5, <3>1, ViewersOwn DEF View
    <2>6. PendingBound'
      BY <1>0, <2>3, CapacityAssumption, Distance DEF PendingBound, Pending, LockInv, TypeOK
    <2> QED
      BY <1>0, <2>4, <2>5, <2>6 DEF CursorInv, ProducerView, ConsumerView, View
  <1>6. CASE Publish(t)
    <2>1. /\ pc[t] = "publish" /\ pc'[t] = "unlock"
          /\ rIdx' = rIdx /\ call' = call
          /\ Owns(t, "w") /\ call[t].w = wIdx /\ Pending < Capacity
          /\ wIdx' = WrapInc(wIdx)
          /\ \A u \in Threads \ {t} : pc'[u] = pc[u]
      BY <1>0, <1>a, <1>6, ViewersOwn DEF Publish, Goto, View
    <2>2. Pending' = Pending + 1
      BY <1>a, <2>1, Distance DEF Pending
    <2>3. ASSUME NEW u \in Threads, u # t PROVE View(u)'
      <3>1. View(u) /\ ~Owns(u, "w") /\ call[u] \in Calls
        BY <1>a, <1>b, <2>1, <2>3, CursorInvLocal DEF Locks
      <3>2. WrapSub(call[u].w, rIdx) \in Nat
        BY <1>a, <3>1, Distance DEF Calls
      <3> QED
        BY <1>0, <1>c, <2>1, <2>2, <2>3, <3>1, <3>2, ViewersOwn DEF View
    <2>4. View(t)' /\ PendingBound'
      BY <1>c, <2>1, <2>2, CapacityAssumption DEF View, PendingBound
    <2> QED
      BY <1>0, <2>3, <2>4 DEF CursorInv, ProducerView, ConsumerView, View
  <1>7. CASE LoadConsumer(t)
    <2>1. View(t)'
      <3>1. CASE pc'[t] = "unlock"
        BY <3>1 DEF View
      <3>2. CASE /\ Pending # 0 /\ pc'[t] = "copy"
                 /\ call'[t].w = wIdx /\ call'[t].r = rIdx
        <4>1. wIdx # rIdx
          BY <1>a, <3>2, Distance DEF Pending
        <4>2. /\ call'[t].w = wIdx /\ call'[t].r = rIdx
              /\ wIdx' = wIdx /\ rIdx' = rIdx /\ pc'[t] = "copy"
          BY <1>7, <3>2 DEF LoadConsumer
        <4>3. WrapSub(call'[t].w, rIdx') = Pending /\ Pending' = Pending
          BY <4>2 DEF Pending
        <4> QED
          BY <1>c, <4>1, <4>2, <4>3 DEF View
      <3> QED
        BY <1>a, <1>7, <3>1, <3>2 DEF LoadConsumer, Goto, Calls
    <2> QED
      BY <1>0, <1>a, <1>7, <2>1, CursorsKept DEF LoadConsumer, Goto
  <1>8. CASE CopyBegin(t) \/ CopyEnd(t)
    <2>1. View(t)'
      BY <1>0, <1>a, <1>8 DEF CopyBegin, CopyEnd, Goto, View, Pending, Calls
    <2> QED
      BY <1>0, <1>a, <1>8, <2>1, CursorsKept DEF CopyBegin, CopyEnd, Goto
  <1>9. CASE Advance(t)
    <2> DEFINE next == IF call[t].op = "latest" THEN call[t].w
                                                ELSE WrapInc(call[t].r)
    <2>1. /\ pc[t] = "advance" /\ wIdx' = wIdx /\ rIdx' = next
          /\ Owns(t, "r") /\ call[t].r = rIdx /\ call[t].w # rIdx
          /\ WrapSub(call[t].w, rIdx) <= Pending
          /\ \A u \in Threads \ {t} : pc'[u] = pc[u] /\ call'[u] = call[u]
      BY <1>0, <1>a, <1>9, ViewersOwn DEF Advance, Goto, View
    <2>2. WrapSub(call[t].w, rIdx) \in Nat /\ WrapSub(call[t].w, rIdx) # 0
          /\ wIdx # rIdx
      BY <1>a, <1>c, <2>1, Distance DEF Pending
    <2>3. Pending' < Pending /\ Pending' \in Nat
      <3>1. CASE rIdx' = call[t].w
        BY <1>a, <1>c, <2>1, <2>2, <3>1, Distance DEF Pending
      <3>2. CASE rIdx' = WrapInc(rIdx)
        <4>1. Pending' = Pending - 1
          BY <1>a, <2>1, <2>2, <3>2, Distance DEF Pending
        <4>2. Pending # 0
          BY <1>a, <2>2, Distance DEF Pending
        <4> QED BY <1>c, <4>1, <4>2
      <3> QED BY <2>1, <3>1, <3>2
    <2>4. View(t)'
      <3>1. CASE pc'[t] = "unlock"
        BY <3>1 DEF View
      <3>2. CASE /\ pc'[t] = "copy"
                 /\ call[t].op = "drain" /\ next # call[t].w
                 /\ call'[t] = [call[t] EXCEPT !.r = next, !.copy = None]
        <4>1. call'[t].r = rIdx' /\ call'[t].w = call[t].w /\ rIdx' = WrapInc(rIdx)
          BY <1>a, <2>1, <3>2 DEF Calls
        <4>2. WrapSub(call[t].w, WrapInc(rIdx)) = WrapSub(call[t].w, rIdx) - 1
          BY <1>a, <2>1, Distance
        <4>3. Pending' = Pending - 1
          BY <1>a, <2>1, <2>2, <4>1, Distance DEF Pending
        <4> QED
          BY <1>c, <2>1, <2>2, <3>2, <4>1, <4>2, <4>3 DEF View
      <3> QED
        BY <1>a, <1>9, <3>1, <3>2 DEF Advance, Goto
    <2>5. ASSUME NEW u \in Threads, u # t PROVE View(u)'
      <3>1. View(u) /\ ~Owns(u, "r")
        BY <1>b, <2>1, <2>5, CursorInvLocal DEF Locks
      <3> QED
        BY <1>0, <1>c, <2>1, <2>3, <2>5, <3>1, ViewersOwn, CapacityAssumption
           DEF View
    <2>6. PendingBound'
      BY <1>c, <2>3, CapacityAssumption DEF PendingBound
    <2> QED
      BY <1>0, <2>4, <2>5, <2>6 DEF CursorInv, ProducerView, ConsumerView, View
  <1> QED
    BY <1>1, <1>2, <1>3, <1>4, <1>5, <1>6, <1>7, <1>8, <1>9 DEF Step

\* CursorInv holds of a freshly created channel.
LEMMA InitCursors == Init => CursorInv
  <1> SUFFICES ASSUME Init PROVE CursorInv
    OBVIOUS
  <1>1. PendingBound
    BY CapacityAssumption DEF Init, PendingBound, Pending, WrapSub
  <1>2. \A t \in Threads : View(t)
    BY DEF Init, View
  <1> QED
    BY <1>1, <1>2, InitLocks, CursorInvLocal

\* CursorInv is inductive while no TID is reused.
LEMMA NextCursors == ~TidReuse /\ CursorInv /\ [Next]_vars => CursorInv'
  <1> SUFFICES ASSUME ~TidReuse, CursorInv, [Next]_vars PROVE CursorInv'
    OBVIOUS
  <1>0. LockInv /\ LockInv' /\ TypeOK /\ TypeOK'
    BY NextLocks DEF CursorInv, LockInv
  <1>1. CASE UNCHANGED vars
    BY <1>0, <1>1 DEF vars, CursorInv, PendingBound, Pending, ProducerView, ConsumerView
  <1>2. ASSUME NEW t \in Threads, Begin(t) PROVE CursorInv'
    <2>1. PICK op \in AllOps, m \in Msgs \cup {None} : Start(t, op, m)
      BY <1>2 DEF Begin, AllOps
    <2>2. /\ pc'[t] = "acquire" /\ call'[t].op = op /\ call'[t].want = Home(op)
          /\ UNCHANGED <<wIdx, rIdx>>
          /\ \A u \in Threads \ {t} : pc'[u] = pc[u] /\ call'[u] = call[u]
      BY <1>0, <2>1 DEF Start, Goto, TypeOK, NoCall
    <2>3. View(t)'
      BY <2>2 DEF View, Home, WriteOps
    <2> QED
      BY <1>0, <2>2, <2>3, CursorsKept
  <1>3. ASSUME NEW t \in Threads, Step(t) PROVE CursorInv'
    BY <1>3, StepCursors
  <1>4. ASSUME NEW t \in Threads, Destroy(t) PROVE CursorInv'
    BY <1>0, <1>4 DEF Destroy, CursorInv, PendingBound, Pending, ProducerView, ConsumerView
  <1>5. ASSUME NEW t \in Threads, Die(t) PROVE CursorInv'
    <2>1. /\ pc'[t] = "dead" /\ UNCHANGED <<wIdx, rIdx>>
          /\ \A u \in Threads \ {t} : pc'[u] = pc[u] /\ call'[u] = call[u]
      BY <1>0, <1>5 DEF Die, Goto, TypeOK
    <2>2. View(t)'
      BY <2>1 DEF View
    <2> QED
      BY <1>0, <2>1, <2>2, CursorsKept
  <1>6. ASSUME NEW t \in Threads, Respawn(t) PROVE CursorInv'
    BY <1>6 DEF Respawn
  <1> QED
    BY <1>1, <1>2, <1>3, <1>4, <1>5, <1>6 DEF Next

\* The cursors never drift further apart than the ring is long, for every
\* capacity and every index width that is a multiple of it, under the same
\* assumption on TIDs: checked_pending finds no InvalidData.
THEOREM CursorsBounded == ASSUME ~TidReuse PROVE Spec => []PendingBound
  <1>1. CursorInv => PendingBound
    BY DEF CursorInv
  <1> QED
    BY <1>1, InitCursors, NextCursors, PTL DEF Spec
==============================================================================
