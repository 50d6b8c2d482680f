------------------------ MODULE RingLifecycleProofs ------------------------
(***************************************************************************)
(* Proofs about RingLifecycle, for every number of bars, creators,         *)
(* successive supervisors and mappings, any of whom may die at any step.   *)
(***************************************************************************)
EXTENDS RingLifecycle, TLAPS

------------------------------------------------------------------------------
(* Type correctness *)

\* A process that is about to map, return or publish a mapping has one.
Aimed == \A p \in Procs : pc[p] \in {"map", "opened", "publish"} => aim[p] # None

TypeInv == TypeOK /\ Aimed

\* What TypeInv says of the registers of the processes.
ProcTypes ==
    /\ pc \in [Procs -> {"idle", "open", "map", "opened", "broken", "invalid",
                         "probe", "probeLegacy", "notFound", "compare", "unlink",
                         "retire", "release", "create", "publish", "attached",
                         "dropCompare", "dropUnlink", "dropObject", "dead"}]
    /\ aim \in [Procs -> Mappings \cup {None}]
    /\ handle \in [Procs -> Mappings \cup {None}]
    /\ probed \in [Procs -> BOOLEAN] /\ mayCreate \in [Procs -> BOOLEAN]
    /\ mayReclaim \in [Procs -> BOOLEAN] /\ expired \in [Procs -> BOOLEAN]
    /\ \A p \in Procs :
         handle[p] # None <=>
           pc[p] \in {"attached", "dropCompare", "dropUnlink", "dropObject"}
    /\ Aimed

\* What it says of the file system and of the headers.
FileTypes ==
    /\ flink \in Mappings \cup {None}
    /\ object \subseteq Mappings
    /\ kind \in [Mappings -> {"unused", "current", "legacy", "foreign"}]
    /\ creator \in [Mappings -> Procs \cup {Ghost, Elder, None}]
    /\ destroyed \in [Mappings -> BOOLEAN]

\* The two halves of the type invariant.
LEMMA TypeParts == TypeInv <=> ProcTypes /\ FileTypes
  BY DEF TypeInv, TypeOK, ProcTypes, FileTypes

\* Returning an error, returning a handle and going on keep the types.
LEMMA ReturnTypes ==
    ASSUME ProcTypes, NEW p \in Procs,
           handle[p] = None,
           \/ Fail(p)
           \/ \E m \in Mappings : Attach(p, m)
           \/ Collide(p)
    PROVE  ProcTypes'
  <1> USE LifecycleAssumption DEF ProcTypes, Aimed
  <1>1. CASE Fail(p)
    BY <1>1 DEF Fail, Goto
  <1>2. CASE \E m \in Mappings : Attach(p, m)
    BY <1>2 DEF Attach, Goto
  <1>3. CASE Collide(p)
    <2>1. CASE expired[p]
      BY <1>1, <1>3, <2>1 DEF Collide
    <2>2. CASE ~expired[p]
      <3>1. /\ mayCreate' = [mayCreate EXCEPT ![p] = FALSE]
            /\ aim' = [aim EXCEPT ![p] = None] /\ Goto(p, "open")
            /\ UNCHANGED <<handle, probed, mayReclaim, expired>>
        BY <1>3, <2>2, Zenon DEF Collide
      <3> QED BY <3>1 DEF Goto
    <2> QED BY <2>1, <2>2
  <1> QED
    BY <1>1, <1>2, <1>3

\* Going on inside the call keeps the types.
LEMMA ContinueTypes ==
    ASSUME ProcTypes, NEW p \in Procs, NEW label, Continue(p, label),
           pc[p] \notin {"attached", "dropCompare", "dropUnlink", "dropObject"},
           label \in {"open", "opened", "broken", "invalid", "probe", "probeLegacy",
                      "notFound", "unlink", "retire", "release", "create"},
           label = "opened" => aim[p] # None
    PROVE  ProcTypes'
  BY LifecycleAssumption DEF ProcTypes, Aimed, Continue, Goto, locals

\* Every step inside a call or inside Drop keeps the types.
LEMMA StepTypes ==
    ASSUME TypeInv, NEW p \in Procs, Step(p)
    PROVE  TypeInv'
  <1> SUFFICES ProcTypes' /\ FileTypes'
    BY TypeParts DEF TypeInv, TypeOK, ProcTypes, FileTypes
  <1>0. ProcTypes /\ FileTypes
    BY TypeParts
  <1>a. handle[p] # None <=>
          pc[p] \in {"attached", "dropCompare", "dropUnlink", "dropObject"}
    BY <1>0 DEF ProcTypes
  <1> USE LifecycleAssumption
  <1>1. CASE ReadLink(p)
    BY <1>0, <1>1 DEF ReadLink, At, Goto, ProcTypes, FileTypes, Aimed, files, headers, locals
  <1>2. CASE OpenObject(p)
    <2>1. \E label \in {"notFound", "invalid", "broken", "opened"} : Continue(p, label)
      BY <1>2 DEF OpenObject
    <2>2. aim[p] # None /\ pc[p] = "map"
      BY <1>0, <1>2 DEF OpenObject, At, ProcTypes, Aimed
    <2>3. ProcTypes'
      BY <1>0, <2>1, <2>2, ContinueTypes
    <2> QED BY <1>0, <1>2, <2>3 DEF OpenObject, FileTypes, files, headers
  <1>3. CASE Opened(p)
    <2>1. pc[p] = "opened" /\ aim[p] \in Mappings /\ handle[p] = None
      BY <1>0, <1>a, <1>3 DEF Opened, At, ProcTypes, Aimed
    <2>2. CASE Attach(p, aim[p])
      <3>1. ProcTypes'
        BY <1>0, <2>1, <2>2, ReturnTypes
      <3> QED BY <1>0, <1>3, <3>1 DEF Opened, FileTypes, files, headers
    <2>3. CASE ~Attach(p, aim[p])
      <3>1. /\ mayReclaim' = [mayReclaim EXCEPT ![p] = FALSE] /\ Goto(p, "compare")
            /\ UNCHANGED <<files, headers, aim, handle, probed, mayCreate, expired>>
        BY <1>3, <2>3, Zenon DEF Opened
      <3> QED
        BY <1>0, <2>1, <3>1 DEF Goto, ProcTypes, FileTypes, Aimed, files, headers
    <2> QED BY <2>2, <2>3
  <1>4. CASE OpenFailed(p)
    <2>1. ProcTypes'
      <3>1. pc[p] \in {"broken", "invalid"} /\ handle[p] = None
        BY <1>a, <1>4 DEF OpenFailed
      <3>2. Fail(p) \/ Continue(p, "probe") \/ Continue(p, "probeLegacy")
        BY <1>4 DEF OpenFailed
      <3> QED BY <1>0, <3>1, <3>2, ReturnTypes, ContinueTypes
    <2> QED BY <1>0, <1>4, <2>1 DEF OpenFailed, FileTypes, files, headers
  <1>5. CASE Probe(p)
    <2>0. pc[p] \in {"probe", "probeLegacy"} /\ handle[p] = None
      BY <1>a, <1>5 DEF Probe
    <2>1. CASE Fail(p) \/ Continue(p, "open")
      <3>1. ProcTypes'
        BY <1>0, <2>0, <2>1, ReturnTypes, ContinueTypes
      <3> QED BY <1>0, <1>5, <3>1 DEF Probe, FileTypes, files, headers
    <2>2. CASE ~(Fail(p) \/ Continue(p, "open"))
      <3>1. /\ mayReclaim' = [mayReclaim EXCEPT ![p] = FALSE]
            /\ \/ Goto(p, "open") /\ UNCHANGED <<aim, probed>>
               \/ /\ aim' = [aim EXCEPT ![p] = flink]
                  /\ probed' = [probed EXCEPT ![p] = TRUE]
                  /\ Goto(p, "compare")
            /\ UNCHANGED <<files, headers, handle, mayCreate, expired>>
        BY <1>5, <2>2, Zenon DEF Probe
      <3>2. FileTypes'
        BY <1>0, <3>1 DEF FileTypes, files, headers
      <3>3. CASE Goto(p, "open") /\ UNCHANGED <<aim, probed>>
        BY <1>0, <2>0, <3>1, <3>2, <3>3 DEF Goto, ProcTypes, Aimed
      <3>4. CASE /\ aim' = [aim EXCEPT ![p] = flink]
                 /\ probed' = [probed EXCEPT ![p] = TRUE]
                 /\ Goto(p, "compare")
        <4>1. flink \in Mappings \cup {None}
          BY <1>0 DEF FileTypes
        <4> QED
          BY <1>0, <2>0, <3>1, <3>2, <3>4, <4>1 DEF Goto, ProcTypes, Aimed
      <3> QED
        BY <3>1, <3>3, <3>4
    <2> QED BY <2>1, <2>2
  <1>6. CASE Compare(p)
    <2>1. pc[p] = "compare" /\ (Continue(p, "unlink") \/ Continue(p, "retire"))
      BY <1>6 DEF Compare, At
    <2>2. ProcTypes'
      BY <1>0, <2>1, ContinueTypes
    <2> QED BY <1>0, <1>6, <2>2 DEF Compare, FileTypes, files, headers
  <1>7. CASE Unlink(p)
    <2>1. ProcTypes'
      BY <1>0, <1>7, ContinueTypes DEF Unlink, At
    <2> QED BY <1>0, <1>7, <2>1 DEF Unlink, FileTypes, headers
  <1>8. CASE ReclaimFails(p)
    <2>1. ProcTypes'
      BY <1>0, <1>a, <1>8, ReturnTypes DEF ReclaimFails
    <2> QED BY <1>0, <1>8, <2>1 DEF ReclaimFails, FileTypes, files, headers
  <1>9. CASE Retire(p)
    <2>1. ProcTypes'
      BY <1>0, <1>9, ContinueTypes DEF Retire, At
    <2>2. FileTypes'
      BY <1>0, <1>9 DEF Retire, FileTypes, files, ProcTypes
    <2> QED BY <2>1, <2>2
  <1>10. CASE Release(p)
    BY <1>0, <1>10 DEF Release, At, Goto, ProcTypes, FileTypes, Aimed, headers
  <1>11. CASE NotFound(p)
    <2>0. pc[p] = "notFound" /\ handle[p] = None
      BY <1>a, <1>11 DEF NotFound, At
    <2>1. CASE Fail(p) \/ Continue(p, "open")
      <3>1. ProcTypes'
        BY <1>0, <2>0, <2>1, ReturnTypes, ContinueTypes
      <3> QED BY <1>0, <1>11, <3>1 DEF NotFound, FileTypes, files, headers
    <2>2. CASE ~(Fail(p) \/ Continue(p, "open"))
      <3>1. /\ mayCreate' = [mayCreate EXCEPT ![p] = TRUE] /\ Goto(p, "create")
            /\ UNCHANGED <<files, headers, aim, handle, probed, mayReclaim, expired>>
        BY <1>11, <2>2, Zenon DEF NotFound
      <3> QED
        BY <1>0, <2>0, <3>1 DEF Goto, ProcTypes, FileTypes, Aimed, files, headers
    <2> QED BY <2>1, <2>2
  <1>12. CASE CreateObject(p)
    <2>0. pc[p] = "create" /\ handle[p] = None
      BY <1>a, <1>12 DEF CreateObject, At
    <2>1. CASE (Fail(p) \/ Collide(p)) /\ UNCHANGED <<files, headers>>
      <3>1. ProcTypes'
        BY <1>0, <2>0, <2>1, ReturnTypes
      <3> QED BY <1>0, <2>1, <3>1 DEF FileTypes, files, headers
    <2>2. ASSUME NEW m \in Mappings,
                 /\ kind' = [kind EXCEPT ![m] = "current"]
                 /\ creator' = [creator EXCEPT ![m] = p]
                 /\ object' = object \cup {m}
                 /\ aim' = [aim EXCEPT ![p] = m]
                 /\ Goto(p, "publish")
                 /\ UNCHANGED <<flink, destroyed, locals>>
          PROVE  ProcTypes' /\ FileTypes'
      <3>1. ProcTypes'
        BY <1>0, <2>0, <2>2 DEF Goto, ProcTypes, Aimed, locals
      <3>2. FileTypes'
        BY <1>0, <2>2 DEF FileTypes
      <3> QED BY <3>1, <3>2
    <2> QED
      BY <1>12, <2>1, <2>2 DEF CreateObject
  <1>13. CASE Publish(p)
    <2>0. pc[p] = "publish" /\ handle[p] = None /\ aim[p] \in Mappings
      BY <1>0, <1>a, <1>13 DEF Publish, At, ProcTypes, Aimed
    <2>1. ProcTypes'
      BY <1>0, <1>13, <2>0, ReturnTypes DEF Publish
    <2>2. FileTypes'
      BY <1>0, <1>13, <2>0 DEF Publish, FileTypes, headers
    <2> QED BY <2>1, <2>2
  <1>14. CASE DropCompare(p) \/ DropUnlink(p) \/ DropLeavesLink(p)
    BY <1>0, <1>a, <1>14
       DEF DropCompare, DropUnlink, DropLeavesLink, Continue, At, Goto, ProcTypes, FileTypes, Aimed,
           files, headers, locals
  <1>15. CASE DropObject(p)
    BY <1>0, <1>a, <1>15 DEF DropObject, At, Goto, ProcTypes, FileTypes, Aimed, headers
  <1> QED
    BY <1>1, <1>2, <1>3, <1>4, <1>5, <1>6, <1>7, <1>8, <1>9, <1>10, <1>11, <1>12,
       <1>13, <1>14, <1>15 DEF Step

\* The state the behaviour begins in is well typed.
LEMMA InitTypes == Init => TypeInv
  BY LifecycleAssumption DEF Init, TypeInv, TypeOK, Aimed

\* Every step, deaths and the kernel's clean-up included, keeps the types.
LEMMA NextTypes == TypeInv /\ [Next]_vars => TypeInv'
  <1> SUFFICES ASSUME TypeInv, [Next]_vars PROVE TypeInv'
    OBVIOUS
  <1>0. ProcTypes /\ FileTypes
    BY TypeParts
  <1>a. ProcTypes' /\ FileTypes' => TypeInv'
    BY DEF TypeInv, TypeOK, ProcTypes, FileTypes
  <1> USE LifecycleAssumption
  <1>1. CASE UNCHANGED vars
    BY <1>1 DEF TypeInv, TypeOK, Aimed, vars, files, headers, locals
  <1>2. ASSUME NEW p \in Procs, Call(p) PROVE TypeInv'
    BY <1>0, <1>a, <1>2
       DEF Call, At, Goto, ProcTypes, FileTypes, Aimed, files, headers
  <1>3. ASSUME NEW p \in Procs, Expire(p) PROVE TypeInv'
    BY <1>0, <1>a, <1>3 DEF Expire, ProcTypes, FileTypes, Aimed, files, headers
  <1>4. ASSUME NEW p \in Procs, Step(p) PROVE TypeInv'
    BY <1>4, StepTypes
  <1>5. ASSUME NEW p \in Procs, Destroy(p) PROVE TypeInv'
    BY <1>0, <1>a, <1>5 DEF Destroy, At, ProcTypes, FileTypes, Aimed, files, locals
  <1>6. ASSUME NEW p \in Procs, Drop(p) PROVE TypeInv'
    <2>1. /\ pc[p] = "attached" /\ handle[p] \in Mappings
          /\ UNCHANGED <<files, kind, creator, aim, probed, mayCreate, mayReclaim, expired>>
      BY <1>0, <1>6 DEF Drop, At, ProcTypes
    <2>2. \/ /\ destroyed' = [destroyed EXCEPT ![handle[p]] = TRUE]
             /\ Goto(p, "dropCompare") /\ UNCHANGED handle
          \/ /\ handle' = [handle EXCEPT ![p] = None]
             /\ Goto(p, "idle") /\ UNCHANGED destroyed
      BY <1>6 DEF Drop
    <2>3. ProcTypes'
      BY <1>0, <2>1, <2>2 DEF Goto, ProcTypes, Aimed
    <2>4. FileTypes'
      BY <1>0, <2>1, <2>2 DEF FileTypes, files
    <2> QED BY <1>a, <2>3, <2>4
  <1>7. ASSUME NEW p \in Procs, Die(p) PROVE TypeInv'
    BY <1>0, <1>a, <1>7 DEF Die, Goto, ProcTypes, FileTypes, Aimed, files, headers
  <1>8. ASSUME NEW m \in Mappings, Forget(m) PROVE TypeInv'
    BY <1>0, <1>a, <1>8 DEF Forget, ProcTypes, FileTypes, Aimed, files, locals
  <1> QED
    BY <1>1, <1>2, <1>3, <1>4, <1>5, <1>6, <1>7, <1>8 DEF Next

\* Files, headers and registers keep their types, and a process holds a
\* mapping exactly between the return of its call and the end of Drop.
THEOREM TypeCorrect == Spec => []TypeOK
  <1>1. TypeInv => TypeOK
    BY DEF TypeInv
  <1> QED
    BY <1>1, InitTypes, NextTypes, PTL DEF Spec

------------------------------------------------------------------------------
(* The public path *)

Dropping == {"dropCompare", "dropUnlink", "dropObject"}
Probing == {"probe", "probeLegacy"}
Reclaiming == {"compare", "unlink", "retire", "release"}

\* The mapping a process aims at exists, and is not its own unless it is still
\* private or all that is left of it is the name.
Aims(p) ==
    /\ pc[p] \in Reclaiming => aim[p] # None
    /\ aim[p] # None => kind[aim[p]] # "unused"
    /\ aim[p] # None /\ pc[p] # "publish" /\ creator[aim[p]] = p =>
         aim[p] \notin object /\ pc[p] # "opened"
    /\ pc[p] = "opened" => kind[aim[p]] = "current"

\* A reclaim is a supervisor's, of a mapping whose creator is gone.  Between
\* compare and unlink nobody else touches the path; afterwards the path never
\* names the mapping again.
Reclaims(p) ==
    /\ mayReclaim[p] \/ pc[p] \in Probing => p \in Reclaimers
    /\ pc[p] \in Reclaiming =>
         /\ p \in Reclaimers
         /\ ~Alive(creator[aim[p]])
         /\ kind[aim[p]] \in {"current", "legacy"}
    /\ pc[p] = "unlink" => flink = aim[p]
    /\ pc[p] \in {"retire", "release"} => flink # aim[p]

\* A mapping that is not published yet is known to its creator alone.
Private(p) ==
    pc[p] = "publish" =>
      /\ creator[aim[p]] = p
      /\ flink # aim[p]
      /\ aim[p] \in object
      /\ \A q \in Procs : handle[q] # aim[p] /\ (q # p => aim[q] # aim[p])

\* A creator finds its mapping under the path until it unlinks it itself.
Holds(p) ==
    /\ handle[p] # None => kind[handle[p]] # "unused"
    /\ pc[p] \in Dropping => Created(p)
    /\ pc[p] \in {"attached", "dropCompare", "dropUnlink"} /\ Created(p) =>
         flink = handle[p]

\* What a process knows.
Knows(p) == Aims(p) /\ Reclaims(p) /\ Private(p) /\ Holds(p)

\* An object and a named mapping have a header, and a process that created one
\* wrote it.
Mapped ==
    /\ \A m \in object : kind[m] # "unused"
    /\ flink # None => kind[flink] # "unused"
    /\ \A m \in Mappings : creator[m] \in Procs => kind[m] = "current"

\* The creator of the named mapping holds it, or is gone, or has dropped the
\* object.
FlinkOwned ==
    \A p \in Procs : flink # None /\ creator[flink] = p /\ pc[p] # "dead" =>
        handle[p] = flink \/ flink \notin object

\* One supervisor at a time.
OneSupervisor ==
    \A p, q \in Reclaimers :
        p # q => pc[p] \in {"idle", "dead"} \/ pc[q] \in {"idle", "dead"}

PathInv ==
    /\ TypeInv /\ Mapped /\ FlinkOwned /\ OneSupervisor
    /\ \A p \in Procs : Knows(p)

\* A step of p that leaves files, headers and the other processes alone, and
\* learns of no mapping but the one the path names, keeps the rest of PathInv.
LEMMA StepAside ==
    ASSUME PathInv, TypeInv', NEW p \in Procs,
           UNCHANGED <<flink, object, kind, creator>>,
           pc[p] # "dead",
           \A q \in Procs \ {p} : /\ pc'[q] = pc[q] /\ aim'[q] = aim[q]
                                  /\ handle'[q] = handle[q]
                                  /\ mayReclaim'[q] = mayReclaim[q],
           aim'[p] \in {aim[p], None, flink},
           handle'[p] \in {handle[p], None, aim[p]},
           pc[p] = "publish" => handle'[p] # aim[p],
           Created(p) => handle'[p] = handle[p] \/ pc'[p] = "dead",
           \/ pc[p] # "idle"
           \/ pc'[p] = "idle"
           \/ p \in Reclaimers => SoleSupervisor(p),
           Knows(p)'
    PROVE  PathInv'
  <1>0. /\ TypeOK /\ TypeOK' /\ None \notin Mappings
        /\ \A q \in Procs : Knows(q)
    BY LifecycleAssumption DEF PathInv, TypeInv
  <1>1. Mapped'
    BY DEF PathInv, Mapped
  <1>2. FlinkOwned'
    <2> SUFFICES ASSUME NEW q \in Procs, flink # None, creator[flink] = q, pc'[q] # "dead",
                        flink \in object
                 PROVE  handle'[q] = flink
      BY DEF FlinkOwned
    <2>1. handle[q] = flink
      BY DEF PathInv, FlinkOwned
    <2> QED BY <2>1 DEF Created
  <1>3. OneSupervisor'
    <2> SUFFICES ASSUME NEW q \in Reclaimers, NEW r \in Reclaimers, q # r,
                        pc'[q] \notin {"idle", "dead"}
                 PROVE  pc'[r] \in {"idle", "dead"}
      BY DEF OneSupervisor
    <2>1. q \in Procs /\ r \in Procs
      BY DEF Procs
    <2> QED
      BY <2>1 DEF PathInv, OneSupervisor, SoleSupervisor
  <1>4. ASSUME NEW q \in Procs, q # p PROVE Knows(q)'
    <2>1. /\ pc'[q] = pc[q] /\ aim'[q] = aim[q] /\ handle'[q] = handle[q]
          /\ mayReclaim'[q] = mayReclaim[q]
          /\ Aims(q) /\ Reclaims(q) /\ Private(q) /\ Holds(q)
      BY <1>0, <1>4 DEF Knows
    <2>2. Aims(q)' /\ Holds(q)'
      BY <2>1 DEF Aims, Holds, Created
    <2>3. ~Alive(creator[aim[q]]) => ~Alive(creator[aim[q]])'
      BY <1>0, <2>1 DEF Alive
    <2>4. Reclaims(q)'
      BY <2>1, <2>3 DEF Reclaims
    <2>5. Private(q)'
      <3> SUFFICES ASSUME pc[q] = "publish"
                   PROVE  handle'[p] # aim[q] /\ aim'[p] # aim[q]
        BY <2>1 DEF Private
      <3>1. /\ handle[p] # aim[q] /\ aim[p] # aim[q] /\ flink # aim[q] /\ aim[q] # None
        BY <1>4, <2>1 DEF Private, PathInv, TypeInv, Aimed
      <3> QED BY <3>1
    <2> QED BY <2>2, <2>4, <2>5 DEF Knows
  <1> QED
    BY <1>1, <1>2, <1>3, <1>4 DEF PathInv

\* What TypeInv and Knows say of one process.
LEMMA Facts ==
    ASSUME PathInv, NEW p \in Procs
    PROVE  /\ Aims(p) /\ Reclaims(p) /\ Private(p) /\ Holds(p)
           /\ aim[p] \in Mappings \cup {None} /\ handle[p] \in Mappings \cup {None}
           /\ handle[p] # None <=> pc[p] \in {"attached"} \cup Dropping
           /\ None \notin Mappings
           /\ flink # None => flink \in Mappings /\ kind[flink] # "unused"
           /\ flink \in object => flink # None
           /\ flink \in object /\ handle[p] = None /\ pc[p] # "dead" => creator[flink] # p
  BY LifecycleAssumption
     DEF PathInv, TypeInv, TypeOK, Knows, Dropping, Mapped, FlinkOwned

\* Only p moves.
OnlyMoves(p) ==
    \A q \in Procs \ {p} : /\ pc'[q] = pc[q] /\ aim'[q] = aim[q]
                           /\ handle'[q] = handle[q] /\ mayReclaim'[q] = mayReclaim[q]

\* Labels at which a process has made up its mind about nothing.
Undecided == {"idle", "open", "map", "broken", "invalid", "probe", "probeLegacy",
              "notFound", "create"}

\* Starting a call, reading the path, giving up and trying again.
LEMMA UndecidedStep ==
    ASSUME PathInv, TypeInv', NEW p \in Procs, OnlyMoves(p),
           UNCHANGED <<flink, object, kind, creator>>,
           pc[p] # "dead", pc[p] # "publish", handle[p] = None, handle'[p] = None,
           pc'[p] \in Undecided,
           aim'[p] \in {aim[p], None, flink},
           mayReclaim'[p] \/ pc'[p] \in Probing => mayReclaim[p] \/ p \in Reclaimers,
           \/ pc[p] # "idle"
           \/ p \in Reclaimers => SoleSupervisor(p)
    PROVE  PathInv'
  <1>0. /\ Aims(p) /\ Reclaims(p) /\ ~Created(p)
        /\ flink # None => kind[flink] # "unused"
        /\ flink # None /\ creator[flink] = p => flink \notin object
    BY Facts DEF Created
  <1>1. Aims(p)'
    BY <1>0 DEF Aims, Undecided, Reclaiming
  <1>2. Reclaims(p)'
    BY <1>0 DEF Reclaims, Undecided, Reclaiming
  <1>3. Private(p)' /\ Holds(p)'
    BY DEF Private, Holds, Undecided, Dropping, Created
  <1>4. Knows(p)'
    BY <1>1, <1>2, <1>3 DEF Knows
  <1> QED
    BY <1>0, <1>4, StepAside DEF OnlyMoves

\* The same for the ways a step writes the registers.
LEMMA UndecidedReturn ==
    ASSUME PathInv, TypeInv', NEW p \in Procs,
           \/ Fail(p)
           \/ Collide(p)
           \/ \E label \in Undecided : /\ Continue(p, label)
                                       /\ label \in Probing => p \in Reclaimers,
           pc[p] \notin {"idle", "dead", "publish", "attached"} \cup Dropping,
           UNCHANGED <<flink, object, kind, creator>>
    PROVE  PathInv'
  <1>0. handle[p] = None /\ "idle" \in Undecided /\ "open" \in Undecided
    BY Facts DEF Undecided
  <1> USE DEF ProcTypes
  <1>a. ProcTypes
    BY TypeParts DEF PathInv
  <1>1. CASE Fail(p)
    BY <1>0, <1>a, <1>1, UndecidedStep DEF Fail, Goto, OnlyMoves, Probing
  <1>2. CASE \E label \in Undecided : /\ Continue(p, label)
                                      /\ label \in Probing => p \in Reclaimers
    BY <1>0, <1>a, <1>2, UndecidedStep DEF Continue, Goto, OnlyMoves, locals
  <1>3. CASE Collide(p) /\ ~Fail(p)
    <2>1. /\ aim' = [aim EXCEPT ![p] = None] /\ Goto(p, "open")
          /\ UNCHANGED <<handle, mayReclaim>>
      BY <1>3, Zenon DEF Collide
    <2> QED
      BY <1>0, <1>a, <2>1, UndecidedStep DEF Goto, OnlyMoves, Probing
  <1> QED BY <1>1, <1>2, <1>3

\* Taking a handle of an opened mapping.
LEMMA AttachStep ==
    ASSUME PathInv, TypeInv', NEW p \in Procs, pc[p] = "opened", Attach(p, aim[p]),
           UNCHANGED <<flink, object, kind, creator>>
    PROVE  PathInv'
  <1>0. /\ Aims(p) /\ handle[p] = None /\ ProcTypes /\ aim[p] # None
    BY Facts, TypeParts DEF PathInv, TypeInv, Aimed, Dropping
  <1>1. /\ OnlyMoves(p) /\ pc'[p] = "attached" /\ aim'[p] = None
        /\ handle'[p] = aim[p] /\ mayReclaim'[p] = FALSE
    BY <1>0 DEF Attach, Goto, OnlyMoves, ProcTypes
  <1>2. Aims(p)' /\ Reclaims(p)' /\ Private(p)'
    BY <1>1 DEF Aims, Reclaims, Private, Reclaiming, Probing
  <1>3. Holds(p)'
    BY <1>0, <1>1 DEF Aims, Holds, Created, Dropping
  <1> QED
    BY <1>0, <1>1, <1>2, <1>3, StepAside DEF OnlyMoves, Knows, Created

\* Deciding to reclaim a mapping whose creator is gone.
LEMMA DecideStep ==
    ASSUME PathInv, TypeInv', NEW p \in Procs, p \in Reclaimers,
           pc[p] \in {"opened", "probe", "probeLegacy"}, Goto(p, "compare"),
           mayReclaim' = [mayReclaim EXCEPT ![p] = FALSE], UNCHANGED handle,
           NEW m \in Mappings, m \in {aim[p], flink},
           aim' = [aim EXCEPT ![p] = m],
           ~Alive(creator[m]), kind[m] \in {"current", "legacy"},
           UNCHANGED <<flink, object, kind, creator>>
    PROVE  PathInv'
  <1>0. /\ Aims(p) /\ handle[p] = None /\ ProcTypes /\ None \notin Mappings
    BY Facts, TypeParts DEF PathInv, Dropping
  <1>1. /\ OnlyMoves(p) /\ pc'[p] = "compare" /\ aim'[p] = m /\ m # None
        /\ handle'[p] = None /\ mayReclaim'[p] = FALSE
    BY <1>0 DEF Goto, OnlyMoves, ProcTypes
  <1>2. ~Alive(creator[m])' /\ creator[m] # p
    BY <1>0 DEF Alive, Goto, ProcTypes
  <1>3. Aims(p)' /\ Private(p)' /\ Holds(p)'
    BY <1>1, <1>2 DEF Aims, Private, Holds, Dropping
  <1>4. Reclaims(p)'
    BY <1>1, <1>2 DEF Reclaims, Reclaiming, Probing
  <1> QED
    BY <1>0, <1>1, <1>3, <1>4, StepAside DEF OnlyMoves, Knows, Created

\* The steps inside a call that only look at files and headers.
LEMMA LookSteps ==
    ASSUME PathInv, TypeInv', NEW p \in Procs,
           \/ ReadLink(p) \/ OpenObject(p) \/ Opened(p) \/ OpenFailed(p) \/ Probe(p)
           \/ NotFound(p)
    PROVE  PathInv'
  <1>0. /\ Aims(p) /\ Reclaims(p) /\ ProcTypes /\ FileTypes
        /\ aim[p] \in Mappings \cup {None} /\ None \notin Mappings
        /\ handle[p] # None <=> pc[p] \in {"attached"} \cup Dropping
        /\ pc[p] \in {"map", "opened"} => aim[p] # None
    BY Facts, TypeParts DEF PathInv, TypeInv, Aimed
  <1>1. UNCHANGED <<flink, object, kind, creator>>
    BY DEF ReadLink, OpenObject, Opened, OpenFailed, Probe, NotFound, files, headers
  <1>2. CASE ReadLink(p)
    <2>1. /\ OnlyMoves(p) /\ pc[p] = "open" /\ pc'[p] \in {"notFound", "map"}
          /\ aim'[p] = flink /\ UNCHANGED <<handle, mayReclaim>>
      BY <1>0, <1>2 DEF ReadLink, At, Goto, OnlyMoves, ProcTypes, locals
    <2> QED
      BY <1>0, <1>1, <2>1, UndecidedStep DEF Undecided, Probing, Dropping
  <1>3. CASE OpenObject(p)
    <2>1. /\ pc[p] = "map" /\ handle[p] = None
          /\ \/ \E label \in Undecided \ Probing : Continue(p, label)
             \/ Continue(p, "opened") /\ kind[aim[p]] = "current" /\ aim[p] \in object
      BY <1>0, <1>3 DEF OpenObject, At, Undecided, Probing, Dropping
    <2>2. CASE \E label \in Undecided \ Probing : Continue(p, label)
      BY <1>1, <2>1, <2>2, UndecidedReturn DEF Dropping
    <2>3. CASE Continue(p, "opened") /\ kind[aim[p]] = "current" /\ aim[p] \in object
      <3>1. /\ OnlyMoves(p) /\ pc'[p] = "opened" /\ UNCHANGED <<aim, handle, mayReclaim>>
        BY <1>0, <2>3 DEF Continue, Goto, OnlyMoves, ProcTypes, locals
      <3>2. Knows(p)'
        BY <1>0, <1>1, <2>1, <2>3, <3>1
           DEF Knows, Aims, Reclaims, Private, Holds, Reclaiming, Probing, Dropping
      <3> QED
        BY <1>1, <2>1, <3>1, <3>2, StepAside DEF OnlyMoves
    <2> QED BY <2>1, <2>2, <2>3
  <1>4. CASE Opened(p)
    <2>1. pc[p] = "opened" /\ aim[p] # None /\ kind[aim[p]] = "current"
      BY <1>0, <1>4 DEF Opened, At, Aims
    <2>2. CASE Attach(p, aim[p])
      BY <1>1, <2>1, <2>2, AttachStep
    <2>3. CASE ~Attach(p, aim[p])
      <3>1. /\ mayReclaim[p] /\ ~Alive(creator[aim[p]])
            /\ mayReclaim' = [mayReclaim EXCEPT ![p] = FALSE]
            /\ Goto(p, "compare") /\ aim' = aim /\ handle' = handle
        BY <1>4, <2>3, Zenon DEF Opened
      <3>2. p \in Reclaimers
        BY <1>0, <3>1, Zenon DEF Reclaims
      <3>3. aim' = [aim EXCEPT ![p] = aim[p]]
        BY <1>0, <3>1 DEF ProcTypes
      <3> QED
        BY <1>0, <1>1, <2>1, <3>1, <3>2, <3>3, DecideStep
    <2> QED BY <2>2, <2>3
  <1>5. CASE OpenFailed(p)
    <2>1. mayReclaim[p] => p \in Reclaimers
      BY <1>0 DEF Reclaims
    <2>2. Fail(p) \/ \E label \in Undecided : Continue(p, label) /\ p \in Reclaimers
      BY <1>5, <2>1 DEF OpenFailed, Undecided
    <2> QED
      BY <1>1, <1>5, <2>2, UndecidedReturn DEF OpenFailed, Dropping
  <1>6. CASE Probe(p)
    <2>0. pc[p] \in {"probe", "probeLegacy"} /\ handle[p] = None
      BY <1>0, <1>6 DEF Probe, Dropping
    <2>1. CASE Fail(p) \/ Continue(p, "open")
      BY <1>1, <2>0, <2>1, UndecidedReturn DEF Undecided, Probing, Dropping
    <2>2. CASE ~(Fail(p) \/ Continue(p, "open"))
      <3>1. /\ mayReclaim' = [mayReclaim EXCEPT ![p] = FALSE] /\ handle' = handle
            /\ \/ Goto(p, "open") /\ aim' = aim
               \/ /\ flink \in object /\ ~Alive(creator[flink])
                  /\ kind[flink] = IF At(p, "probe") THEN "current" ELSE "legacy"
                  /\ aim' = [aim EXCEPT ![p] = flink] /\ Goto(p, "compare")
        BY <1>6, <2>2, Zenon DEF Probe
      <3>2. CASE Goto(p, "open") /\ aim' = aim
        <4>1. /\ OnlyMoves(p) /\ pc'[p] = "open" /\ mayReclaim'[p] = FALSE
          BY <1>0, <3>1, <3>2 DEF Goto, OnlyMoves, ProcTypes
        <4> QED
          BY <1>1, <2>0, <3>1, <3>2, <4>1, UndecidedStep DEF Undecided, Probing
      <3>3. CASE Goto(p, "compare")
        <4>1. /\ flink \in Mappings /\ kind[flink] \in {"current", "legacy"}
              /\ ~Alive(creator[flink]) /\ aim' = [aim EXCEPT ![p] = flink]
          BY <1>0, <3>1, <3>3 DEF FileTypes, Goto, ProcTypes
        <4>2. p \in Reclaimers
          BY <1>0, <2>0 DEF Reclaims, Probing
        <4> QED
          BY <1>1, <2>0, <3>1, <3>3, <4>1, <4>2, DecideStep
      <3> QED BY <3>1, <3>2, <3>3
    <2> QED BY <2>1, <2>2
  <1>7. CASE NotFound(p)
    <2>0. pc[p] = "notFound" /\ handle[p] = None
      BY <1>0, <1>7 DEF NotFound, At, Dropping
    <2>1. CASE Fail(p) \/ Continue(p, "open")
      BY <1>1, <2>0, <2>1, UndecidedReturn DEF Undecided, Probing, Dropping
    <2>2. CASE ~(Fail(p) \/ Continue(p, "open"))
      <3>1. Goto(p, "create") /\ aim' = aim /\ handle' = handle /\ mayReclaim' = mayReclaim
        BY <1>7, <2>2, Zenon DEF NotFound
      <3>2. OnlyMoves(p) /\ pc'[p] = "create"
        BY <1>0, <3>1 DEF Goto, OnlyMoves, ProcTypes
      <3> QED
        BY <1>1, <2>0, <3>1, <3>2, UndecidedStep DEF Undecided, Probing
    <2> QED BY <2>1, <2>2
  <1> QED
    BY <1>2, <1>3, <1>4, <1>5, <1>6, <1>7

\* The steps of a reclaim, of create and of a handle that change no file and
\* no header but is_destroyed.
LEMMA QuietSteps ==
    ASSUME PathInv, TypeInv', NEW p \in Procs,
           \/ Call(p) \/ Expire(p) \/ Compare(p) \/ ReclaimFails(p) \/ Retire(p)
           \/ CreateObject(p) /\ UNCHANGED files
           \/ Destroy(p) \/ Drop(p) \/ DropCompare(p) \/ DropLeavesLink(p) \/ Die(p)
    PROVE  PathInv'
  <1>0. /\ Aims(p) /\ Reclaims(p) /\ Private(p) /\ Holds(p) /\ ProcTypes /\ FileTypes
        /\ aim[p] \in Mappings \cup {None} /\ None \notin Mappings
        /\ handle[p] # None <=> pc[p] \in {"attached"} \cup Dropping
    BY Facts, TypeParts DEF PathInv
  <1>1. CASE Call(p)
    <2>1. /\ OnlyMoves(p) /\ pc[p] = "idle" /\ pc'[p] = "open" /\ UNCHANGED <<aim, handle>>
          /\ mayReclaim'[p] = (p \in Reclaimers)
          /\ (p \in Reclaimers => SoleSupervisor(p))
          /\ UNCHANGED <<flink, object, kind, creator>>
      BY <1>0, <1>1 DEF Call, At, Goto, OnlyMoves, ProcTypes, files, headers
    <2> QED
      BY <1>0, <2>1, UndecidedStep DEF Undecided, Probing, Dropping
  <1>2. CASE Expire(p)
    <2>1. UNCHANGED <<flink, object, kind, creator, pc, aim, handle, mayReclaim>>
      BY <1>2 DEF Expire, files, headers
    <2>2. Knows(p)'
      BY <1>0, <2>1 DEF Knows, Aims, Reclaims, Private, Holds, Created, Alive
    <2> QED
      BY <1>2, <2>1, <2>2, StepAside DEF Expire, Private, PathInv, Knows
  <1>3. CASE Compare(p)
    <2>1. /\ pc[p] = "compare" /\ pc'[p] = (IF flink = aim[p] THEN "unlink" ELSE "retire")
          /\ UNCHANGED <<flink, object, kind, creator, aim, handle, mayReclaim>>
          /\ OnlyMoves(p)
      BY <1>0, <1>3
         DEF Compare, Continue, At, Goto, OnlyMoves, ProcTypes, files, headers, locals
    <2>2. ~Alive(creator[aim[p]])'
      BY <1>0, <1>3, <2>1
         DEF Reclaims, Reclaiming, Alive, Compare, Continue, Goto, ProcTypes
    <2>3. Reclaims(p)'
      BY <1>0, <2>1, <2>2 DEF Reclaims, Reclaiming, Probing
    <2>4. Aims(p)' /\ Private(p)' /\ Holds(p)'
      BY <1>0, <2>1 DEF Aims, Private, Holds, Reclaiming, Dropping
    <2> QED
      BY <1>0, <2>1, <2>3, <2>4, StepAside DEF OnlyMoves, Knows
  <1>4. CASE ReclaimFails(p)
    BY <1>4, UndecidedReturn DEF ReclaimFails, Dropping, files, headers
  <1>5. CASE Retire(p)
    <2>1. /\ pc[p] = "retire" /\ pc'[p] = "release"
          /\ UNCHANGED <<flink, object, kind, creator, aim, handle, mayReclaim>>
          /\ OnlyMoves(p)
      BY <1>0, <1>5
         DEF Retire, Continue, At, Goto, OnlyMoves, ProcTypes, files, headers, locals
    <2>2. ~Alive(creator[aim[p]])'
      BY <1>0, <1>5, <2>1
         DEF Reclaims, Reclaiming, Alive, Retire, Continue, Goto, ProcTypes
    <2>3. Reclaims(p)'
      BY <1>0, <2>1, <2>2 DEF Reclaims, Reclaiming, Probing
    <2>4. Aims(p)' /\ Private(p)' /\ Holds(p)'
      BY <1>0, <2>1 DEF Aims, Private, Holds, Reclaiming, Dropping
    <2> QED
      BY <1>0, <2>1, <2>3, <2>4, StepAside DEF OnlyMoves, Knows
  <1>6. CASE CreateObject(p) /\ UNCHANGED files
    <2>1. /\ pc[p] = "create" /\ (Fail(p) \/ Collide(p))
          /\ UNCHANGED <<flink, object, kind, creator>>
      <3>1. ASSUME NEW m \in Mappings, kind[m] = "unused", object' = object \cup {m}
            PROVE  FALSE
        BY <1>6, <3>1 DEF files, PathInv, Mapped
      <3> QED
        BY <1>6, <3>1 DEF CreateObject, At, files, headers
    <2> QED
      BY <1>6, <2>1, UndecidedReturn DEF CreateObject, At, Dropping
  <1>7. CASE Destroy(p)
    <2>1. /\ pc[p] = "attached"
          /\ UNCHANGED <<flink, object, kind, creator, pc, aim, handle, mayReclaim>>
      BY <1>7 DEF Destroy, At, files, headers, locals
    <2>2. Knows(p)'
      BY <1>0, <2>1 DEF Knows, Aims, Reclaims, Private, Holds, Created, Alive
    <2> QED
      BY <2>1, <2>2, StepAside
  <1>8. CASE Drop(p)
    <2>1. /\ pc[p] = "attached" /\ UNCHANGED <<flink, object, kind, creator, aim, mayReclaim>>
      BY <1>8 DEF Drop, At, files
    <2>2. CASE Created(p)
      <3>1. Goto(p, "dropCompare") /\ handle' = handle
        BY <1>8, <2>2, Zenon DEF Drop
      <3>2. pc'[p] = "dropCompare" /\ OnlyMoves(p)
        BY <1>0, <2>1, <3>1 DEF Goto, OnlyMoves, ProcTypes
      <3>3. Knows(p)'
        BY <1>0, <2>1, <2>2, <3>1, <3>2
           DEF Knows, Aims, Reclaims, Private, Holds, Created, Reclaiming, Probing, Dropping
      <3> QED
        BY <2>1, <3>1, <3>2, <3>3, StepAside DEF OnlyMoves
    <2>3. CASE ~Created(p)
      <3>1. Goto(p, "idle") /\ handle' = [handle EXCEPT ![p] = None]
        BY <1>8, <2>3, Zenon DEF Drop
      <3>2. pc'[p] = "idle" /\ handle'[p] = None /\ OnlyMoves(p)
        BY <1>0, <2>1, <3>1 DEF Goto, OnlyMoves, ProcTypes
      <3>3. Knows(p)'
        BY <1>0, <2>1, <3>1, <3>2
           DEF Knows, Aims, Reclaims, Private, Holds, Created, Reclaiming, Probing, Dropping
      <3> QED
        BY <2>1, <2>3, <3>2, <3>3, StepAside DEF OnlyMoves
    <2> QED BY <2>2, <2>3
  <1>9. CASE DropCompare(p)
    <2>1. /\ pc[p] = "dropCompare" /\ OnlyMoves(p)
          /\ pc'[p] = IF flink = handle[p] THEN "dropUnlink" ELSE "dropObject"
          /\ UNCHANGED <<flink, object, kind, creator, aim, handle, mayReclaim>>
      BY <1>0, <1>9
         DEF DropCompare, Continue, At, Goto, OnlyMoves, ProcTypes, files, headers, locals
    <2>2. Knows(p)'
      BY <1>0, <2>1
         DEF Knows, Aims, Reclaims, Private, Holds, Created, Reclaiming, Probing, Dropping
    <2> QED
      BY <2>1, <2>2, StepAside DEF OnlyMoves
  <1>10. CASE DropLeavesLink(p)
    <2>1. /\ pc[p] \in Dropping /\ OnlyMoves(p) /\ pc'[p] = "dropObject"
          /\ UNCHANGED <<flink, object, kind, creator, aim, handle, mayReclaim>>
      BY <1>0, <1>10 DEF DropLeavesLink, Continue, Goto, OnlyMoves, ProcTypes, Dropping,
                         files, headers, locals
    <2>2. Knows(p)'
      BY <1>0, <2>1
         DEF Knows, Aims, Reclaims, Private, Holds, Created, Reclaiming, Probing, Dropping
    <2> QED
      BY <2>1, <2>2, StepAside DEF OnlyMoves, Dropping
  <1>11. CASE Die(p)
    <2>1. /\ pc[p] # "dead" /\ pc'[p] = "dead" /\ aim'[p] = None /\ handle'[p] = None
          /\ mayReclaim'[p] = FALSE /\ OnlyMoves(p) /\ pc[p] # "idle"
          /\ UNCHANGED <<flink, object, kind, creator>>
      BY <1>0, <1>11 DEF Die, Goto, OnlyMoves, ProcTypes, files, headers
    <2>2. Knows(p)'
      BY <1>0, <2>1
         DEF Knows, Aims, Reclaims, Private, Holds, Created, Reclaiming, Probing, Dropping
    <2>3. pc[p] = "publish" => aim[p] # None
      BY DEF PathInv, TypeInv, Aimed
    <2> QED
      BY <2>1, <2>2, <2>3, StepAside DEF OnlyMoves
  <1> QED
    BY <1>1, <1>2, <1>3, <1>4, <1>5, <1>6, <1>7, <1>8, <1>9, <1>10, <1>11

\* Unlinking the path, by a supervisor or by the creator in Drop: whoever else
\* relied on the name is gone.
LEMMA UnlinkSteps ==
    ASSUME PathInv, TypeInv', NEW p \in Procs, Unlink(p) \/ DropUnlink(p)
    PROVE  PathInv'
  <1>0. /\ ProcTypes /\ None \notin Mappings
        /\ \A q \in Procs : /\ Aims(q) /\ Reclaims(q) /\ Private(q) /\ Holds(q)
                            /\ pc[q] = "publish" => aim[q] # None
                            /\ handle[q] # None <=> pc[q] \in {"attached"} \cup Dropping
    BY Facts, TypeParts DEF PathInv, TypeInv, Aimed
  <1>1. /\ pc[p] \in {"unlink", "dropUnlink"} /\ flink' = None
        /\ pc'[p] = (IF pc[p] = "unlink" THEN "retire" ELSE "dropObject")
        /\ \A q \in Procs : q # p => pc'[q] = pc[q]
        /\ UNCHANGED <<object, kind, creator, aim, handle, mayReclaim>>
    BY <1>0 DEF Unlink, DropUnlink, At, Continue, Goto, ProcTypes, headers, locals
  <1>2. \A c : ~Alive(c) => ~Alive(c)'
    BY <1>0, <1>1 DEF Alive
  <1>3. /\ pc[p] = "unlink" => p \in Reclaimers /\ flink = aim[p] /\ ~Alive(creator[flink])
        /\ pc[p] = "dropUnlink" => flink = handle[p] /\ creator[flink] = p
    BY <1>0 DEF Reclaims, Reclaiming, Holds, Dropping, Created
  <1>4. Mapped' /\ FlinkOwned'
    BY <1>1 DEF PathInv, Mapped, FlinkOwned
  <1>5. OneSupervisor'
    BY <1>1 DEF PathInv, OneSupervisor, Procs
  <1>6. ASSUME NEW q \in Procs PROVE Knows(q)'
    <2>1. Aims(q) /\ Reclaims(q) /\ Private(q) /\ Holds(q)
      BY <1>0
    <2>2. Aims(q)'
      BY <1>1, <2>1 DEF Aims, Reclaiming
    <2>3. Reclaims(q)'
      <3>1. ~(q # p /\ pc[q] = "unlink")
        <4> SUFFICES ASSUME q # p, pc[q] = "unlink" PROVE FALSE
          OBVIOUS
        <4>1. q \in Reclaimers /\ flink = aim[q] /\ ~Alive(creator[flink])
          BY <2>1 DEF Reclaims, Reclaiming
        <4>2. CASE pc[p] = "unlink"
          BY <1>3, <4>1, <4>2 DEF PathInv, OneSupervisor
        <4>3. CASE pc[p] = "dropUnlink"
          BY <1>3, <4>1, <4>3 DEF Alive
        <4> QED BY <1>1, <4>2, <4>3
      <3>2. pc[q] \in Reclaiming => aim[q] # None
        BY <2>1 DEF Aims
      <3>3. pc'[q] \in Reclaiming => pc[q] \in Reclaiming
        BY <1>1 DEF Reclaiming
      <3>4. mayReclaim[q] \/ pc'[q] \in Probing => q \in Reclaimers
        BY <1>1, <2>1 DEF Reclaims, Probing
      <3>5. pc[q] \in Reclaiming => /\ q \in Reclaimers /\ ~Alive(creator[aim[q]])'
                                    /\ kind[aim[q]] \in {"current", "legacy"}
        BY <1>1, <1>2, <2>1 DEF Reclaims
      <3>6. pc'[q] # "unlink" /\ (pc[q] \in Reclaiming => flink' # aim[q])
        BY <1>1, <3>1, <3>2
      <3> QED
        BY <1>1, <3>3, <3>4, <3>5, <3>6 DEF Reclaims, Reclaiming
    <2>4. Private(q)'
      BY <1>0, <1>1, <2>1 DEF Private
    <2>5. Holds(q)'
      <3>1. /\ handle[q] # None => kind[handle[q]] # "unused"
            /\ pc'[q] \in Dropping => pc[q] \in Dropping
        BY <1>1, <2>1 DEF Holds, Dropping
      <3>2. pc'[q] \in {"attached", "dropCompare", "dropUnlink"} => ~Created(q)
        <4> SUFFICES ASSUME pc'[q] \in {"attached", "dropCompare", "dropUnlink"}, Created(q)
                     PROVE  FALSE
          OBVIOUS
        <4>1. q # p /\ flink = handle[q] /\ creator[flink] = q /\ pc[q] # "dead"
          BY <1>1, <2>1 DEF Holds, Created
        <4> QED BY <1>1, <1>3, <4>1 DEF Alive
      <3>3. pc[q] \in Dropping => handle[q] # None
        BY <1>0
      <3> QED
        BY <1>1, <2>1, <3>1, <3>2, <3>3 DEF Holds, Created, Dropping
    <2> QED BY <2>2, <2>3, <2>4, <2>5 DEF Knows
  <1> QED
    BY <1>4, <1>5, <1>6 DEF PathInv

\* Removing an object, by the supervisor that took its name off the path or by
\* its creator.
LEMMA RemoveSteps ==
    ASSUME PathInv, TypeInv', NEW p \in Procs, Release(p) \/ DropObject(p)
    PROVE  PathInv'
  <1>0. /\ ProcTypes /\ None \notin Mappings
        /\ \A q \in Procs : /\ Aims(q) /\ Reclaims(q) /\ Private(q) /\ Holds(q)
    BY Facts, TypeParts DEF PathInv
  <1>1. PICK m : /\ m \in {aim[p], handle[p]} /\ object' = object \ {m}
                 /\ pc[p] \in {"release", "dropObject"}
                 /\ pc[p] = "dropObject" => m = handle[p]
    BY DEF Release, DropObject, At
  <1>2. /\ UNCHANGED <<flink, kind, creator, mayReclaim>>
        /\ pc'[p] \in {"create", "idle"} /\ aim'[p] \in {None, aim[p]}
        /\ handle'[p] = (IF pc[p] = "dropObject" THEN None ELSE handle[p])
        /\ \A q \in Procs : q # p => /\ pc'[q] = pc[q] /\ aim'[q] = aim[q]
                                     /\ handle'[q] = handle[q]
    BY <1>0 DEF Release, DropObject, At, Goto, ProcTypes, headers
  <1>a. /\ pc[p] = "release" => handle[p] = None
        /\ pc[p] = "dropObject" => handle[p] # None
    BY <1>1, Facts DEF Dropping
  <1>3. Mapped'
    BY <1>1, <1>2 DEF PathInv, Mapped
  <1>4. FlinkOwned'
    <2> SUFFICES ASSUME NEW q \in Procs, flink # None, creator[flink] = q, pc'[q] # "dead",
                        flink \in object'
                 PROVE  handle'[q] = flink
      BY <1>2 DEF FlinkOwned
    <2>1. pc[q] # "dead" /\ flink # m /\ flink \in object
      BY <1>1, <1>2
    <2>2. handle[q] = flink
      BY <2>1 DEF PathInv, FlinkOwned
    <2> QED BY <1>1, <1>2, <2>1, <2>2
  <1>5. OneSupervisor'
    BY <1>1, <1>2 DEF PathInv, OneSupervisor, Procs
  <1>6. ASSUME NEW q \in Procs PROVE Knows(q)'
    <2>1. Aims(q) /\ Reclaims(q) /\ Private(q) /\ Holds(q)
      BY <1>0
    <2>2. CASE q = p
      <3>1. handle'[p] = None
        BY <1>1, <1>2, <1>a
      <3>2. Aims(p)'
        BY <1>1, <1>2, <2>1, <2>2 DEF Aims, Reclaiming
      <3>3. Reclaims(p)'
        BY <1>2, <2>1, <2>2 DEF Reclaims, Reclaiming, Probing
      <3>4. Private(p)' /\ Holds(p)'
        BY <1>2, <3>1 DEF Private, Holds, Dropping
      <3> QED
        BY <2>2, <3>2, <3>3, <3>4 DEF Knows
    <2>3. CASE q # p
      <3>1. pc'[q] = pc[q] /\ aim'[q] = aim[q] /\ handle'[q] = handle[q]
        BY <1>2, <2>3
      <3>2. Aims(q)' /\ Holds(q)'
        BY <1>1, <1>2, <2>1, <3>1 DEF Aims, Holds, Created
      <3>3. ~Alive(creator[aim[q]]) => ~Alive(creator[aim[q]])'
        BY <1>0, <1>1, <1>2, <3>1 DEF Alive
      <3>4. Reclaims(q)'
        BY <1>2, <2>1, <3>1, <3>3 DEF Reclaims
      <3>5. Private(q)'
        <4> SUFFICES ASSUME pc[q] = "publish"
                     PROVE  /\ aim[q] \in object' /\ aim[q] # handle'[p]
                            /\ aim[q] # aim'[p]
          BY <1>2, <2>1, <3>1 DEF Private
        <4>1. aim[q] # None /\ aim[q] # aim[p] /\ aim[q] # handle[p] /\ aim[q] \in object
          BY <2>1, <2>3 DEF Private, PathInv, TypeInv, Aimed
        <4> QED BY <1>1, <1>2, <4>1
      <3> QED BY <3>2, <3>4, <3>5 DEF Knows
    <2> QED BY <2>2, <2>3
  <1> QED
    BY <1>3, <1>4, <1>5, <1>6 DEF PathInv

\* Creating a mapping in private, on an object nobody knows of.
LEMMA CreateStep ==
    ASSUME PathInv, TypeInv', NEW p \in Procs, CreateObject(p)
    PROVE  PathInv'
  <1>1. CASE UNCHANGED files
    BY <1>1, QuietSteps
  <1>2. CASE ~UNCHANGED files
    <2>0. /\ ProcTypes /\ FileTypes /\ None \notin Mappings /\ {Ghost, Elder} \cap Procs = {}
          /\ \A q \in Procs : /\ Aims(q) /\ Reclaims(q) /\ Private(q) /\ Holds(q)
                              /\ handle[q] # None <=> pc[q] \in {"attached"} \cup Dropping
                              /\ pc[q] \in {"publish", "opened"} => aim[q] # None
      BY Facts, TypeParts, LifecycleAssumption DEF PathInv, TypeInv, Aimed
    <2>1. PICK m \in Mappings : /\ kind[m] = "unused"
                                /\ kind' = [kind EXCEPT ![m] = "current"]
                                /\ creator' = [creator EXCEPT ![m] = p]
                                /\ object' = object \cup {m}
                                /\ aim' = [aim EXCEPT ![p] = m]
      BY <1>2 DEF CreateObject
    <2>2. /\ pc[p] = "create" /\ flink = None /\ flink' = None
          /\ pc'[p] = "publish" /\ aim'[p] = m
          /\ UNCHANGED <<handle, mayReclaim>>
          /\ \A q \in Procs : q # p => pc'[q] = pc[q] /\ aim'[q] = aim[q]
      BY <1>2, <2>0, <2>1 DEF CreateObject, At, Goto, locals, ProcTypes
    <2>3. /\ \A n \in Mappings : n # m => kind'[n] = kind[n] /\ creator'[n] = creator[n]
          /\ kind'[m] = "current" /\ creator'[m] = p
      BY <2>0, <2>1 DEF FileTypes
    <2>4. \A q \in Procs : /\ aim[q] # m /\ handle[q] # m
                           /\ aim[q] \in Mappings \cup {None}
                           /\ handle[q] \in Mappings \cup {None}
      BY <2>0, <2>1 DEF Aims, Holds, ProcTypes
    <2>5. Mapped' /\ FlinkOwned'
      BY <2>0, <2>1, <2>2, <2>3 DEF PathInv, Mapped, FlinkOwned, FileTypes
    <2>6. OneSupervisor'
      BY <2>2 DEF PathInv, OneSupervisor, Procs
    <2>7. Knows(p)'
      <3>1. handle'[p] = None
        BY <2>0, <2>2 DEF Dropping
      <3>2. Aims(p)'
        BY <2>2, <2>3 DEF Aims, Reclaiming
      <3>3. Reclaims(p)'
        BY <2>0, <2>2 DEF Reclaims, Reclaiming, Probing
      <3>4. Private(p)'
        BY <2>0, <2>1, <2>2, <2>3, <2>4 DEF Private
      <3>5. Holds(p)'
        BY <2>2, <3>1 DEF Holds, Dropping
      <3> QED BY <3>2, <3>3, <3>4, <3>5 DEF Knows
    <2>8. ASSUME NEW q \in Procs, q # p PROVE Knows(q)'
      <3>1. /\ pc'[q] = pc[q] /\ aim'[q] = aim[q] /\ handle'[q] = handle[q]
            /\ Aims(q) /\ Reclaims(q) /\ Private(q) /\ Holds(q)
            /\ pc[q] \in {"publish", "opened"} => aim[q] # None
            /\ handle[q] # None <=> pc[q] \in {"attached"} \cup Dropping
        BY <2>0, <2>2, <2>8
      <3>2. /\ aim[q] # None =>
                 kind'[aim[q]] = kind[aim[q]] /\ creator'[aim[q]] = creator[aim[q]]
            /\ handle[q] # None =>
                 kind'[handle[q]] = kind[handle[q]] /\ creator'[handle[q]] = creator[handle[q]]
        BY <2>3, <2>4
      <3>3. Aims(q)'
        BY <2>1, <2>4, <3>1, <3>2 DEF Aims
      <3>4. Holds(q)'
        BY <2>2, <3>1, <3>2 DEF Holds, Created, Dropping
      <3>5. \A c : ~Alive(c) => ~Alive(c)'
        BY <2>0, <2>2 DEF Alive
      <3>6. Reclaims(q)'
        BY <2>2, <3>1, <3>2, <3>5 DEF Reclaims, Aims
      <3>7. Private(q)'
        BY <2>1, <2>2, <2>4, <3>1, <3>2 DEF Private
      <3> QED BY <3>3, <3>4, <3>6, <3>7 DEF Knows
    <2> QED
      BY <2>5, <2>6, <2>7, <2>8 DEF PathInv
  <1> QED BY <1>1, <1>2

\* Publishing: the path names the mapping, or names another one already and
\* the private mapping goes.
LEMMA PublishStep ==
    ASSUME PathInv, TypeInv', NEW p \in Procs, Publish(p)
    PROVE  PathInv'
  <1>0. /\ ProcTypes /\ FileTypes /\ None \notin Mappings /\ None \notin Procs
        /\ \A q \in Procs : /\ Aims(q) /\ Reclaims(q) /\ Private(q) /\ Holds(q)
                            /\ handle[q] # None <=> pc[q] \in {"attached"} \cup Dropping
                            /\ pc[q] \in {"publish", "opened"} => aim[q] # None
                            /\ aim[q] \in Mappings \cup {None}
                            /\ handle[q] \in Mappings \cup {None}
    BY Facts, TypeParts, LifecycleAssumption DEF PathInv, TypeInv, Aimed
  <1>1. /\ pc[p] = "publish" /\ aim[p] \in Mappings /\ creator[aim[p]] = p
        /\ flink # aim[p] /\ aim[p] \in object /\ handle[p] = None
        /\ \A q \in Procs : handle[q] # aim[p] /\ (q # p => aim[q] # aim[p])
    BY <1>0 DEF Publish, At, Private, Dropping
  <1>2. CASE flink = None
    <2>1. /\ flink' = aim[p] /\ UNCHANGED <<object, kind, creator>>
          /\ pc'[p] = "attached" /\ handle'[p] = aim[p] /\ aim'[p] = None
          /\ mayReclaim'[p] = FALSE /\ OnlyMoves(p)
      BY <1>0, <1>2 DEF Publish, Attach, Goto, OnlyMoves, ProcTypes, headers
    <2>2. Mapped' /\ FlinkOwned'
      BY <1>1, <2>1 DEF PathInv, Mapped, FlinkOwned
    <2>3. OneSupervisor'
      BY <1>1, <2>1 DEF PathInv, OneSupervisor, Procs, OnlyMoves
    <2>4. Knows(p)'
      <3>1. Aims(p)' /\ Reclaims(p)' /\ Private(p)'
        BY <2>1 DEF Aims, Reclaims, Private, Reclaiming, Probing
      <3>2. Holds(p)'
        BY <1>0, <1>1, <2>1 DEF Aims, Holds, Dropping, Created
      <3> QED BY <3>1, <3>2 DEF Knows
    <2>5. ASSUME NEW q \in Procs, q # p PROVE Knows(q)'
      <3>1. /\ pc'[q] = pc[q] /\ aim'[q] = aim[q] /\ handle'[q] = handle[q]
            /\ mayReclaim'[q] = mayReclaim[q]
            /\ Aims(q) /\ Reclaims(q) /\ Private(q) /\ Holds(q)
        BY <1>0, <2>1, <2>5 DEF OnlyMoves
      <3>2. Aims(q)'
        BY <2>1, <3>1 DEF Aims
      <3>3. Holds(q)'
        BY <1>0, <1>1, <1>2, <2>1, <3>1 DEF Holds, Created, Dropping
      <3>4. ~Alive(creator[aim[q]]) => ~Alive(creator[aim[q]])'
        BY <1>1, <2>1, <3>1 DEF Alive, OnlyMoves
      <3>5. Reclaims(q)'
        <4>1. pc[q] \in Reclaiming => aim[q] # None
          BY <3>1 DEF Aims
        <4>2. pc[q] # "unlink" /\ flink' # aim[q]
          BY <1>1, <1>2, <2>1, <2>5, <3>1, <4>1 DEF Reclaims, Reclaiming
        <4> QED BY <2>1, <3>1, <3>4, <4>2 DEF Reclaims
      <3>6. Private(q)'
        BY <1>0, <1>1, <2>1, <2>5, <3>1 DEF Private, OnlyMoves
      <3> QED BY <3>2, <3>3, <3>5, <3>6 DEF Knows
    <2> QED
      BY <2>2, <2>3, <2>4, <2>5 DEF PathInv
  <1>3. CASE flink # None
    <2>1. /\ object' = object \ {aim[p]} /\ flink' = flink /\ Collide(p)
          /\ kind' = [kind EXCEPT ![aim[p]] = "unused"]
          /\ creator' = [creator EXCEPT ![aim[p]] = None]
      BY <1>3 DEF Publish
    <2>2. /\ pc'[p] \in {"idle", "open"} /\ aim'[p] = None /\ handle' = handle
          /\ OnlyMoves(p) /\ (mayReclaim'[p] => mayReclaim[p])
      <3>1. CASE Fail(p)
        BY <1>0, <3>1 DEF Fail, Goto, OnlyMoves, ProcTypes
      <3>2. CASE ~Fail(p)
        <4>1. /\ aim' = [aim EXCEPT ![p] = None] /\ Goto(p, "open")
              /\ handle' = handle /\ mayReclaim' = mayReclaim
          BY <2>1, <3>2, Zenon DEF Collide
        <4> QED BY <1>0, <4>1 DEF Goto, OnlyMoves, ProcTypes
      <3> QED BY <3>1, <3>2
    <2>3. /\ \A n \in Mappings : n # aim[p] => kind'[n] = kind[n] /\ creator'[n] = creator[n]
          /\ creator'[aim[p]] = None
      BY <1>0, <1>1, <2>1 DEF FileTypes
    <2>4. Mapped'
      BY <1>0, <1>1, <2>1, <2>3 DEF PathInv, Mapped, FileTypes
    <2>5. FlinkOwned'
      <3> SUFFICES ASSUME NEW q \in Procs, creator'[flink] = q, pc'[q] # "dead",
                          flink \in object
                   PROVE  handle'[q] = flink
        BY <2>1 DEF FlinkOwned
      <3>1. creator[flink] = q /\ pc[q] # "dead"
        BY <1>0, <1>1, <1>3, <2>2, <2>3 DEF FileTypes, OnlyMoves
      <3> QED BY <1>3, <2>2, <3>1 DEF PathInv, FlinkOwned
    <2>6. OneSupervisor'
      BY <1>1, <2>2 DEF PathInv, OneSupervisor, Procs, OnlyMoves
    <2>7. Knows(p)'
      <3>1. Aims(p)'
        BY <2>2 DEF Aims, Reclaiming
      <3>2. Reclaims(p)'
        BY <1>0, <2>2 DEF Reclaims, Reclaiming, Probing
      <3>3. Private(p)' /\ Holds(p)'
        BY <1>1, <2>2 DEF Private, Holds, Dropping
      <3> QED BY <3>1, <3>2, <3>3 DEF Knows
    <2>8. ASSUME NEW q \in Procs, q # p PROVE Knows(q)'
      <3>1. /\ pc'[q] = pc[q] /\ aim'[q] = aim[q] /\ handle'[q] = handle[q]
            /\ mayReclaim'[q] = mayReclaim[q]
            /\ Aims(q) /\ Reclaims(q) /\ Private(q) /\ Holds(q)
            /\ pc[q] \in {"publish", "opened"} => aim[q] # None
            /\ handle[q] # None <=> pc[q] \in {"attached"} \cup Dropping
        BY <1>0, <2>2, <2>8 DEF OnlyMoves
      <3>2. /\ aim[q] # None =>
                 kind'[aim[q]] = kind[aim[q]] /\ creator'[aim[q]] = creator[aim[q]]
            /\ handle[q] # None =>
                 kind'[handle[q]] = kind[handle[q]] /\ creator'[handle[q]] = creator[handle[q]]
        BY <1>0, <1>1, <2>3, <2>8
      <3>3. Aims(q)'
        BY <2>1, <3>1, <3>2 DEF Aims
      <3>4. Holds(q)'
        BY <2>1, <3>1, <3>2 DEF Holds, Created, Dropping
      <3>5. \A c : ~Alive(c) => ~Alive(c)'
        BY <1>1, <2>2 DEF Alive, OnlyMoves
      <3>6. Reclaims(q)'
        BY <2>1, <3>1, <3>2, <3>5 DEF Reclaims, Aims
      <3>7. Private(q)'
        BY <1>1, <2>1, <2>2, <2>8, <3>1, <3>2 DEF Private, OnlyMoves
      <3> QED BY <3>3, <3>4, <3>6, <3>7 DEF Knows
    <2> QED
      BY <2>4, <2>5, <2>6, <2>7, <2>8 DEF PathInv
  <1> QED BY <1>2, <1>3

\* The kernel frees what nobody refers to.
LEMMA ForgetStep ==
    ASSUME PathInv, TypeInv', NEW m \in Mappings, Forget(m)
    PROVE  PathInv'
  <1>0. /\ FileTypes /\ None \notin Mappings /\ None \notin Procs
        /\ \A q \in Procs : /\ Aims(q) /\ Reclaims(q) /\ Private(q) /\ Holds(q)
                            /\ handle[q] # None <=> pc[q] \in {"attached"} \cup Dropping
                            /\ pc[q] \in {"publish", "opened"} => aim[q] # None
                            /\ aim[q] \in Mappings \cup {None}
                            /\ handle[q] \in Mappings \cup {None}
    BY Facts, TypeParts, LifecycleAssumption DEF PathInv, TypeInv, Aimed
  <1>1. /\ UNCHANGED <<flink, object, pc, aim, handle, mayReclaim>>
        /\ m \notin object /\ m # flink
        /\ \A q \in Procs : m # aim[q] /\ m # handle[q]
        /\ \A n \in Mappings : n # m => kind'[n] = kind[n] /\ creator'[n] = creator[n]
        /\ creator'[m] = None
    BY <1>0 DEF Forget, FileTypes, files, locals
  <1>2. Mapped' /\ FlinkOwned' /\ OneSupervisor'
    BY <1>0, <1>1
       DEF PathInv, Mapped, FlinkOwned, OneSupervisor, FileTypes
  <1>3. ASSUME NEW q \in Procs PROVE Knows(q)'
    <2>1. /\ Aims(q) /\ Reclaims(q) /\ Private(q) /\ Holds(q)
          /\ pc[q] \in {"publish", "opened"} => aim[q] # None
          /\ handle[q] # None <=> pc[q] \in {"attached"} \cup Dropping
      BY <1>0
    <2>2. /\ aim[q] # None =>
               kind'[aim[q]] = kind[aim[q]] /\ creator'[aim[q]] = creator[aim[q]]
          /\ handle[q] # None =>
               kind'[handle[q]] = kind[handle[q]] /\ creator'[handle[q]] = creator[handle[q]]
      BY <1>0, <1>1
    <2>3. Aims(q)'
      BY <1>1, <2>1, <2>2 DEF Aims
    <2>4. Holds(q)'
      BY <1>1, <2>1, <2>2 DEF Holds, Created, Dropping
    <2>5. Reclaims(q)'
      BY <1>1, <2>1, <2>2 DEF Reclaims, Aims, Alive
    <2>6. Private(q)'
      BY <1>1, <2>1, <2>2 DEF Private
    <2> QED BY <2>3, <2>4, <2>5, <2>6 DEF Knows
  <1> QED
    BY <1>2, <1>3 DEF PathInv

\* A path that names nothing or what a creator left behind is sound.
LEMMA InitPath == Init => PathInv
  <1> SUFFICES ASSUME Init PROVE PathInv
    OBVIOUS
  <1>1. TypeInv /\ None \notin Mappings /\ Ghost \notin Procs /\ Elder \notin Procs
        /\ None \notin Procs
    BY InitTypes, LifecycleAssumption
  <1>a. ProcTypes /\ FileTypes /\ mayReclaim = [p \in Procs |-> FALSE]
    BY <1>1, TypeParts DEF Init
  <1>2. Mapped /\ FlinkOwned
    BY <1>1, <1>a DEF Init, Mapped, FlinkOwned, FileTypes
  <1>3. OneSupervisor
    BY DEF Init, OneSupervisor, Procs
  <1>4. ASSUME NEW p \in Procs PROVE Knows(p)
    <2>1. pc[p] = "idle" /\ aim[p] = None /\ handle[p] = None
      BY <1>4 DEF Init
    <2>2. Aims(p) /\ Private(p) /\ Holds(p)
      BY <2>1 DEF Aims, Private, Holds, Reclaiming, Dropping
    <2>3. ~mayReclaim[p]
      BY <1>a
    <2>4. Reclaims(p)
      BY <2>1, <2>3 DEF Reclaims, Reclaiming, Probing
    <2> QED BY <2>2, <2>4 DEF Knows
  <1> QED
    BY <1>1, <1>2, <1>3, <1>4 DEF PathInv

\* Every step keeps the path sound.
LEMMA NextPath == PathInv /\ [Next]_vars => PathInv'
  <1> SUFFICES ASSUME PathInv, [Next]_vars PROVE PathInv'
    OBVIOUS
  <1>0. TypeInv'
    BY NextTypes DEF PathInv
  <1>1. CASE UNCHANGED vars
    BY <1>0, <1>1
       DEF PathInv, Mapped, FlinkOwned, OneSupervisor, Knows, Aims,
           Reclaims, Private, Holds, Created, Alive, vars, files, headers, locals
  <1>2. ASSUME NEW p \in Procs,
               Call(p) \/ Expire(p) \/ Step(p) \/ Destroy(p) \/ Drop(p) \/ Die(p)
        PROVE  PathInv'
    BY <1>0, <1>2, LookSteps, QuietSteps, UnlinkSteps, RemoveSteps, CreateStep, PublishStep
       DEF Step
  <1>3. ASSUME NEW m \in Mappings, Forget(m) PROVE PathInv'
    BY <1>0, <1>3, ForgetStep
  <1> QED
    BY <1>1, <1>2, <1>3 DEF Next

\* PathInv holds throughout.
LEMMA PathSound == Spec => []PathInv
  BY InitPath, NextPath, PTL DEF Spec

\* A step leaves the path dangling only by removing the object it names, and
\* only the creator's Drop removes an object the path still names: a reclaim
\* has unlinked the name before, and the mapping a lost race drops was never
\* published.
LEMMA DanglingStep ==
    ASSUME PathInv, [Next]_vars, ~Dangling, Dangling'
    PROVE  \E p \in Procs : At(p, "dropObject") /\ Created(p) /\ handle[p] = flink
  <1>1. ASSUME NEW p \in Procs, Publish(p) PROVE FALSE
    <2>1. flink # aim[p] /\ aim[p] \in object
      BY <1>1, Facts DEF Private, Publish, At
    <2> QED BY <1>1, <2>1 DEF Publish, Dangling
  <1>2. ASSUME NEW p \in Procs, Release(p) PROVE FALSE
    <2>1. flink # aim[p]
      BY <1>2, Facts DEF Reclaims, Release, At
    <2> QED BY <1>2, <2>1 DEF Release, Dangling
  <1>3. ASSUME NEW p \in Procs, DropObject(p)
        PROVE  At(p, "dropObject") /\ Created(p) /\ handle[p] = flink
    <2>1. Created(p)
      BY <1>3, Facts DEF DropObject, At, Holds, Dropping
    <2> QED BY <1>3, <2>1 DEF DropObject, Dangling
  <1>4. ASSUME NEW p \in Procs, Unlink(p) \/ DropUnlink(p) \/ CreateObject(p)
        PROVE  FALSE
    BY <1>4 DEF Unlink, DropUnlink, CreateObject, Dangling, files
  <1>5. ASSUME NEW p \in Procs,
               \/ Call(p) \/ Expire(p) \/ ReadLink(p) \/ OpenObject(p) \/ Opened(p)
               \/ OpenFailed(p) \/ Probe(p) \/ Compare(p) \/ ReclaimFails(p) \/ Retire(p)
               \/ NotFound(p) \/ DropCompare(p) \/ DropLeavesLink(p)
               \/ Destroy(p) \/ Drop(p) \/ Die(p)
        PROVE  FALSE
    BY <1>5 DEF Call, Expire, ReadLink, OpenObject, Opened, OpenFailed, Probe, Compare,
                ReclaimFails, Retire, NotFound, DropCompare, DropLeavesLink, Destroy,
                Drop, Die, Dangling, files
  <1>6. ASSUME NEW m \in Mappings, Forget(m) PROVE FALSE
    BY <1>6 DEF Forget, Dangling, files
  <1>7. ~UNCHANGED vars
    BY DEF vars, files, Dangling
  <1> QED
    BY <1>1, <1>2, <1>3, <1>4, <1>5, <1>6, <1>7 DEF Next, Step

\* Whoever fails or dies half way through a reclaim or a creation, the path is
\* left dangling only by a creator whose Drop could not remove the flink.
THEOREM OnlyDropLeavesDangling == Spec => OnlyDropDangles
  <1>1. PathInv /\ [Next]_vars =>
          [~Dangling /\ Dangling' =>
             \E p \in Procs : At(p, "dropObject") /\ Created(p) /\ handle[p] = flink]_vars
    BY DanglingStep
  <1> QED
    BY <1>1, PathSound, PTL DEF Spec, OnlyDropDangles

\* A living creator that has not shut its ring down finds it under the path.
THEOREM LiveCreatorStaysNamed == Spec => []LiveCreatorNamed
  <1>1. PathInv => LiveCreatorNamed
    BY Facts DEF LiveCreatorNamed, Holds, At
  <1> QED BY <1>1, PathSound, PTL

\* A step takes a name off the path only when the creator of the mapping is
\* gone or is unlinking it in Drop, and never that of a foreign mapping.
LEMMA NameKeptStep ==
    ASSUME PathInv, [Next]_vars, flink # None, flink' # flink
    PROVE  /\ kind[flink] \in {"current", "legacy"}
           /\ \/ ~Alive(creator[flink])
              \/ creator[flink] \in Procs /\ At(creator[flink], "dropUnlink")
  <1>1. PICK p \in Procs : Unlink(p) \/ DropUnlink(p)
    <2>1. ASSUME NEW p \in Procs, Publish(p) PROVE FALSE
      BY <2>1 DEF Publish
    <2>2. ASSUME NEW p \in Procs,
                 \/ Call(p) \/ Expire(p) \/ ReadLink(p) \/ OpenObject(p) \/ Opened(p)
                 \/ OpenFailed(p) \/ Probe(p) \/ Compare(p) \/ ReclaimFails(p) \/ Retire(p)
                 \/ Release(p) \/ NotFound(p) \/ CreateObject(p) \/ DropCompare(p)
                 \/ DropLeavesLink(p) \/ DropObject(p) \/ Destroy(p) \/ Drop(p) \/ Die(p)
          PROVE  FALSE
      BY <2>2 DEF Call, Expire, ReadLink, OpenObject, Opened, OpenFailed, Probe, Compare,
                  ReclaimFails, Retire, Release, NotFound, CreateObject, DropCompare,
                  DropLeavesLink, DropObject, Destroy, Drop, Die, files
    <2>3. ASSUME NEW m \in Mappings, Forget(m) PROVE FALSE
      BY <2>3 DEF Forget, files
    <2>4. ~UNCHANGED vars
      BY DEF vars, files
    <2> QED
      BY <2>1, <2>2, <2>3, <2>4 DEF Next, Step
  <1>2. Reclaims(p) /\ Holds(p) /\ flink \in Mappings
    BY Facts
  <1>3. CASE Unlink(p)
    BY <1>2, <1>3 DEF Unlink, At, Reclaims, Reclaiming
  <1>4. CASE DropUnlink(p)
    <2>1. flink = handle[p] /\ creator[flink] = p /\ pc[p] = "dropUnlink"
      BY <1>2, <1>4 DEF DropUnlink, At, Holds, Dropping, Created
    <2> QED BY <1>2, <2>1 DEF PathInv, Mapped, At
  <1> QED BY <1>1, <1>3, <1>4

\* The check before the unlink is still true when the path is unlinked, so
\* nobody loses a name but to its creator's death or its creator's Drop.
THEOREM NamesAreKept == Spec => NameKept
  <1>1. PathInv /\ [Next]_vars =>
          [flink # None /\ flink' # flink =>
             /\ kind[flink] \in {"current", "legacy"}
             /\ \/ ~Alive(creator[flink])
                \/ creator[flink] \in Procs /\ At(creator[flink], "dropUnlink")]_vars
    BY NameKeptStep
  <1> QED
    BY <1>1, PathSound, PTL DEF Spec, NameKept
=============================================================================
