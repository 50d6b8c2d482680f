--------------------------- MODULE RingLifecycle ---------------------------
(***************************************************************************)
(* Creating, opening, reclaiming and dropping TypedRingBuffers that share  *)
(* one public path.  The path is a small file, the flink, that holds the   *)
(* name of a POSIX shared-memory object.  Processes run open (bars),       *)
(* open_or_create, and open_or_create with reclaim_stale (JWM, the single  *)
(* supervisor); a step is one access to the file system or to a mapping's  *)
(* header.  A process may die at any step and leave its files behind.      *)
(***************************************************************************)
EXTENDS Naturals

CONSTANTS
    Openers,     \* processes that call open
    Creators,    \* processes that call open_or_create
    Reclaimers,  \* processes that call open_or_create with reclaim_stale
    Mortal,      \* processes that may die
    Mappings,    \* shared-memory objects that exist at one time
    Left,        \* the mapping the path may name from the start
    Ghost,       \* a creator that died before the behaviour begins
    Elder,       \* a creator that lives throughout and does nothing
    Strategy,    \* "futex", "semaphore" or "eventfd": of the options
    None         \* no flink, no mapping, no creator

Procs == Openers \cup Creators \cup Reclaimers

ASSUME LifecycleAssumption ==
    /\ Left \in Mappings
    /\ None \notin Mappings \cup Procs \cup {Ghost, Elder}
    /\ Ghost # Elder
    /\ {Ghost, Elder} \cap Procs = {}
    /\ Mortal \subseteq Procs
    /\ Strategy \in {"futex", "semaphore", "eventfd"}

VARIABLES
    flink,       \* the mapping the public path names
    object,      \* mappings whose OS object still has its name
    kind,        \* header contents: "unused", "current", "legacy", "foreign"
    creator,     \* header.creator_pid
    destroyed,   \* header.is_destroyed
    pc,          \* where each process is in its call; "dead" once it died
    aim,         \* the mapping each process is opening, reclaiming, creating
    handle,      \* the mapping each process holds a handle of
    probed,      \* the reclaim goes through a probe, not an opened handle
    mayCreate, mayReclaim,  \* locals of open_or_create_with_opener
    expired      \* the deadline of the process's call has passed

files == <<flink, object>>
headers == <<kind, creator, destroyed>>
locals == <<handle, probed, mayCreate, mayReclaim, expired>>
vars == <<files, headers, pc, aim, locals>>

\* process_alive: a TID is not reused within a behaviour.
Alive(c) == c = Elder \/ (c \in Procs /\ pc[c] # "dead")

Init ==
    /\ flink \in {None, Left}
    /\ object = {flink} \ {None}
    /\ \E k \in {"current", "legacy", "foreign"}, c \in {Ghost, Elder} :
         /\ kind = [m \in Mappings |-> IF m = flink THEN k ELSE "unused"]
         /\ creator = [m \in Mappings |-> IF m = flink THEN c ELSE None]
    /\ destroyed = [m \in Mappings |-> FALSE]
    /\ pc = [p \in Procs |-> "idle"]
    /\ aim = [p \in Procs |-> None]
    /\ handle = [p \in Procs |-> None]
    /\ probed = [p \in Procs |-> FALSE]
    /\ mayCreate = [p \in Procs |-> FALSE]
    /\ mayReclaim = [p \in Procs |-> FALSE]
    /\ expired = [p \in Procs |-> FALSE]

At(p, label) == pc[p] = label
Goto(p, label) == pc' = [pc EXCEPT ![p] = label]

\* Return an error: registers are dead until the next call.
Fail(p) ==
    /\ Goto(p, "idle")
    /\ aim' = [aim EXCEPT ![p] = None]
    /\ probed' = [probed EXCEPT ![p] = FALSE]
    /\ mayCreate' = [mayCreate EXCEPT ![p] = FALSE]
    /\ mayReclaim' = [mayReclaim EXCEPT ![p] = FALSE]
    /\ expired' = [expired EXCEPT ![p] = FALSE]
    /\ UNCHANGED handle

\* Return a handle of mapping m.
Attach(p, m) ==
    /\ Goto(p, "attached")
    /\ handle' = [handle EXCEPT ![p] = m]
    /\ aim' = [aim EXCEPT ![p] = None]
    /\ probed' = [probed EXCEPT ![p] = FALSE]
    /\ mayCreate' = [mayCreate EXCEPT ![p] = FALSE]
    /\ mayReclaim' = [mayReclaim EXCEPT ![p] = FALSE]
    /\ expired' = [expired EXCEPT ![p] = FALSE]

\* Go on inside the call.
Continue(p, label) == Goto(p, label) /\ UNCHANGED <<aim, locals>>

------------------------------------------------------------------------------
(* open *)

\* The documentation of reclaim_stale reserves it for a single supervisor:
\* another one starts only after the one before it has gone.
SoleSupervisor(p) == \A q \in Reclaimers : q # p => pc[q] \in {"idle", "dead"}

Call(p) ==
    /\ At(p, "idle")
    /\ p \in Reclaimers => SoleSupervisor(p)
    /\ Goto(p, "open")
    /\ mayCreate' = [mayCreate EXCEPT ![p] = p \notin Openers]
    /\ mayReclaim' = [mayReclaim EXCEPT ![p] = p \in Reclaimers]
    /\ UNCHANGED <<files, headers, aim, handle, probed, expired>>

\* The deadline of open_or_create passes.
Expire(p) ==
    /\ pc[p] \notin {"idle", "attached", "dead"}
    /\ p \notin Openers
    /\ ~expired[p]
    /\ expired' = [expired EXCEPT ![p] = TRUE]
    /\ UNCHANGED <<files, headers, pc, aim, handle, probed, mayCreate, mayReclaim>>

\* read_flink_os_id.
ReadLink(p) ==
    /\ At(p, "open")
    /\ Goto(p, IF flink = None THEN "notFound" ELSE "map")
    /\ aim' = [aim EXCEPT ![p] = flink]
    /\ UNCHANGED <<files, headers, locals>>

\* shm_open by the identifier, then the header checks and backend.init.  An
\* eventfd ring cannot be joined without its creator, who passes the fds.
OpenObject(p) ==
    /\ At(p, "map")
    /\ LET m == aim[p] IN
         Continue(p, CASE m \notin object -> "notFound"
                       [] m \in object /\ kind[m] # "current" -> "invalid"
                       [] m \in object /\ kind[m] = "current" ->
                            IF destroyed[m] \/ (Strategy = "eventfd" /\ ~Alive(creator[m]))
                              THEN "broken" ELSE "opened")
    /\ UNCHANGED <<files, headers>>

\* Mutant: the supervisor does not ask whether the creator is alive.
OpenedReclaims(p) ==
    /\ At(p, "opened")
    /\ IF mayReclaim[p]
         THEN /\ mayReclaim' = [mayReclaim EXCEPT ![p] = FALSE]
              /\ Goto(p, "compare")
              /\ UNCHANGED <<aim, handle, probed, mayCreate, expired>>
         ELSE Attach(p, aim[p])
    /\ UNCHANGED <<files, headers>>

\* The handle is returned, or, in the supervisor, found stale.
Opened(p) ==
    /\ At(p, "opened")
    /\ IF mayReclaim[p] /\ ~Alive(creator[aim[p]])
         THEN /\ mayReclaim' = [mayReclaim EXCEPT ![p] = FALSE]
              /\ Goto(p, "compare")
              /\ UNCHANGED <<aim, handle, probed, mayCreate, expired>>
         ELSE Attach(p, aim[p])
    /\ UNCHANGED <<files, headers>>

\* TimedOut, NotConnected, BrokenPipe or InvalidData: an error to everyone but
\* a supervisor, who looks at the public name again.
OpenFailed(p) ==
    /\ pc[p] \in {"broken", "invalid"}
    /\ IF mayReclaim[p]
         THEN Continue(p, IF At(p, "broken") THEN "probe" ELSE "probeLegacy")
         ELSE Fail(p)
    /\ UNCHANGED <<files, headers>>

\* probe_reclaimable_current_mapping and probe_reclaimable_legacy_mapping.
Probe(p) ==
    /\ pc[p] \in {"probe", "probeLegacy"}
    /\ LET wanted == IF At(p, "probe") THEN "current" ELSE "legacy" IN
         \/ /\ flink \notin object
            /\ IF expired[p] THEN Fail(p) ELSE Continue(p, "open")
         \/ /\ flink \in object
            /\ kind[flink] # wanted
            /\ IF wanted = "current"
                 THEN Fail(p)
                 ELSE /\ mayReclaim' = [mayReclaim EXCEPT ![p] = FALSE]
                      /\ Goto(p, "open")
                      /\ UNCHANGED <<aim, handle, probed, mayCreate, expired>>
         \/ /\ flink \in object
            /\ kind[flink] = wanted
            /\ IF Alive(creator[flink])
                 THEN Fail(p)
                 ELSE /\ mayReclaim' = [mayReclaim EXCEPT ![p] = FALSE]
                      /\ aim' = [aim EXCEPT ![p] = flink]
                      /\ probed' = [probed EXCEPT ![p] = TRUE]
                      /\ Goto(p, "compare")
                      /\ UNCHANGED <<handle, mayCreate, expired>>
    /\ UNCHANGED <<files, headers>>

------------------------------------------------------------------------------
(* Reclaim *)

\* remove_matching_flink: compare, ...
Compare(p) ==
    /\ At(p, "compare")
    /\ Continue(p, IF flink = aim[p] THEN "unlink" ELSE "retire")
    /\ UNCHANGED <<files, headers>>

\* ... then unlink whatever the path names by now.
Unlink(p) ==
    /\ At(p, "unlink")
    /\ flink' = None
    /\ Continue(p, "retire")
    /\ UNCHANGED <<object, headers>>

\* Mutant: a flink that cannot be removed does not stop the reclaim.
ReclaimGoesOn(p) ==
    /\ pc[p] \in {"compare", "unlink"}
    /\ Continue(p, "retire")
    /\ UNCHANGED <<files, headers>>

\* The file cannot be inspected or removed: the error is surfaced.
ReclaimFails(p) ==
    /\ pc[p] \in {"compare", "unlink"}
    /\ Fail(p)
    /\ UNCHANGED <<files, headers>>

\* destroy() on an opened stale handle; a probed mapping is not told.
Retire(p) ==
    /\ At(p, "retire")
    /\ destroyed' = [destroyed EXCEPT ![aim[p]] = @ \/ ~probed[p]]
    /\ Continue(p, "release")
    /\ UNCHANGED <<files, kind, creator>>

\* The stale mapping is dropped by its new owner: the OS object goes.
Release(p) ==
    /\ At(p, "release")
    /\ object' = object \ {aim[p]}
    /\ aim' = [aim EXCEPT ![p] = None]
    /\ probed' = [probed EXCEPT ![p] = FALSE]
    /\ Goto(p, "create")
    /\ UNCHANGED <<flink, headers, handle, mayCreate, mayReclaim, expired>>

------------------------------------------------------------------------------
(* create *)

\* Mutant: a lost race for the path is retried without looking at the clock.
CollideAgain(p) ==
    /\ mayCreate' = [mayCreate EXCEPT ![p] = FALSE]
    /\ aim' = [aim EXCEPT ![p] = None]
    /\ Goto(p, "open")
    /\ UNCHANGED <<handle, probed, mayReclaim, expired>>

\* AlreadyExists: another round, unless the deadline has passed.
Collide(p) ==
    IF expired[p]
      THEN Fail(p)
      ELSE /\ mayCreate' = [mayCreate EXCEPT ![p] = FALSE]
           /\ aim' = [aim EXCEPT ![p] = None]
           /\ Goto(p, "open")
           /\ UNCHANGED <<handle, probed, mayReclaim, expired>>

\* NotFound: create, or inspect the path before trying to create again.
NotFound(p) ==
    /\ At(p, "notFound")
    /\ IF p \in Openers
         THEN Fail(p)
         ELSE IF mayCreate[p] \/ flink = None
                THEN /\ mayCreate' = [mayCreate EXCEPT ![p] = TRUE]
                     /\ Goto(p, "create")
                     /\ UNCHANGED <<aim, handle, probed, mayReclaim, expired>>
                ELSE IF expired[p] THEN Fail(p) ELSE Continue(p, "open")
    /\ UNCHANGED <<files, headers>>

\* The path exists already, the mapping cannot be created, or it is created
\* and initialised in private.
CreateObject(p) ==
    /\ At(p, "create")
    /\ \/ /\ flink # None
          /\ Collide(p)
          /\ UNCHANGED <<files, headers>>
       \/ /\ flink = None
          /\ Fail(p)
          /\ UNCHANGED <<files, headers>>
       \/ /\ flink = None
          /\ \E m \in Mappings :
               /\ kind[m] = "unused"
               /\ kind' = [kind EXCEPT ![m] = "current"]
               /\ creator' = [creator EXCEPT ![m] = p]
               /\ object' = object \cup {m}
               /\ aim' = [aim EXCEPT ![p] = m]
          /\ Goto(p, "publish")
          /\ UNCHANGED <<flink, destroyed, locals>>

\* Mutant: rename in place of hard_link.
PublishReplaces(p) ==
    /\ At(p, "publish")
    /\ flink' = aim[p]
    /\ Attach(p, aim[p])
    /\ UNCHANGED <<object, headers>>

\* hard_link does not replace a flink that appeared meanwhile: the private
\* mapping is dropped.
Publish(p) ==
    /\ At(p, "publish")
    /\ IF flink = None
         THEN /\ flink' = aim[p]
              /\ Attach(p, aim[p])
              /\ UNCHANGED <<object, headers>>
         ELSE /\ object' = object \ {aim[p]}
              /\ kind' = [kind EXCEPT ![aim[p]] = "unused"]
              /\ creator' = [creator EXCEPT ![aim[p]] = None]
              /\ Collide(p)
              /\ UNCHANGED <<flink, destroyed>>

------------------------------------------------------------------------------
(* Handles *)

\* Any holder of a handle may shut the ring down.
Destroy(p) ==
    /\ At(p, "attached")
    /\ ~destroyed[handle[p]]
    /\ destroyed' = [destroyed EXCEPT ![handle[p]] = TRUE]
    /\ UNCHANGED <<files, kind, creator, pc, aim, locals>>

Created(p) == handle[p] # None /\ creator[handle[p]] = p

\* Mutant: an opener that is dropped keeps its mapping.
DropLeaks(p) ==
    /\ At(p, "attached")
    /\ destroyed' = [destroyed EXCEPT ![handle[p]] = @ \/ Created(p)]
    /\ Goto(p, IF Created(p) THEN "dropCompare" ELSE "idle")
    /\ UNCHANGED <<files, kind, creator, aim, locals>>

\* Drop: an opener detaches; the creator destroys, ...
Drop(p) ==
    /\ At(p, "attached")
    /\ IF Created(p)
         THEN /\ destroyed' = [destroyed EXCEPT ![handle[p]] = TRUE]
              /\ Goto(p, "dropCompare")
              /\ UNCHANGED handle
         ELSE /\ handle' = [handle EXCEPT ![p] = None]
              /\ Goto(p, "idle")
              /\ UNCHANGED destroyed
    /\ UNCHANGED <<files, kind, creator, aim, probed, mayCreate, mayReclaim, expired>>

\* ... removes the flink if it still names the mapping, ...
DropCompare(p) ==
    /\ At(p, "dropCompare")
    /\ Continue(p, IF flink = handle[p] THEN "dropUnlink" ELSE "dropObject")
    /\ UNCHANGED <<files, headers>>

DropUnlink(p) ==
    /\ At(p, "dropUnlink")
    /\ flink' = None
    /\ Continue(p, "dropObject")
    /\ UNCHANGED <<object, headers>>

\* The flink cannot be inspected or removed: Drop discards the error, ...
DropLeavesLink(p) ==
    /\ pc[p] \in {"dropCompare", "dropUnlink"}
    /\ Continue(p, "dropObject")
    /\ UNCHANGED <<files, headers>>

\* ... and, whether the flink is gone or not, the owner removes the OS object.
DropObject(p) ==
    /\ At(p, "dropObject")
    /\ object' = object \ {handle[p]}
    /\ handle' = [handle EXCEPT ![p] = None]
    /\ Goto(p, "idle")
    /\ UNCHANGED <<flink, headers, aim, probed, mayCreate, mayReclaim, expired>>

\* A process dies without running Drop.
Die(p) ==
    /\ p \in Mortal
    /\ pc[p] \notin {"idle", "dead"}
    /\ Goto(p, "dead")
    /\ aim' = [aim EXCEPT ![p] = None]
    /\ handle' = [handle EXCEPT ![p] = None]
    /\ probed' = [probed EXCEPT ![p] = FALSE]
    /\ mayCreate' = [mayCreate EXCEPT ![p] = FALSE]
    /\ mayReclaim' = [mayReclaim EXCEPT ![p] = FALSE]
    /\ expired' = [expired EXCEPT ![p] = FALSE]
    /\ UNCHANGED <<files, headers>>

\* The kernel frees a mapping without a name that no process maps; its entry
\* in Mappings then stands for a new object with a new identifier.
Forget(m) ==
    /\ kind[m] # "unused"
    /\ m \notin object \cup {flink}
    /\ \A p \in Procs : m \notin {aim[p], handle[p]}
    /\ kind' = [kind EXCEPT ![m] = "unused"]
    /\ creator' = [creator EXCEPT ![m] = None]
    /\ destroyed' = [destroyed EXCEPT ![m] = FALSE]
    /\ UNCHANGED <<files, pc, aim, locals>>

\* A step inside a call or inside Drop.
Step(p) ==
    \/ ReadLink(p) \/ OpenObject(p) \/ Opened(p) \/ OpenFailed(p) \/ Probe(p)
    \/ Compare(p) \/ Unlink(p) \/ ReclaimFails(p) \/ Retire(p) \/ Release(p)
    \/ NotFound(p) \/ CreateObject(p) \/ Publish(p)
    \/ DropCompare(p) \/ DropUnlink(p) \/ DropLeavesLink(p) \/ DropObject(p)

Next ==
    \/ \E p \in Procs : \/ Call(p) \/ Expire(p) \/ Step(p)
                        \/ Destroy(p) \/ Drop(p) \/ Die(p)
    \/ \E m \in Mappings : Forget(m)

Spec == Init /\ [][Next]_vars

\* A process inside a call or inside Drop keeps running.
FairSpec == Spec /\ \A p \in Procs : WF_vars(Step(p))

------------------------------------------------------------------------------
(* Properties *)

\* Every variable holds a value of its type, and a process holds a mapping
\* exactly between the return of its call and the end of Drop.
TypeOK ==
    /\ flink \in Mappings \cup {None}
    /\ object \subseteq Mappings
    /\ kind \in [Mappings -> {"unused", "current", "legacy", "foreign"}]
    /\ creator \in [Mappings -> Procs \cup {Ghost, Elder, None}]
    /\ destroyed \in [Mappings -> BOOLEAN]
    /\ pc \in [Procs -> {"idle", "open", "map", "opened", "broken", "invalid",
                         "probe", "probeLegacy", "notFound", "compare", "unlink",
                         "retire", "release", "create", "publish", "attached",
                         "dropCompare", "dropUnlink", "dropObject", "dead"}]
    /\ aim \in [Procs -> Mappings \cup {None}]
    /\ handle \in [Procs -> Mappings \cup {None}]
    /\ {probed, mayCreate, mayReclaim, expired} \subseteq [Procs -> BOOLEAN]
    /\ \A p \in Procs :
         handle[p] # None <=>
           pc[p] \in {"attached", "dropCompare", "dropUnlink", "dropObject"}

\* The path names an object that is gone.  No call repairs that: open finds
\* nothing, open_or_create retries until its deadline.
Dangling == flink # None /\ flink \notin object

\* The rule in prepare_stale_mapping_reclaim: an OS object goes only after its
\* flink.  The creator's Drop breaks it when it ignores a flink that it could not
\* remove, and nothing else ever leaves the path dangling: neither a reclaim that
\* fails or dies between its steps, nor a lost race to publish, nor a second
\* process that drops, reclaims or creates meanwhile.
OnlyDropDangles ==
    [][~Dangling /\ Dangling' =>
         \E p \in Procs : At(p, "dropObject") /\ Created(p) /\ handle[p] = flink]_vars

\* A creator that is alive and has not shut its ring down finds it under the
\* public path: nobody replaced its flink on create and nobody reclaimed it.
LiveCreatorNamed ==
    \A p \in Procs : At(p, "attached") /\ Created(p) /\ ~destroyed[handle[p]]
                       => flink = handle[p]

\* The path loses a name only when its creator is gone or is dropping the
\* ring, and never the name of a mapping whose contents are not understood.
NameKept ==
    [][flink # None /\ flink' # flink =>
         /\ kind[flink] \in {"current", "legacy"}
         /\ \/ ~Alive(creator[flink])
            \/ creator[flink] \in Procs /\ At(creator[flink], "dropUnlink")]_vars

\* Once its deadline has passed, open_or_create returns, whatever races it
\* loses to creators, droppers and residue: no retry loop ignores the clock.
ExpiredReturns ==
    \A p \in Procs : expired[p] ~> pc[p] \in {"idle", "attached", "dead"}

\* A process that still holds a mapping the path no longer names, because a
\* replacement was published, is told: its ring is destroyed.
SupersededTold ==
    \A p \in Procs : \A m \in Mappings :
        (handle[p] = m /\ flink \notin {m, None}) ~> (destroyed[m] \/ handle[p] # m)
=============================================================================
