---------------------------- MODULE EvaExecution ----------------------------
(***************************************************************************)
(* The assistant daemon's execution of a plan (eva/src/executor.rs) over   *)
(* its durable ledger (eva/src/store.rs, ActionLedger) and the window      *)
(* manager's guarded_execute (EvaDesk).                                    *)
(*                                                                         *)
(* One executor runs at a time; dropping it (barge-in, stop) leaves behind *)
(* the task of the operation it had dispatched and any bookkeeping closure *)
(* already queued on the store.  A reconciliation pass runs beside both.   *)
(* Every access to the store is one step, under its mutex, followed by a   *)
(* save that may fail before or after the ledger file was replaced.        *)
(* Deadlines are choices.  The daemon and the WM may each crash.           *)
(*                                                                         *)
(* quit and restart, which are verified by process identity instead of the *)
(* operation table, are not among the actions here.                        *)
(***************************************************************************)
EXTENDS ActionLedger, EvaDesk

CONSTANTS
    LevelControl,    \* operations settle_level_control polls for
    LedgerCapacity,  \* 4096 in the code
    MaxFaults        \* bound: failed saves, crashes, restarts and resends together

ASSUME ExecutionBounds ==
    /\ LevelControl \subseteq Op
    /\ LedgerCapacity \in Nat
    /\ MaxFaults \in Nat

VARIABLES
    up,         \* the daemon runs
    mem,        \* Store::ledger.operations
    disk,       \* operations.json
    exec,       \* the executor: its operation, program counter and result
    sealed,     \* by plan: instance, permit and token its requests carry
    cancelled,  \* plans whose DispatchLifetime was dropped
    task,       \* by operation: the spawned dispatch task and its result
    wire,       \* by operation: requests sent and not yet handled by the WM
    late,       \* store closures a dropped executor left queued
    recon,      \* the reconciliation pass: the operation asked about, its receipt
    published,  \* history: terminal outcome announced to the companion
    pruned,     \* history: operations prune_terminal dropped from the ledger
    lost,       \* history: operations whose caller never saw the reply
    faults      \* faults that may still happen

daemonVars == <<up, mem, disk, exec, sealed, cancelled, task, wire, late, recon,
                published, pruned, lost, faults>>
vars == <<deskVars, daemonVars>>

Idle == [pc |-> "idle", op |-> 0, res |-> "none"]
NoTask == [pc |-> "none", res |-> "none"]
NoPass == [op |-> 0, receipt |-> "none"]
NotSealed == [instance |-> 0, permit |-> 0, token |-> 0]

ResultStatus == Terminal \cup {"accepted", "unknown"}
ExecPc == {"idle", "confirm", "prepare", "intent", "failing", "gate", "await",
           "verify", "record"}
TaskPc == {"none", "spawned", "sent", "query", "settle", "done"}

ExecState == [pc : ExecPc, op : Op \cup {0}, res : ResultStatus \cup {"none"}]
TaskState == [pc : TaskPc, res : ResultStatus \cup {"none"}]
PassState == [op : Op \cup {0}, receipt : ResultStatus \cup {"none"}]
Closure == [op : Op, state : ResultStatus, saved : BOOLEAN]

DaemonTypeOK ==
    /\ up \in BOOLEAN
    /\ mem \in [Op -> Entry] /\ disk \in [Op -> Entry]
    /\ exec \in ExecState
    /\ exec.pc = "idle" <=> exec.op = 0
    /\ sealed \in [Plan -> [instance : Nat, permit : Nat, token : Nat]]
    /\ cancelled \subseteq Plan
    /\ task \in [Op -> TaskState]
    /\ wire \in [Op -> Nat]
    /\ late \subseteq Closure
    /\ recon \in PassState
    /\ published \in [Op -> Terminal \cup {"none"}]
    /\ pruned \subseteq Op /\ lost \subseteq Op
    /\ faults \in 0..MaxFaults

\* Every variable of the WM and of the daemon keeps its type; an executor without
\* an operation is idle and the other way round.
TypeOK == DeskTypeOK /\ DaemonTypeOK

Init ==
    /\ DeskInit
    /\ up = TRUE
    /\ mem = [o \in Op |-> "absent"] /\ disk = [o \in Op |-> "absent"]
    /\ exec = Idle
    /\ sealed = [p \in Plan |-> NotSealed]
    /\ cancelled = {}
    /\ task = [o \in Op |-> NoTask]
    /\ wire = [o \in Op |-> 0]
    /\ late = {}
    /\ recon = NoPass
    /\ published = [o \in Op |-> "none"]
    /\ pruned = {} /\ lost = {}
    /\ faults = MaxFaults

-----------------------------------------------------------------------------
(* Helpers *)

Steps(p) == {o \in Op : PlanOf[o] = p}
IsFirst(o) == \A q \in Steps(PlanOf[o]) : o <= q
IsNext(o, q) ==
    /\ q \in Steps(PlanOf[o]) /\ o < q
    /\ \A r \in Steps(PlanOf[o]) : r <= o \/ q <= r
NeedsConfirmation(p) == Steps(p) \cap Sensitive # {}

\* Mutant: an answer that never came counts as a failure.
unknown_is_failed(status) ==
    IF status \in Terminal \cup {"accepted"} THEN status ELSE "failed"

\* operation_state: the ledger state a reported status stands for.
operation_state(status) ==
    IF status \in Terminal \cup {"accepted"} THEN status ELSE "unknown"

\* One of the bounded number of faults happens.
Fault == faults > 0 /\ faults' = faults - 1

\* Store::save after the ledger became `operations`: it succeeds, or fails with
\* the ledger file unchanged, or fails in usage.json after replacing it.
Save(operations, ok) ==
    \/ /\ ok
       /\ disk' = operations
       /\ UNCHANGED faults
    \/ /\ ~ok
       /\ Fault
       /\ disk' \in {disk, operations}

\* publish_settlement, run after a successful save.
publish_settlement(o, operations) ==
    published' = IF operations[o] \in Terminal
                 THEN [published EXCEPT ![o] = operations[o]] ELSE published

\* Mutant: the outcome is announced whether or not it could be saved.
SettleThenPublish(o, state, ok) ==
    LET after == record_result(mem, o, state) IN
    /\ mem' = after
    /\ IF ResultAllowed(mem, o, state)
       THEN Save(after, ok) /\ publish_settlement(o, after)
       ELSE ~ok /\ UNCHANGED <<disk, faults, published>>

\* record_result, save and publish under one store access.
SettleInStore(o, state, ok) ==
    LET after == record_result(mem, o, state) IN
    /\ mem' = after
    /\ IF ResultAllowed(mem, o, state)
       THEN /\ Save(after, ok)
            /\ IF ok THEN publish_settlement(o, after) ELSE UNCHANGED published
       ELSE /\ ~ok
            /\ UNCHANGED <<disk, faults, published>>

\* Does a get_execution_status answer arrive, and with which status?
StatusReply(o, reply) ==
    \/ reply = "error"
    \/ reply = eva_execution_status(o, sealed[PlanOf[o]].instance)

-----------------------------------------------------------------------------
(* The executor *)

\* A validated plan under the live permit; one with sensitive steps posts its
\* confirmation card and waits.
Freeze(o) ==
    LET p == PlanOf[o] IN
    /\ up /\ exec.pc = "idle" /\ sealed[p] = NotSealed
    /\ IsFirst(o)
    /\ permit # 0
    /\ sealed' = [sealed EXCEPT ![p] = [instance |-> instance, permit |-> permit,
                                        token |-> 0]]
    /\ IF NeedsConfirmation(p)
       THEN /\ exec' = [Idle EXCEPT !.pc = "confirm", !.op = o]
            /\ PostConfirmation(p)
       ELSE /\ exec' = [Idle EXCEPT !.pc = "prepare", !.op = o]
            /\ UNCHANGED deskVars
    /\ UNCHANGED <<up, mem, disk, cancelled, task, wire, late, recon, published,
                   pruned, lost, faults>>

\* wait_for_confirmation reads the token of the approved card.
ReadToken ==
    LET p == PlanOf[exec.op] IN
    /\ exec.pc = "confirm"
    /\ permit = sealed[p].permit /\ instance = sealed[p].instance
    /\ confirmation.approved /\ confirmation.plan = p
    /\ sealed' = [sealed EXCEPT ![p].token = confirmation.serial]
    /\ exec' = [exec EXCEPT !.pc = "prepare"]
    /\ UNCHANGED <<deskVars, up, mem, disk, cancelled, task, wire, late, recon,
                   published, pruned, lost, faults>>

\* The context query before each step.  No answer, another instance or permit,
\* or an expired budget ends the plan.
Prepare ==
    LET p == PlanOf[exec.op] IN
    /\ exec.pc = "prepare"
    /\ \/ /\ instance = sealed[p].instance /\ permit = sealed[p].permit
          /\ exec' = [exec EXCEPT !.pc = "intent"]
       \/ exec' = Idle
    /\ UNCHANGED <<deskVars, up, mem, disk, sealed, cancelled, task, wire, late,
                   recon, published, pruned, lost, faults>>

\* Mutant: the result of the save is not looked at.
RecordIntentUnchecked(old, ok) ==
    LET kept == prune_terminal(mem, old)
        after == record_intent(kept, exec.op) IN
    /\ exec.pc = "intent"
    /\ old \subseteq {q \in Op : mem[q] \in Terminal}
    /\ pruned' = pruned \cup old
    /\ IntentAllowed(kept, exec.op, LedgerCapacity)
    /\ mem' = after
    /\ Save(after, ok)
    /\ exec' = [exec EXCEPT !.pc = "gate"]
    /\ UNCHANGED <<deskVars, up, sealed, cancelled, task, wire, late, recon,
                   published, lost>>

\* The store access that records and saves the intent.
RecordIntent(old, ok) ==
    LET o == exec.op
        kept == prune_terminal(mem, old)
        after == record_intent(kept, o) IN
    /\ exec.pc = "intent"
    /\ old \subseteq {q \in Op : mem[q] \in Terminal}
    /\ pruned' = pruned \cup old
    /\ IF IntentAllowed(kept, o, LedgerCapacity)
       THEN /\ mem' = after
            /\ Save(after, ok)
       ELSE /\ ~ok
            /\ mem' = kept
            /\ UNCHANGED <<disk, faults>>
    /\ exec' = [exec EXCEPT !.pc = IF ok THEN "gate" ELSE "failing"]
    /\ UNCHANGED <<deskVars, up, sealed, cancelled, task, wire, late, recon,
                   published, lost>>

\* ledger_write_failed_before_dispatch: nothing was sent; the failure is only
\* noted in memory.
IntentFailed ==
    /\ exec.pc = "failing"
    /\ mem' = record_result(mem, exec.op, "failed")
    /\ exec' = Idle
    /\ UNCHANGED <<deskVars, up, disk, sealed, cancelled, task, wire, late,
                   recon, published, pruned, lost, faults>>

\* The budget ran out while the intent was written.
DeadlineAfterIntent(ok) ==
    /\ exec.pc = "gate"
    /\ SettleInStore(exec.op, "cancelled", ok)
    /\ exec' = Idle
    /\ UNCHANGED <<deskVars, up, sealed, cancelled, task, wire, late, recon,
                   pruned, lost>>

SpawnDispatch ==
    /\ exec.pc = "gate"
    /\ task' = [task EXCEPT ![exec.op] = [pc |-> "spawned", res |-> "none"]]
    /\ exec' = [exec EXCEPT !.pc = "await"]
    /\ UNCHANGED <<deskVars, up, mem, disk, sealed, cancelled, wire, late,
                   recon, published, pruned, lost, faults>>

AwaitTask ==
    /\ exec.pc = "await" /\ task[exec.op].pc = "done"
    /\ exec' = [exec EXCEPT !.pc = "verify", !.res = task[exec.op].res]
    /\ UNCHANGED <<deskVars, up, mem, disk, sealed, cancelled, task, wire, late,
                   recon, published, pruned, lost, faults>>

\* settle_level_control polls the receipt of an accepted level change until it
\* is final or the time is up; every other result passes through.
settle_level_control ==
    LET o == exec.op IN
    /\ exec.pc = "verify"
    /\ \/ /\ o \in LevelControl /\ exec.res = "accepted"
          /\ \E reply \in ResultStatus \cup {"error"} :
                /\ StatusReply(o, reply)
                /\ exec' = [exec EXCEPT !.res = IF reply = "error"
                                                THEN "unknown" ELSE reply]
       \/ /\ o \notin LevelControl \/ exec.res # "accepted"
          /\ exec' = [exec EXCEPT !.pc = "record"]
    /\ UNCHANGED <<deskVars, up, mem, disk, sealed, cancelled, task, wire, late,
                   recon, published, pruned, lost, faults>>

\* Mutant: a step the WM has merely accepted lets the plan go on.
RecordStepAccepted(ok) ==
    LET o == exec.op IN
    /\ exec.pc = "record"
    /\ SettleInStore(o, operation_state(exec.res), ok)
    /\ \/ /\ ok /\ exec.res \in {"succeeded", "accepted"}
          /\ \E q \in Op : /\ IsNext(o, q)
                           /\ exec' = [Idle EXCEPT !.pc = "prepare", !.op = q]
       \/ exec' = Idle
    /\ UNCHANGED <<deskVars, up, sealed, cancelled, task, wire, late, recon,
                   pruned, lost>>

\* The step's final store access; only a saved success goes on to the next step.
RecordStep(ok) ==
    LET o == exec.op IN
    /\ exec.pc = "record"
    /\ SettleInStore(o, operation_state(exec.res), ok)
    /\ \/ /\ ok /\ exec.res = "succeeded"
          /\ \E q \in Op : /\ IsNext(o, q)
                           /\ exec' = [Idle EXCEPT !.pc = "prepare", !.op = q]
       \/ exec' = Idle
    /\ UNCHANGED <<deskVars, up, sealed, cancelled, task, wire, late, recon,
                   pruned, lost>>

\* The store closure the executor may be waiting for: it runs even when the
\* executor is dropped.  (A queued intent sees the cancellation and does nothing.)
Queued ==
    {c \in Closure :
        /\ c.op = exec.op
        /\ \/ exec.pc = "failing" /\ c.state = "failed" /\ ~c.saved
           \/ exec.pc = "gate" /\ c.state = "cancelled" /\ c.saved
           \/ exec.pc = "record" /\ c.state = operation_state(exec.res) /\ c.saved}

\* Mutant: the dropped executor keeps its operation.
DropExecutorStale ==
    /\ exec.pc # "idle"
    /\ cancelled' = cancelled \cup {PlanOf[exec.op]}
    /\ late' \in {late, late \cup Queued}
    /\ exec' = [exec EXCEPT !.pc = "idle"]
    /\ UNCHANGED <<deskVars, up, mem, disk, sealed, task, wire, recon,
                   published, pruned, lost, faults>>

\* Barge-in or stop drops the executor's future at one of its awaits.
DropExecutor ==
    /\ exec.pc # "idle"
    /\ cancelled' = cancelled \cup {PlanOf[exec.op]}
    /\ late' \in {late, late \cup Queued}
    /\ exec' = Idle
    /\ UNCHANGED <<deskVars, up, mem, disk, sealed, task, wire, recon,
                   published, pruned, lost, faults>>

LateRecord(entry, ok) ==
    /\ entry \in late
    /\ late' = late \ {entry}
    /\ IF entry.saved
       THEN SettleInStore(entry.op, entry.state, ok)
       ELSE /\ ok
            /\ mem' = record_result(mem, entry.op, entry.state)
            /\ UNCHANGED <<disk, published, faults>>
    /\ UNCHANGED <<deskVars, up, exec, sealed, cancelled, task, wire, recon,
                   pruned, lost>>

-----------------------------------------------------------------------------
(* The dispatch task of one operation: dispatch_once_cancellable, then         *)
(* persist_settlement.  It outlives its executor.                              *)

\* The blocking worker looks at the cancellation flag and the deadline once
\* more, then sends; the connection may fail before anything is sent.
Dispatch(o) ==
    /\ task[o].pc = "spawned"
    /\ \/ /\ task' = [task EXCEPT ![o] = [pc |-> "settle", res |-> "cancelled"]]
          /\ UNCHANGED <<wire, lost>>
       \/ /\ PlanOf[o] \notin cancelled
          /\ task' = [task EXCEPT ![o].pc = "sent"]
          /\ wire' = [wire EXCEPT ![o] = @ + 1]
          /\ UNCHANGED lost
       \/ /\ PlanOf[o] \notin cancelled
          /\ task' = [task EXCEPT ![o].pc = "query"]
          /\ UNCHANGED <<wire, lost>>
    /\ UNCHANGED <<deskVars, up, mem, disk, exec, sealed, cancelled, late,
                   recon, published, pruned, faults>>

\* The WM handles a request.  Its answer reaches the task unless the task has
\* given up or the connection breaks.
Handle(o) ==
    /\ wire[o] > 0
    /\ wire' = [wire EXCEPT ![o] = @ - 1]
    /\ \E reply \in ResultStatus \cup {"refused"} :
          /\ eva_guarded_execute(o, sealed[PlanOf[o]], reply)
          /\ task' \in {task,
                IF task[o].pc = "sent"
                THEN [task EXCEPT ![o] = [pc |-> "settle",
                        res |-> IF reply = "refused" THEN "failed" ELSE reply]]
                ELSE task}
    /\ UNCHANGED <<up, mem, disk, exec, sealed, cancelled, late, recon,
                   published, pruned, lost, faults>>

\* No answer within the IPC timeout; the request may still be handled later.
ReplyTimeout(o) ==
    /\ task[o].pc = "sent"
    /\ task' = [task EXCEPT ![o].pc = "query"]
    /\ lost' = lost \cup {o}
    /\ UNCHANGED <<deskVars, up, mem, disk, exec, sealed, cancelled, wire, late,
                   recon, published, pruned, faults>>

QueryAfterTimeout(o) ==
    /\ task[o].pc = "query"
    /\ \E reply \in ResultStatus \cup {"error"} :
          /\ StatusReply(o, reply)
          /\ task' = [task EXCEPT ![o] = [pc |-> "settle",
                        res |-> IF reply = "error" THEN "unknown" ELSE reply]]
    /\ UNCHANGED <<deskVars, up, mem, disk, exec, sealed, cancelled, wire, late,
                   recon, published, pruned, lost, faults>>

\* A terminal record wins over the result in hand and is what the executor sees.
persist_settlement(o, ok) ==
    /\ task[o].pc = "settle"
    /\ IF mem[o] \in Terminal
       THEN /\ task' = [task EXCEPT ![o] = [pc |-> "done", res |-> mem[o]]]
            /\ ok
            /\ UNCHANGED <<mem, disk, published, faults>>
       ELSE /\ task' = [task EXCEPT ![o].pc = "done"]
            /\ SettleInStore(o, operation_state(task[o].res), ok)
    /\ UNCHANGED <<deskVars, up, exec, sealed, cancelled, wire, late, recon,
                   pruned, lost>>

\* A caller that lost its answer sends the sealed request again.
Resend(o) ==
    /\ o \in lost
    /\ Fault
    /\ wire' = [wire EXCEPT ![o] = @ + 1]
    /\ UNCHANGED <<deskVars, up, mem, disk, exec, sealed, cancelled, task, late,
                   recon, published, pruned, lost>>

-----------------------------------------------------------------------------
(* reconcile *)

\* An unresolved operation of the pass gets its get_execution_status answer.
ReconcileQuery(o) ==
    /\ up /\ recon = NoPass
    /\ o \in Unresolved(mem)
    /\ \E reply \in ResultStatus \cup {"error"} :
          /\ StatusReply(o, reply)
          /\ recon' = [op |-> o,
                       receipt |-> IF reply = "error" THEN "unknown" ELSE reply]
    /\ UNCHANGED <<deskVars, up, mem, disk, exec, sealed, cancelled, task, wire,
                   late, published, pruned, lost, faults>>

\* The receipt is applied to the ledger as it is now, whatever
\* happened to the operation since the question was asked.
ReconcileApply(ok) ==
    LET o == recon.op
        state == operation_state(recon.receipt) IN
    /\ o # 0
    /\ IF mem[o] \in Terminal \cup {"absent", state}
       THEN /\ ok
            /\ UNCHANGED <<mem, disk, published, faults>>
       ELSE SettleInStore(o, state, ok)
    /\ recon' = NoPass
    /\ UNCHANGED <<deskVars, up, exec, sealed, cancelled, task, wire, late,
                   pruned, lost>>

-----------------------------------------------------------------------------
(* Crashes *)

DaemonCrash ==
    /\ up
    /\ Fault
    /\ up' = FALSE
    /\ exec' = Idle /\ late' = {} /\ recon' = NoPass
    /\ task' = [o \in Op |-> NoTask]
    /\ lost' = lost \cup {o \in Op : task[o].pc = "sent"}
    /\ UNCHANGED <<deskVars, mem, disk, sealed, cancelled, wire, published,
                   pruned>>

\* The daemon asks the WM to cancel any permit, an error of which it ignores;
\* then Store::open_at: load, recover, save.
DaemonStart ==
    /\ ~up
    /\ up' = TRUE
    /\ mem' = recover(disk)
    /\ disk' = recover(disk)
    /\ eva_cancel \/ UNCHANGED deskVars
    /\ UNCHANGED <<exec, sealed, cancelled, task, wire, late, recon, published,
                   pruned, lost, faults>>

\* A WM restart breaks every connection; requests not yet read are gone.
WindowManagerRestart ==
    /\ WmRestart
    /\ Fault
    /\ wire' = [o \in Op |-> 0]
    /\ UNCHANGED <<up, mem, disk, exec, sealed, cancelled, task, late, recon,
                   published, pruned, lost>>

-----------------------------------------------------------------------------
ExecutorStep ==
    \/ \E o \in Op : Freeze(o)
    \/ ReadToken
    \/ Prepare
    \/ \E old \in SUBSET Op, ok \in BOOLEAN : RecordIntent(old, ok)
    \/ IntentFailed
    \/ \E ok \in BOOLEAN : DeadlineAfterIntent(ok)
    \/ SpawnDispatch
    \/ AwaitTask
    \/ settle_level_control
    \/ \E ok \in BOOLEAN : RecordStep(ok)
    \/ DropExecutor
    \/ \E entry \in late, ok \in BOOLEAN : LateRecord(entry, ok)

TaskStep(o) ==
    \/ Dispatch(o)
    \/ Handle(o)
    \/ ReplyTimeout(o)
    \/ QueryAfterTimeout(o)
    \/ \E ok \in BOOLEAN : persist_settlement(o, ok)
    \/ Resend(o)

Reconcile ==
    \/ \E o \in Op : ReconcileQuery(o)
    \/ \E ok \in BOOLEAN : ReconcileApply(ok)

Next ==
    \/ DeskStep /\ UNCHANGED daemonVars
    \/ ExecutorStep
    \/ \E o \in Op : TaskStep(o)
    \/ Reconcile
    \/ DaemonCrash
    \/ DaemonStart
    \/ WindowManagerRestart

Spec == Init /\ [][Next]_vars

-----------------------------------------------------------------------------
(* Properties *)

\* Within one retention window the desktop starts an operation's effect at most
\* once, whatever is lost, late or sent again: only an operation whose final
\* result has left the table could be started twice.
AtMostOnce == \A o \in Op : performed[o] > 1 => o \in retired

\* A sensitive operation is never started more often than its user approved its
\* plan, even after its tombstone has left the table: the approval is used up.
OncePerApproval == \A o \in Sensitive : performed[o] <= approvals[PlanOf[o]]

\* Nothing is started that the ledger file does not record: the intent is saved
\* before the request is sent, and no crash, recovery or failed save loses it.
WriteAhead ==
    \A o \in Op : performed[o] > 0 => disk[o] # "absent" \/ o \in pruned

\* What the ledger calls final is what happened: success was observed on the
\* desktop, and an operation called failed or cancelled either never started or
\* was observed to end that way.
Truthful(operations) ==
    \A o \in Op :
        /\ operations[o] = "succeeded" => "succeeded" \in outcome[o]
        /\ operations[o] \in {"failed", "cancelled"} =>
              performed[o] = 0 \/ operations[o] \in outcome[o]
LedgerTruthful == Truthful(mem) /\ Truthful(disk)

\* An outcome announced to the companion is in the ledger file, and stays there
\* through crashes until retention drops it.
PublishedDurable ==
    \A o \in Op : published[o] # "none" => disk[o] = published[o] \/ o \in pruned

\* A step starts only after the success of the step before it has been saved.
PlanOrder ==
    \A o, q \in Op :
        (PlanOf[o] = PlanOf[q] /\ o < q /\ performed[q] > 0) =>
            disk[o] = "succeeded" \/ o \in pruned
=============================================================================
