------------------------- MODULE EvaExecutionProofs -------------------------
(***************************************************************************)
(* Proofs about EvaExecution, for every list of plans, every choice of     *)
(* sensitive steps, every capacity and every number of faults.             *)
(***************************************************************************)
EXTENDS EvaExecution, TLAPS

-----------------------------------------------------------------------------
(* Operations and plans *)

\* Operations are positive numbers and belong to plans, which are positive too.
LEMMA OpFacts ==
    /\ Op \subseteq Nat \ {0}
    /\ Plan \subseteq Nat \ {0}
    /\ \A o \in Op : PlanOf[o] \in Plan
    /\ Sensitive \subseteq Op
  <1>1. PlanOf \in Seq(Nat \ {0})
    BY OpsAssumption
  <1>2. Op = 1 .. Len(PlanOf) /\ Len(PlanOf) \in Nat
    BY <1>1 DEF Op
  <1>3. \A o \in Op : PlanOf[o] \in Nat \ {0}
    BY <1>1, <1>2
  <1> QED
    BY <1>2, <1>3, OpsAssumption DEF Plan

-----------------------------------------------------------------------------
(* Type correctness of the WM's side *)

\* A card the WM holds, none included, is a card.
LEMMA CardType == NoConfirmation \in Card
  BY DEF NoConfirmation, Card

\* A fresh WM process is well typed.
LEMMA DeskInitType == DeskInit => DeskTypeOK
  BY DeskBounds, CardType DEF DeskInit, DeskTypeOK, TableEntry

\* A newly shown card keeps the types.
LEMMA PostConfirmationType ==
    ASSUME DeskTypeOK, NEW p \in Plan, PostConfirmation(p)
    PROVE  DeskTypeOK'
  <1>1. CASE confirmation.plan = p
    BY <1>1 DEF DeskTypeOK, PostConfirmation
  <1>2. CASE confirmation.plan # p
    <2>1. serial + 1 \in Nat
      BY DEF DeskTypeOK
    <2>2. [plan |-> p, serial |-> serial + 1, approved |-> FALSE,
           expired |-> FALSE, used |-> {}] \in Card
      BY <2>1 DEF Card
    <2> QED
      BY <1>2, <2>1, <2>2 DEF DeskTypeOK, PostConfirmation
  <1> QED
    BY <1>1, <1>2

\* The steps of the WM that no request causes keep the types.
LEMMA DeskStepType == ASSUME DeskTypeOK, DeskStep PROVE DeskTypeOK'
  <1>1. CASE eva_activate
    BY <1>1, DeskBounds, CardType DEF DeskTypeOK, eva_activate
  <1>2. CASE eva_cancel
    BY <1>2, CardType DEF DeskTypeOK, eva_cancel
  <1>3. CASE eva_confirm
    <2>1. [confirmation EXCEPT !.approved = TRUE] \in Card
      BY DEF DeskTypeOK, Card
    <2>2. approvals' \in [Plan -> Nat]
      <3> DEFINE p == confirmation.plan
      <3>1. approvals' = [approvals EXCEPT ![p] = @ + 1]
        BY <1>3 DEF eva_confirm
      <3>2. approvals \in [Plan -> Nat]
        BY DEF DeskTypeOK
      <3>3. p \in Plan
        BY <1>3 DEF DeskTypeOK, Card, eva_confirm
      <3> HIDE DEF p
      <3> QED
        BY <3>1, <3>2, <3>3
    <2>3. UNCHANGED <<instance, generation, permit, serial, table, performed,
                      outcome, retired>>
      BY <1>3 DEF eva_confirm
    <2>4. confirmation' \in Card
      BY <1>3, <2>1 DEF eva_confirm
    <2> QED
      BY <2>2, <2>3, <2>4 DEF DeskTypeOK
  <1>4. CASE ConfirmationExpires
    <2>1. [confirmation EXCEPT !.expired = TRUE, !.approved = FALSE] \in Card
      BY DEF DeskTypeOK, Card
    <2> QED
      BY <1>4, <2>1 DEF DeskTypeOK, ConfirmationExpires
  <1>5. ASSUME NEW o \in Op, Complete(o) PROVE DeskTypeOK'
    BY <1>5 DEF DeskTypeOK, Complete, TableEntry
  <1>6. ASSUME NEW o \in Op, CompletionOverdue(o) PROVE DeskTypeOK'
    BY <1>6 DEF DeskTypeOK, CompletionOverdue, TableEntry
  <1>7. ASSUME NEW o \in Op, Retire(o) PROVE DeskTypeOK'
    BY <1>7 DEF DeskTypeOK, Retire, TableEntry
  <1> QED
    BY <1>1, <1>2, <1>3, <1>4, <1>5, <1>6, <1>7 DEF DeskStep

\* Performing an operation keeps the types.
LEMMA PerformType ==
    ASSUME DeskTypeOK, NEW o \in Op,
           NEW status \in {"succeeded", "failed", "accepted"}, Perform(o, status)
    PROVE  DeskTypeOK'
  <1>1. [confirmation EXCEPT !.used = @ \cup {o}] \in Card
    BY DEF DeskTypeOK, Card
  <1> QED
    BY <1>1 DEF DeskTypeOK, Perform, TableEntry, DeskTerminal

\* Handling a request keeps the types and answers with a status.
LEMMA GuardedExecuteType ==
    ASSUME DeskTypeOK, NEW o \in Op, NEW request, NEW reply,
           eva_guarded_execute(o, request, reply)
    PROVE  DeskTypeOK'
  <1>1. CASE UNCHANGED deskVars
    BY <1>1 DEF DeskTypeOK, deskVars
  <1>2. CASE /\ reply \in {"succeeded", "failed", "accepted"}
             /\ Perform(o, reply)
    BY <1>2, PerformType
  <1> QED
    BY <1>1, <1>2 DEF eva_guarded_execute

\* What the WM reports of an operation is a status or an error.
LEMMA StatusType ==
    ASSUME DeskTypeOK, NEW o \in Op, NEW inst
    PROVE  eva_execution_status(o, inst) \in ResultStatus \cup {"error"}
  BY DEF DeskTypeOK, eva_execution_status, ResultStatus, TableEntry, DeskTerminal,
         Terminal

-----------------------------------------------------------------------------
(* Type correctness of the ledger operations *)

\* record_result keeps a ledger a ledger.
LEMMA RecordResultType ==
    ASSUME NEW ops \in [Op -> Entry], NEW o \in Op, NEW state \in OperationState
    PROVE  record_result(ops, o, state) \in [Op -> Entry]
  BY DEF record_result, Entry

\* prune_terminal, record_intent and recover keep a ledger a ledger.
LEMMA LedgerTypes ==
    ASSUME NEW ops \in [Op -> Entry]
    PROVE  /\ \A old : prune_terminal(ops, old) \in [Op -> Entry]
           /\ \A o \in Op : record_intent(ops, o) \in [Op -> Entry]
           /\ recover(ops) \in [Op -> Entry]
  BY DEF prune_terminal, record_intent, recover, Entry, OperationState

\* The ledger state of a status is an operation state.
LEMMA OperationStateType ==
    ASSUME NEW status
    PROVE  operation_state(status) \in OperationState \cap ResultStatus
  BY DEF operation_state, OperationState, ResultStatus, Terminal

\* A save leaves a ledger in the file and never adds to the faults left.
LEMMA SaveType ==
    ASSUME DaemonTypeOK, NEW ops \in [Op -> Entry], NEW ok \in BOOLEAN, Save(ops, ok)
    PROVE  disk' \in [Op -> Entry] /\ faults' \in 0..MaxFaults
  <1>1. disk \in [Op -> Entry] /\ faults \in 0..MaxFaults /\ MaxFaults \in Nat
    BY ExecutionBounds DEF DaemonTypeOK
  <1> QED
    BY <1>1 DEF Save, Fault

\* A settlement keeps ledger, file and announcements well typed.
LEMMA SettleType ==
    ASSUME DaemonTypeOK, NEW o \in Op, NEW state \in OperationState,
           NEW ok \in BOOLEAN, SettleInStore(o, state, ok)
    PROVE  /\ mem' \in [Op -> Entry] /\ disk' \in [Op -> Entry]
           /\ published' \in [Op -> Terminal \cup {"none"}]
           /\ faults' \in 0..MaxFaults
  <1> DEFINE after == record_result(mem, o, state)
  <1>1. mem' = after /\ after \in [Op -> Entry]
    BY RecordResultType DEF DaemonTypeOK, SettleInStore
  <1>2. disk' \in [Op -> Entry] /\ faults' \in 0..MaxFaults
    BY <1>1, SaveType DEF DaemonTypeOK, SettleInStore
  <1>3. published' \in [Op -> Terminal \cup {"none"}]
    BY <1>1 DEF DaemonTypeOK, SettleInStore, publish_settlement
  <1> QED
    BY <1>1, <1>2, <1>3

-----------------------------------------------------------------------------
(* Type correctness of the daemon *)

\* The daemon starts well typed.
LEMMA DaemonInitType == Init => DaemonTypeOK
  BY ExecutionBounds
     DEF Init, DaemonTypeOK, Idle, NoTask, NoPass, NotSealed, Entry, ExecPc, TaskPc,
         ExecState, TaskState, PassState

\* An idle executor, no task and no pass are values of their variables.
LEMMA RestTypes ==
    /\ Idle \in ExecState
    /\ NoTask \in TaskState
    /\ NoPass \in PassState
    /\ Idle.op = 0 /\ Idle.pc = "idle"
  BY DEF Idle, NoTask, NoPass, ExecPc, TaskPc, ExecState, TaskState, PassState

\* The executor's steps before the intent keep the types.
LEMMA StartTypes ==
    ASSUME TypeOK
    PROVE  /\ \A o \in Op : Freeze(o) => DaemonTypeOK'
           /\ ReadToken => DaemonTypeOK'
           /\ Prepare => DaemonTypeOK'
  <1>1. ASSUME NEW o \in Op, Freeze(o) PROVE DaemonTypeOK'
    <2>1. PlanOf[o] \in Plan /\ o \in Nat \ {0}
      BY OpFacts
    <2>2. /\ exec' \in ExecState
          /\ exec'.op # 0 /\ exec'.pc # "idle"
      BY <1>1, <2>1 DEF Freeze, Idle, ExecPc, ExecState
    <2>3. sealed' \in [Plan -> [instance : Nat, permit : Nat, token : Nat]]
      <3>1. instance \in Nat /\ permit \in Nat
        BY DeskBounds DEF TypeOK, DeskTypeOK
      <3> QED
        BY <1>1, <2>1, <3>1 DEF Freeze, TypeOK, DaemonTypeOK
    <2> QED
      BY <1>1, <2>2, <2>3 DEF Freeze, TypeOK, DaemonTypeOK
  <1>2. ASSUME ReadToken PROVE DaemonTypeOK'
    <2>1. confirmation.serial \in Nat
      BY DEF TypeOK, DeskTypeOK, Card
    <2>2. exec.op \in Op /\ exec.op # 0
      BY <1>2 DEF ReadToken, TypeOK, DaemonTypeOK, ExecState
    <2>3. PlanOf[exec.op] \in Plan
      BY <2>2, OpFacts
    <2>4. sealed' \in [Plan -> [instance : Nat, permit : Nat, token : Nat]]
      BY <1>2, <2>1, <2>3 DEF ReadToken, TypeOK, DaemonTypeOK
    <2>5. /\ exec' \in ExecState
          /\ exec'.op # 0 /\ exec'.pc # "idle"
      BY <1>2, <2>2 DEF ReadToken, TypeOK, DaemonTypeOK, ExecPc, ExecState
    <2> QED
      BY <1>2, <2>4, <2>5 DEF ReadToken, TypeOK, DaemonTypeOK
  <1>3. ASSUME Prepare PROVE DaemonTypeOK'
    <2>1. /\ exec' \in ExecState
          /\ exec'.op = 0 <=> exec'.pc = "idle"
      BY <1>3, RestTypes DEF Prepare, TypeOK, DaemonTypeOK, ExecPc, ExecState
    <2> QED
      BY <1>3, <2>1 DEF Prepare, TypeOK, DaemonTypeOK
  <1> QED
    BY <1>1, <1>2, <1>3

\* An executor under way has an operation.
LEMMA ExecOp ==
    ASSUME DaemonTypeOK, exec.pc # "idle"
    PROVE  /\ exec.op \in Op /\ exec.op # 0 /\ PlanOf[exec.op] \in Plan
           /\ exec.res \in ResultStatus \cup {"none"}
           /\ operation_state(exec.res) \in OperationState \cap ResultStatus
  <1>1. exec.op \in Op /\ exec.op # 0
    BY OpFacts DEF DaemonTypeOK, ExecState
  <1> QED
    BY <1>1, OpFacts, OperationStateType DEF DaemonTypeOK, ExecState

\* The intent and what may follow it at once keep the types.
LEMMA IntentTypes ==
    ASSUME TypeOK
    PROVE  /\ \A old \in SUBSET Op, ok \in BOOLEAN : RecordIntent(old, ok) => DaemonTypeOK'
           /\ IntentFailed => DaemonTypeOK'
           /\ \A ok \in BOOLEAN : DeadlineAfterIntent(ok) => DaemonTypeOK'
           /\ SpawnDispatch => DaemonTypeOK'
  <1>0. DaemonTypeOK /\ mem \in [Op -> Entry]
    BY DEF TypeOK, DaemonTypeOK
  <1>1. ASSUME NEW old \in SUBSET Op, NEW ok \in BOOLEAN, RecordIntent(old, ok)
        PROVE  DaemonTypeOK'
    <2> DEFINE kept == prune_terminal(mem, old)
               after == record_intent(kept, exec.op)
    <2>1. exec.op \in Op
      BY <1>0, <1>1, ExecOp DEF RecordIntent
    <2>2. kept \in [Op -> Entry] /\ after \in [Op -> Entry]
      BY <1>0, <2>1, LedgerTypes
    <2>3. CASE IntentAllowed(kept, exec.op, LedgerCapacity)
      <3>1. mem' = after /\ Save(after, ok)
        BY <1>1, <2>3 DEF RecordIntent
      <3> QED
        BY <1>0, <2>2, <3>1, SaveType
           , <1>1 DEF RecordIntent, DaemonTypeOK, ExecState, ExecPc
    <2>4. CASE ~IntentAllowed(kept, exec.op, LedgerCapacity)
      BY <1>0, <1>1, <2>2, <2>4 DEF RecordIntent, DaemonTypeOK, ExecState, ExecPc
    <2> QED
      BY <2>3, <2>4
  <1>2. ASSUME IntentFailed PROVE DaemonTypeOK'
    <2>1. exec.op \in Op
      BY <1>0, <1>2, ExecOp DEF IntentFailed
    <2>2. mem' \in [Op -> Entry]
      BY <1>0, <1>2, <2>1, RecordResultType DEF IntentFailed, OperationState, Terminal
    <2> QED
      BY <1>0, <1>2, <2>2, RestTypes DEF IntentFailed, DaemonTypeOK
  <1>3. ASSUME NEW ok \in BOOLEAN, DeadlineAfterIntent(ok) PROVE DaemonTypeOK'
    <2>1. exec.op \in Op
      BY <1>0, <1>3, ExecOp DEF DeadlineAfterIntent
    <2>2. SettleInStore(exec.op, "cancelled", ok) /\ "cancelled" \in OperationState
      BY <1>3 DEF DeadlineAfterIntent, OperationState, Terminal
    <2> QED
      BY <1>0, <1>3, <2>1, <2>2, SettleType, RestTypes DEF DeadlineAfterIntent, DaemonTypeOK
  <1>4. ASSUME SpawnDispatch PROVE DaemonTypeOK'
    <2>1. exec.op \in Op
      BY <1>0, <1>4, ExecOp DEF SpawnDispatch
    <2>2. task' \in [Op -> TaskState]
      BY <1>0, <1>4, <2>1 DEF SpawnDispatch, DaemonTypeOK, TaskState, TaskPc
    <2>3. exec' \in ExecState /\ exec'.pc # "idle" /\ exec'.op # 0
      BY <1>0, <1>4 DEF SpawnDispatch, DaemonTypeOK, ExecState, ExecPc
    <2> QED
      BY <1>0, <1>4, <2>2, <2>3 DEF SpawnDispatch, DaemonTypeOK
  <1> QED
    BY <1>1, <1>2, <1>3, <1>4

\* The status a query returns is a status or an error.
LEMMA ReplyType ==
    ASSUME TypeOK, NEW reply \in ResultStatus \cup {"error"}
    PROVE  (IF reply = "error" THEN "unknown" ELSE reply) \in ResultStatus
  BY DEF ResultStatus

\* The executor's steps after the dispatch keep the types.
LEMMA FinishTypes ==
    ASSUME TypeOK
    PROVE  /\ AwaitTask => DaemonTypeOK'
           /\ settle_level_control => DaemonTypeOK'
           /\ \A ok \in BOOLEAN : RecordStep(ok) => DaemonTypeOK'
           /\ DropExecutor => DaemonTypeOK'
           /\ \A entry \in late, ok \in BOOLEAN : LateRecord(entry, ok) => DaemonTypeOK'
  <1>0. DaemonTypeOK
    BY DEF TypeOK
  <1>1. ASSUME AwaitTask PROVE DaemonTypeOK'
    <2>1. exec.op \in Op
      BY <1>0, <1>1, ExecOp DEF AwaitTask
    <2>2. exec' \in ExecState /\ exec'.pc # "idle" /\ exec'.op # 0
      BY <1>0, <1>1, <2>1 DEF AwaitTask, DaemonTypeOK, ExecState, ExecPc, TaskState
    <2> QED
      BY <1>0, <1>1, <2>2 DEF AwaitTask, DaemonTypeOK
  <1>2. ASSUME settle_level_control PROVE DaemonTypeOK'
    <2>2. exec' \in ExecState /\ exec'.pc # "idle" /\ exec'.op # 0
      BY <1>0, <1>2, ReplyType DEF settle_level_control, DaemonTypeOK, ExecState, ExecPc
    <2> QED
      BY <1>0, <1>2, <2>2 DEF settle_level_control, DaemonTypeOK
  <1>3. ASSUME NEW ok \in BOOLEAN, RecordStep(ok) PROVE DaemonTypeOK'
    <2>1. exec.op \in Op /\ operation_state(exec.res) \in OperationState
      BY <1>0, <1>3, ExecOp DEF RecordStep
    <2>2. exec' \in ExecState /\ (exec'.pc = "idle" <=> exec'.op = 0)
      BY <1>3, RestTypes, OpFacts DEF RecordStep, Idle, ExecState, ExecPc
    <2>3. SettleInStore(exec.op, operation_state(exec.res), ok)
      BY <1>3 DEF RecordStep
    <2> QED
      BY <1>0, <1>3, <2>1, <2>2, <2>3, SettleType DEF RecordStep, DaemonTypeOK
  <1>4. ASSUME DropExecutor PROVE DaemonTypeOK'
    <2>1. exec.op \in Op /\ operation_state(exec.res) \in ResultStatus
          /\ PlanOf[exec.op] \in Plan
      BY <1>0, <1>4, ExecOp DEF DropExecutor
    <2>2. Queued \subseteq Closure
      BY DEF Queued
    <2> QED
      BY <1>0, <1>4, <2>1, <2>2, RestTypes DEF DropExecutor, DaemonTypeOK
  <1>5. ASSUME NEW entry \in late, NEW ok \in BOOLEAN, LateRecord(entry, ok)
        PROVE  DaemonTypeOK'
    <2>1. entry.op \in Op /\ entry.state \in OperationState
      BY <1>0 DEF DaemonTypeOK, Closure, ResultStatus, OperationState
    <2>2. CASE entry.saved
      <3>1. SettleInStore(entry.op, entry.state, ok)
        BY <1>5, <2>2 DEF LateRecord
      <3> QED
        BY <1>0, <1>5, <2>1, <3>1, SettleType DEF LateRecord, DaemonTypeOK
    <2>3. CASE ~entry.saved
      BY <1>0, <1>5, <2>1, <2>3, RecordResultType DEF LateRecord, DaemonTypeOK
    <2> QED
      BY <2>2, <2>3
  <1> QED
    BY <1>1, <1>2, <1>3, <1>4, <1>5

\* The dispatch task, the WM's handling of its request and a resend keep the
\* types.
LEMMA TaskTypes ==
    ASSUME TypeOK, NEW o \in Op
    PROVE  TaskStep(o) => DaemonTypeOK'
  <1>0. DaemonTypeOK
    BY DEF TypeOK
  <1>1. ASSUME Dispatch(o) PROVE DaemonTypeOK'
    <2>1. task' \in [Op -> TaskState] /\ wire' \in [Op -> Nat]
      BY <1>0, <1>1 DEF Dispatch, DaemonTypeOK, TaskState, TaskPc, ResultStatus, Terminal
    <2> QED
      BY <1>0, <1>1, <2>1 DEF Dispatch, DaemonTypeOK
  <1>2. ASSUME Handle(o) PROVE DaemonTypeOK'
    <2>1. wire' \in [Op -> Nat]
      BY <1>0, <1>2 DEF Handle, DaemonTypeOK
    <2>2. PICK reply \in ResultStatus \cup {"refused"} :
              task' \in {task,
                IF task[o].pc = "sent"
                THEN [task EXCEPT ![o] = [pc |-> "settle",
                        res |-> IF reply = "refused" THEN "failed" ELSE reply]]
                ELSE task}
      BY <1>2 DEF Handle
    <2>3. (IF reply = "refused" THEN "failed" ELSE reply) \in ResultStatus
      BY DEF ResultStatus, Terminal
    <2>4. task' \in [Op -> TaskState]
      BY <1>0, <2>2, <2>3 DEF DaemonTypeOK, TaskState, TaskPc
    <2> QED
      BY <1>0, <1>2, <2>1, <2>4 DEF Handle, DaemonTypeOK
  <1>3. ASSUME ReplyTimeout(o) PROVE DaemonTypeOK'
    <2>1. task' \in [Op -> TaskState]
      BY <1>0, <1>3 DEF ReplyTimeout, DaemonTypeOK, TaskState, TaskPc
    <2> QED
      BY <1>0, <1>3, <2>1 DEF ReplyTimeout, DaemonTypeOK
  <1>4. ASSUME QueryAfterTimeout(o) PROVE DaemonTypeOK'
    <2>1. PICK status \in ResultStatus :
              task' = [task EXCEPT ![o] = [pc |-> "settle", res |-> status]]
      BY <1>4, ReplyType DEF QueryAfterTimeout
    <2>2. task' \in [Op -> TaskState]
      BY <1>0, <2>1 DEF DaemonTypeOK, TaskState, TaskPc
    <2> QED
      BY <1>0, <1>4, <2>2 DEF QueryAfterTimeout, DaemonTypeOK
  <1>5. ASSUME NEW ok \in BOOLEAN, persist_settlement(o, ok) PROVE DaemonTypeOK'
    <2>1. CASE mem[o] \in Terminal
      <3>1. task' \in [Op -> TaskState]
        BY <1>0, <1>5, <2>1 DEF persist_settlement, DaemonTypeOK, TaskState, TaskPc, ResultStatus
      <3> QED
        BY <1>0, <1>5, <2>1, <3>1 DEF persist_settlement, DaemonTypeOK
    <2>2. CASE mem[o] \notin Terminal
      <3>1. task' \in [Op -> TaskState]
        BY <1>0, <1>5, <2>2 DEF persist_settlement, DaemonTypeOK, TaskState, TaskPc
      <3>2. /\ SettleInStore(o, operation_state(task[o].res), ok)
            /\ operation_state(task[o].res) \in OperationState
        BY <1>5, <2>2, OperationStateType DEF persist_settlement
      <3> QED
        BY <1>0, <1>5, <3>1, <3>2, SettleType DEF persist_settlement, DaemonTypeOK
    <2> QED
      BY <2>1, <2>2
  <1>6. ASSUME Resend(o) PROVE DaemonTypeOK'
    <2>1. faults' \in 0..MaxFaults /\ wire' \in [Op -> Nat]
      BY <1>0, <1>6, ExecutionBounds DEF Resend, Fault, DaemonTypeOK
    <2> QED
      BY <1>0, <1>6, <2>1 DEF Resend, DaemonTypeOK
  <1> QED
    BY <1>1, <1>2, <1>3, <1>4, <1>5, <1>6 DEF TaskStep

\* The reconciliation pass, a crash and a start of the daemon, and a restart of
\* the WM keep the types.
LEMMA RestartTypes ==
    ASSUME TypeOK
    PROVE  /\ Reconcile => DaemonTypeOK'
           /\ DaemonCrash => DaemonTypeOK'
           /\ DaemonStart => DaemonTypeOK'
           /\ WindowManagerRestart => TypeOK'
  <1>0. DaemonTypeOK
    BY DEF TypeOK
  <1>1. ASSUME NEW o \in Op, ReconcileQuery(o) PROVE DaemonTypeOK'
    <2>1. recon' \in PassState
      BY <1>1, ReplyType DEF ReconcileQuery, PassState
    <2> QED
      BY <1>0, <1>1, <2>1 DEF ReconcileQuery, DaemonTypeOK
  <1>2. ASSUME NEW ok \in BOOLEAN, ReconcileApply(ok) PROVE DaemonTypeOK'
    <2>1. recon.op \in Op
      BY <1>0, <1>2 DEF ReconcileApply, DaemonTypeOK, PassState
    <2>2. CASE mem[recon.op] \in Terminal \cup {"absent", operation_state(recon.receipt)}
      BY <1>0, <1>2, <2>2, RestTypes DEF ReconcileApply, DaemonTypeOK
    <2>3. CASE mem[recon.op] \notin Terminal \cup {"absent", operation_state(recon.receipt)}
      <3>1. /\ SettleInStore(recon.op, operation_state(recon.receipt), ok)
            /\ operation_state(recon.receipt) \in OperationState
        BY <1>2, <2>3, OperationStateType DEF ReconcileApply
      <3> QED
        BY <1>0, <1>2, <2>1, <3>1, SettleType, RestTypes DEF ReconcileApply, DaemonTypeOK
    <2> QED
      BY <2>2, <2>3
  <1>3. ASSUME DaemonCrash PROVE DaemonTypeOK'
    <2>1. faults' \in 0..MaxFaults /\ task' \in [Op -> TaskState]
      BY <1>0, <1>3, ExecutionBounds, RestTypes DEF DaemonCrash, Fault, DaemonTypeOK
    <2> QED
      BY <1>0, <1>3, <2>1, RestTypes DEF DaemonCrash, DaemonTypeOK
  <1>4. ASSUME DaemonStart PROVE DaemonTypeOK'
    BY <1>0, <1>4, LedgerTypes DEF DaemonStart, DaemonTypeOK
  <1>5. ASSUME WindowManagerRestart PROVE TypeOK'
    <2>1. faults' \in 0..MaxFaults /\ wire' \in [Op -> Nat]
      BY <1>0, <1>5, ExecutionBounds DEF WindowManagerRestart, Fault, DaemonTypeOK
    <2>2. DaemonTypeOK'
      BY <1>0, <1>5, <2>1 DEF WindowManagerRestart, DaemonTypeOK
    <2>3. DeskTypeOK'
      BY <1>5, CardType, DeskBounds
         DEF WindowManagerRestart, WmRestart, TypeOK, DeskTypeOK, TableEntry
    <2> QED
      BY <2>2, <2>3 DEF TypeOK
  <1> QED
    BY <1>1, <1>2, <1>3, <1>4, <1>5 DEF Reconcile

\* What each step does to the WM's variables.
LEMMA DeskEffect ==
    ASSUME TypeOK, Next
    PROVE  \/ UNCHANGED deskVars
           \/ DeskStep /\ UNCHANGED daemonVars
           \/ eva_cancel /\ UNCHANGED sealed
           \/ \E o \in Op : Freeze(o) /\ PostConfirmation(PlanOf[o])
           \/ \E o \in Op : \E reply :
                 /\ wire[o] > 0 /\ UNCHANGED sealed
                 /\ eva_guarded_execute(o, sealed[PlanOf[o]], reply)
           \/ WmRestart /\ UNCHANGED sealed
  <1>1. CASE DeskStep /\ UNCHANGED daemonVars
    BY <1>1
  <1>2. CASE ExecutorStep
    BY <1>2 DEF ExecutorStep, Freeze, ReadToken, Prepare, RecordIntent, IntentFailed,
                DeadlineAfterIntent, SpawnDispatch, AwaitTask, settle_level_control,
                RecordStep, DropExecutor, LateRecord
  <1>3. ASSUME NEW o \in Op, TaskStep(o)
        PROVE  \/ UNCHANGED deskVars
               \/ \E reply : /\ wire[o] > 0 /\ UNCHANGED sealed
                             /\ eva_guarded_execute(o, sealed[PlanOf[o]], reply)
    BY <1>3 DEF TaskStep, Dispatch, Handle, ReplyTimeout, QueryAfterTimeout,
                persist_settlement, Resend
  <1>4. CASE Reconcile \/ DaemonCrash
    BY <1>4 DEF Reconcile, ReconcileQuery, ReconcileApply, DaemonCrash
  <1>5. CASE DaemonStart
    BY <1>5 DEF DaemonStart
  <1>6. CASE WindowManagerRestart
    BY <1>6 DEF WindowManagerRestart
  <1> QED
    BY <1>1, <1>2, <1>3, <1>4, <1>5, <1>6 DEF Next

\* Every step keeps every variable's type.
LEMMA NextType == ASSUME TypeOK, Next PROVE TypeOK'
  <1>1. DeskTypeOK'
    <2>1. DeskTypeOK
      BY DEF TypeOK
    <2>2. CASE UNCHANGED deskVars
      BY <2>1, <2>2 DEF deskVars, DeskTypeOK
    <2>3. CASE eva_cancel
      BY <2>1, <2>3, CardType DEF eva_cancel, DeskTypeOK
    <2>4. CASE WmRestart
      BY <2>1, <2>4, CardType, DeskBounds DEF WmRestart, DeskTypeOK, TableEntry
    <2> QED
      BY <2>1, <2>2, <2>3, <2>4, DeskEffect, DeskStepType, PostConfirmationType,
         GuardedExecuteType, OpFacts
  <1>2. DaemonTypeOK'
    <2>1. CASE UNCHANGED daemonVars
      BY <2>1 DEF TypeOK, DaemonTypeOK, daemonVars
    <2>2. CASE ExecutorStep
      BY <2>2, StartTypes, IntentTypes, FinishTypes DEF ExecutorStep
    <2> QED
      BY <2>1, <2>2, TaskTypes, RestartTypes DEF Next, TypeOK
  <1> QED
    BY <1>1, <1>2 DEF TypeOK

\* Type correctness of the daemon and the WM together: in particular a failed
\* save, a crash or a late closure never leaves a value in ledger, file or table
\* that is not one of their states.
THEOREM TypeCorrect == Spec => []TypeOK
  <1>1. Init => TypeOK
    BY DeskInitType, DaemonInitType DEF Init, TypeOK
  <1>2. TypeOK /\ [Next]_vars => TypeOK'
    <2> SUFFICES ASSUME TypeOK, [Next]_vars PROVE TypeOK'
      OBVIOUS
    <2>1. CASE UNCHANGED vars
      BY <2>1 DEF vars, deskVars, daemonVars, TypeOK, DeskTypeOK, DaemonTypeOK
    <2> QED
      BY <2>1, NextType
  <1> QED
    BY <1>1, <1>2, PTL DEF Spec

-----------------------------------------------------------------------------
(* At most once: an operation that was started is held by the table of the WM  *)
(* process its plan was sealed for, or that process is gone.                   *)

SealOf(o) == sealed[PlanOf[o]]

Reserved(o) ==
    /\ SealOf(o).instance <= instance
    /\ performed[o] > 0 =>
          /\ SealOf(o).instance # 0
          /\ \/ o \in retired
             \/ table[o] # "absent"
             \/ SealOf(o).instance < instance
    /\ performed[o] > 1 => o \in retired

AtMostOnceInv == \A o \in Op : Reserved(o)

\* A seal's instance is set once, to the process that is running.
LEMMA SealEffect ==
    ASSUME TypeOK, Next, NEW o \in Op
    PROVE  \/ SealOf(o)'.instance = SealOf(o).instance
           \/ /\ SealOf(o).instance = 0
              /\ SealOf(o)'.instance = instance
              /\ UNCHANGED <<instance, performed, table, retired>>
  <1>0. PlanOf[o] \in Plan /\ SealOf(o) \in [instance : Nat, permit : Nat, token : Nat]
    BY OpFacts DEF TypeOK, DaemonTypeOK, SealOf
  <1>1. CASE UNCHANGED sealed
    BY <1>1 DEF SealOf
  <1>2. ASSUME NEW q \in Op, Freeze(q) PROVE
           \/ SealOf(o)'.instance = SealOf(o).instance
           \/ /\ SealOf(o).instance = 0
              /\ SealOf(o)'.instance = instance
              /\ UNCHANGED <<instance, performed, table, retired>>
    BY <1>0, <1>2, OpFacts
       DEF Freeze, SealOf, NotSealed, PostConfirmation, deskVars, TypeOK, DaemonTypeOK
  <1>3. CASE ReadToken
    <2>1. PlanOf[exec.op] \in Plan
      BY <1>3, ExecOp DEF ReadToken, TypeOK
    <2> QED
      BY <1>0, <1>3, <2>1 DEF ReadToken, SealOf, TypeOK, DaemonTypeOK
  <1>4. CASE ExecutorStep
    BY <1>1, <1>2, <1>3, <1>4
       DEF ExecutorStep, Prepare, RecordIntent, IntentFailed, DeadlineAfterIntent,
           SpawnDispatch, AwaitTask, settle_level_control, RecordStep, DropExecutor,
           LateRecord
  <1>5. ASSUME NEW q \in Op, TaskStep(q) PROVE UNCHANGED sealed
    BY <1>5 DEF TaskStep, Dispatch, Handle, ReplyTimeout, QueryAfterTimeout,
                persist_settlement, Resend
  <1>6. CASE Reconcile \/ DaemonCrash \/ DaemonStart \/ WindowManagerRestart
    BY <1>1, <1>6 DEF Reconcile, ReconcileQuery, ReconcileApply, DaemonCrash,
                      DaemonStart, WindowManagerRestart
  <1>7. CASE UNCHANGED daemonVars
    BY <1>1, <1>7 DEF daemonVars
  <1> QED
    BY <1>1, <1>4, <1>5, <1>6, <1>7 DEF Next

\* What each step does to the start of one operation.
LEMMA StartEffect ==
    ASSUME TypeOK, Next, NEW o \in Op
    PROVE  \/ /\ performed'[o] = performed[o] /\ instance' >= instance
              /\ \/ table'[o] = table[o]
                 \/ table[o] # "absent" /\ table'[o] # "absent"
                 \/ o \in retired'
                 \/ instance' > instance
              /\ retired \subseteq retired'
           \/ /\ performed'[o] = performed[o] + 1
              /\ table[o] = "absent" /\ table'[o] # "absent"
              /\ SealOf(o).instance = instance
              /\ UNCHANGED <<instance, retired, sealed>>
  <1> DEFINE Kept == /\ performed'[o] = performed[o] /\ instance' >= instance
                     /\ \/ table'[o] = table[o]
                        \/ table[o] # "absent" /\ table'[o] # "absent"
                        \/ o \in retired'
                        \/ instance' > instance
                     /\ retired \subseteq retired'
             Started == /\ performed'[o] = performed[o] + 1
                        /\ table[o] = "absent" /\ table'[o] # "absent"
                        /\ SealOf(o).instance = instance
                        /\ UNCHANGED <<instance, retired, sealed>>
  <1>0. /\ instance \in Nat /\ performed \in [Op -> Nat] /\ table \in [Op -> TableEntry]
        /\ retired \subseteq Op
    BY DEF TypeOK, DeskTypeOK
  <1>1. ASSUME UNCHANGED <<instance, performed, table, retired>> PROVE Kept
    BY <1>0, <1>1
  <1>2. ASSUME DeskStep PROVE Kept
    <2>1. CASE eva_activate \/ eva_cancel \/ eva_confirm \/ ConfirmationExpires
      BY <1>1, <2>1 DEF eva_activate, eva_cancel, eva_confirm, ConfirmationExpires
    <2>2. ASSUME NEW q \in Op, Complete(q) \/ CompletionOverdue(q) \/ Retire(q) PROVE Kept
      BY <1>0, <2>2 DEF Complete, CompletionOverdue, Retire, DeskTerminal
    <2> QED
      BY <1>2, <2>1, <2>2 DEF DeskStep
  <1>3. ASSUME NEW q \in Op, NEW reply, UNCHANGED sealed,
               eva_guarded_execute(q, sealed[PlanOf[q]], reply)
        PROVE  Kept \/ Started
    <2>1. CASE UNCHANGED deskVars
      BY <1>1, <2>1 DEF deskVars
    <2>2. CASE /\ sealed[PlanOf[q]].instance = instance
               /\ table[q] = "absent"
               /\ reply \in {"succeeded", "failed", "accepted"}
               /\ Perform(q, reply)
      BY <1>0, <1>3, <2>2 DEF Perform, SealOf
    <2> QED
      BY <1>3, <2>1, <2>2 DEF eva_guarded_execute
  <1>4. ASSUME WmRestart PROVE Kept
    BY <1>0, <1>4 DEF WmRestart
  <1>5. ASSUME NEW q \in Op, PostConfirmation(PlanOf[q]) PROVE Kept
    BY <1>1, <1>5 DEF PostConfirmation
  <1>6. ASSUME UNCHANGED deskVars \/ eva_cancel PROVE Kept
    BY <1>1, <1>6 DEF deskVars, eva_cancel
  <1> HIDE DEF Kept, Started
  <1>7. Kept \/ Started
    BY <1>2, <1>3, <1>4, <1>5, <1>6, DeskEffect
  <1> QED
    BY <1>7 DEF Kept, Started

\* A request can be lost, late, repeated or left over from a dead daemon or WM;
\* the desktop starts its operation once at most, until the final result has
\* left the table.
THEOREM ExecutesAtMostOnce == Spec => []AtMostOnce
  <1>1. Init => AtMostOnceInv
    BY OpFacts DEF Init, DeskInit, AtMostOnceInv, Reserved, SealOf, NotSealed
  <1>2. TypeOK /\ AtMostOnceInv /\ [Next]_vars => AtMostOnceInv'
    <2> SUFFICES ASSUME TypeOK, AtMostOnceInv, [Next]_vars, NEW o \in Op
                 PROVE  Reserved(o)'
      BY DEF AtMostOnceInv
    <2>0. Reserved(o)
      BY DEF AtMostOnceInv
    <2>1. CASE UNCHANGED vars
      BY <2>0, <2>1 DEF vars, deskVars, daemonVars, Reserved, SealOf
    <2>2. CASE Next
      <3>1. /\ instance \in Nat \ {0} /\ performed[o] \in Nat /\ SealOf(o).instance \in Nat
        BY OpFacts DEF TypeOK, DeskTypeOK, DaemonTypeOK, SealOf
      <3>2. TypeOK'
        BY <2>2, NextType
      <3>3. instance' \in Nat \ {0} /\ SealOf(o)'.instance \in Nat
        BY <3>2, OpFacts DEF TypeOK, DeskTypeOK, DaemonTypeOK, SealOf
      <3>4. CASE SealOf(o)'.instance = SealOf(o).instance
        BY <2>0, <2>2, <3>1, <3>3, <3>4, StartEffect DEF Reserved
      <3>5. CASE /\ SealOf(o).instance = 0
                 /\ SealOf(o)'.instance = instance
                 /\ UNCHANGED <<instance, performed, table, retired>>
        BY <2>0, <3>1, <3>5 DEF Reserved
      <3> QED
        BY <2>2, <3>4, <3>5, SealEffect
    <2> QED
      BY <2>1, <2>2
  <1>3. AtMostOnceInv => AtMostOnce
    BY DEF AtMostOnceInv, AtMostOnce, Reserved
  <1> QED
    BY <1>1, <1>2, <1>3, TypeCorrect, PTL DEF Spec

-----------------------------------------------------------------------------
(* Once per approval: a card that still authorizes a step holds an approval    *)
(* that the step has not used.                                                 *)

Authorized(o) ==
    /\ confirmation.approved
    /\ confirmation.plan = PlanOf[o]
    /\ o \notin confirmation.used

ApprovalInv ==
    \A o \in Sensitive :
        /\ performed[o] <= approvals[PlanOf[o]]
        /\ Authorized(o) => performed[o] < approvals[PlanOf[o]]

\* The WM's own steps keep the balance of approvals.
LEMMA ApprovalDeskStep == ASSUME DeskTypeOK, ApprovalInv, DeskStep PROVE ApprovalInv'
  <1>0. /\ \A o \in Sensitive : o \in Op /\ PlanOf[o] \in Plan /\ PlanOf[o] # 0
        /\ performed \in [Op -> Nat] /\ approvals \in [Plan -> Nat]
    BY OpFacts DEF DeskTypeOK
  <1>1. CASE eva_activate \/ eva_cancel
    BY <1>0, <1>1 DEF ApprovalInv, Authorized, eva_activate, eva_cancel, NoConfirmation
  <1>2. CASE eva_confirm
    <2>1. confirmation.plan \in Plan
      BY <1>2 DEF DeskTypeOK, Card, eva_confirm
    <2> SUFFICES ASSUME NEW o \in Sensitive
                 PROVE  /\ performed'[o] <= approvals'[PlanOf[o]]
                        /\ confirmation'.plan = PlanOf[o] =>
                              performed'[o] < approvals'[PlanOf[o]]
      BY DEF ApprovalInv, Authorized
    <2>2. performed[o] <= approvals[PlanOf[o]] /\ performed[o] \in Nat
          /\ approvals[PlanOf[o]] \in Nat
      BY <1>0 DEF ApprovalInv
    <2>3. confirmation'.plan = confirmation.plan /\ performed' = performed
      BY <1>2 DEF eva_confirm, DeskTypeOK, Card
    <2>4. approvals' = [approvals EXCEPT ![confirmation.plan] = @ + 1]
      BY <1>2 DEF eva_confirm
    <2> QED
      BY <1>0, <2>1, <2>2, <2>3, <2>4
  <1>3. CASE ConfirmationExpires
    <2>1. ~confirmation'.approved
      BY <1>3 DEF ConfirmationExpires, DeskTypeOK, Card
    <2> QED
      BY <1>3, <2>1 DEF ConfirmationExpires, ApprovalInv, Authorized
  <1>4. ASSUME NEW q \in Op, Complete(q) \/ CompletionOverdue(q) \/ Retire(q)
        PROVE  ApprovalInv'
    BY <1>4 DEF Complete, CompletionOverdue, Retire, ApprovalInv, Authorized
  <1> QED
    BY <1>1, <1>2, <1>3, <1>4 DEF DeskStep

\* Performing an operation uses up what authorized it.
LEMMA ApprovalPerform ==
    ASSUME DeskTypeOK, ApprovalInv, NEW q \in Op, NEW request, NEW reply,
           eva_guarded_execute(q, request, reply)
    PROVE  ApprovalInv'
  <1>0. /\ \A o \in Sensitive : o \in Op /\ PlanOf[o] \in Plan
        /\ performed \in [Op -> Nat] /\ approvals \in [Plan -> Nat]
    BY OpFacts DEF DeskTypeOK
  <1>1. CASE UNCHANGED deskVars
    BY <1>1 DEF deskVars, ApprovalInv, Authorized
  <1>2. CASE Admissible(q, request) /\ Perform(q, reply)
    <2>1. CASE q \in Sensitive
      <3>1. Authorized(q)
        BY <1>2, <2>1 DEF Admissible, Confirmed, Authorized
      <3>2. /\ confirmation'.used = confirmation.used \cup {q}
            /\ confirmation'.plan = confirmation.plan
            /\ confirmation'.approved = confirmation.approved
        BY <1>2, <2>1 DEF Perform, DeskTypeOK, Card
      <3>3. approvals' = approvals /\ performed' = [performed EXCEPT ![q] = @ + 1]
        BY <1>2 DEF Perform
      <3> QED
        BY <1>0, <3>1, <3>2, <3>3 DEF ApprovalInv, Authorized
    <2>2. CASE q \notin Sensitive
      BY <1>0, <1>2, <2>2 DEF Perform, ApprovalInv, Authorized
    <2> QED
      BY <2>1, <2>2
  <1> QED
    BY <1>1, <1>2 DEF eva_guarded_execute

\* No reordering of confirmations, expiries, resends and retirements performs a
\* sensitive step more often than the user approved its plan at the keyboard.
THEOREM ApprovedOnce == Spec => []OncePerApproval
  <1>1. Init => ApprovalInv
    BY OpFacts DEF Init, DeskInit, ApprovalInv, Authorized, NoConfirmation
  <1>2. TypeOK /\ ApprovalInv /\ [Next]_vars => ApprovalInv'
    <2> SUFFICES ASSUME TypeOK, ApprovalInv, [Next]_vars PROVE ApprovalInv'
      OBVIOUS
    <2>0. DeskTypeOK
      BY DEF TypeOK
    <2>1. CASE UNCHANGED deskVars
      BY <2>1 DEF deskVars, ApprovalInv, Authorized
    <2>2. CASE eva_cancel \/ WmRestart
      BY <2>2 DEF eva_cancel, WmRestart, ApprovalInv, Authorized, NoConfirmation
    <2>3. ASSUME NEW p \in Plan, PostConfirmation(p) PROVE ApprovalInv'
      <3>1. CASE confirmation.plan = p
        BY <2>3, <3>1 DEF PostConfirmation, ApprovalInv, Authorized
      <3>2. CASE confirmation.plan # p
        BY <2>3, <3>2 DEF PostConfirmation, ApprovalInv, Authorized
      <3> QED
        BY <3>1, <3>2
    <2> QED
      BY <2>0, <2>1, <2>2, <2>3, DeskEffect, ApprovalDeskStep, ApprovalPerform, OpFacts
         DEF vars
  <1>3. ApprovalInv => OncePerApproval
    BY DEF ApprovalInv, OncePerApproval
  <1> QED
    BY <1>1, <1>2, <1>3, TypeCorrect, PTL DEF Spec

-----------------------------------------------------------------------------
(* The store: ledger and file *)

\* How a step may change the record of operation o in ledger and file: retention
\* drops it, a start reloads it, or it keeps its record and any final result and
\* the file takes it over or not.
Evolves(o) ==
    \/ o \in pruned'
    \/ mem'[o] = recover(disk)[o] /\ disk'[o] = mem'[o]
    \/ /\ mem[o] # "absent" => mem'[o] # "absent"
       /\ mem[o] \in Terminal => mem'[o] = mem[o]
       /\ disk'[o] \in {disk[o], mem'[o]}

\* An operation whose intent is in the file, or has been retained long enough.
Durable(o) == disk[o] # "absent" \/ o \in pruned

\* An operation whose final result v both ledger and file hold.
Final(o, v) == mem[o] = v /\ disk[o] = v

\* Requests of o are on their way, or may be.
InFlight(o) ==
    \/ performed[o] > 0 \/ wire[o] > 0 \/ o \in lost
    \/ task[o].pc \in {"spawned", "sent"}

WriteAheadInv ==
    \A o \in Op :
        /\ disk[o] # "absent" => mem[o] # "absent" \/ o \in pruned
        /\ InFlight(o) \/ (exec.pc = "gate" /\ exec.op = o) => Durable(o)

PublishedInv ==
    \A o \in Op : published[o] # "none" => Final(o, published[o]) \/ o \in pruned

OrderInv ==
    \A o, q \in Op :
        (PlanOf[o] = PlanOf[q] /\ o < q /\ (exec.op = q \/ InFlight(q))) =>
            Final(o, "succeeded") \/ o \in pruned

\* record_result replaces nothing that is final and forgets nothing.
LEMMA RecordResultKeeps ==
    ASSUME NEW ops \in [Op -> Entry], NEW q \in Op, NEW state \in OperationState,
           NEW o \in Op
    PROVE  LET after == record_result(ops, q, state) IN
           /\ ops[o] # "absent" => after[o] # "absent"
           /\ ops[o] \in Terminal => after[o] = ops[o]
  BY DEF record_result, ResultAllowed, Entry, OperationState, Terminal

\* The announcement of o, if a step makes one, is of a result just saved.
Announces(o) ==
    \/ published'[o] = published[o]
    \/ published'[o] # "none" /\ mem'[o] = published'[o] /\ disk'[o] = published'[o]

\* A settlement lets every record evolve as it may.
LEMMA SettleEffect ==
    ASSUME DaemonTypeOK, NEW q \in Op, NEW state \in OperationState,
           NEW ok \in BOOLEAN, SettleInStore(q, state, ok), NEW o \in Op
    PROVE  Evolves(o) /\ Announces(o)
  <1> DEFINE after == record_result(mem, q, state)
  <1>0. mem \in [Op -> Entry] /\ published \in [Op -> Terminal \cup {"none"}]
    BY DEF DaemonTypeOK
  <1>1. mem' = after
    BY DEF SettleInStore
  <1>2. /\ mem[o] # "absent" => mem'[o] # "absent"
        /\ mem[o] \in Terminal => mem'[o] = mem[o]
    BY <1>0, <1>1, RecordResultKeeps
  <1> HIDE DEF after
  <1>3. disk' \in {disk, after}
    BY DEF SettleInStore, Save, after
  <1>4. Evolves(o)
    BY <1>1, <1>2, <1>3 DEF Evolves
  <1>5. \/ published' = published
        \/ disk' = after /\ publish_settlement(q, after)
    BY DEF SettleInStore, Save, after
  <1>6. Announces(o)
    BY <1>0, <1>1, <1>5 DEF publish_settlement, Announces, Terminal
  <1> QED
    BY <1>4, <1>6

\* Every step lets every record evolve as it may; retention never takes back.
LEMMA StoreEffect ==
    ASSUME TypeOK, Next, NEW o \in Op
    PROVE  Evolves(o) /\ Announces(o) /\ pruned \subseteq pruned'
  <1>0. DaemonTypeOK /\ mem \in [Op -> Entry] /\ disk \in [Op -> Entry]
    BY DEF TypeOK, DaemonTypeOK
  <1> DEFINE Goal == Evolves(o) /\ Announces(o) /\ pruned \subseteq pruned'
  <1>1. ASSUME UNCHANGED <<mem, disk, published, pruned>> PROVE Goal
    BY <1>1 DEF Evolves, Announces
  <1>2. ASSUME NEW q \in Op, NEW state \in OperationState, NEW ok \in BOOLEAN,
               SettleInStore(q, state, ok), UNCHANGED pruned
        PROVE  Goal
    BY <1>0, <1>2, SettleEffect
  <1>3. ASSUME NEW q \in Op, NEW state \in OperationState,
               mem' = record_result(mem, q, state), UNCHANGED <<disk, published, pruned>>
        PROVE  Goal
    BY <1>0, <1>3, RecordResultKeeps DEF Evolves, Announces
  <1>4. ASSUME NEW old \in SUBSET Op, NEW ok \in BOOLEAN, RecordIntent(old, ok)
        PROVE  Goal
    <2> DEFINE kept == prune_terminal(mem, old)
               after == record_intent(kept, exec.op)
    <2>1. exec.op \in Op
      BY <1>0, <1>4, ExecOp DEF RecordIntent
    <2>2. kept \in [Op -> Entry] /\ after \in [Op -> Entry]
      BY <1>0, <2>1, LedgerTypes
    <2>3. o \in old => o \in pruned'
      BY <1>4 DEF RecordIntent
    <2>4. o \notin old => kept[o] = mem[o]
      BY <1>0 DEF prune_terminal
    <2>5. pruned \subseteq pruned' /\ Announces(o)
      BY <1>4 DEF RecordIntent, Announces
    <2>6. CASE IntentAllowed(kept, exec.op, LedgerCapacity)
      <3>1. mem' = after /\ disk' \in {disk, after}
        BY <1>4, <2>6 DEF RecordIntent, Save
      <3>2. kept[exec.op] = "absent"
        BY <2>6 DEF IntentAllowed
      <3>3. after[o] = IF o = exec.op THEN "dispatched" ELSE kept[o]
        BY <2>1, <2>2 DEF record_intent
      <3> HIDE DEF kept, after
      <3> QED
        BY <2>1, <2>3, <2>4, <2>5, <3>1, <3>2, <3>3 DEF Evolves, Terminal
    <2>7. CASE ~IntentAllowed(kept, exec.op, LedgerCapacity)
      <3>1. mem' = kept /\ disk' = disk
        BY <1>4, <2>7 DEF RecordIntent
      <3> QED
        BY <2>3, <2>4, <2>5, <3>1 DEF Evolves
    <2> QED
      BY <2>6, <2>7
  <1>5. ASSUME DaemonStart PROVE Goal
    BY <1>5 DEF DaemonStart, Evolves, Announces
  <1>6. ASSUME IntentFailed PROVE Goal
    <2>1. exec.op \in Op /\ "failed" \in OperationState
      BY <1>0, <1>6, ExecOp DEF IntentFailed, OperationState, Terminal
    <2> QED
      BY <1>3, <1>6, <2>1 DEF IntentFailed
  <1>7. ASSUME NEW ok \in BOOLEAN, DeadlineAfterIntent(ok) PROVE Goal
    <2>1. exec.op \in Op /\ "cancelled" \in OperationState
      BY <1>0, <1>7, ExecOp DEF DeadlineAfterIntent, OperationState, Terminal
    <2> QED
      BY <1>2, <1>7, <2>1 DEF DeadlineAfterIntent
  <1>8. ASSUME NEW ok \in BOOLEAN, RecordStep(ok) PROVE Goal
    <2>1. exec.op \in Op /\ operation_state(exec.res) \in OperationState
      BY <1>0, <1>8, ExecOp DEF RecordStep
    <2> QED
      BY <1>2, <1>8, <2>1 DEF RecordStep
  <1>9. ASSUME NEW entry \in late, NEW ok \in BOOLEAN, LateRecord(entry, ok) PROVE Goal
    <2>1. entry.op \in Op /\ entry.state \in OperationState
      BY <1>0 DEF DaemonTypeOK, Closure, ResultStatus, OperationState
    <2>2. CASE entry.saved
      <3>1. SettleInStore(entry.op, entry.state, ok) /\ UNCHANGED pruned
        BY <1>9, <2>2 DEF LateRecord
      <3> QED
        BY <1>2, <2>1, <3>1
    <2>3. CASE ~entry.saved
      <3>1. /\ mem' = record_result(mem, entry.op, entry.state)
            /\ UNCHANGED <<disk, published, pruned>>
        BY <1>9, <2>3 DEF LateRecord
      <3> QED
        BY <1>3, <2>1, <3>1
    <2> QED
      BY <2>2, <2>3
  <1>10. ASSUME NEW q \in Op, NEW ok \in BOOLEAN, persist_settlement(q, ok) PROVE Goal
    <2>1. operation_state(task[q].res) \in OperationState
      BY OperationStateType
    <2> QED
      BY <1>1, <1>2, <1>10, <2>1 DEF persist_settlement
  <1>11. ASSUME NEW ok \in BOOLEAN, ReconcileApply(ok) PROVE Goal
    <2>1. recon.op \in Op /\ operation_state(recon.receipt) \in OperationState
      BY <1>0, <1>11, OperationStateType DEF ReconcileApply, DaemonTypeOK, PassState
    <2> QED
      BY <1>1, <1>2, <1>11, <2>1 DEF ReconcileApply
  <1> HIDE DEF Goal
  <1>12. ASSUME ExecutorStep PROVE Goal
    BY <1>1, <1>4, <1>6, <1>7, <1>8, <1>9, <1>12
       DEF ExecutorStep, Freeze, ReadToken, Prepare, SpawnDispatch, AwaitTask,
           settle_level_control, DropExecutor
  <1>13. ASSUME NEW q \in Op, TaskStep(q) PROVE Goal
    BY <1>1, <1>10, <1>13
       DEF TaskStep, Dispatch, Handle, ReplyTimeout, QueryAfterTimeout, Resend
  <1>14. ASSUME Reconcile \/ DaemonCrash \/ WindowManagerRestart PROVE Goal
    BY <1>1, <1>11, <1>14
       DEF Reconcile, ReconcileQuery, DaemonCrash, WindowManagerRestart
  <1>15. ASSUME UNCHANGED daemonVars PROVE Goal
    BY <1>1, <1>15 DEF daemonVars
  <1>16. Goal
    BY <1>5, <1>12, <1>13, <1>14, <1>15 DEF Next
  <1> QED
    BY <1>16 DEF Goal

\* A final result that ledger and file hold stays until retention drops it.
LEMMA FinalKept ==
    ASSUME TypeOK, Next, NEW o \in Op, NEW v \in Terminal, Final(o, v) \/ o \in pruned
    PROVE  Final(o, v)' \/ o \in pruned'
  <1>1. disk \in [Op -> Entry]
    BY DEF TypeOK, DaemonTypeOK
  <1>2. disk[o] \in Terminal => recover(disk)[o] = disk[o]
    BY <1>1 DEF recover, Terminal
  <1> QED
    BY <1>2, StoreEffect DEF Final, Evolves

\* An outcome announced to the companion survives crashes, restarts, failed saves
\* and late results: it stays in the file until retention drops it.
THEOREM AnnouncedIsDurable == Spec => []PublishedDurable
  <1>1. Init => PublishedInv
    BY DEF Init, PublishedInv
  <1>2. TypeOK /\ PublishedInv /\ [Next]_vars => PublishedInv'
    <2> SUFFICES ASSUME TypeOK, PublishedInv, [Next]_vars, NEW o \in Op,
                        published'[o] # "none"
                 PROVE  Final(o, published[o])' \/ o \in pruned'
      BY DEF PublishedInv
    <2>1. CASE UNCHANGED vars
      BY <2>1 DEF vars, daemonVars, PublishedInv, Final
    <2>2. CASE Next
      <3>1. Announces(o)
        BY <2>2, StoreEffect
      <3>2. CASE published'[o] = published[o]
        <4>1. published[o] \in Terminal
          BY <3>2 DEF TypeOK, DaemonTypeOK
        <4>2. Final(o, published[o]) \/ o \in pruned
          BY <3>2 DEF PublishedInv
        <4> DEFINE v == published[o]
        <4>3. (mem'[o] = v /\ disk'[o] = v) \/ o \in pruned'
          <5>1. (mem[o] = v /\ disk[o] = v) \/ o \in pruned
            BY <4>2 DEF Final
          <5>2. Evolves(o) /\ pruned \subseteq pruned'
            BY <2>2, StoreEffect
          <5>3. disk \in [Op -> Entry]
            BY DEF TypeOK, DaemonTypeOK
          <5>4. disk[o] \in Terminal => recover(disk)[o] = disk[o]
            BY <5>3 DEF recover, Terminal
          <5> QED
            BY <4>1, <5>1, <5>2, <5>4 DEF Evolves
        <4> QED
          BY <3>2, <4>3 DEF Final
      <3> QED
        BY <3>1, <3>2 DEF Announces, Final
    <2> QED
      BY <2>1, <2>2
  <1>3. PublishedInv => PublishedDurable
    BY DEF PublishedInv, PublishedDurable, Final
  <1> QED
    BY <1>1, <1>2, <1>3, TypeCorrect, PTL DEF Spec

\* Only an executor at the gate puts an operation in flight.
LEMMA FlightEffect ==
    ASSUME TypeOK, Next, NEW o \in Op, InFlight(o)'
    PROVE  InFlight(o) \/ (SpawnDispatch /\ exec.op = o)
  <1>0. /\ task \in [Op -> TaskState] /\ wire \in [Op -> Nat] /\ lost \subseteq Op
        /\ performed \in [Op -> Nat]
    BY DEF TypeOK, DaemonTypeOK, DeskTypeOK
  <1> DEFINE Goal == InFlight(o) \/ (SpawnDispatch /\ exec.op = o)
  <1>1. ASSUME UNCHANGED <<performed, wire, lost, task>> PROVE Goal
    BY <1>1 DEF InFlight
  <1>2. ASSUME DeskStep /\ UNCHANGED daemonVars PROVE Goal
    <2>1. UNCHANGED performed
      BY <1>2 DEF DeskStep, eva_activate, eva_cancel, eva_confirm, ConfirmationExpires,
                  Complete, CompletionOverdue, Retire
    <2> QED
      BY <1>1, <1>2, <2>1 DEF daemonVars
  <1>3. ASSUME SpawnDispatch PROVE Goal
    BY <1>0, <1>3 DEF SpawnDispatch, InFlight, deskVars
  <1>4. ASSUME NEW q \in Op, Dispatch(q) PROVE Goal
    BY <1>0, <1>4 DEF Dispatch, InFlight, deskVars, TaskState
  <1>5. ASSUME NEW q \in Op, Handle(q) PROVE Goal
    <2>1. PICK reply \in ResultStatus \cup {"refused"} :
              /\ eva_guarded_execute(q, sealed[PlanOf[q]], reply)
              /\ task' \in {task, IF task[q].pc = "sent"
                    THEN [task EXCEPT ![q] = [pc |-> "settle",
                            res |-> IF reply = "refused" THEN "failed" ELSE reply]]
                    ELSE task}
      BY <1>5 DEF Handle
    <2>2. /\ wire[q] > 0 /\ wire' = [wire EXCEPT ![q] = @ - 1] /\ lost' = lost
      BY <1>5 DEF Handle
    <2>3. performed' = performed \/ performed' = [performed EXCEPT ![q] = @ + 1]
      BY <2>1 DEF eva_guarded_execute, Perform, deskVars
    <2>4. task'[o].pc \in {"spawned", "sent"} => task[o].pc \in {"spawned", "sent"}
      BY <1>0, <2>1 DEF TaskState
    <2>5. CASE o = q
      BY <2>2, <2>5 DEF InFlight
    <2>6. CASE o # q
      BY <1>0, <2>2, <2>3, <2>4, <2>6 DEF InFlight
    <2> QED
      BY <2>5, <2>6
  <1>6. ASSUME NEW q \in Op,
               \/ ReplyTimeout(q) \/ QueryAfterTimeout(q)
               \/ \E ok \in BOOLEAN : persist_settlement(q, ok)
        PROVE  Goal
    <2>1. UNCHANGED <<performed, wire>>
      BY <1>6 DEF ReplyTimeout, QueryAfterTimeout, persist_settlement, deskVars
    <2>2. lost' = lost \/ (lost' = lost \cup {q} /\ task[q].pc = "sent")
      BY <1>6 DEF ReplyTimeout, QueryAfterTimeout, persist_settlement
    <2>3. task'[o].pc \in {"spawned", "sent"} => task[o].pc \in {"spawned", "sent"}
      BY <1>0, <1>6 DEF ReplyTimeout, QueryAfterTimeout, persist_settlement, TaskState
    <2> QED
      BY <2>1, <2>2, <2>3 DEF InFlight
  <1>7. ASSUME NEW q \in Op, Resend(q) PROVE Goal
    BY <1>0, <1>7 DEF Resend, InFlight, deskVars
  <1>8. ASSUME DaemonCrash PROVE Goal
    BY <1>0, <1>8 DEF DaemonCrash, InFlight, deskVars, NoTask
  <1>9. ASSUME DaemonStart PROVE Goal
    BY <1>1, <1>9 DEF DaemonStart, eva_cancel, deskVars
  <1>10. ASSUME WindowManagerRestart PROVE Goal
    BY <1>0, <1>10 DEF WindowManagerRestart, WmRestart, InFlight
  <1>11. ASSUME ExecutorStep PROVE Goal
    <2>1. ASSUME NEW q \in Op, Freeze(q) PROVE Goal
      BY <1>1, <2>1 DEF Freeze, PostConfirmation, deskVars
    <2> HIDE DEF Goal
    <2> QED
      BY <1>1, <1>3, <1>11, <2>1
         DEF ExecutorStep, ReadToken, Prepare, RecordIntent, IntentFailed,
             DeadlineAfterIntent, AwaitTask, settle_level_control, RecordStep,
             DropExecutor, LateRecord, deskVars
  <1>12. ASSUME Reconcile PROVE Goal
    BY <1>1, <1>12 DEF Reconcile, ReconcileQuery, ReconcileApply, deskVars
  <1> HIDE DEF Goal
  <1>13. Goal
    BY <1>2, <1>4, <1>5, <1>6, <1>7, <1>8, <1>9, <1>10, <1>11, <1>12 DEF Next, TaskStep
  <1> QED
    BY <1>13 DEF Goal

\* How the executor moves: it stays with its operation, ends, begins a plan at its
\* first step, or goes on after a saved success.
LEMMA ExecEffect ==
    ASSUME TypeOK, Next
    PROVE  \/ exec' = exec
           \/ exec' = Idle
           \/ \E q \in Op : /\ Freeze(q) /\ exec'.op = q
                            /\ exec'.pc \in {"confirm", "prepare"} /\ exec'.res = "none"
           \/ \E q \in Op : /\ RecordStep(TRUE) /\ exec.res = "succeeded" /\ IsNext(exec.op, q)
                            /\ exec' = [Idle EXCEPT !.pc = "prepare", !.op = q]
           \/ /\ exec.pc # "idle" /\ exec'.pc # "idle" /\ exec'.op = exec.op
              /\ exec'.pc \in {"prepare", "intent"} => exec.pc \in {"confirm", "prepare"}
              /\ exec'.pc # "confirm"
              /\ exec'.pc \in {"gate", "failing"} =>
                    \E old \in SUBSET Op :
                        RecordIntent(old, exec'.pc = "gate") /\ exec.pc = "intent"
              /\ \/ exec'.res = exec.res
                 \/ AwaitTask \/ settle_level_control
  <1>0. exec \in ExecState /\ (exec.pc = "idle" <=> exec.op = 0)
    BY DEF TypeOK, DaemonTypeOK
  <1>1. ASSUME NEW q \in Op, Freeze(q)
        PROVE  exec'.op = q /\ exec'.pc \in {"confirm", "prepare"} /\ exec'.res = "none"
    BY <1>1 DEF Freeze, Idle
  <1> DEFINE Moves == /\ exec.pc # "idle" /\ exec'.pc # "idle" /\ exec'.op = exec.op
                      /\ exec'.pc \in {"prepare", "intent"} => exec.pc \in {"confirm", "prepare"}
                      /\ exec'.pc # "confirm"
                      /\ exec'.pc \in {"gate", "failing"} =>
                            \E old \in SUBSET Op :
                                RecordIntent(old, exec'.pc = "gate") /\ exec.pc = "intent"
                      /\ \/ exec'.res = exec.res
                         \/ AwaitTask \/ settle_level_control
  <1>2. ASSUME ReadToken PROVE Moves
    BY <1>0, <1>2 DEF ReadToken, ExecState
  <1>3. ASSUME Prepare PROVE Moves \/ exec' = Idle
    BY <1>0, <1>3 DEF Prepare, ExecState
  <1>4. ASSUME NEW old \in SUBSET Op, NEW ok \in BOOLEAN, RecordIntent(old, ok) PROVE Moves
    <2>1. exec' = [exec EXCEPT !.pc = IF ok THEN "gate" ELSE "failing"] /\ exec.pc = "intent"
      BY <1>4 DEF RecordIntent
    <2>2. ok = (exec'.pc = "gate")
      BY <1>0, <2>1 DEF ExecState
    <2>3. RecordIntent(old, exec'.pc = "gate")
      BY <1>4, <2>2
    <2> QED
      BY <1>0, <2>1, <2>3 DEF ExecState
  <1>5. ASSUME SpawnDispatch PROVE Moves
    BY <1>0, <1>5 DEF SpawnDispatch, ExecState
  <1>6. ASSUME AwaitTask PROVE Moves
    BY <1>0, <1>6 DEF AwaitTask, ExecState
  <1>7. ASSUME settle_level_control PROVE Moves
    BY <1>0, <1>7 DEF settle_level_control, ExecState
  <1>8. ASSUME NEW ok \in BOOLEAN, RecordStep(ok)
        PROVE  \/ exec' = Idle
               \/ \E q \in Op : /\ RecordStep(TRUE) /\ exec.res = "succeeded"
                                /\ IsNext(exec.op, q)
                                /\ exec' = [Idle EXCEPT !.pc = "prepare", !.op = q]
    <2>1. CASE exec' = Idle
      BY <2>1
    <2>2. CASE /\ ok /\ exec.res = "succeeded"
               /\ \E q \in Op : /\ IsNext(exec.op, q)
                                /\ exec' = [Idle EXCEPT !.pc = "prepare", !.op = q]
      <3>1. ok = TRUE
        BY <2>2
      <3>2. RecordStep(TRUE)
        BY <1>8, <3>1
      <3> QED
        BY <2>2, <3>2
    <2> QED
      BY <1>8, <2>1, <2>2 DEF RecordStep
  <1> HIDE DEF Moves
  <1>9. ASSUME ExecutorStep
        PROVE  \/ exec' = exec \/ exec' = Idle \/ Moves
               \/ \E q \in Op : Freeze(q)
               \/ \E q \in Op : /\ RecordStep(TRUE) /\ exec.res = "succeeded"
                                /\ IsNext(exec.op, q)
                                /\ exec' = [Idle EXCEPT !.pc = "prepare", !.op = q]
    BY <1>2, <1>3, <1>4, <1>5, <1>6, <1>7, <1>8, <1>9
       DEF ExecutorStep, IntentFailed, DeadlineAfterIntent, DropExecutor, LateRecord
  <1>10. ASSUME NEW q \in Op, TaskStep(q) PROVE exec' = exec
    BY <1>10 DEF TaskStep, Dispatch, Handle, ReplyTimeout, QueryAfterTimeout,
                 persist_settlement, Resend
  <1>11. ASSUME \/ UNCHANGED daemonVars \/ Reconcile \/ DaemonCrash \/ DaemonStart
                \/ WindowManagerRestart
         PROVE  exec' = exec \/ exec' = Idle
    BY <1>11 DEF daemonVars, Reconcile, ReconcileQuery, ReconcileApply, DaemonCrash,
                 DaemonStart, WindowManagerRestart
  <1> QED
    BY <1>1, <1>9, <1>10, <1>11 DEF Next, Moves

\* An intent saved before the gate is in the file.
LEMMA GateDurable ==
    ASSUME TypeOK, Next, NEW o \in Op, exec'.pc = "gate", exec'.op = o
    PROVE  (exec.pc = "gate" /\ exec.op = o) \/ disk'[o] # "absent"
  <1>1. exec' # Idle
    BY DEF Idle
  <1>2. CASE exec' = exec
    BY <1>2
  <1>3. ASSUME NEW q \in Op, exec' = [Idle EXCEPT !.pc = "prepare", !.op = q] PROVE FALSE
    BY <1>3 DEF Idle
  <1>4. ASSUME NEW old \in SUBSET Op, RecordIntent(old, exec'.pc = "gate"), exec'.op = exec.op
        PROVE  disk'[o] # "absent"
    <2> DEFINE kept == prune_terminal(mem, old)
               after == record_intent(kept, o)
    <2>1. exec.op = o /\ RecordIntent(old, TRUE)
      <3>1. (exec'.pc = "gate") = TRUE
        OBVIOUS
      <3> QED
        BY <1>4, <3>1
    <2>2. kept \in [Op -> Entry]
      BY LedgerTypes DEF TypeOK, DaemonTypeOK
    <2>3. disk' = after
      BY <2>1 DEF RecordIntent, Save
    <2> QED
      BY <2>2, <2>3 DEF record_intent
  <1> QED
    BY <1>1, <1>2, <1>3, <1>4, ExecEffect

\* The inductive step of the write-ahead discipline.
LEMMA WriteAheadStep == ASSUME TypeOK, WriteAheadInv, Next PROVE WriteAheadInv'
  <1> SUFFICES ASSUME NEW o \in Op
               PROVE  /\ disk'[o] # "absent" => mem'[o] # "absent" \/ o \in pruned'
                      /\ InFlight(o)' \/ (exec'.pc = "gate" /\ exec'.op = o) =>
                            disk'[o] # "absent" \/ o \in pruned'
    BY DEF WriteAheadInv, Durable
  <1>1. Evolves(o) /\ pruned \subseteq pruned'
    BY StoreEffect
  <1>2. /\ disk[o] # "absent" => mem[o] # "absent" \/ o \in pruned
        /\ InFlight(o) \/ (exec.pc = "gate" /\ exec.op = o) => Durable(o)
    BY DEF WriteAheadInv
  <1>3. recover(disk)[o] = "absent" <=> disk[o] = "absent"
    BY DEF recover, TypeOK, DaemonTypeOK
  <1>4. disk'[o] # "absent" => mem'[o] # "absent" \/ o \in pruned'
    BY <1>1, <1>2, <1>3 DEF Evolves
  <1>5. Durable(o) => disk'[o] # "absent" \/ o \in pruned'
    BY <1>1, <1>2, <1>3 DEF Evolves, Durable
  <1>6. InFlight(o)' => InFlight(o) \/ (exec.pc = "gate" /\ exec.op = o)
    BY FlightEffect DEF SpawnDispatch
  <1>7. exec'.pc = "gate" /\ exec'.op = o =>
            (exec.pc = "gate" /\ exec.op = o) \/ disk'[o] # "absent"
    BY GateDurable
  <1> QED
    BY <1>2, <1>4, <1>5, <1>6, <1>7

\* The intent of every operation the desktop starts is in the ledger file first,
\* and no crash, recovery, failed save or concurrent settlement loses it.
THEOREM IntentIsWrittenAhead == Spec => []WriteAhead
  <1>1. Init => WriteAheadInv
    BY OpFacts DEF Init, DeskInit, WriteAheadInv, InFlight, NoTask, Idle, Durable
  <1>2. TypeOK /\ WriteAheadInv /\ [Next]_vars => WriteAheadInv'
    <2> SUFFICES ASSUME TypeOK, WriteAheadInv, [Next]_vars PROVE WriteAheadInv'
      OBVIOUS
    <2>1. CASE UNCHANGED vars
      BY <2>1 DEF vars, deskVars, daemonVars, WriteAheadInv, InFlight, Durable
    <2> QED
      BY <2>1, WriteAheadStep
  <1>3. TypeOK /\ WriteAheadInv => WriteAhead
    BY DEF WriteAheadInv, WriteAhead, InFlight, Durable, TypeOK, DeskTypeOK
  <1> QED
    BY <1>1, <1>2, <1>3, TypeCorrect, PTL DEF Spec

\* The inductive step of the order of a plan's steps.
LEMMA OrderStep == ASSUME TypeOK, OrderInv, Next PROVE OrderInv'
  <1> SUFFICES ASSUME NEW o \in Op, NEW q \in Op, PlanOf[o] = PlanOf[q], o < q,
                      exec'.op = q \/ InFlight(q)'
               PROVE  Final(o, "succeeded")' \/ o \in pruned'
    BY DEF OrderInv
  <1>0. o \in Nat \ {0} /\ q \in Nat \ {0} /\ "succeeded" \in Terminal
    BY OpFacts DEF Terminal
  <1>1. CASE Final(o, "succeeded") \/ o \in pruned
    BY <1>0, <1>1, FinalKept
  <1>2. CASE exec.op = q \/ InFlight(q)
    BY <1>1, <1>2 DEF OrderInv
  <1>3. CASE InFlight(q)'
    BY <1>2, <1>3, FlightEffect DEF SpawnDispatch
  <1>4. CASE exec'.op = q /\ exec.op # q
    <2>1. exec' # Idle /\ exec' # exec /\ exec'.op # exec.op
      BY <1>0, <1>4 DEF Idle
    <2>2. ASSUME NEW r \in Op, Freeze(r), exec'.op = r PROVE FALSE
      BY <1>0, <1>4, <2>2, OpFacts DEF Freeze, IsFirst, Steps
    <2>3. ASSUME NEW r \in Op, RecordStep(TRUE), exec.res = "succeeded", IsNext(exec.op, r),
                 exec' = [Idle EXCEPT !.pc = "prepare", !.op = r]
          PROVE  Final(o, "succeeded")' \/ o \in pruned'
      <3>1. exec.op \in Op /\ exec.op \in Nat
        BY <2>3, ExecOp, OpFacts DEF RecordStep, TypeOK
      <3>2. r = q
        BY <1>4, <2>3 DEF Idle
      <3>3. o <= exec.op /\ PlanOf[o] = PlanOf[exec.op]
        BY <1>0, <2>3, <3>1, <3>2, OpFacts DEF IsNext, Steps
      <3>4. CASE o = exec.op
        <4>1. SettleInStore(o, "succeeded", TRUE)
          BY <2>3, <3>4 DEF RecordStep, operation_state, Terminal
        <4>2. ResultAllowed(mem, o, "succeeded")
          BY <4>1 DEF SettleInStore
        <4>3. mem' = record_result(mem, o, "succeeded") /\ disk' = mem'
          BY <4>1, <4>2 DEF SettleInStore, Save
        <4> QED
          BY <4>2, <4>3 DEF record_result, Final, TypeOK, DaemonTypeOK
      <3>5. CASE o < exec.op
        BY <1>1, <3>1, <3>3, <3>5 DEF OrderInv
      <3> QED
        BY <1>0, <3>1, <3>3, <3>4, <3>5
    <2> QED
      BY <2>1, <2>2, <2>3, ExecEffect
  <1> QED
    BY <1>2, <1>3, <1>4

\* A plan never runs ahead of its ledger: a step starts only when the success of
\* every earlier step is in the file, whatever restarts in between.
THEOREM PlansRunInOrder == Spec => []PlanOrder
  <1>1. Init => OrderInv
    BY OpFacts DEF Init, DeskInit, OrderInv, InFlight, NoTask, Idle
  <1>2. TypeOK /\ OrderInv /\ [Next]_vars => OrderInv'
    <2> SUFFICES ASSUME TypeOK, OrderInv, [Next]_vars PROVE OrderInv'
      OBVIOUS
    <2>1. CASE UNCHANGED vars
      BY <2>1 DEF vars, deskVars, daemonVars, OrderInv, InFlight, Final
    <2> QED
      BY <2>1, OrderStep
  <1>3. OrderInv => PlanOrder
    BY DEF OrderInv, PlanOrder, InFlight, Final
  <1> QED
    BY <1>1, <1>2, <1>3, TypeCorrect, PTL DEF Spec

-----------------------------------------------------------------------------
(* What final results mean *)

\* The executor has yet to decide whether to dispatch o.
Coming(o) ==
    \/ sealed[PlanOf[o]].instance = 0
    \/ /\ exec.op # 0 /\ PlanOf[exec.op] = PlanOf[o]
       /\ \/ exec.op < o
          \/ exec.op = o /\ exec.pc \in {"confirm", "prepare", "intent", "gate"}

\* o was never started and never will be.
Dead(o) == ~Coming(o) /\ ~InFlight(o)

\* The result v is one the desktop observed, or of an operation it never starts.
Claims(v, observed, dead) ==
    /\ v = "succeeded" => v \in observed
    /\ v \in {"failed", "cancelled"} => v \in observed \/ dead

FlightOf(o) ==
    /\ exec.op = o => sealed[PlanOf[o]].instance # 0
    /\ exec.op = o /\ exec.pc = "failing" => Dead(o)
    /\ Coming(o) => ~InFlight(o)
    /\ task[o].pc = "spawned" => performed[o] = 0 /\ wire[o] = 0 /\ o \notin lost
    /\ task[o].pc = "sent" => /\ o \notin lost /\ wire[o] <= 1
                             /\ (wire[o] = 1 => performed[o] = 0)

FlightInv == \A o \in Op : FlightOf(o)

TruthOf(o) ==
    /\ exec.op = o => Claims(exec.res, outcome[o], Dead(o))
    /\ recon.op = o => Claims(recon.receipt, outcome[o], Dead(o))
    /\ \A c \in late : c.op = o => Claims(c.state, outcome[o], Dead(o))
    /\ Claims(mem[o], outcome[o], Dead(o))
    /\ Claims(disk[o], outcome[o], Dead(o))
    /\ Claims(task[o].res, outcome[o], Dead(o))
    /\ table[o] \in DeskTerminal => table[o] \in outcome[o]

TruthInv == \A o \in Op : TruthOf(o)

\* An operation the executor has passed stays passed.
LEMMA ComingShrinks ==
    ASSUME TypeOK, FlightInv, Next, NEW o \in Op, Coming(o)'
    PROVE  Coming(o)
  <1>0. /\ o \in Nat \ {0} /\ instance \in Nat \ {0} /\ PlanOf[o] \in Plan
        /\ exec.op \in Op \cup {0} /\ Op \subseteq Nat \ {0}
        /\ (exec.pc = "idle" <=> exec.op = 0)
    BY OpFacts DEF TypeOK, DeskTypeOK, DaemonTypeOK, ExecState
  <1>1. CASE sealed'[PlanOf[o]].instance = 0
    BY <1>0, <1>1, SealEffect DEF SealOf, Coming
  <1>2. CASE /\ exec'.op # 0 /\ PlanOf[exec'.op] = PlanOf[o]
             /\ \/ exec'.op < o
                \/ exec'.op = o /\ exec'.pc \in {"confirm", "prepare", "intent", "gate"}
    <2>1. CASE exec' = exec
      BY <1>2, <2>1 DEF Coming
    <2>2. CASE exec' = Idle
      BY <1>2, <2>2 DEF Idle
    <2>3. ASSUME NEW q \in Op, Freeze(q), exec'.op = q PROVE Coming(o)
      BY <1>2, <2>3 DEF Freeze, NotSealed, Coming
    <2>4. ASSUME NEW q \in Op, RecordStep(TRUE), IsNext(exec.op, q),
                 exec' = [Idle EXCEPT !.pc = "prepare", !.op = q]
          PROVE  Coming(o)
      <3>1. exec'.op = q /\ exec.op # 0 /\ exec.op \in Nat
        BY <1>0, <2>4 DEF Idle, RecordStep
      <3> QED
        BY <1>0, <1>2, <2>4, <3>1 DEF IsNext, Steps, Coming
    <2>5. ASSUME exec.pc # "idle", exec'.op = exec.op,
                 exec'.pc \in {"prepare", "intent"} => exec.pc \in {"confirm", "prepare"},
                 exec'.pc # "confirm",
                 exec'.pc = "gate" => exec.pc = "intent"
          PROVE  Coming(o)
      BY <1>0, <1>2, <2>5 DEF Coming
    <2> QED
      BY <2>1, <2>2, <2>3, <2>4, <2>5, ExecEffect
  <1> QED
    BY <1>1, <1>2 DEF Coming

\* What was never started and never will be stays so.
LEMMA DeadKept ==
    ASSUME TypeOK, FlightInv, Next, NEW o \in Op, Dead(o)
    PROVE  Dead(o)'
  <1>1. ~Coming(o)'
    BY ComingShrinks DEF Dead
  <1>2. SpawnDispatch /\ exec.op = o => Coming(o)
    BY OpFacts DEF SpawnDispatch, Coming
  <1>3. ~InFlight(o)'
    BY <1>2, FlightEffect DEF Dead
  <1> QED
    BY <1>1, <1>3 DEF Dead

\* A task that has not sent, or waits for its only answer, is what it seems.
TaskQuiet(o) ==
    /\ task[o].pc = "spawned" => performed[o] = 0 /\ wire[o] = 0 /\ o \notin lost
    /\ task[o].pc = "sent" => /\ o \notin lost /\ wire[o] <= 1
                             /\ (wire[o] = 1 => performed[o] = 0)

\* The inductive step for one operation's task.
LEMMA TaskFlight ==
    ASSUME TypeOK, FlightInv, Next, NEW o \in Op
    PROVE  TaskQuiet(o)'
  <1>0. /\ task \in [Op -> TaskState] /\ wire \in [Op -> Nat] /\ lost \subseteq Op
        /\ performed \in [Op -> Nat] /\ wire[o] \in Nat /\ performed[o] \in Nat
        /\ task[o] \in TaskState
    BY DEF TypeOK, DaemonTypeOK, DeskTypeOK
  <1>q. TaskQuiet(o)
    BY DEF FlightInv, FlightOf, TaskQuiet
  <1> DEFINE Goal == TaskQuiet(o)'
  <1>1. ASSUME UNCHANGED <<performed, wire, lost, task>> PROVE Goal
    BY <1>q, <1>1 DEF TaskQuiet
  <1>2. ASSUME DeskStep /\ UNCHANGED daemonVars PROVE Goal
    <2>1. UNCHANGED performed
      BY <1>2 DEF DeskStep, eva_activate, eva_cancel, eva_confirm, ConfirmationExpires,
                  Complete, CompletionOverdue, Retire
    <2> QED
      BY <1>1, <1>2, <2>1 DEF daemonVars
  <1>3. ASSUME SpawnDispatch PROVE Goal
    <2>1. UNCHANGED <<performed, wire, lost>>
      BY <1>3 DEF SpawnDispatch, deskVars
    <2>2. CASE exec.op = o
      <3>1. Coming(o)
        BY <1>3, <2>2, OpFacts DEF SpawnDispatch, Coming
      <3>2. performed[o] = 0 /\ wire[o] = 0 /\ o \notin lost
        BY <1>0, <3>1 DEF FlightInv, FlightOf, InFlight
      <3> QED
        BY <2>1, <3>2 DEF TaskQuiet
    <2>3. CASE exec.op # o
      <3>1. task'[o] = task[o]
        BY <1>0, <1>3, <2>3 DEF SpawnDispatch
      <3> QED
        BY <1>q, <2>1, <3>1 DEF TaskQuiet
    <2> QED
      BY <2>2, <2>3
  <1>4. ASSUME NEW q \in Op, Dispatch(q) PROVE Goal
    <2>1. performed' = performed /\ lost' = lost
      BY <1>4 DEF Dispatch, deskVars
    <2>2. CASE q = o
      <3>1. performed[o] = 0 /\ wire[o] = 0 /\ o \notin lost
        BY <1>4, <1>q, <2>2 DEF Dispatch, TaskQuiet
      <3>2. task'[o].pc # "spawned" /\ wire'[o] <= 1
        BY <1>0, <1>4, <2>2, <3>1 DEF Dispatch, TaskState
      <3> QED
        BY <2>1, <3>1, <3>2 DEF TaskQuiet
    <2>3. CASE q # o
      <3>1. task'[o] = task[o] /\ wire'[o] = wire[o]
        BY <1>0, <1>4, <2>3 DEF Dispatch
      <3> QED
        BY <1>q, <2>1, <3>1 DEF TaskQuiet
    <2> QED
      BY <2>2, <2>3
  <1>5. ASSUME NEW q \in Op, Handle(q) PROVE Goal
    <2>1. PICK reply \in ResultStatus \cup {"refused"} :
              /\ eva_guarded_execute(q, sealed[PlanOf[q]], reply)
              /\ task' \in {task, IF task[q].pc = "sent"
                    THEN [task EXCEPT ![q] = [pc |-> "settle",
                            res |-> IF reply = "refused" THEN "failed" ELSE reply]]
                    ELSE task}
      BY <1>5 DEF Handle
    <2>2. /\ wire[q] > 0 /\ wire' = [wire EXCEPT ![q] = @ - 1] /\ lost' = lost
      BY <1>5 DEF Handle
    <2>3. performed' = performed \/ performed' = [performed EXCEPT ![q] = @ + 1]
      BY <2>1 DEF eva_guarded_execute, Perform, deskVars
    <2>4. task'[o] = task[o] \/ task'[o].pc = "settle"
      BY <1>0, <2>1 DEF TaskState
    <2>5. CASE q = o
      <3>1. wire'[o] = wire[o] - 1
        BY <1>0, <2>2, <2>5
      <3> QED
        BY <1>0, <1>q, <2>2, <2>4, <2>5, <3>1 DEF TaskQuiet
    <2>6. CASE q # o
      <3>1. wire'[o] = wire[o] /\ performed'[o] = performed[o]
        BY <1>0, <2>2, <2>3, <2>6
      <3> QED
        BY <1>q, <2>2, <2>4, <3>1 DEF TaskQuiet
    <2> QED
      BY <2>5, <2>6
  <1>6. ASSUME NEW q \in Op,
               \/ ReplyTimeout(q) \/ QueryAfterTimeout(q)
               \/ \E ok \in BOOLEAN : persist_settlement(q, ok)
        PROVE  Goal
    <2>1. UNCHANGED <<performed, wire>>
      BY <1>6 DEF ReplyTimeout, QueryAfterTimeout, persist_settlement, deskVars
    <2>2. CASE q = o
      <3>1. task'[o].pc \notin {"spawned", "sent"}
        BY <1>0, <1>6, <2>2 DEF ReplyTimeout, QueryAfterTimeout, persist_settlement, TaskState
      <3> QED
        BY <3>1 DEF TaskQuiet
    <2>3. CASE q # o
      <3>1. task'[o] = task[o] /\ (o \in lost' <=> o \in lost)
        BY <1>0, <1>6, <2>3 DEF ReplyTimeout, QueryAfterTimeout, persist_settlement
      <3> QED
        BY <1>q, <2>1, <3>1 DEF TaskQuiet
    <2> QED
      BY <2>2, <2>3
  <1>7. ASSUME NEW q \in Op, Resend(q) PROVE Goal
    <2>1. UNCHANGED <<performed, lost, task>> /\ q \in lost
      BY <1>7 DEF Resend, deskVars
    <2>2. CASE q = o
      BY <1>q, <2>1, <2>2 DEF TaskQuiet
    <2>3. CASE q # o
      <3>1. wire'[o] = wire[o]
        BY <1>0, <1>7, <2>3 DEF Resend
      <3> QED
        BY <1>q, <2>1, <3>1 DEF TaskQuiet
    <2> QED
      BY <2>2, <2>3
  <1>8. ASSUME DaemonCrash PROVE Goal
    BY <1>8 DEF DaemonCrash, TaskQuiet, NoTask
  <1>9. ASSUME DaemonStart PROVE Goal
    BY <1>1, <1>9 DEF DaemonStart, eva_cancel, deskVars
  <1>10. ASSUME WindowManagerRestart PROVE Goal
    <2>1. UNCHANGED <<performed, lost, task>> /\ wire'[o] = 0
      BY <1>10 DEF WindowManagerRestart, WmRestart
    <2> QED
      BY <1>q, <2>1 DEF TaskQuiet
  <1>11. ASSUME ExecutorStep PROVE Goal
    <2>1. ASSUME NEW q \in Op, Freeze(q) PROVE Goal
      BY <1>1, <2>1 DEF Freeze, PostConfirmation, deskVars
    <2> HIDE DEF Goal
    <2> QED
      BY <1>1, <1>3, <1>11, <2>1
         DEF ExecutorStep, ReadToken, Prepare, RecordIntent, IntentFailed,
             DeadlineAfterIntent, AwaitTask, settle_level_control, RecordStep,
             DropExecutor, LateRecord, deskVars
  <1>12. ASSUME Reconcile PROVE Goal
    BY <1>1, <1>12 DEF Reconcile, ReconcileQuery, ReconcileApply, deskVars
  <1> HIDE DEF Goal
  <1>13. Goal
    BY <1>2, <1>4, <1>5, <1>6, <1>7, <1>8, <1>9, <1>10, <1>11, <1>12 DEF Next, TaskStep
  <1> QED
    BY <1>13 DEF Goal

\* The inductive step of the flight of an operation.
LEMMA FlightStep == ASSUME TypeOK, FlightInv, Next PROVE FlightInv'
  <1> SUFFICES ASSUME NEW o \in Op PROVE FlightOf(o)'
    BY DEF FlightInv
  <1>0. /\ o \in Nat \ {0} /\ instance \in Nat \ {0} /\ PlanOf[o] \in Plan
        /\ exec.op \in Op \cup {0} /\ Op \subseteq Nat \ {0}
        /\ (exec.pc = "idle" <=> exec.op = 0)
    BY OpFacts DEF TypeOK, DeskTypeOK, DaemonTypeOK, ExecState
  <1>1. FlightOf(o)
    BY DEF FlightInv
  <1>2. SealOf(o).instance # 0 => SealOf(o)'.instance # 0
    BY <1>0, SealEffect
  <1>3. TaskQuiet(o)'
    BY TaskFlight
  <1>4. ASSUME exec'.op = o PROVE sealed'[PlanOf[o]].instance # 0
    <2>1. CASE exec' = exec \/ (exec.pc # "idle" /\ exec'.op = exec.op)
      BY <1>1, <1>2, <1>4, <2>1 DEF FlightOf, SealOf
    <2>2. CASE exec' = Idle
      BY <1>0, <1>4, <2>2 DEF Idle
    <2>3. ASSUME NEW q \in Op, Freeze(q), exec'.op = q
          PROVE  sealed'[PlanOf[o]].instance # 0
      BY <1>0, <1>4, <2>3 DEF Freeze, TypeOK, DaemonTypeOK
    <2>4. ASSUME NEW q \in Op, RecordStep(TRUE), IsNext(exec.op, q),
                 exec' = [Idle EXCEPT !.pc = "prepare", !.op = q]
          PROVE  sealed'[PlanOf[o]].instance # 0
      <3>1. q = o /\ exec.op \in Op /\ PlanOf[exec.op] = PlanOf[o]
        BY <1>0, <1>4, <2>4 DEF Idle, RecordStep, IsNext, Steps
      <3>2. sealed[PlanOf[o]].instance # 0
        BY <3>1 DEF FlightInv, FlightOf
      <3> QED
        BY <1>2, <3>2 DEF SealOf
    <2> QED
      BY <2>1, <2>2, <2>3, <2>4, ExecEffect
  <1>5. ASSUME exec'.op = o, exec'.pc = "failing" PROVE Dead(o)'
    <2>1. CASE exec' = exec
      BY <1>1, <1>5, <2>1, DeadKept DEF FlightOf
    <2>2. ASSUME NEW old \in SUBSET Op, RecordIntent(old, exec'.pc = "gate"),
                 exec.pc = "intent", exec'.op = exec.op
          PROVE  Dead(o)'
      <3>1. Coming(o)
        BY <1>0, <1>5, <2>2 DEF Coming
      <3>2. ~InFlight(o)
        BY <1>1, <3>1 DEF FlightOf
      <3>3. ~SpawnDispatch
        BY <2>2 DEF SpawnDispatch
      <3>4. ~InFlight(o)'
        BY <3>2, <3>3, FlightEffect
      <3>5. ~Coming(o)'
        BY <1>0, <1>4, <1>5 DEF Coming
      <3> QED
        BY <3>4, <3>5 DEF Dead
    <2>3. exec' # Idle
      BY <1>5 DEF Idle
    <2>4. ASSUME NEW q \in Op, exec' = [Idle EXCEPT !.pc = "prepare", !.op = q] PROVE FALSE
      BY <1>5, <2>4 DEF Idle
    <2> QED
      BY <1>5, <2>1, <2>2, <2>3, <2>4, ExecEffect
  <1>6. Coming(o)' => ~InFlight(o)'
    <2> SUFFICES ASSUME Coming(o)', InFlight(o)' PROVE FALSE
      OBVIOUS
    <2>1. Coming(o) /\ ~InFlight(o)
      BY <1>1, ComingShrinks DEF FlightOf
    <2>2. SpawnDispatch /\ exec.op = o
      BY <2>1, FlightEffect
    <2>3. exec'.op = o /\ exec'.pc = "await"
      BY <2>2 DEF SpawnDispatch, TypeOK, DaemonTypeOK, ExecState
    <2> QED
      BY <1>0, <1>4, <2>3 DEF Coming
  <1> QED
    BY <1>3, <1>4, <1>5, <1>6 DEF FlightOf, TaskQuiet

\* The result v of o is true after the step.
TrueAfter(o, v) == Claims(v, outcome'[o], Dead(o)')

\* A claim survives more observations and the certainty that nothing starts.
LEMMA ClaimsKept ==
    ASSUME NEW v, NEW a, NEW b, NEW d \in BOOLEAN, NEW e \in BOOLEAN,
           a \subseteq b, d => e, Claims(v, a, d)
    PROVE  Claims(v, b, e)
  BY DEF Claims

\* Results that are not final claim nothing.
LEMMA Unclaimed ==
    ASSUME NEW o, NEW v, v \notin Terminal
    PROVE  TrueAfter(o, v)
  BY DEF TrueAfter, Claims, Terminal

\* What the desktop has observed it has observed for good, and a final entry of
\* its table is an observation.
LEMMA OutcomeEffect ==
    ASSUME TypeOK, Next, NEW o \in Op, table[o] \in DeskTerminal => table[o] \in outcome[o]
    PROVE  /\ outcome[o] \subseteq outcome'[o]
           /\ table'[o] \in DeskTerminal => table'[o] \in outcome'[o]
  <1>0. outcome \in [Op -> SUBSET DeskTerminal] /\ table \in [Op -> TableEntry]
    BY DEF TypeOK, DeskTypeOK
  <1> DEFINE Goal == /\ outcome[o] \subseteq outcome'[o]
                     /\ table'[o] \in DeskTerminal => table'[o] \in outcome'[o]
  <1>1. ASSUME UNCHANGED <<outcome, table>> PROVE Goal
    BY <1>1
  <1>2. ASSUME DeskStep PROVE Goal
    <2>1. ASSUME eva_activate \/ eva_cancel \/ eva_confirm \/ ConfirmationExpires PROVE Goal
      BY <1>1, <2>1 DEF eva_activate, eva_cancel, eva_confirm, ConfirmationExpires
    <2>2. ASSUME NEW q \in Op, Complete(q) PROVE Goal
      BY <1>0, <2>2 DEF Complete
    <2>3. ASSUME NEW q \in Op, CompletionOverdue(q) PROVE Goal
      BY <1>0, <2>3 DEF CompletionOverdue, DeskTerminal
    <2>4. ASSUME NEW q \in Op, Retire(q) PROVE Goal
      BY <1>0, <2>4 DEF Retire, DeskTerminal
    <2> QED
      BY <1>2, <2>1, <2>2, <2>3, <2>4 DEF DeskStep
  <1>3. ASSUME NEW q \in Op, NEW request, NEW reply, eva_guarded_execute(q, request, reply)
        PROVE  Goal
    <2>1. CASE UNCHANGED deskVars
      BY <1>1, <2>1 DEF deskVars
    <2>2. CASE Perform(q, reply)
      BY <1>0, <2>2 DEF Perform
    <2> QED
      BY <1>3, <2>1, <2>2 DEF eva_guarded_execute
  <1>4. ASSUME WmRestart PROVE Goal
    BY <1>4 DEF WmRestart, DeskTerminal
  <1>5. ASSUME NEW p, PostConfirmation(p) PROVE Goal
    BY <1>1, <1>5 DEF PostConfirmation
  <1>6. ASSUME UNCHANGED deskVars \/ eva_cancel PROVE Goal
    BY <1>1, <1>6 DEF deskVars, eva_cancel
  <1> HIDE DEF Goal
  <1>7. Goal
    BY <1>2, <1>3, <1>4, <1>5, <1>6, DeskEffect
  <1> QED
    BY <1>7 DEF Goal

\* Everything claimed before a step is true after it.
LEMMA Carried ==
    ASSUME TypeOK, FlightInv, TruthInv, Next, NEW o \in Op
    PROVE  /\ exec.op = o => TrueAfter(o, exec.res)
           /\ recon.op = o => TrueAfter(o, recon.receipt)
           /\ \A c \in late : c.op = o => TrueAfter(o, c.state)
           /\ TrueAfter(o, mem[o]) /\ TrueAfter(o, disk[o]) /\ TrueAfter(o, task[o].res)
           /\ outcome[o] \subseteq outcome'[o]
  <1>1. TruthOf(o)
    BY DEF TruthInv
  <1>2. outcome[o] \subseteq outcome'[o]
    BY <1>1, OutcomeEffect DEF TruthOf
  <1>3. Dead(o) => Dead(o)'
    BY DeadKept
  <1>4. Dead(o) \in BOOLEAN /\ Dead(o)' \in BOOLEAN
    BY DEF Dead
  <1>5. \A v : Claims(v, outcome[o], Dead(o)) => TrueAfter(o, v)
    BY <1>2, <1>3, <1>4, ClaimsKept DEF TrueAfter
  <1> QED
    BY <1>1, <1>2, <1>5 DEF TruthOf

\* What the WM answers to a query is true.
LEMMA StatusTrue ==
    ASSUME TypeOK, FlightInv, TruthInv, Next, NEW o \in Op, NEW inst, NEW reply,
           reply \in {"error", eva_execution_status(o, inst)}
    PROVE  TrueAfter(o, IF reply = "error" THEN "unknown" ELSE reply)
  <1>1. CASE reply \in {"error", "unknown"}
    BY <1>1, Unclaimed DEF Terminal
  <1>2. CASE reply = table[o] /\ reply \in Terminal
    <2>1. reply \in outcome'[o] /\ reply # "error"
      BY <1>2, Carried DEF TruthInv, TruthOf, Terminal, DeskTerminal
    <2> QED
      BY <2>1 DEF TrueAfter, Claims
  <1>3. CASE reply = table[o] /\ reply \notin Terminal
    BY <1>3, Unclaimed DEF Terminal
  <1> QED
    BY <1>1, <1>2, <1>3 DEF eva_execution_status

\* An operation that leaves the executor at the gate is never started.
LEMMA GateDead ==
    ASSUME TypeOK, FlightInv, Next, NEW o \in Op, exec.op = o, exec.pc = "gate", exec' = Idle
    PROVE  Dead(o)'
  <1>1. Coming(o) /\ sealed[PlanOf[o]].instance # 0 /\ o # 0 /\ ~InFlight(o)
    BY OpFacts DEF Coming, FlightInv, FlightOf
  <1>2. ~SpawnDispatch
    BY DEF SpawnDispatch, Idle, TypeOK, DaemonTypeOK, ExecState
  <1>3. ~InFlight(o)'
    BY <1>1, <1>2, FlightEffect
  <1>4. sealed'[PlanOf[o]].instance # 0
    BY <1>1, SealEffect DEF SealOf, TypeOK, DeskTypeOK
  <1>5. ~Coming(o)'
    BY <1>4 DEF Coming, Idle
  <1> QED
    BY <1>3, <1>5 DEF Dead

\* operation_state makes no claim that its status does not make.
LEMMA OperationStateTrue ==
    ASSUME NEW o, NEW v, TrueAfter(o, v)
    PROVE  TrueAfter(o, operation_state(v))
  <1>1. CASE operation_state(v) = v
    BY <1>1
  <1>2. CASE operation_state(v) = "unknown"
    BY <1>2, Unclaimed DEF Terminal
  <1> QED
    BY <1>1, <1>2 DEF operation_state

\* What the executor holds after a step is true.
LEMMA ExecTrue ==
    ASSUME TypeOK, FlightInv, TruthInv, Next, NEW o \in Op, exec'.op = o
    PROVE  TrueAfter(o, exec'.res)
  <1>0. o # 0 /\ exec \in ExecState
    BY OpFacts DEF TypeOK, DaemonTypeOK
  <1>1. CASE exec' = exec \/ (exec'.op = exec.op /\ exec'.res = exec.res)
    BY <1>1, Carried
  <1>2. CASE exec' = Idle
    BY <1>0, <1>2 DEF Idle
  <1>3. CASE exec'.res = "none"
    BY <1>3, Unclaimed DEF Terminal
  <1>4. ASSUME NEW q \in Op, exec' = [Idle EXCEPT !.pc = "prepare", !.op = q]
        PROVE  exec'.res = "none"
    BY <1>4 DEF Idle
  <1>5. CASE AwaitTask
    <2>1. exec.op = o /\ exec'.res = task[o].res
      BY <1>0, <1>5 DEF AwaitTask, ExecState
    <2> QED
      BY <2>1, Carried
  <1>6. CASE settle_level_control
    <2>1. exec.op = o
      BY <1>0, <1>6 DEF settle_level_control, ExecState
    <2>2. \/ exec'.res = exec.res
          \/ \E reply : /\ StatusReply(o, reply)
                        /\ exec'.res = IF reply = "error" THEN "unknown" ELSE reply
      BY <1>0, <1>6, <2>1 DEF settle_level_control, ExecState
    <2> QED
      BY <2>1, <2>2, Carried, StatusTrue DEF StatusReply
  <1> QED
    BY <1>1, <1>2, <1>3, <1>4, <1>5, <1>6, ExecEffect

\* What the reconciliation pass holds after a step is true.
LEMMA ReconTrue ==
    ASSUME TypeOK, FlightInv, TruthInv, Next, NEW o \in Op, recon'.op = o
    PROVE  TrueAfter(o, recon'.receipt)
  <1>0. o # 0
    BY OpFacts
  <1>1. ASSUME NEW q \in Op, ReconcileQuery(q) PROVE TrueAfter(o, recon'.receipt)
    <2>1. PICK reply : /\ StatusReply(q, reply)
                       /\ recon' = [op |-> q, receipt |-> IF reply = "error" THEN "unknown"
                                                          ELSE reply]
      BY <1>1 DEF ReconcileQuery
    <2>2. q = o /\ recon'.receipt = IF reply = "error" THEN "unknown" ELSE reply
      BY <2>1
    <2> QED
      BY <2>1, <2>2, StatusTrue DEF StatusReply
  <1>2. CASE recon' = recon
    BY <1>2, Carried
  <1>3. recon' # NoPass
    BY <1>0 DEF NoPass
  <1>4. ASSUME ExecutorStep PROVE recon' = recon
    BY <1>4 DEF ExecutorStep, Freeze, ReadToken, Prepare, RecordIntent, IntentFailed,
                DeadlineAfterIntent, SpawnDispatch, AwaitTask, settle_level_control,
                RecordStep, DropExecutor, LateRecord
  <1>5. ASSUME NEW q \in Op, TaskStep(q) PROVE recon' = recon
    BY <1>5 DEF TaskStep, Dispatch, Handle, ReplyTimeout, QueryAfterTimeout,
                persist_settlement, Resend
  <1>6. ASSUME \/ UNCHANGED daemonVars \/ (\E ok \in BOOLEAN : ReconcileApply(ok))
               \/ DaemonCrash \/ DaemonStart \/ WindowManagerRestart
        PROVE  recon' \in {recon, NoPass}
    BY <1>6 DEF daemonVars, ReconcileApply, DaemonCrash, DaemonStart, WindowManagerRestart
  <1> QED
    BY <1>1, <1>2, <1>3, <1>4, <1>5, <1>6 DEF Next, Reconcile

\* What a dropped executor leaves queued is true.
LEMMA LateTrue ==
    ASSUME TypeOK, FlightInv, TruthInv, Next, NEW o \in Op, NEW c \in late', c.op = o
    PROVE  TrueAfter(o, c.state)
  <1>1. CASE c \in late
    BY <1>1, Carried
  <1>2. CASE DropExecutor /\ c \in Queued
    <2>1. exec.op = o /\ exec' = Idle
      BY <1>2 DEF DropExecutor, Queued
    <2>2. CASE exec.pc = "failing" /\ c.state = "failed"
      <3>1. Dead(o)'
        BY <2>1, <2>2, DeadKept DEF FlightInv, FlightOf
      <3> QED
        BY <2>2, <3>1 DEF TrueAfter, Claims
    <2>3. CASE exec.pc = "gate" /\ c.state = "cancelled"
      <3>1. Dead(o)'
        BY <2>1, <2>3, GateDead
      <3> QED
        BY <2>3, <3>1 DEF TrueAfter, Claims
    <2>4. CASE exec.pc = "record" /\ c.state = operation_state(exec.res)
      BY <2>1, <2>4, Carried, OperationStateTrue
    <2> QED
      BY <1>2, <2>2, <2>3, <2>4 DEF Queued
  <1>3. ASSUME ExecutorStep PROVE c \in late \/ (DropExecutor /\ c \in Queued)
    <2>1. ASSUME DropExecutor PROVE c \in late \/ (DropExecutor /\ c \in Queued)
      BY <2>1 DEF DropExecutor
    <2>2. ASSUME NEW entry \in late, NEW ok \in BOOLEAN, LateRecord(entry, ok) PROVE c \in late
      BY <2>2 DEF LateRecord
    <2> QED
      BY <1>3, <2>1, <2>2
         DEF ExecutorStep, Freeze, ReadToken, Prepare, RecordIntent, IntentFailed,
             DeadlineAfterIntent, SpawnDispatch, AwaitTask, settle_level_control, RecordStep
  <1>4. ASSUME NEW q \in Op, TaskStep(q) PROVE late' = late
    BY <1>4 DEF TaskStep, Dispatch, Handle, ReplyTimeout, QueryAfterTimeout,
                persist_settlement, Resend
  <1>5. ASSUME \/ UNCHANGED daemonVars \/ Reconcile
               \/ DaemonCrash \/ DaemonStart \/ WindowManagerRestart
        PROVE  late' \in {late, {}}
    BY <1>5 DEF daemonVars, Reconcile, ReconcileQuery, ReconcileApply, DaemonCrash,
                DaemonStart, WindowManagerRestart
  <1> QED
    BY <1>1, <1>2, <1>3, <1>4, <1>5 DEF Next

\* What a dispatch task holds after a step is true: a cancelled dispatch was never
\* sent, a refused one never will be performed.
LEMMA TaskTrue ==
    ASSUME TypeOK, FlightInv, TruthInv, Next, NEW o \in Op
    PROVE  TrueAfter(o, task'[o].res)
  <1>0. /\ task \in [Op -> TaskState] /\ wire \in [Op -> Nat] /\ wire[o] \in Nat
        /\ task[o] \in TaskState /\ performed[o] \in Nat
    BY DEF TypeOK, DaemonTypeOK, DeskTypeOK
  <1> DEFINE Goal == TrueAfter(o, task'[o].res)
  <1>1. ASSUME task'[o].res = task[o].res PROVE Goal
    BY <1>1, Carried
  <1>2. ASSUME task'[o].res = "none" PROVE Goal
    BY <1>2, Unclaimed DEF Terminal
  <1>3. ASSUME SpawnDispatch PROVE Goal
    <2>1. task'[o].res \in {"none", task[o].res}
      BY <1>0, <1>3 DEF SpawnDispatch
    <2> QED
      BY <1>1, <1>2, <2>1
  <1>4. ASSUME NEW q \in Op, Dispatch(q) PROVE Goal
    <2>1. CASE q # o
      <3>1. task'[o] = task[o]
        BY <1>0, <1>4, <2>1 DEF Dispatch
      <3> QED
        BY <1>1, <3>1
    <2>2. CASE q = o /\ task'[o].res = "cancelled" /\ UNCHANGED <<wire, lost>>
               /\ task'[o].pc = "settle"
      <3>1. /\ performed[o] = 0 /\ wire[o] = 0 /\ o \notin lost /\ InFlight(o)
        BY <1>4, <2>2 DEF Dispatch, FlightInv, FlightOf, InFlight
      <3>2. performed' = performed
        BY <1>4 DEF Dispatch, deskVars
      <3>3. ~InFlight(o)'
        BY <2>2, <3>1, <3>2 DEF InFlight
      <3>4. ~Coming(o)'
        BY <3>1, ComingShrinks DEF FlightInv, FlightOf
      <3> QED
        BY <2>2, <3>3, <3>4 DEF Dead, TrueAfter, Claims
    <2>3. CASE q = o /\ task'[o].res = task[o].res
      BY <1>1, <2>3
    <2> QED
      BY <1>0, <1>4, <2>1, <2>2, <2>3 DEF Dispatch, TaskState
  <1>5. ASSUME NEW q \in Op, Handle(q) PROVE Goal
    <2>1. PICK reply \in ResultStatus \cup {"refused"} :
              /\ eva_guarded_execute(q, sealed[PlanOf[q]], reply)
              /\ task' \in {task, IF task[q].pc = "sent"
                    THEN [task EXCEPT ![q] = [pc |-> "settle",
                            res |-> IF reply = "refused" THEN "failed" ELSE reply]]
                    ELSE task}
      BY <1>5 DEF Handle
    <2>2. wire[q] > 0 /\ wire' = [wire EXCEPT ![q] = @ - 1] /\ lost' = lost
      BY <1>5 DEF Handle
    <2>3. CASE task'[o] = task[o]
      BY <1>1, <2>3
    <2>4. CASE q = o /\ task[o].pc = "sent" /\ reply = "refused"
               /\ task'[o] = [pc |-> "settle", res |-> "failed"]
      <3>1. wire[o] = 1 /\ performed[o] = 0 /\ o \notin lost /\ InFlight(o)
        BY <1>0, <2>2, <2>4 DEF FlightInv, FlightOf, InFlight
      <3>2. wire'[o] = 0
        BY <1>0, <2>2, <2>4, <3>1
      <3>3. performed' = performed
        BY <2>1, <2>4 DEF eva_guarded_execute, deskVars, TypeOK, DeskTypeOK, TableEntry,
                          DeskTerminal
      <3>4. ~InFlight(o)'
        BY <2>2, <2>4, <3>1, <3>2, <3>3 DEF InFlight
      <3>5. ~Coming(o)'
        BY <3>1, ComingShrinks DEF FlightInv, FlightOf
      <3> QED
        BY <2>4, <3>4, <3>5 DEF Dead, TrueAfter, Claims
    <2>5. CASE q = o /\ reply # "refused" /\ task'[o] = [pc |-> "settle", res |-> reply]
      <3>1. CASE reply \notin Terminal
        BY <2>5, <3>1, Unclaimed
      <3>2. CASE reply \in Terminal
        <4>1. reply \in outcome'[o]
          <5>1. CASE reply = table[o]
            BY <3>2, <5>1, Carried DEF TruthInv, TruthOf, Terminal, DeskTerminal
          <5>2. CASE Perform(o, reply)
            BY <3>2, <5>2 DEF Perform, TypeOK, DeskTypeOK, Terminal, DeskTerminal
          <5> QED
            BY <2>1, <2>5, <5>1, <5>2 DEF eva_guarded_execute
        <4> QED
          BY <2>5, <4>1 DEF TrueAfter, Claims
      <3> QED
        BY <3>1, <3>2
    <2>6. CASE q # o
      <3>1. task'[o] = task[o]
        BY <1>0, <2>1, <2>6
      <3> QED
        BY <1>1, <3>1
    <2> QED
      BY <1>0, <2>1, <2>3, <2>4, <2>5, <2>6
  <1>6. ASSUME NEW q \in Op, ReplyTimeout(q) PROVE Goal
    <2>1. task'[o].res = task[o].res
      BY <1>0, <1>6 DEF ReplyTimeout, TaskState
    <2> QED
      BY <1>1, <2>1
  <1>7. ASSUME NEW q \in Op, QueryAfterTimeout(q) PROVE Goal
    <2>1. CASE q # o
      <3>1. task'[o] = task[o]
        BY <1>0, <1>7, <2>1 DEF QueryAfterTimeout
      <3> QED
        BY <1>1, <3>1
    <2>2. CASE q = o
      <3>1. PICK reply : /\ StatusReply(o, reply)
                         /\ task' = [task EXCEPT ![o] = [pc |-> "settle",
                               res |-> IF reply = "error" THEN "unknown" ELSE reply]]
        BY <1>7, <2>2 DEF QueryAfterTimeout
      <3>2. task'[o].res = IF reply = "error" THEN "unknown" ELSE reply
        BY <1>0, <3>1
      <3> QED
        BY <3>1, <3>2, StatusTrue DEF StatusReply
    <2> QED
      BY <2>1, <2>2
  <1>8. ASSUME NEW q \in Op, NEW ok \in BOOLEAN, persist_settlement(q, ok) PROVE Goal
    <2>1. task'[o].res \in {task[o].res, mem[o]}
      BY <1>0, <1>8 DEF persist_settlement, TaskState
    <2> QED
      BY <2>1, Carried
  <1>9. ASSUME DaemonCrash PROVE Goal
    BY <1>2, <1>9 DEF DaemonCrash, NoTask
  <1>10. ASSUME UNCHANGED task PROVE Goal
    BY <1>1, <1>10
  <1> HIDE DEF Goal
  <1>11. ASSUME ExecutorStep PROVE Goal
    BY <1>3, <1>10, <1>11
       DEF ExecutorStep, Freeze, ReadToken, Prepare, RecordIntent, IntentFailed,
           DeadlineAfterIntent, AwaitTask, settle_level_control, RecordStep,
           DropExecutor, LateRecord
  <1>12. ASSUME \/ UNCHANGED daemonVars \/ Reconcile \/ DaemonStart \/ WindowManagerRestart
                \/ \E q \in Op : Resend(q)
         PROVE  Goal
    BY <1>10, <1>12 DEF daemonVars, Reconcile, ReconcileQuery, ReconcileApply, DaemonStart,
                        WindowManagerRestart, Resend
  <1>13. Goal
    BY <1>4, <1>5, <1>6, <1>7, <1>8, <1>9, <1>11, <1>12 DEF Next, TaskStep
  <1> QED
    BY <1>13 DEF Goal

\* A settlement with a true result leaves ledger and file true.
LEMMA SettleTrue ==
    ASSUME TypeOK, NEW q \in Op, NEW state \in OperationState, NEW ok \in BOOLEAN,
           SettleInStore(q, state, ok), TrueAfter(q, state),
           NEW o \in Op, TrueAfter(o, mem[o]), TrueAfter(o, disk[o])
    PROVE  TrueAfter(o, mem'[o]) /\ TrueAfter(o, disk'[o])
  <1> DEFINE after == record_result(mem, q, state)
  <1>1. mem' = after /\ disk' \in {disk, after}
    BY DEF SettleInStore, Save
  <1>2. after[o] = mem[o] \/ (o = q /\ after[o] = state)
    BY DEF record_result, TypeOK, DaemonTypeOK
  <1> HIDE DEF after
  <1>3. TrueAfter(o, after[o])
    BY <1>2
  <1> QED
    BY <1>1, <1>3

\* Ledger and file are true after every step.
LEMMA StoreTrue ==
    ASSUME TypeOK, FlightInv, TruthInv, Next, NEW o \in Op
    PROVE  TrueAfter(o, mem'[o]) /\ TrueAfter(o, disk'[o])
  <1>0. DaemonTypeOK /\ mem \in [Op -> Entry] /\ disk \in [Op -> Entry]
    BY DEF TypeOK, DaemonTypeOK
  <1>c. TrueAfter(o, mem[o]) /\ TrueAfter(o, disk[o])
    BY Carried
  <1> DEFINE Goal == TrueAfter(o, mem'[o]) /\ TrueAfter(o, disk'[o])
  <1>1. ASSUME UNCHANGED <<mem, disk>> PROVE Goal
    BY <1>1, <1>c
  <1>2. ASSUME NEW q \in Op, NEW state \in OperationState, NEW ok \in BOOLEAN,
               SettleInStore(q, state, ok), TrueAfter(q, state)
        PROVE  Goal
    BY <1>2, <1>c, SettleTrue
  <1>3. ASSUME NEW q \in Op, NEW state, mem' = record_result(mem, q, state),
               TrueAfter(q, state), UNCHANGED disk
        PROVE  Goal
    <2>1. mem'[o] = mem[o] \/ (o = q /\ mem'[o] = state)
      BY <1>0, <1>3 DEF record_result
    <2> QED
      BY <1>3, <1>c, <2>1
  <1>4. ASSUME NEW old \in SUBSET Op, NEW ok \in BOOLEAN, RecordIntent(old, ok)
        PROVE  Goal
    <2> DEFINE kept == prune_terminal(mem, old)
               after == record_intent(kept, exec.op)
    <2>1. kept[o] \in {mem[o], "absent"} /\ kept \in [Op -> Entry]
      BY <1>0, LedgerTypes DEF prune_terminal
    <2>2. after[o] \in {kept[o], "dispatched"}
      BY <2>1 DEF record_intent
    <2>3. mem' \in {kept, after} /\ disk' \in {disk, after}
      BY <1>4 DEF RecordIntent, Save
    <2> HIDE DEF kept, after
    <2>4. TrueAfter(o, kept[o])
      BY <1>c, <2>1, Unclaimed DEF Terminal
    <2>5. TrueAfter(o, after[o])
      BY <2>2, <2>4, Unclaimed DEF Terminal
    <2> QED
      BY <1>c, <2>3, <2>4, <2>5
  <1>5. ASSUME DaemonStart PROVE Goal
    <2>1. recover(disk)[o] \in {disk[o], "unknown"}
      BY <1>0 DEF recover
    <2>2. TrueAfter(o, recover(disk)[o])
      BY <1>c, <2>1, Unclaimed DEF Terminal
    <2> QED
      BY <1>5, <2>2 DEF DaemonStart
  <1>6. ASSUME IntentFailed PROVE Goal
    <2>1. exec.op \in Op
      BY <1>0, <1>6, ExecOp DEF IntentFailed
    <2>2. ASSUME NEW q \in Op, exec.op = q PROVE TrueAfter(q, "failed")
      <3>1. Dead(q)'
        BY <1>6, <2>2, DeadKept DEF IntentFailed, FlightInv, FlightOf
      <3> QED
        BY <3>1 DEF TrueAfter, Claims
    <2> QED
      BY <1>3, <1>6, <2>1, <2>2 DEF IntentFailed
  <1>7. ASSUME NEW ok \in BOOLEAN, DeadlineAfterIntent(ok) PROVE Goal
    <2>1. exec.op \in Op /\ "cancelled" \in OperationState
      BY <1>0, <1>7, ExecOp DEF DeadlineAfterIntent, OperationState, Terminal
    <2>2. ASSUME NEW q \in Op, exec.op = q PROVE TrueAfter(q, "cancelled")
      <3>1. Dead(q)'
        BY <1>7, <2>2, GateDead DEF DeadlineAfterIntent
      <3> QED
        BY <3>1 DEF TrueAfter, Claims
    <2> QED
      BY <1>2, <1>7, <2>1, <2>2 DEF DeadlineAfterIntent
  <1>8. ASSUME NEW ok \in BOOLEAN, RecordStep(ok) PROVE Goal
    <2>1. exec.op \in Op /\ operation_state(exec.res) \in OperationState
      BY <1>0, <1>8, ExecOp DEF RecordStep
    <2>2. TrueAfter(exec.op, operation_state(exec.res))
      BY <2>1, Carried, OperationStateTrue
    <2> QED
      BY <1>2, <1>8, <2>1, <2>2 DEF RecordStep
  <1>9. ASSUME NEW entry \in late, NEW ok \in BOOLEAN, LateRecord(entry, ok) PROVE Goal
    <2>1. entry.op \in Op /\ entry.state \in OperationState
      BY <1>0 DEF DaemonTypeOK, Closure, ResultStatus, OperationState
    <2>2. TrueAfter(entry.op, entry.state)
      BY <2>1, Carried
    <2>3. CASE entry.saved
      <3>1. SettleInStore(entry.op, entry.state, ok)
        BY <1>9, <2>3 DEF LateRecord
      <3> QED
        BY <1>2, <2>1, <2>2, <3>1
    <2>4. CASE ~entry.saved
      <3>1. mem' = record_result(mem, entry.op, entry.state) /\ UNCHANGED disk
        BY <1>9, <2>4 DEF LateRecord
      <3> QED
        BY <1>3, <2>1, <2>2, <3>1
    <2> QED
      BY <2>3, <2>4
  <1>10. ASSUME NEW q \in Op, NEW ok \in BOOLEAN, persist_settlement(q, ok) PROVE Goal
    <2>1. operation_state(task[q].res) \in OperationState
      BY OperationStateType
    <2>2. TrueAfter(q, operation_state(task[q].res))
      BY Carried, OperationStateTrue
    <2> QED
      BY <1>1, <1>2, <1>10, <2>1, <2>2 DEF persist_settlement
  <1>11. ASSUME NEW ok \in BOOLEAN, ReconcileApply(ok) PROVE Goal
    <2>1. recon.op \in Op /\ operation_state(recon.receipt) \in OperationState
      BY <1>0, <1>11, OperationStateType DEF ReconcileApply, DaemonTypeOK, PassState
    <2>2. TrueAfter(recon.op, operation_state(recon.receipt))
      BY <2>1, Carried, OperationStateTrue
    <2> QED
      BY <1>1, <1>2, <1>11, <2>1, <2>2 DEF ReconcileApply
  <1> HIDE DEF Goal
  <1>12. ASSUME ExecutorStep PROVE Goal
    BY <1>1, <1>4, <1>6, <1>7, <1>8, <1>9, <1>12
       DEF ExecutorStep, Freeze, ReadToken, Prepare, SpawnDispatch, AwaitTask,
           settle_level_control, DropExecutor
  <1>13. ASSUME NEW q \in Op, TaskStep(q) PROVE Goal
    BY <1>1, <1>10, <1>13
       DEF TaskStep, Dispatch, Handle, ReplyTimeout, QueryAfterTimeout, Resend
  <1>14. ASSUME Reconcile \/ DaemonCrash \/ WindowManagerRestart PROVE Goal
    BY <1>1, <1>11, <1>14
       DEF Reconcile, ReconcileQuery, DaemonCrash, WindowManagerRestart
  <1>15. ASSUME UNCHANGED daemonVars PROVE Goal
    BY <1>1, <1>15 DEF daemonVars
  <1>16. Goal
    BY <1>5, <1>12, <1>13, <1>14, <1>15 DEF Next
  <1> QED
    BY <1>16 DEF Goal

\* Final results in ledger and file are what happened: a success was observed on
\* the desktop, and an operation called failed or cancelled was observed to end so
\* or is never started, however late its request or its answer is.
THEOREM LedgerTellsTheTruth == Spec => []LedgerTruthful
  <1>1. Init => FlightInv /\ TruthInv
    <2> SUFFICES ASSUME Init, NEW o \in Op PROVE FlightOf(o) /\ TruthOf(o)
      BY DEF FlightInv, TruthInv
    <2>1. ~InFlight(o) /\ exec.op # o /\ recon.op # o /\ late = {}
      BY OpFacts DEF Init, DeskInit, InFlight, Idle, NoPass, NoTask
    <2>2. FlightOf(o)
      BY <2>1 DEF FlightOf, Init, NoTask
    <2>3. TruthOf(o)
      BY <2>1 DEF TruthOf, Init, DeskInit, NoTask, Claims, DeskTerminal
    <2> QED
      BY <2>2, <2>3
  <1>2. TypeOK /\ FlightInv /\ TruthInv /\ [Next]_vars => (FlightInv /\ TruthInv)'
    <2> SUFFICES ASSUME TypeOK, FlightInv, TruthInv, [Next]_vars
                 PROVE  FlightInv' /\ TruthInv'
      OBVIOUS
    <2>1. CASE UNCHANGED vars
      BY <2>1 DEF vars, deskVars, daemonVars, FlightInv, FlightOf, TruthInv, TruthOf,
                  Dead, Coming, InFlight
    <2>2. CASE Next
      <3>1. FlightInv'
        BY <2>2, FlightStep
      <3>2. ASSUME NEW o \in Op PROVE TruthOf(o)'
        <4>1. /\ exec'.op = o => TrueAfter(o, exec'.res)
              /\ recon'.op = o => TrueAfter(o, recon'.receipt)
              /\ \A c \in late' : c.op = o => TrueAfter(o, c.state)
          BY <2>2, ExecTrue, ReconTrue, LateTrue
        <4>2. /\ TrueAfter(o, mem'[o]) /\ TrueAfter(o, disk'[o])
              /\ TrueAfter(o, task'[o].res)
          BY <2>2, StoreTrue, TaskTrue
        <4>3. table'[o] \in DeskTerminal => table'[o] \in outcome'[o]
          BY <2>2, OutcomeEffect DEF TruthInv, TruthOf
        <4> QED
          BY <4>1, <4>2, <4>3 DEF TruthOf, TrueAfter
      <3> QED
        BY <3>1, <3>2 DEF TruthInv
    <2> QED
      BY <2>1, <2>2
  <1>3. TypeOK /\ TruthInv => LedgerTruthful
    <2> SUFFICES ASSUME TypeOK, TruthInv, NEW o \in Op, NEW v \in {mem[o], disk[o]}
                 PROVE  /\ v = "succeeded" => "succeeded" \in outcome[o]
                        /\ v \in {"failed", "cancelled"} =>
                              performed[o] = 0 \/ v \in outcome[o]
      BY DEF LedgerTruthful, Truthful
    <2>1. Claims(v, outcome[o], Dead(o))
      BY DEF TruthInv, TruthOf
    <2>2. Dead(o) => performed[o] = 0
      BY DEF Dead, InFlight, TypeOK, DeskTypeOK
    <2> QED
      BY <2>1, <2>2 DEF Claims
  <1> QED
    BY <1>1, <1>2, <1>3, TypeCorrect, PTL DEF Spec
=============================================================================
