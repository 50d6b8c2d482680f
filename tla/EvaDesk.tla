------------------------------- MODULE EvaDesk -------------------------------
(***************************************************************************)
(* The window manager's side of assistant execution (src/jwm/eva.rs): the  *)
(* execution permit, the locally approved confirmation, and the table of   *)
(* operations that makes guarded_execute run an action at most once per    *)
(* retention window.                                                       *)
(*                                                                         *)
(* The WM handles one IPC request per turn of its loop, so a handler is    *)
(* one step.  eva_tick, which every handler runs first, has its effects as *)
(* steps of their own (eva_cancel for a lapsed lease, ConfirmationExpires, *)
(* CompletionOverdue, Retire): each depends on a clock that may have       *)
(* passed its deadline before the request arrives or not.                  *)
(***************************************************************************)
EXTENDS Naturals, FiniteSets, Sequences

CONSTANTS
    PlanOf,         \* the plan each operation 1..n is a step of
    Sensitive,      \* operations whose risk class needs a confirmation
    TableCapacity,  \* MAX_OPERATIONS, 1024 in the code
    MaxGeneration   \* bound: activations of the assistant per WM process

Op == DOMAIN PlanOf
Plan == {PlanOf[o] : o \in Op}

ASSUME OpsAssumption ==
    /\ PlanOf \in Seq(Nat \ {0})
    /\ Sensitive \subseteq Op
ASSUME DeskBounds ==
    /\ TableCapacity \in Nat /\ MaxGeneration \in Nat

VARIABLES
    instance,       \* EvaRuntime::instance, a new one per WM process
    generation,     \* EvaRuntime::generation
    permit,         \* generation of the live permit, 0: none
    confirmation,   \* the confirmation card, plan 0: none
    serial,         \* confirmation_generation
    table,          \* EvaRuntime::operations: status by operation id
    performed,      \* history: how often the action's effect was started
    outcome,        \* history: final results the desktop has observed
    retired,        \* history: operations whose tombstone left the table
    approvals       \* history: local approvals given, by plan

deskVars == <<instance, generation, permit, confirmation, serial, table,
              performed, outcome, retired, approvals>>

DeskTerminal == {"succeeded", "failed", "cancelled"}
TableEntry == DeskTerminal \cup {"accepted", "unknown", "absent"}
Card == [plan : Plan \cup {0}, serial : Nat, approved : BOOLEAN,
         expired : BOOLEAN, used : SUBSET Op]
NoConfirmation == [plan |-> 0, serial |-> 0, approved |-> FALSE,
                   expired |-> FALSE, used |-> {}]

DeskTypeOK ==
    /\ instance \in Nat \ {0}
    /\ generation \in 0..MaxGeneration
    /\ permit \in 0..generation
    /\ confirmation \in Card
    /\ serial \in Nat
    /\ table \in [Op -> TableEntry]
    /\ performed \in [Op -> Nat]
    /\ outcome \in [Op -> SUBSET DeskTerminal]
    /\ retired \subseteq Op
    /\ approvals \in [Plan -> Nat]

DeskInit ==
    /\ instance = 1
    /\ generation = 0
    /\ permit = 0
    /\ confirmation = NoConfirmation
    /\ serial = 0
    /\ table = [o \in Op |-> "absent"]
    /\ performed = [o \in Op |-> 0]
    /\ outcome = [o \in Op |-> {}]
    /\ retired = {}
    /\ approvals = [p \in Plan |-> 0]

-----------------------------------------------------------------------------
(* Permit and confirmation *)

\* eva_control "activate": replaces whatever permit there was.
eva_activate ==
    /\ generation < MaxGeneration
    /\ generation' = generation + 1
    /\ permit' = generation + 1
    /\ confirmation' = NoConfirmation
    /\ UNCHANGED <<instance, serial, table, performed, outcome, retired,
                   approvals>>

\* eva_cancel: the user's cancel key, a lock screen, a lapsed lease, a lost
\* overlay, or the cancel a starting daemon sends.
eva_cancel ==
    /\ permit' = 0
    /\ confirmation' = NoConfirmation
    /\ UNCHANGED <<instance, generation, serial, table, performed, outcome,
                   retired, approvals>>

\* eva_set_status with a confirmation request: a card already shown for this
\* plan is kept, expired or not; a new plan gets a new token.
PostConfirmation(p) ==
    /\ permit # 0
    /\ IF confirmation.plan = p
       THEN UNCHANGED <<confirmation, serial>>
       ELSE /\ serial' = serial + 1
            /\ confirmation' = [plan |-> p, serial |-> serial + 1,
                                approved |-> FALSE, expired |-> FALSE, used |-> {}]
    /\ UNCHANGED <<instance, generation, permit, table, performed, outcome,
                   retired, approvals>>

\* eva_confirm: the local key, never the daemon, approves the card.
eva_confirm ==
    /\ permit # 0
    /\ confirmation.plan # 0 /\ ~confirmation.approved /\ ~confirmation.expired
    /\ confirmation' = [confirmation EXCEPT !.approved = TRUE]
    /\ approvals' = [approvals EXCEPT ![confirmation.plan] = @ + 1]
    /\ UNCHANGED <<instance, generation, permit, serial, table, performed,
                   outcome, retired>>

\* eva_tick: an expired card stays as a tombstone that no longer authorizes.
ConfirmationExpires ==
    /\ confirmation.plan # 0 /\ ~confirmation.expired
    /\ confirmation' = [confirmation EXCEPT !.expired = TRUE, !.approved = FALSE]
    /\ UNCHANGED <<instance, generation, permit, serial, table, performed,
                   outcome, retired, approvals>>

-----------------------------------------------------------------------------
(* guarded_execute *)

\* Mutant: an approved card authorizes its steps any number of times.
ConfirmedUnlimited(o, token) ==
    /\ confirmation.approved
    /\ confirmation.serial = token
    /\ confirmation.plan = PlanOf[o]

\* The unused confirmed step that authorizes operation o.
Confirmed(o, token) ==
    /\ confirmation.approved
    /\ confirmation.serial = token
    /\ confirmation.plan = PlanOf[o]
    /\ o \notin confirmation.used

\* The checks between the duplicate lookup and the reservation that depend on
\* state kept here.
Admissible(o, request) ==
    /\ permit # 0 /\ permit = request.permit
    /\ Cardinality({q \in Op : table[q] # "absent"}) < TableCapacity
    /\ o \in Sensitive => Confirmed(o, request.token)

\* Mutant: only a final result is entered in the table.
PerformUnreserved(o, status) ==
    /\ table' = IF status \in DeskTerminal THEN [table EXCEPT ![o] = status] ELSE table
    /\ confirmation' = IF o \in Sensitive
                       THEN [confirmation EXCEPT !.used = @ \cup {o}]
                       ELSE confirmation
    /\ performed' = [performed EXCEPT ![o] = @ + 1]
    /\ outcome' = IF status \in DeskTerminal
                  THEN [outcome EXCEPT ![o] = @ \cup {status}]
                  ELSE outcome
    /\ UNCHANGED <<instance, generation, permit, serial, retired, approvals>>

\* The reservation is written before the action starts; the confirmed step is
\* used up; the dispatch then reports success, failure or an asynchronous
\* "accepted".
Perform(o, status) ==
    /\ table' = [table EXCEPT ![o] = status]
    /\ confirmation' = IF o \in Sensitive
                       THEN [confirmation EXCEPT !.used = @ \cup {o}]
                       ELSE confirmation
    /\ performed' = [performed EXCEPT ![o] = @ + 1]
    /\ outcome' = IF status \in DeskTerminal
                  THEN [outcome EXCEPT ![o] = @ \cup {status}]
                  ELSE outcome
    /\ UNCHANGED <<instance, generation, permit, serial, retired, approvals>>

\* eva_guarded_execute: answers with the recorded result of a known operation,
\* refuses, or performs.  A refusal ("refused") may also come from the checks
\* of focus, monitor, tags, lock and arguments.
eva_guarded_execute(o, request, reply) ==
    \/ /\ request.instance # instance
       /\ reply = "refused"
       /\ UNCHANGED deskVars
    \/ /\ request.instance = instance
       /\ table[o] # "absent"
       /\ reply = table[o]
       /\ UNCHANGED deskVars
    \/ /\ request.instance = instance
       /\ table[o] = "absent"
       /\ reply = "refused"
       /\ UNCHANGED deskVars
    \/ /\ request.instance = instance
       /\ table[o] = "absent"
       /\ Admissible(o, request)
       /\ reply \in {"succeeded", "failed", "accepted"}
       /\ Perform(o, reply)

\* eva_execution_status for a query that names an instance: "error" for another
\* one, "unknown" for an operation the table does not hold.
eva_execution_status(o, inst) ==
    IF inst # instance THEN "error"
    ELSE IF table[o] = "absent" THEN "unknown" ELSE table[o]

-----------------------------------------------------------------------------
(* What happens to an operation after its dispatch *)

\* The completion observers (capture, clipboard, recording, agent, media,
\* level control): an unresolved operation gets its final result, or stays
\* unresolved: a player that was launched but does not play yet is "accepted",
\* a level that cannot be read back "unknown".
Complete(o) ==
    /\ table[o] \in {"accepted", "unknown"}
    /\ \E status \in DeskTerminal \cup {"accepted", "unknown"} :
          /\ table' = [table EXCEPT ![o] = status]
          /\ outcome' = [outcome EXCEPT ![o] = @ \cup ({status} \cap DeskTerminal)]
    /\ UNCHANGED <<instance, generation, permit, confirmation, serial,
                   performed, retired, approvals>>

\* eva_tick, twenty seconds after the dispatch.
CompletionOverdue(o) ==
    /\ table[o] = "accepted"
    /\ table' = [table EXCEPT ![o] = "unknown"]
    /\ UNCHANGED <<instance, generation, permit, confirmation, serial,
                   performed, outcome, retired, approvals>>

\* eva_tick, ten minutes after the final result: the tombstone goes.
Retire(o) ==
    /\ table[o] \in DeskTerminal
    /\ table' = [table EXCEPT ![o] = "absent"]
    /\ retired' = retired \cup {o}
    /\ UNCHANGED <<instance, generation, permit, confirmation, serial,
                   performed, outcome, approvals>>

\* A new WM process: nothing of EvaRuntime is persisted.
WmRestart ==
    /\ instance' = instance + 1
    /\ permit' = 0 /\ generation' = 0
    /\ confirmation' = NoConfirmation /\ serial' = 0
    /\ table' = [o \in Op |-> "absent"]
    /\ UNCHANGED <<performed, outcome, retired, approvals>>

\* The steps of the WM that no daemon request causes.
DeskStep ==
    \/ eva_activate
    \/ permit # 0 /\ eva_cancel
    \/ eva_confirm
    \/ ConfirmationExpires
    \/ \E o \in Op : Complete(o) \/ CompletionOverdue(o) \/ Retire(o)
=============================================================================
