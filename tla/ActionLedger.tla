---------------------------- MODULE ActionLedger ----------------------------
(***************************************************************************)
(* The voice assistant's durable action ledger                             *)
(* (crates/jwm_eva_core/src/ledger.rs), as operators on its values.        *)
(*                                                                         *)
(* `operations` is a function from every operation id to the state of its  *)
(* record, "absent" where there is none.  Record ages are not kept: the    *)
(* ten minute retention of prune_terminal is a choice of which eligible    *)
(* entries are old.  The list of undo plans is left out.                   *)
(***************************************************************************)
EXTENDS Naturals, FiniteSets, Sequences

\* OperationState::{Succeeded, Failed, Cancelled}: the states no later result
\* may replace.
Terminal == {"succeeded", "failed", "cancelled"}

\* OperationState of a record.
OperationState == Terminal \cup {"dispatched", "accepted", "unknown"}

\* A ledger entry of `operations`.
Entry == OperationState \cup {"absent"}

\* The records Ledger::operations holds.
Recorded(operations) == {o \in DOMAIN operations : operations[o] # "absent"}

\* The records that reconciliation still asks about.
Unresolved(operations) ==
    {o \in DOMAIN operations : operations[o] \in {"dispatched", "accepted", "unknown"}}

\* prune_terminal: of the terminal records the ones in `old` have passed the
\* retention window; every other record stays.
prune_terminal(operations, old) ==
    [o \in DOMAIN operations |->
        IF o \in old /\ operations[o] \in Terminal THEN "absent" ELSE operations[o]]

\* record_intent refuses a known id and a full ledger.  The caller passes an
\* already pruned ledger: the code prunes first.
IntentAllowed(operations, id, capacity) ==
    /\ operations[id] = "absent"
    /\ Cardinality(Recorded(operations)) < capacity

record_intent(operations, id) == [operations EXCEPT ![id] = "dispatched"]

\* record_result_at returns an error for an unknown id and for a result that
\* contradicts a terminal one.
ResultAllowed(operations, id, state) ==
    /\ operations[id] # "absent"
    /\ operations[id] \in Terminal => state = operations[id]

record_result(operations, id, state) ==
    IF ResultAllowed(operations, id, state)
    THEN [operations EXCEPT ![id] = state]
    ELSE operations

\* recover: nothing that was under way is claimed to have completed.
recover(operations) ==
    [o \in DOMAIN operations |->
        IF operations[o] \in {"dispatched", "accepted"} THEN "unknown" ELSE operations[o]]
=============================================================================
