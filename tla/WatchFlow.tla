----------------------------- MODULE WatchFlow -----------------------------
(***************************************************************************)
(* The Watch/Unwatch state machine, dashboard/watch_flow.rs, as functions  *)
(* from a flow to the flow a method leaves behind.  Which of Watch and     *)
(* Unwatch is asked for, and the key that is shown, are abstracted away.   *)
(* As in CommentFlow the counter is not kept: a method that stores a       *)
(* generation is given one that no task in flight carries.                 *)
(***************************************************************************)
EXTENDS Naturals

CONSTANT None

Kinds == {"Idle", "Loading", "Ready", "Confirming", "Submitting", "Error"}

Identity(Issues) == [issue : Issues, generation : Nat]

Flow(Issues) ==
    [kind : Kinds, issue : Issues \cup {None}, generation : Nat,
     unknown : BOOLEAN, reconciliation_pending : BOOLEAN,
     invalidated : SUBSET Identity(Issues),
     last : Identity(Issues) \cup {None}]

new == [kind |-> "Idle", issue |-> None, generation |-> 0, unknown |-> FALSE,
        reconciliation_pending |-> FALSE, invalidated |-> {}, last |-> None]

(* Replace the state; the fields beside it stay. *)
At(flow, kind, issue, generation) ==
    [flow EXCEPT !.kind = kind, !.issue = issue, !.generation = generation,
                 !.unknown = FALSE]

is_submitting(flow) == flow.kind = "Submitting"

begin_read(flow, issue, generation) ==
    IF is_submitting(flow) THEN flow
    ELSE At(flow, "Loading", issue, generation)

owns_read(flow, read, selected) ==
    /\ flow.kind = "Loading"
    /\ flow.issue = read.issue
    /\ flow.generation = read.generation
    /\ selected = read.issue

finish_read(flow, ok) ==
    IF ok
    THEN [At(flow, "Ready", flow.issue, 0) EXCEPT
             !.reconciliation_pending = FALSE]
    ELSE [At(flow, "Error", flow.issue, 0) EXCEPT
             !.unknown = flow.reconciliation_pending]

begin_confirmation(flow) ==
    IF flow.reconciliation_pending \/ flow.kind # "Ready" THEN flow
    ELSE At(flow, "Confirming", flow.issue, 0)

\* Mutant: closing an error offers the change again.
cancel_confirmation_BackToReady(flow) ==
    IF flow.kind \in {"Confirming", "Error"}
    THEN At(flow, "Ready", flow.issue, 0) ELSE flow

cancel_confirmation(flow) ==
    CASE flow.kind = "Confirming" -> At(flow, "Ready", flow.issue, 0)
      [] flow.kind = "Error"      -> At(flow, "Idle", None, 0)
      [] OTHER                    -> flow

identity(flow) == [issue |-> flow.issue, generation |-> flow.generation]

consume_submission(flow, generation) ==
    LET next == At(flow, "Submitting", flow.issue, generation)
    IN  [next EXCEPT !.last = identity(next)]

(* A dispatched write stays in flight: its identity is remembered so that *)
(* its completion can release the busy flag.                              *)
invalidate_selection(flow) ==
    [At(flow, "Idle", None, 0) EXCEPT
        !.invalidated = IF is_submitting(flow)
                        THEN @ \cup {identity(flow)} ELSE @]

owns_write(flow, write, selected) ==
    is_submitting(flow) /\ identity(flow) = write /\ selected = write.issue

finish_write(flow, write, selected, outcome) ==
    IF owns_write(flow, write, selected)
    THEN IF outcome = "ok"
         THEN [At(flow, "Ready", write.issue, 0) EXCEPT
                  !.reconciliation_pending = FALSE]
         ELSE [At(flow, "Error", write.issue, 0) EXCEPT
                  !.unknown = outcome = "unknown",
                  !.reconciliation_pending = outcome = "unknown"]
    ELSE [flow EXCEPT !.invalidated = @ \ {write}]

(* BusyDirective::Release, or a completion that was applied. *)
releases_busy(flow, write, selected) ==
    \/ owns_write(flow, write, selected)
    \/ write \in flow.invalidated /\ flow.last \in {None, write}
============================================================================
