--------------------------- MODULE IssueEditFlow ---------------------------
(***************************************************************************)
(* The state machine of assignee and status changes,                       *)
(* dashboard/issue_edit_flow.rs, as functions from a flow to the flow a    *)
(* method leaves behind.  The assignee, the transition and the search text *)
(* are abstracted away; reconciliation_pending, which only words a message *)
(* here, is left out.  A method that advances the counter is given a value *)
(* that no task in flight carries.                                         *)
(***************************************************************************)
EXTENDS Naturals

CONSTANT None

Kinds == {"Idle", "LoadingAssignees", "AssigneeChooser",
          "ConfirmingAssignee", "ConfirmingTransition", "Submitting",
          "Error"}
Operations == {"Assignee", "Transition"}
Confirmations == {"ConfirmingAssignee", "ConfirmingTransition"}

Identity(Issues) ==
    [issue : Issues, operation : Operations, generation : Nat]

(* generation is the flow's counter; while a write is submitted it is also *)
(* the generation of the submission's identity.                            *)
Flow(Issues) ==
    [kind : Kinds, issue : Issues \cup {None},
     operation : Operations, generation : Nat, unknown : BOOLEAN,
     invalidated : SUBSET Identity(Issues),
     last : Identity(Issues) \cup {None}]

new == [kind |-> "Idle", issue |-> None, operation |-> "Assignee",
        generation |-> 0, unknown |-> FALSE, invalidated |-> {},
        last |-> None]

At(flow, kind, issue) ==
    [flow EXCEPT !.kind = kind, !.issue = issue, !.operation = "Assignee",
                 !.unknown = FALSE]

Bumped(flow, generation) == [flow EXCEPT !.generation = generation]

is_submitting(flow) == flow.kind = "Submitting"

identity(flow) ==
    [issue |-> flow.issue, operation |-> flow.operation,
     generation |-> flow.generation]

begin_assignee_loading(flow, issue, generation) ==
    Bumped(At(flow, "LoadingAssignees", issue), generation)

target_is_current(flow, load, selected) ==
    selected = load.issue /\ flow.generation = load.generation

finish_assignee_loading(flow, load, ok) ==
    At(flow, IF ok THEN "AssigneeChooser" ELSE "Error", load.issue)

choose_assignee(flow, generation) ==
    IF flow.kind # "AssigneeChooser" THEN flow
    ELSE Bumped(At(flow, "ConfirmingAssignee", flow.issue), generation)

begin_transition_confirmation(flow, issue, generation) ==
    Bumped(At(flow, "ConfirmingTransition", issue), generation)

(* cancel and invalidate_selection: a dispatched write stays in flight and *)
(* its identity is remembered so that its completion can release busy.     *)
invalidate_selection(flow, generation) ==
    [Bumped(At(flow, "Idle", None), generation) EXCEPT
        !.invalidated = IF is_submitting(flow)
                        THEN @ \cup {identity(flow)} ELSE @]

consume_submission(flow, generation) ==
    LET operation == IF flow.kind = "ConfirmingAssignee" THEN "Assignee"
                     ELSE "Transition"
        next == [Bumped(At(flow, "Submitting", flow.issue), generation)
                    EXCEPT !.operation = operation]
    IN  [next EXCEPT !.last = identity(next)]

owns_write(flow, write, selected) ==
    is_submitting(flow) /\ identity(flow) = write /\ selected = write.issue

finish_write(flow, write, selected, outcome) ==
    IF owns_write(flow, write, selected)
    THEN IF outcome = "ok" THEN At(flow, "Idle", None)
         ELSE [At(flow, "Error", write.issue) EXCEPT
                  !.operation = write.operation,
                  !.unknown = outcome = "unknown"]
    ELSE [flow EXCEPT !.invalidated = @ \ {write}]

\* Mutant: a write that was invalidated gives nothing back.
releases_busy_OwnedOnly(flow, write, selected) ==
    owns_write(flow, write, selected)

(* BusyDirective::Release, or a completion that was applied or failed. *)
releases_busy(flow, write, selected) ==
    \/ owns_write(flow, write, selected)
    \/ write \in flow.invalidated /\ flow.last \in {None, write}

is_unknown(flow) == flow.kind = "Error" /\ flow.unknown

refresh_succeeded(flow) ==
    IF is_unknown(flow) THEN At(flow, "Idle", None) ELSE flow
============================================================================
