---------------------------- MODULE CommentFlow ----------------------------
(***************************************************************************)
(* The comment composer's state machine, dashboard/comment_flow.rs, as     *)
(* functions from a flow to the flow a method leaves behind.  The body of  *)
(* the comment is abstracted to whether it passes validation.  The flow's  *)
(* counter is only ever compared with a submission in flight, so it is not *)
(* kept: a method that stores a generation is given one that no task in    *)
(* flight carries.                                                         *)
(***************************************************************************)
EXTENDS Naturals

CONSTANT None

Kinds == {"Idle", "Confirming", "Posting", "Error"}

Flow(Issues) ==
    [kind : Kinds, issue : Issues \cup {None}, generation : Nat,
     unknown : BOOLEAN]

Idle == [kind |-> "Idle", issue |-> None, generation |-> 0, unknown |-> FALSE]

Confirming(issue) == [Idle EXCEPT !.kind = "Confirming", !.issue = issue]

Posting(issue, generation) ==
    [Idle EXCEPT !.kind = "Posting", !.issue = issue,
                 !.generation = generation]

Error(issue, unknown) ==
    [Idle EXCEPT !.kind = "Error", !.issue = issue, !.unknown = unknown]

is_posting(flow) == flow.kind = "Posting"

(* An outcome nobody knows: only a refresh of the comments resolves it. *)
is_unknown(flow) == flow.kind = "Error" /\ flow.unknown

begin_confirmation(flow, target, valid) ==
    IF is_unknown(flow) THEN flow
    ELSE IF valid THEN Confirming(target) ELSE Error(target, FALSE)

has_confirmation_for(flow, target) ==
    flow.kind = "Confirming" /\ flow.issue = target

consume_submission(flow, generation) == Posting(flow.issue, generation)

(* invalidate_selection cancels only what was not dispatched. *)
cancels_pre_dispatch(flow) == ~is_posting(flow)

clear_error_on_edit(flow) ==
    IF flow.kind = "Error" /\ ~flow.unknown THEN Idle ELSE flow

can_refresh(flow) == ~is_posting(flow)

refreshed(flow) == IF is_unknown(flow) THEN Idle ELSE flow

(* Whether a completion still belongs to the flow and to the shown issue. *)
is_current(flow, submission, shown) ==
    /\ flow.kind = "Posting"
    /\ flow.issue = submission.issue
    /\ flow.generation = submission.generation
    /\ shown = submission.issue

finish_submission(flow, outcome) ==
    IF outcome = "ok" THEN Idle ELSE Error(flow.issue, outcome = "unknown")
============================================================================
