----------------------------- MODULE Dashboard -----------------------------
(***************************************************************************)
(* The dashboard of the desktop shell, apps/gpui/src/dashboard.rs: which   *)
(* issue is selected and which is shown, the confirmed Jira writes         *)
(* (comment, assignee or status, watch), the operations that hold the busy *)
(* flag, and automatic polling.                                            *)
(*                                                                         *)
(* The record ui is the Dashboard struct.  A method of the struct is an    *)
(* operator from a ui to the ui it leaves behind, and a handler (a click,  *)
(* or the completion of a task) is an action.  Handlers run on one thread, *)
(* one at a time; what interleaves is the order in which clicks, timers    *)
(* and completions arrive.  Dropping a task's handle means that its        *)
(* completion never arrives, so a task that is held is a field of ui; a    *)
(* task that is detached is an element of ui.edit_writes or ui.jobs.       *)
(***************************************************************************)
EXTENDS Naturals, FiniteSets

CONSTANTS
    Issues,      \* the issues of the Jira site
    Scope,       \* the issues a refresh of the tracked scope may return
    TeamScope,   \* the issues a refresh of the team tracker may return
    Features,    \* the controls this instance uses
    None

AllFeatures == {"comment", "edit", "watch", "lookup", "poll", "mark", "team",
                "settings", "status"}

ASSUME DashboardAssumption ==
    /\ None \notin Issues \cup [issue : Issues, generation : Nat]
    /\ Scope \subseteq Issues /\ TeamScope \subseteq Issues
    /\ Features \subseteq AllFeatures

VARIABLES
    ui,          \* the Dashboard struct and the tasks it has under way
    unsettled    \* history: issues with a watch change of unknown outcome

vars == <<ui, unsettled>>

Comment == INSTANCE CommentFlow
Edit    == INSTANCE IssueEditFlow
Watch   == INSTANCE WatchFlow

Outcomes == {"ok", "rejected", "unknown"}

(* The operations other than writes that hold operation_in_progress. *)
Jobs == {"startup", "refresh", "poll", "mark", "team", "settings"}

(* A generation that no task in flight carries. *)
Fresh(used) ==
    CHOOSE g \in 1 .. Cardinality(used) + 1 :
        /\ g \notin used
        /\ \A h \in 1 .. g - 1 : h \in used

Lookup(kind, issue) == [kind |-> kind, issue |-> issue]
NoLookup == Lookup("idle", None)

(* comment_task: a finished task may still be held. *)
Post(state, issue, generation) ==
    [state |-> state, issue |-> issue, generation |-> generation]
NoPost == Post("none", None, 0)

(* A read in flight: the assignees of an issue, or its watch state. *)
Read(issue, generation) == [issue |-> issue, generation |-> generation]

---------------------------------------------------------------------------
(* What is known and what is shown *)

(* selected_issue_core, the last issue the detail pane read, counts too. *)
known(u, issue) ==
    issue # None /\ issue \in u.domain \cup u.team \cup {u.core}

(* The issue of the detail pane; a lookup under way or failed hides it. *)
displayed(u) ==
    CASE u.lookup.kind = "loaded" -> u.lookup.issue
      [] u.lookup.kind = "idle" /\ known(u, u.selected) -> u.selected
      [] OTHER -> None

comment_target_issue(u) ==
    IF u.lookup.kind = "loaded" THEN u.lookup.issue
    ELSE IF known(u, u.selected) THEN u.selected ELSE None

composer_shown(u) ==
    /\ displayed(u) # None
    /\ u.lookup.kind = "loaded" \/ u.detail = "loaded"

edit_controls_shown(u) ==
    u.workspace /\ u.selected # None /\ displayed(u) = u.selected

status_control_is_editable(u) ==
    /\ edit_controls_shown(u)
    /\ u.lookup.kind # "loaded"
    /\ ~u.busy
    /\ u.edit.kind = "Idle"

---------------------------------------------------------------------------
(* Invalidation of what belonged to the selection *)

\* Mutant: the flow of a dispatched comment is left alone.
invalidate_comment_selection_KeepPosting(u) ==
    [u EXCEPT !.draft = FALSE,
              !.post = IF Comment!cancels_pre_dispatch(u.comment)
                       THEN NoPost ELSE @,
              !.comment = IF Comment!is_posting(@) THEN @ ELSE Comment!Idle]

invalidate_comment_selection(u) ==
    [u EXCEPT !.draft = FALSE,
              !.post = IF Comment!cancels_pre_dispatch(u.comment)
                       THEN NoPost ELSE @,
              !.comment = Comment!Idle]

edit_generations(u) ==
    {w.generation : w \in u.edit_writes}
        \cup (IF u.edit_load = None THEN {} ELSE {u.edit_load.generation})

\* Mutant: only the read is given up, not what was chosen.
invalidate_issue_edit_selection_ReadOnly(u) ==
    [u EXCEPT !.edit_load = IF Edit!is_submitting(u.edit) THEN @ ELSE None]

invalidate_issue_edit_selection(u) ==
    [u EXCEPT !.edit = Edit!invalidate_selection(@, Fresh(edit_generations(u))),
              !.edit_load = IF Edit!is_submitting(u.edit) THEN @ ELSE None]

invalidate_watch_selection(u) ==
    [u EXCEPT !.watch = Watch!invalidate_selection(@),
              !.watch_read = IF Watch!is_submitting(u.watch) THEN @ ELSE None,
              !.watch_confirm_after_read = FALSE]

invalidate_status_transition(u) ==
    [u EXCEPT !.popover = FALSE, !.transitions = "idle"]

clear_remote_lookup(u) == [u EXCEPT !.lookup = NoLookup, !.popover = FALSE]

---------------------------------------------------------------------------
(* Selecting an issue, and the reads a selection starts *)

watch_generations(u) ==
    {r.generation : r \in {u.watch_read, u.watch_write} \ {None}}

load_issue_watch_state(u, issue) ==
    IF u.selected # issue \/ Watch!is_submitting(u.watch) THEN u
    ELSE IF ~u.workspace THEN [u EXCEPT !.watch_read = None]
    ELSE LET dropped == [u EXCEPT !.watch_read = None]
             g == Fresh(watch_generations(dropped))
         IN  [dropped EXCEPT !.watch = Watch!begin_read(@, issue, g),
                             !.watch_read = Read(issue, g)]

reload_status_transitions(u) ==
    LET idle == invalidate_status_transition(u)
    IN  IF known(u, u.selected) /\ u.workspace
        THEN [idle EXCEPT !.transitions = "loading"] ELSE idle

\* Mutant: a watch change under way is not looked at.
writes_confirmed_EditOnly(u) == Edit!is_submitting(u.edit)

writes_confirmed(u) == Edit!is_submitting(u.edit) \/ Watch!is_submitting(u.watch)

(* select_issue: refused while a confirmed write is under way, a no-op on  *)
(* the issue already shown unless forced, otherwise a fresh start.  The    *)
(* detail read is held, so starting another drops it: "pending" stands for *)
(* DetailState::Loading and Refreshing, with the read under way.           *)
select_issue(u, issue, force) ==
    LET changed == u.selected # issue
        cleared == invalidate_issue_edit_selection(
                       invalidate_comment_selection(u))
        apart   == IF changed
                   THEN [invalidate_watch_selection(cleared) EXCEPT
                            !.core = None]
                   ELSE cleared
        chosen  == invalidate_status_transition(
                       [apart EXCEPT !.selected = issue])
        watched == IF known(chosen, issue)
                   THEN load_issue_watch_state(chosen, issue) ELSE chosen
    IN  IF changed /\ writes_confirmed(u) THEN u
        ELSE IF ~changed /\ ~force /\ u.detail \in {"pending", "loaded"}
        THEN u
        ELSE IF u.workspace
        THEN [reload_status_transitions(watched) EXCEPT !.detail = "pending"]
        ELSE [watched EXCEPT !.detail = "empty"]

reload_selected_detail(u) ==
    IF u.selected = None THEN u ELSE select_issue(u, u.selected, TRUE)

clear_selection_for_team_scope(u) ==
    IF writes_confirmed(u) THEN u
    ELSE LET none == [clear_remote_lookup(u) EXCEPT
                         !.selected = None, !.core = None, !.detail = "empty"]
         IN  invalidate_watch_selection(
                 invalidate_issue_edit_selection(
                     invalidate_comment_selection(none)))

(* A key is opened from the cache when it can be, and looked up in Jira *)
(* otherwise.                                                           *)
search_jira_for_key(u, issue) ==
    LET cleared == invalidate_comment_selection(u)
    IN  IF Watch!is_submitting(u.watch) THEN u
        ELSE IF known(u, issue)
        THEN select_issue(clear_remote_lookup(u), issue, TRUE)
        ELSE IF u.workspace
        THEN [cleared EXCEPT !.lookup = Lookup("loading", issue)]
        ELSE [cleared EXCEPT !.lookup = Lookup("error", None)]

(* search_query is an issue's key, or None when it is not a key. *)
search_jira(u) ==
    IF Watch!is_submitting(u.watch) THEN u
    ELSE IF u.query = None THEN clear_remote_lookup(u)
    ELSE search_jira_for_key(u, u.query)

---------------------------------------------------------------------------
(* Applying what a synchronization cached *)

(* first: the first issue the filters leave visible, None if there is none. *)
rebuild_issue_views(u, first, refresh_detail) ==
    IF u.selected = None
    THEN IF first = None THEN u ELSE select_issue(u, first, TRUE)
    ELSE IF /\ refresh_detail
            /\ u.selected \in u.domain \/ u.detail \notin {"pending", "error"}
    THEN reload_selected_detail(u)
    ELSE u

apply_cached(u, issues, first) ==
    LET rebuilt == rebuild_issue_views([u EXCEPT !.domain = issues],
                                       first, TRUE)
    IN  IF rebuilt.selected = None THEN rebuilt
        ELSE reload_status_transitions(rebuilt)

start_automatic_polling(u) ==
    IF u.polling \in {"waiting", "refreshing"} \/ ~u.workspace THEN u
    ELSE [u EXCEPT !.polling = "waiting"]

---------------------------------------------------------------------------
Init ==
    /\ ui = [workspace |-> FALSE, busy |-> TRUE, jobs |-> {"startup"},
             domain |-> {}, team |-> {}, selected |-> None, core |-> None,
             detail |-> "empty", lookup |-> NoLookup, query |-> None,
             transitions |-> "idle", popover |-> FALSE,
             comment |-> Comment!Idle, draft |-> FALSE, post |-> NoPost,
             edit |-> Edit!new, edit_load |-> None, edit_writes |-> {},
             watch |-> Watch!new, watch_read |-> None, watch_write |-> None,
             watch_confirm_after_read |-> FALSE, polling |-> "off"]
    /\ unsettled = {}

Sets(next) == ui' = next /\ UNCHANGED unsettled

(* A handler that takes the busy flag for a job. *)
Takes(job) == [ui EXCEPT !.busy = TRUE, !.jobs = @ \cup {job}]

(* Its completion gives it back. *)
Ended(job) == [ui EXCEPT !.busy = FALSE, !.jobs = @ \ {job}]

---------------------------------------------------------------------------
(* Operations that hold the busy flag *)

(* from_live's task: the workspace opens on what the cache holds, or never. *)
FinishStartup ==
    /\ "startup" \in ui.jobs
    /\ \/ Sets(Ended("startup"))
       \/ \E issues \in SUBSET Scope, team \in SUBSET TeamScope :
          \E first \in issues \cup {None} :
            LET opened  == [Ended("startup") EXCEPT !.workspace = TRUE]
                applied == apply_cached(opened, issues, first)
                watched == IF applied.selected = None THEN applied
                           ELSE load_issue_watch_state(applied,
                                                       applied.selected)
            IN  Sets(start_automatic_polling([watched EXCEPT !.team = team]))

(* begin_refresh, from the refresh control or after an applied edit. *)
refresh_begun(u) ==
    IF u.busy \/ Edit!is_submitting(u.edit) \/ ~u.workspace THEN u
    ELSE [u EXCEPT !.busy = TRUE, !.jobs = @ \cup {"refresh"}]

BeginRefresh == "poll" \in Features /\ Sets(refresh_begun(ui))

FinishRefresh ==
    /\ "refresh" \in ui.jobs
    /\ \E team \in (SUBSET TeamScope) \cup {ui.team} :
         \/ Sets([Ended("refresh") EXCEPT !.team = team])
         \/ \E issues \in SUBSET Scope : \E first \in issues \cup {None} :
              LET applied == [apply_cached(Ended("refresh"), issues, first)
                                 EXCEPT !.team = team]
                  settled == [applied EXCEPT
                                 !.edit = Edit!refresh_succeeded(@)]
              IN  Sets(start_automatic_polling(settled))

(* The polling task's timer: skipped while an operation is in progress. *)
Poll ==
    /\ "poll" \in Features
    /\ ui.polling = "waiting" /\ ~ui.busy
    /\ Sets([Takes("poll") EXCEPT !.polling = "refreshing"])

(* A failure either schedules another attempt or pauses polling. *)
FinishPoll ==
    /\ "poll" \in ui.jobs
    /\ \/ \E polling \in {"waiting", "paused"} :
            Sets([Ended("poll") EXCEPT !.polling = polling])
       \/ \E issues \in SUBSET Scope, team \in (SUBSET TeamScope) \cup {ui.team} :
          \E first \in issues \cup {None} :
            Sets([apply_cached([Ended("poll") EXCEPT !.polling = "waiting"],
                               issues, first) EXCEPT !.team = team])

(* mark_all_read and mark_group_read. *)
BeginMarkRead ==
    /\ "mark" \in Features
    /\ ui.workspace /\ ~ui.busy
    /\ Sets(Takes("mark"))

\* Mutant: a failure returns before the flag is given back.
FinishMarkRead_KeepOnError ==
    /\ "mark" \in ui.jobs
    /\ \/ Sets([ui EXCEPT !.jobs = @ \ {"mark"}])
       \/ \E first \in ui.domain \cup {None} :
            Sets(apply_cached(Ended("mark"), ui.domain, first))

FinishMarkRead ==
    /\ "mark" \in ui.jobs
    /\ \/ Sets(Ended("mark"))
       \/ \E first \in ui.domain \cup {None} :
            Sets(apply_cached(Ended("mark"), ui.domain, first))

(* begin_team_refresh and begin_save_team: a save that can be neither *)
(* applied nor undone empties the team.                               *)
BeginTeam ==
    /\ "team" \in Features
    /\ ui.workspace /\ ~ui.busy
    /\ Sets(Takes("team"))

FinishTeam ==
    /\ "team" \in ui.jobs
    /\ \E team \in (SUBSET TeamScope) \cup {ui.team} :
         Sets([Ended("team") EXCEPT !.team = team])

(* begin_save_settings: the new scope's issues are applied, the old scope *)
(* is restored, or the workspace is given up.                             *)
BeginSaveSettings ==
    /\ "settings" \in Features
    /\ ui.workspace /\ ~ui.busy
    /\ Sets(Takes("settings"))

given_up(u) ==
    [u EXCEPT !.workspace = FALSE, !.polling = "off", !.domain = {},
              !.selected = None]

FinishSaveSettings ==
    /\ "settings" \in ui.jobs
    /\ \/ Sets(Ended("settings"))
       \/ Sets(given_up(Ended("settings")))
       \/ \E issues \in SUBSET Scope : \E first \in issues \cup {None} :
            Sets(start_automatic_polling(
                     apply_cached(Ended("settings"), issues, first)))

---------------------------------------------------------------------------
(* Choosing what to look at *)

(* A row of the issue list; the row of the looked-up issue is inert. *)
SelectRow ==
    \E issue \in ui.domain :
        /\ ui.lookup # Lookup("loaded", issue)
        /\ Sets(select_issue(clear_remote_lookup(ui), issue, FALSE))

(* open_update_issue: an update may be of an issue no longer listed. *)
OpenUpdate ==
    /\ "mark" \in Features
    /\ ui.workspace
    /\ \E issue \in Scope :
         /\ ~Watch!is_submitting(ui.watch) \/ ui.selected = issue
         /\ Sets(select_issue(clear_remote_lookup(ui), issue, FALSE))

(* A row of the team table. *)
SelectTeamRow ==
    /\ "team" \in Features
    /\ \E issue \in ui.team :
         /\ ui.selected # issue /\ ~Edit!is_submitting(ui.edit)
         /\ Sets(select_issue(ui, issue, TRUE))

(* The Team section, entered with an issue outside the team selected. *)
EnterTeam ==
    /\ "team" \in Features
    /\ ui.selected \notin ui.team \cup {None}
    /\ Sets(clear_selection_for_team_scope(ui))

(* The team table without a selected row, in the Team section: the issue *)
(* may be in the team and no longer in progress.                         *)
ClearTeamRow ==
    /\ "team" \in Features
    /\ ui.selected # None
    /\ Sets(clear_selection_for_team_scope(ui))

(* open_issue_in_issues: a control of the read-only pane of the Team section. *)
OpenInIssues ==
    /\ "team" \in Features
    /\ displayed(ui) # None
    /\ ~Watch!is_submitting(ui.watch) \/ ui.selected = displayed(ui)
    /\ Sets(select_issue(ui, displayed(ui), FALSE))

SetSearchQuery ==
    /\ "lookup" \in Features
    /\ \E query \in (Issues \cup {None}) \ {ui.query} :
       \E first \in ui.domain \cup {None} :
         LET typed == [invalidate_comment_selection(clear_remote_lookup(ui))
                          EXCEPT !.query = query]
         IN  Sets(rebuild_issue_views(typed, first, FALSE))

(* The status filter only matters here when nothing is selected. *)
SetStatusFilter ==
    /\ ui.selected = None
    /\ \E first \in ui.domain : Sets(rebuild_issue_views(ui, first, FALSE))

ClearIssueFilters ==
    /\ "lookup" \in Features
    /\ \E first \in ui.domain \cup {None} :
         LET cleared == [invalidate_comment_selection(clear_remote_lookup(ui))
                            EXCEPT !.query = None]
         IN  Sets(rebuild_issue_views(cleared, first, FALSE))

SearchJira ==
    /\ "lookup" \in Features
    /\ ui.query # None /\ ui.lookup.kind # "loading"
    /\ Sets(search_jira(ui))

(* open_related_issue_key: search_query keeps what was typed. *)
OpenRelated ==
    /\ "lookup" \in Features
    /\ displayed(ui) # None
    /\ ~writes_confirmed(ui)
    /\ \E issue \in Issues : Sets(search_jira_for_key(ui, issue))

FinishLookup ==
    /\ ui.lookup.kind = "loading"
    /\ \E kind \in {"loaded", "error"} :
         Sets([ui EXCEPT !.lookup =
                  Lookup(kind, IF kind = "loaded" THEN @.issue ELSE None)])

(* The ticket is current only while its issue is selected. *)
FinishDetail ==
    /\ ui.detail = "pending" /\ ui.selected # None
    /\ \/ Sets([ui EXCEPT !.detail = "error"])
       \/ Sets([ui EXCEPT !.detail = "loaded", !.core = ui.selected])

FinishTransitions ==
    /\ "status" \in Features
    /\ ui.transitions = "loading" /\ ui.selected # None
    /\ \E state \in {"ready", "error"} :
         Sets([ui EXCEPT !.transitions = state])

---------------------------------------------------------------------------
(* Comments *)

EditDraft ==
    /\ "comment" \in Features
    /\ composer_shown(ui) /\ ui.comment.kind \in {"Idle", "Error"}
    /\ Sets([ui EXCEPT !.draft = TRUE,
                       !.comment = Comment!clear_error_on_edit(@)])

BeginCommentConfirmation ==
    /\ composer_shown(ui) /\ ui.comment.kind \in {"Idle", "Error"}
    /\ ui.draft
    /\ \E valid \in BOOLEAN :
         Sets([ui EXCEPT !.comment = Comment!begin_confirmation(
                             @, comment_target_issue(ui), valid)])

CancelCommentConfirmation ==
    /\ composer_shown(ui) /\ ui.comment.kind = "Confirming"
    /\ Sets([ui EXCEPT !.comment = Comment!Idle])

(* comment_task is replaced, so a task it still held is dropped. *)
PostComment ==
    LET target == comment_target_issue(ui)
        used   == IF ui.post.state = "sent" THEN {ui.post.generation} ELSE {}
        g      == Fresh(used)
    IN  /\ composer_shown(ui)
        /\ ~ui.busy /\ ~writes_confirmed(ui)
        /\ Comment!has_confirmation_for(ui.comment, target)
        /\ Sets(IF ui.workspace
                THEN [ui EXCEPT !.comment = Comment!consume_submission(@, g),
                                !.post = Post("sent", target, g)]
                ELSE [ui EXCEPT !.comment = Comment!Error(target, FALSE)])

(* remote_issue_id.or(selected_issue) *)
shown_for_comment(u) ==
    IF u.lookup.kind = "loaded" THEN u.lookup.issue ELSE u.selected

FinishComment(outcome) ==
    LET done  == [ui EXCEPT !.post = NoPost,
                            !.comment = Comment!finish_submission(@, outcome)]
        clear == [done EXCEPT !.draft = FALSE]
    IN  /\ ui.post.state = "sent"
        /\ Sets(IF ~Comment!is_current(ui.comment, ui.post,
                                       shown_for_comment(ui))
                THEN [ui EXCEPT !.post.state = "done"]
                ELSE IF outcome # "ok" THEN done
                ELSE IF ui.lookup.kind = "loaded" THEN search_jira(clear)
                ELSE reload_selected_detail(clear))

RefreshComments ==
    LET ready == [ui EXCEPT !.comment = Comment!refreshed(@)]
    IN  /\ composer_shown(ui) /\ Comment!can_refresh(ui.comment)
        /\ Sets(IF ui.lookup.kind = "loaded" THEN search_jira(ready)
                ELSE reload_selected_detail(ready))

---------------------------------------------------------------------------
(* Assignee and status *)

start_assignee_search(u, issue) ==
    LET dropped == [u EXCEPT !.edit_load = None]
        g == Fresh(edit_generations(dropped))
    IN  [dropped EXCEPT !.edit = Edit!begin_assignee_loading(@, issue, g),
                        !.edit_load = Read(issue, g)]

(* "Change assignee", or "Choose again" after a definite failure. *)
BeginAssigneeChooser ==
    /\ "edit" \in Features
    /\ edit_controls_shown(ui) /\ ~ui.busy
    /\ \/ ui.edit.kind = "Idle"
       \/ /\ ui.edit.kind = "Error" /\ ~ui.edit.unknown
          /\ ui.edit.operation = "Assignee"
    /\ Sets(start_assignee_search(ui, ui.selected))

SearchAssignees ==
    /\ edit_controls_shown(ui) /\ ~ui.busy
    /\ ui.edit.kind = "AssigneeChooser"
    /\ Sets(start_assignee_search(ui, ui.edit.issue))

FinishAssigneeLoading ==
    /\ ui.edit_load # None
    /\ \E ok \in BOOLEAN :
         Sets(IF Edit!target_is_current(ui.edit, ui.edit_load, ui.selected)
              THEN [ui EXCEPT !.edit = Edit!finish_assignee_loading(
                                           @, ui.edit_load, ok),
                              !.edit_load = None]
              ELSE [ui EXCEPT !.edit_load = None])

ChooseAssignee ==
    /\ edit_controls_shown(ui) /\ ~ui.busy
    /\ ui.edit.kind = "AssigneeChooser" /\ ui.edit.issue = ui.selected
    /\ Sets([ui EXCEPT
                !.edit = Edit!choose_assignee(@, Fresh(edit_generations(
                             [ui EXCEPT !.edit_load = None]))),
                !.edit_load = None])

OpenStatusPopover ==
    /\ "status" \in Features
    /\ status_control_is_editable(ui) /\ ui.transitions = "ready"
    /\ Sets([ui EXCEPT !.popover = TRUE])

CloseStatusPopover == ui.popover /\ Sets([ui EXCEPT !.popover = FALSE])

(* choose_transition_from_list looks neither at busy nor at the flow. *)
ChooseTransition ==
    /\ ui.popover /\ ui.transitions = "ready"
    /\ known(ui, ui.selected)
    /\ Sets([ui EXCEPT !.popover = FALSE,
                       !.edit = Edit!begin_transition_confirmation(
                           @, ui.selected, Fresh(edit_generations(ui)))])

CancelIssueEdit ==
    /\ edit_controls_shown(ui) /\ ~ui.busy
    /\ ui.edit.kind \in {"LoadingAssignees", "AssigneeChooser"}
                            \cup Edit!Confirmations
    /\ LET dropped == [ui EXCEPT !.edit_load = None]
       IN  Sets([dropped EXCEPT !.edit = Edit!invalidate_selection(
                     @, Fresh(edit_generations(dropped)))])

(* "Choose again" after a definite failure, and the list's own "Retry". *)
ChooseTransitionAgain ==
    /\ edit_controls_shown(ui) /\ ~ui.busy
    /\ ui.edit.kind = "Error" /\ ~ui.edit.unknown
    /\ ui.edit.operation = "Transition"
    /\ Sets(reload_status_transitions(ui))

RetryTransitions ==
    /\ ui.selected # None /\ displayed(ui) = ui.selected
    /\ ui.transitions = "error"
    /\ Sets(reload_status_transitions(ui))

SubmitEdit ==
    LET next == Edit!consume_submission(ui.edit, Fresh(edit_generations(ui)))
    IN  /\ edit_controls_shown(ui) /\ ~ui.busy
        /\ ui.edit.kind \in Edit!Confirmations
        /\ Sets([ui EXCEPT !.edit = next, !.busy = TRUE,
                           !.edit_writes = @ \cup {Edit!identity(next)}])

(* An applied change starts a refresh at once. *)
FinishEdit(write, outcome) ==
    LET owns == Edit!owns_write(ui.edit, write, ui.selected)
        done == [ui EXCEPT
                    !.edit_writes = @ \ {write},
                    !.busy = @ /\ ~Edit!releases_busy(ui.edit, write,
                                                      ui.selected),
                    !.edit = Edit!finish_write(@, write, ui.selected, outcome)]
    IN  Sets(IF owns /\ outcome = "ok" THEN refresh_begun(done) ELSE done)

---------------------------------------------------------------------------
(* Watching *)

begin_issue_watch_confirmation(u) ==
    IF u.busy \/ u.watch.kind # "Ready" \/ u.watch.issue # u.selected THEN u
    ELSE [u EXCEPT !.watch = Watch!begin_confirmation(@)]

watch_control_shown(u) ==
    u.selected # None /\ displayed(u) = u.selected

(* The Watch button: an unknown state is read first. *)
BeginWatch ==
    /\ "watch" \in Features
    /\ watch_control_shown(ui) /\ ui.lookup.kind # "loaded"
    /\ ~ui.busy /\ ui.workspace
    /\ ui.watch.issue \in {None, ui.selected}
    /\ ui.watch.kind \notin {"Loading", "Submitting"}
    /\ Sets(IF ui.watch.kind = "Ready"
            THEN begin_issue_watch_confirmation(ui)
            ELSE load_issue_watch_state(
                     [ui EXCEPT !.watch_confirm_after_read = TRUE],
                     ui.selected))

CancelWatch ==
    /\ watch_control_shown(ui)
    /\ ui.watch.kind \in {"Confirming", "Error"}
    /\ Sets([ui EXCEPT !.watch = Watch!cancel_confirmation(@)])

RefreshWatch ==
    /\ watch_control_shown(ui) /\ ui.watch.kind = "Error"
    /\ known(ui, ui.selected)
    /\ Sets(load_issue_watch_state(
                [ui EXCEPT !.watch_confirm_after_read = FALSE], ui.selected))

FinishWatchRead ==
    /\ "watch" \in Features
    /\ ui.watch_read # None
    /\ \E ok \in BOOLEAN :
         LET owns == Watch!owns_read(ui.watch, ui.watch_read, ui.selected)
             read == [ui EXCEPT !.watch = Watch!finish_read(@, ok),
                                !.watch_read = None]
         IN  IF owns
             THEN /\ ui' = IF ok /\ read.watch_confirm_after_read
                           THEN begin_issue_watch_confirmation(
                                    [read EXCEPT
                                        !.watch_confirm_after_read = FALSE])
                           ELSE read
                  /\ unsettled' = IF ok THEN unsettled \ {ui.watch_read.issue}
                                  ELSE unsettled
             ELSE Sets([ui EXCEPT !.watch_read = None])

\* Mutant: a comment under way is not looked at.
SubmitWatch_OverPost ==
    LET next == Watch!consume_submission(ui.watch,
                                         Fresh(watch_generations(ui)))
    IN  /\ watch_control_shown(ui) /\ ui.workspace
        /\ ~ui.busy /\ ~Edit!is_submitting(ui.edit)
        /\ ui.watch.kind = "Confirming" /\ ui.watch.issue = ui.selected
        /\ Sets([ui EXCEPT !.watch = next, !.busy = TRUE,
                           !.watch_write = Watch!identity(next)])

SubmitWatch ==
    LET next == Watch!consume_submission(ui.watch,
                                         Fresh(watch_generations(ui)))
    IN  /\ watch_control_shown(ui) /\ ui.workspace
        /\ ~ui.busy /\ ui.post.state = "none" /\ ~Edit!is_submitting(ui.edit)
        /\ ui.watch.kind = "Confirming" /\ ui.watch.issue = ui.selected
        /\ Sets([ui EXCEPT !.watch = next, !.busy = TRUE,
                           !.watch_write = Watch!identity(next)])

FinishWatch(outcome) ==
    LET write == ui.watch_write
    IN  /\ ui.watch_write # None
        /\ ui' = [ui EXCEPT
                     !.watch_write = None,
                     !.busy = @ /\ ~Watch!releases_busy(ui.watch, write,
                                                        ui.selected),
                     !.watch = Watch!finish_write(@, write, ui.selected,
                                                  outcome)]
        /\ unsettled' = IF outcome = "unknown" THEN unsettled \cup {write.issue}
                        ELSE unsettled

---------------------------------------------------------------------------
(* A click: an open popover takes the first one and closes. *)
Click ==
    \/ BeginRefresh \/ BeginMarkRead \/ BeginTeam \/ BeginSaveSettings
    \/ SelectRow \/ OpenUpdate
    \/ SelectTeamRow \/ EnterTeam \/ ClearTeamRow \/ OpenInIssues
    \/ SetSearchQuery \/ SetStatusFilter \/ ClearIssueFilters
    \/ SearchJira \/ OpenRelated
    \/ EditDraft \/ BeginCommentConfirmation \/ CancelCommentConfirmation
    \/ PostComment \/ RefreshComments
    \/ BeginAssigneeChooser \/ SearchAssignees \/ ChooseAssignee
    \/ OpenStatusPopover \/ ChooseTransitionAgain \/ RetryTransitions
    \/ CancelIssueEdit \/ SubmitEdit
    \/ BeginWatch \/ CancelWatch \/ RefreshWatch \/ SubmitWatch

FinishJob ==
    \/ FinishStartup \/ FinishRefresh \/ FinishPoll
    \/ FinishMarkRead \/ FinishTeam \/ FinishSaveSettings

FinishRead ==
    \/ FinishLookup \/ FinishDetail \/ FinishTransitions
    \/ FinishAssigneeLoading \/ FinishWatchRead

FinishAnyComment == \E outcome \in Outcomes : FinishComment(outcome)
FinishAnyEdit ==
    \E write \in ui.edit_writes, outcome \in Outcomes :
        FinishEdit(write, outcome)
FinishAnyWatch == \E outcome \in Outcomes : FinishWatch(outcome)

Next ==
    \/ ~ui.popover /\ Click
    \/ ChooseTransition \/ CloseStatusPopover
    \/ Poll \/ FinishJob \/ FinishRead
    \/ FinishAnyComment \/ FinishAnyEdit \/ FinishAnyWatch

(* Requests end, by an answer or by the HTTP client's timeout; clicks and *)
(* timers may never come.                                                 *)
Fairness ==
    /\ WF_vars(FinishJob)
    /\ WF_vars(FinishAnyComment)
    /\ WF_vars(FinishAnyEdit)
    /\ WF_vars(FinishAnyWatch)

Spec == Init /\ [][Next]_vars /\ Fairness

---------------------------------------------------------------------------
(* Properties *)

Lookups ==
    [kind : {"idle", "loading", "loaded", "error"}, issue : Issues \cup {None}]

Uis ==
    [workspace : BOOLEAN, busy : BOOLEAN, jobs : SUBSET Jobs,
     domain : SUBSET Issues, team : SUBSET Issues,
     selected : Issues \cup {None}, core : Issues \cup {None},
     detail : {"empty", "pending", "loaded", "error"},
     lookup : Lookups, query : Issues \cup {None},
     transitions : {"idle", "loading", "ready", "error"}, popover : BOOLEAN,
     comment : Comment!Flow(Issues), draft : BOOLEAN,
     post : [state : {"none", "sent", "done"}, issue : Issues \cup {None},
             generation : Nat],
     edit : Edit!Flow(Issues),
     edit_load : [issue : Issues, generation : Nat] \cup {None},
     edit_writes : SUBSET Edit!Identity(Issues),
     watch : Watch!Flow(Issues),
     watch_read : [issue : Issues, generation : Nat] \cup {None},
     watch_write : Watch!Identity(Issues) \cup {None},
     watch_confirm_after_read : BOOLEAN,
     polling : {"off", "waiting", "refreshing", "paused"}]

(* The type of the struct, of its tasks and of the history. *)
TypeOK ==
    /\ ui \in Uis
    /\ unsettled \subseteq Issues

(* operation_in_progress is one flag that eight kinds of operation take,   *)
(* check and give back in their own completions: it is set exactly while   *)
(* one of them is under way, also when the write it was taken for was      *)
(* invalidated before it completed.  So no two of them ever overlap, and   *)
(* no completion leaves the flag set or clears another operation's.        *)
BusyHasOneHolder ==
    Cardinality(ui.jobs) + Cardinality(ui.edit_writes)
        + (IF ui.watch_write = None THEN 0 ELSE 1)
    = (IF ui.busy THEN 1 ELSE 0)

(* Whatever is being chosen, confirmed or written for an issue is for the  *)
(* issue that is selected: no way of changing the selection leaves an edit *)
(* or a watch change of another issue on the screen.                       *)
FlowsConcernSelection ==
    ui.workspace =>
        /\ ui.edit.issue \in {None, ui.selected}
        /\ ui.watch.issue \in {None, ui.selected}

(* "A dispatched write is never cancelled": a watch change is not even     *)
(* detached from its flow, so its outcome is always shown.                 *)
WatchOutcomeIsShown ==
    ui.watch_write # None => Watch!owns_write(ui.watch, ui.watch_write,
                                              ui.selected)

(* Watch or Unwatch is offered, confirmed and sent only for an issue whose *)
(* last watch change has a known outcome or was read again since.          *)
WatchChangeIsReconciled ==
    ui.watch.kind \in {"Ready", "Confirming", "Submitting"} =>
        ui.watch.issue \notin unsettled

(* A comment and a watch change are never sent at the same time: each      *)
(* handler checks for the other, one of them by the task it finds held.    *)
CommentAndWatchDoNotOverlap ==
    ~(ui.post.state = "sent" /\ ui.watch_write # None)

(* A comment that is confirmed, being sent or failed still has its draft:  *)
(* whatever clears the draft (another issue, another query, a lookup, a    *)
(* reload) takes the flow back to idle in the same step, also while the    *)
(* request is out.                                                         *)
SubmissionKeepsDraft == ui.comment.kind # "Idle" => ui.draft

(* operation_in_progress is always given back. *)
BusyIsReleased == ui.busy ~> ~ui.busy

---------------------------------------------------------------------------
(* What the documentation says of a write whose outcome is unknown; see    *)
(* the findings.                                                           *)

(* operations.md: "If the outcome is unknown, the draft is retained and the *)
(* UI asks the user to refresh comments before deciding whether to retry." *)
UnknownCommentIsReported ==
    [][FinishComment("unknown") =>
           Comment!is_unknown(ui'.comment) /\ ui'.draft]_vars
===========================================================================
