----------------------------- MODULE IssueSync -----------------------------
(***************************************************************************)
(* Synchronization of the local issue cache with Jira, and the local       *)
(* update feed it produces (crates/application/src/sync.rs with the        *)
(* differ, the activity enrichment and the SQLite store it calls).         *)
(*                                                                         *)
(* Jira is the environment.  An issue is the sequence of its revisions, so *)
(* a snapshot of an issue is a revision number: a Jira timestamp           *)
(* (`updated_at', a history's `created', a comment's activity time) is the *)
(* revision that carries it, and 0 stands for "no snapshot".  The assignee *)
(* stands for every field the differ names; a revision that leaves it      *)
(* alone is one the differ only sees as IssueUpdated.                      *)
(*                                                                         *)
(* A user set is one cache partition: the signed-in account's own view     *)
(* (Home) or its team.  Memberships, cursors and event tags belong to a    *)
(* user set; issue snapshots and events are shared by all of them.         *)
(***************************************************************************)
EXTENDS Integers, Sequences, FiniteSets

CONSTANTS
    Issues,          \* issue ids
    UserSets,        \* cache partitions
    Home,            \* the partition of the signed-in account
    Accounts,        \* Jira accounts
    Me,              \* the signed-in account
    Assignees,       \* [UserSets -> SUBSET Accounts]: the assignee clause
    Watches,         \* [UserSets -> BOOLEAN]: is there a watcher clause
    Activities,      \* what people do besides editing, of the set below
    Overlap,         \* how far an incremental query reaches behind the cursor
    FetchLimit,      \* the longest a fetch of pages (or a detail read) lasts
    Skew,            \* how far the local clock runs ahead of Jira's
    Minute,          \* the unit of a query's time literal, in instants
    MaxTime,         \* bound: the last instant
    MaxRevisions,    \* bound: revisions of one issue
    MaxToggles,      \* bound: changes of a watch
    MaxFaults,       \* bound: failures of store, network and notifier, and crashes
    None

ASSUME PartitionAssumption ==
    /\ Home \in UserSets
    /\ Me \in Accounts
    /\ Assignees \in [UserSets -> SUBSET Accounts]
    /\ Watches \in [UserSets -> BOOLEAN]
    /\ Activities \subseteq {"detail", "read", "mention"}

ASSUME TimeAssumption ==
    /\ Overlap \in Nat
    /\ FetchLimit \in Nat
    /\ Skew \in Nat
    /\ Minute \in Nat \ {0}

ASSUME BoundAssumption ==
    /\ MaxTime \in Nat
    /\ MaxRevisions \in Nat \ {0}
    /\ MaxToggles \in Nat
    /\ MaxFaults \in Nat

ASSUME NoneAssumption ==
    /\ None \notin Int
    /\ None \notin Accounts

VARIABLES
    \* Jira
    now,             \* Jira's clock
    jira,            \* the revisions of each issue
    watched,         \* issues the signed-in account watches
    toggles,         \* watch changes so far
    \* the SQLite store
    snap,            \* issues: the cached revision of an issue, 0 if none
    member,          \* issue_membership
    cursor,          \* sync_states.last_incremental_succeeded
    lastError,       \* sync_states.last_error_kind
    feed,            \* update_events and event_user_sets, by event id
    \* the process
    phase,           \* where the running synchronization stands
    run,             \* its request and what it has read
    queue,           \* inserted events not yet offered to the notifier
    unrecorded,      \* a notification outcome not yet stored
    paused,          \* is automatic polling paused
    detail,          \* an issue detail read, not yet cached
    faults           \* failures so far

jiraVars == <<now, jira, watched, toggles>>
storeVars == <<snap, member, cursor, lastError, feed>>
processVars == <<phase, run, queue, unrecorded, paused, detail>>
vars == <<jiraVars, storeVars, processVars, faults>>

-----------------------------------------------------------------------------
(* Data *)

Revision == [at : Nat, assignee : Accounts, mention : BOOLEAN]

Modes == {"Baseline", "Incremental", "Reconciliation"}
replaces_membership(mode) == mode \in {"Baseline", "Reconciliation"}
emits_updates(mode) == mode # "Baseline"

Kinds == {"added", "removed", "assignee", "updated", "history", "comment"}

\* What the two digests of event_identity.rs hash: never the local time.
Event == [issue : Issues, kind : Kinds, rev : Nat,
          old : Accounts \cup {None}, new : Accounts \cup {None}]

MkEvent(i, k, r, o, n) == [issue |-> i, kind |-> k, rev |-> r, old |-> o, new |-> n]

Deliveries == {"NotAttempted", "SuppressedByPolicy", "Delivered", "Unavailable"}

\* A stored event.  `alerts' counts the desktop alerts shown for it: no
\* code keeps it, it is what the user has seen.
Entry == [occurred : Nat, sets : SUBSET UserSets, read : BOOLEAN,
          delivery : Deliveries, alerts : Nat]

\* Authentication stands for the errors of Jira after which polling gives up:
\* no authorization, no such site, an answer that makes no sense.
Errors == {"Upstream", "Authentication", "InvalidInput", "Storage"}
ASSUME ErrorAssumption == None \notin Errors

Phases == {"idle", "fetching", "committing", "notifying"}

Snapshots == [Issues -> Nat]
NoSnapshot == [i \in Issues |-> 0]

Run == [set : UserSets, mode : Modes, manual : BOOLEAN, since : Int \cup {None},
        opened : Nat \cup {None}, expected : Snapshots,
        fetched : Snapshots, cursor : Nat, events : SUBSET Event]

NoRun == [set |-> Home, mode |-> "Baseline", manual |-> FALSE, since |-> None, opened |-> None,
          expected |-> NoSnapshot, fetched |-> NoSnapshot, cursor |-> 0, events |-> {}]

Assignee(i, r) == jira[i][r].assignee
Latest(i) == Len(jira[i])
Updated(i) == jira[i][Latest(i)].at

-----------------------------------------------------------------------------
(* What Jira answers *)

\* The JQL view of a user set: (assignee in (...) OR watcher in (...)).
InView(s, i) ==
    \/ Assignee(i, Latest(i)) \in Assignees[s]
    \/ Watches[s] /\ i \in watched

\* The literal of the query is written to the minute.
truncated(since) == since - (since % Minute)

Matching(s, since) ==
    {i \in Issues : InView(s, i) /\ (since = None \/ Updated(i) >= truncated(since))}

\* Pages come in the order `updated DESC', so an issue updated after the first
\* of them was read may move past the others.  Every issue that has stayed the
\* same since then is served by the last page.
Outstanding ==
    {i \in Matching(run.set, run.since) :
        run.expected[i] = Latest(i) /\ run.fetched[i] = 0}

-----------------------------------------------------------------------------
(* Deriving update events: issue_diff.rs and sync_activity.rs *)

changed_issues(existing, incoming) ==
    {i \in Issues : existing[i] # 0 /\ incoming[i] # 0 /\ existing[i] # incoming[i]}

\* Mutant: the sides of the change are swapped.
assignee_event_Swapped(i, existing, incoming) ==
    MkEvent(i, "assignee", incoming[i],
            Assignee(i, incoming[i]), Assignee(i, existing[i]))

assignee_event(i, existing, incoming) ==
    MkEvent(i, "assignee", incoming[i],
            Assignee(i, existing[i]), Assignee(i, incoming[i]))

\* DefaultIssueDiffer::diff
diff(existing, incoming, include_removed_from_view) ==
    LET pairs == changed_issues(existing, incoming)
        reassigned == {i \in pairs : Assignee(i, existing[i]) # Assignee(i, incoming[i])}
    IN  {MkEvent(i, "added", incoming[i], None, None) :
            i \in {j \in Issues : existing[j] = 0 /\ incoming[j] # 0}}
        \cup
        {MkEvent(i, "removed", existing[i], None, None) :
            i \in {j \in Issues : /\ include_removed_from_view
                                  /\ existing[j] # 0 /\ incoming[j] = 0}}
        \cup
        {assignee_event(i, existing, incoming) : i \in reassigned}
        \cup
        {MkEvent(i, "updated", incoming[i], None, None) : i \in pairs \ reassigned}

\* The histories and comments of issue i dated in (old.updated_at, new.updated_at].
histories(i, existing, incoming) ==
    {r \in existing[i] + 1 .. incoming[i] : Assignee(i, r - 1) # Assignee(i, r)}
mentions(i, existing, incoming) ==
    {r \in existing[i] + 1 .. incoming[i] : jira[i][r].mention}

\* Mutant: any changelog answer supersedes, even one without usable history.
enriched_issues_AnyAnswer(existing, incoming, logged) == logged

enriched_issues(existing, incoming, logged) ==
    {i \in logged : histories(i, existing, incoming) # {}}
mentioned_issues(existing, incoming, readable) ==
    {i \in readable : mentions(i, existing, incoming) # {}}

changelog_events(existing, incoming, enriched) ==
    UNION {{MkEvent(i, "history", r, Assignee(i, r - 1), Assignee(i, r)) :
              r \in histories(i, existing, incoming)} : i \in enriched}

mention_events(existing, incoming, mentioned) ==
    UNION {{MkEvent(i, "comment", r, None, None) :
              r \in mentions(i, existing, incoming)} : i \in mentioned}

\* Mutant: a field event survives the changelog entry for the same change.
superseded_GenericOnly(e, enriched, mentioned) ==
    e.kind = "updated" /\ e.issue \in enriched \cup mentioned

\* A snapshot event gives way to the changelog of its issue, and the generic one
\* to a mention as well.
superseded(e, enriched, mentioned) ==
    \/ e.kind \in {"updated", "assignee"} /\ e.issue \in enriched
    \/ e.kind = "updated" /\ e.issue \in mentioned

\* SyncActivityEnricher::enrich.  `logged' are the issues whose changelog Jira
\* returned, `readable' those whose comments could be read.
enrich(events, existing, incoming, logged, readable) ==
    LET enriched == enriched_issues(existing, incoming, logged)
        mentioned == mentioned_issues(existing, incoming, readable)
    IN  {e \in events : ~ superseded(e, enriched, mentioned)}
        \cup changelog_events(existing, incoming, enriched)
        \cup mention_events(existing, incoming, mentioned)

\* issues_for_user_set: the join of membership and snapshots.
issues_for_user_set(s) == [i \in Issues |-> IF i \in member[s] THEN snap[i] ELSE 0]

\* occurred_at: histories and comments carry their own time, a snapshot event
\* the moment it was detected.
occurred_at(e, detected_at) ==
    IF e.kind \in {"history", "comment"} THEN jira[e.issue][e.rev].at ELSE detected_at

-----------------------------------------------------------------------------
(* Jira's side: time and the edits of other people *)

\* A fetch and a detail read are not held open for longer than FetchLimit.
Tick ==
    /\ now < MaxTime
    /\ phase = "fetching" /\ run.opened # None => now < run.opened + FetchLimit
    /\ detail # None => now < detail.at + FetchLimit
    /\ now' = now + 1
    /\ UNCHANGED <<jira, watched, toggles, storeVars, processVars, faults>>

\* Every revision bumps `updated'; it may reassign the issue and may come with
\* a comment that mentions the signed-in account.
Revise(i, a, mention) ==
    /\ Latest(i) < MaxRevisions
    /\ Updated(i) < now
    /\ mention => "mention" \in Activities
    /\ jira' = [jira EXCEPT ![i] =
                   Append(@, [at |-> now, assignee |-> a, mention |-> mention])]
    /\ UNCHANGED <<now, watched, toggles, storeVars, processVars, faults>>

\* Watching changes the view and leaves `updated' alone.
ToggleWatch(i) ==
    /\ toggles < MaxToggles
    /\ toggles' = toggles + 1
    /\ watched' = IF i \in watched THEN watched \ {i} ELSE watched \cup {i}
    /\ UNCHANGED <<now, jira, storeVars, processVars, faults>>

-----------------------------------------------------------------------------
(* SyncService::run *)

\* LiveWorkspace::next_mode_for_user_set
next_mode(s, subsequent_mode) ==
    IF cursor[s] = None THEN "Baseline" ELSE subsequent_mode

\* Mutant: the query starts at the cursor.
updated_since_NoOverlap(s, mode) ==
    IF mode = "Incremental" THEN cursor[s] ELSE None

updated_since(s, mode) ==
    IF mode = "Incremental" THEN cursor[s] - Overlap ELSE None

\* The dashboard's operation_in_progress flag admits one run at a time; a team
\* without members is never synchronized.
Begin(s, manual) ==
    LET mode == next_mode(s, IF manual THEN "Reconciliation" ELSE "Incremental")
    IN  /\ phase = "idle"
        /\ s # Home => Assignees[s] # {}
        /\ phase' = "fetching"
        /\ run' = [NoRun EXCEPT !.set = s, !.mode = mode, !.manual = manual,
                                !.since = updated_since(s, mode)]
        /\ UNCHANGED <<jiraVars, storeVars, queue, unrecorded, paused, detail, faults>>

Refresh(s) == Begin(s, TRUE)
RefreshAutomatically(s) == ~ paused /\ Begin(s, FALSE)

\* A page is read at one moment and its issues replace earlier reads of them.
FetchPage(page) ==
    /\ phase = "fetching"
    /\ page \subseteq Matching(run.set, run.since)
    /\ run' = [run EXCEPT
          !.opened = IF @ = None THEN now ELSE @,
          !.expected = IF run.opened # None THEN @
                       ELSE [i \in Issues |->
                               IF i \in Matching(run.set, run.since) THEN Latest(i) ELSE 0],
          !.fetched = [i \in Issues |-> IF i \in page THEN Latest(i) ELSE @[i]]]
    /\ UNCHANGED <<jiraVars, storeVars, phase, queue, unrecorded, paused, detail, faults>>

\* After the last page: the cursor is the local clock, the partition is read
\* once more, and the events are derived from what was fetched.
Derive(logged, readable) ==
    LET existing == issues_for_user_set(run.set)
        derived == enrich(diff(existing, run.fetched, replaces_membership(run.mode)),
                          existing, run.fetched, logged, readable)
    IN  /\ phase = "fetching" /\ run.opened # None /\ Outstanding = {}
        /\ IF emits_updates(run.mode)
           THEN logged \cup readable \subseteq changed_issues(existing, run.fetched)
           ELSE logged \cup readable = {}
        /\ phase' = "committing"
        /\ run' = [run EXCEPT !.since = None, !.opened = None,
                              !.expected = NoSnapshot, !.cursor = now + Skew,
                              !.events = IF emits_updates(run.mode) THEN derived ELSE {}]
        /\ UNCHANGED <<jiraVars, storeVars, queue, unrecorded, paused, detail, faults>>

\* DefaultPollingPolicy: after these the poller gives up; it starts again when a
\* manual refresh of Home succeeds.
pausing(kind) == kind # "Upstream"
paused_after(kind) == paused \/ (pausing(kind) /\ run.set = Home /\ ~ run.manual)

\* The run ends with an error.  Recording it is best effort.
Fail(kind) ==
    /\ phase' = "idle"
    /\ run' = NoRun
    /\ paused' = paused_after(kind)
    /\ lastError' \in {lastError, [lastError EXCEPT ![run.set] = kind]}
    /\ UNCHANGED <<jiraVars, snap, member, cursor, feed, queue, unrecorded, detail>>

\* A page, a mention read or a read of the store fails.
FetchFails ==
    /\ phase = "fetching"
    /\ faults < MaxFaults /\ faults' = faults + 1
    /\ \E kind \in {"Upstream", "Authentication", "Storage"} : Fail(kind)

\* The transaction fails and is rolled back.
CommitFails ==
    /\ phase = "committing"
    /\ faults < MaxFaults /\ faults' = faults + 1
    /\ Fail("Storage")

-----------------------------------------------------------------------------
(* commit_sync *)

\* same_event_identity compares occurred_at, which the event id leaves out.
same_event_identity(e) ==
    feed[e].occurred = occurred_at(e, run.cursor)

Conflicts == {e \in run.events \cap DOMAIN feed : ~ same_event_identity(e)}

\* Mutant: every derived event is offered to the notifier.
inserted_events_All == run.events

inserted_events == run.events \ DOMAIN feed

\* Mutant: the event is dated by the bound of the query.
NewEntry_DatedByQuery(e) ==
    [occurred |-> run.since, sets |-> {run.set}, read |-> FALSE,
     delivery |-> "NotAttempted", alerts |-> 0]

NewEntry(e) ==
    [occurred |-> occurred_at(e, run.cursor), sets |-> {run.set}, read |-> FALSE,
     delivery |-> "NotAttempted", alerts |-> 0]

\* Mutant: INSERT OR REPLACE.
insert_events_Replace ==
    [e \in DOMAIN feed \cup run.events |->
        IF e \in run.events THEN NewEntry(e) ELSE feed[e]]

\* INSERT OR IGNORE of the events, then of their user-set tags.
insert_events ==
    [e \in DOMAIN feed \cup run.events |->
        IF e \notin DOMAIN feed THEN NewEntry(e)
        ELSE IF e \in run.events THEN [feed[e] EXCEPT !.sets = @ \cup {run.set}]
        ELSE feed[e]]

fetched_issues == {i \in Issues : run.fetched[i] # 0}

\* Mutant: an incremental commit stores snapshots and forgets memberships.
insert_membership_OnlyReplaced ==
    IF replaces_membership(run.mode) THEN fetched_issues ELSE member[run.set]

\* DELETE when the mode replaces, then INSERT OR IGNORE.
insert_membership ==
    IF replaces_membership(run.mode) THEN fetched_issues
    ELSE member[run.set] \cup fetched_issues

\* Mutant: INSERT OR IGNORE, a known issue keeps its old snapshot.
insert_issue_Ignore ==
    [i \in Issues |-> IF i \in fetched_issues /\ snap[i] = 0 THEN run.fetched[i]
                      ELSE snap[i]]

\* insert_issue: ON CONFLICT DO UPDATE.
insert_issue ==
    [i \in Issues |-> IF i \in fetched_issues THEN run.fetched[i] ELSE snap[i]]

commit_sync ==
    /\ phase = "committing" /\ Conflicts = {}
    /\ member' = [member EXCEPT ![run.set] = insert_membership]
    /\ snap' = insert_issue
    /\ feed' = insert_events
    /\ cursor' = [cursor EXCEPT ![run.set] = run.cursor]
    /\ lastError' = [lastError EXCEPT ![run.set] = None]
    /\ queue' = inserted_events
    /\ phase' = "notifying"
    /\ run' = [NoRun EXCEPT !.set = run.set, !.manual = run.manual, !.fetched = run.fetched]
    /\ UNCHANGED <<jiraVars, unrecorded, paused, detail, faults>>

\* "event ID conflicts with a different update event"
CommitConflict ==
    /\ phase = "committing" /\ Conflicts # {}
    /\ Fail("InvalidInput")
    /\ UNCHANGED faults

-----------------------------------------------------------------------------
(* deliver_notifications *)

\* notification_issue_ids and DefaultDesktopNotificationPolicy::should_notify
Suppressed(e) ==
    \/ e.kind = "removed"
    \/ /\ e.kind # "comment"
       /\ ~ (/\ run.fetched[e.issue] # 0
             /\ Assignee(e.issue, run.fetched[e.issue]) = Me)

deliver_notification(e) ==
    /\ phase = "notifying" /\ unrecorded = None
    /\ e \in queue
    /\ queue' = queue \ {e}
    /\ \/ /\ Suppressed(e)
          /\ unrecorded' = [event |-> e, delivery |-> "SuppressedByPolicy"]
          /\ UNCHANGED <<feed, faults>>
       \/ /\ ~ Suppressed(e)
          /\ unrecorded' = [event |-> e, delivery |-> "Delivered"]
          /\ feed' = [feed EXCEPT ![e].alerts = @ + 1]
          /\ UNCHANGED faults
       \/ /\ ~ Suppressed(e)
          /\ faults < MaxFaults /\ faults' = faults + 1
          /\ unrecorded' = [event |-> e, delivery |-> "Unavailable"]
          /\ UNCHANGED feed
    /\ UNCHANGED <<jiraVars, snap, member, cursor, lastError, phase, run, paused, detail>>

\* Mutant: the outcome of the notifier is not looked at.
record_notification_delivery_Blind ==
    /\ unrecorded # None
    /\ feed' = [feed EXCEPT ![unrecorded.event].delivery = "Delivered"]
    /\ unrecorded' = None
    /\ UNCHANGED <<jiraVars, snap, member, cursor, lastError, phase, run, queue, paused, detail, faults>>

record_notification_delivery ==
    /\ unrecorded # None
    /\ feed' = [feed EXCEPT ![unrecorded.event].delivery = unrecorded.delivery]
    /\ unrecorded' = None
    /\ UNCHANGED <<jiraVars, snap, member, cursor, lastError, phase, run, queue, paused, detail, faults>>

\* record_notification drops the error of the store.
RecordingFails ==
    /\ unrecorded # None
    /\ faults < MaxFaults /\ faults' = faults + 1
    /\ unrecorded' = None
    /\ UNCHANGED <<jiraVars, storeVars, phase, run, queue, paused, detail>>

RunOver == phase = "notifying" /\ queue = {} /\ unrecorded = None

\* A completed manual refresh of Home restarts paused polling.
SyncCompleted ==
    /\ RunOver
    /\ phase' = "idle"
    /\ run' = NoRun
    /\ paused' = (paused /\ ~ (run.manual /\ run.set = Home))
    /\ UNCHANGED <<jiraVars, storeVars, queue, unrecorded, detail, faults>>

\* The run has succeeded, but reading the partition back for display fails.
ReloadFails ==
    /\ RunOver
    /\ faults < MaxFaults /\ faults' = faults + 1
    /\ phase' = "idle"
    /\ run' = NoRun
    /\ paused' = paused_after("Storage")
    /\ UNCHANGED <<jiraVars, storeVars, queue, unrecorded, detail>>

-----------------------------------------------------------------------------
(* The rest of the process *)

\* The detail panel reads a displayed issue; its comments take further reads.
DetailRead(i) ==
    /\ "detail" \in Activities /\ detail = None
    /\ \E s \in UserSets : i \in member[s]
    /\ detail' = [issue |-> i, rev |-> Latest(i), at |-> now]
    /\ UNCHANGED <<jiraVars, storeVars, phase, run, queue, unrecorded, paused, faults>>

\* cache_detail_issue: updates the row if there is one, whatever it holds.
cache_detail_issue ==
    /\ detail # None
    /\ snap' = IF snap[detail.issue] = 0 THEN snap
               ELSE [snap EXCEPT ![detail.issue] = detail.rev]
    /\ detail' = None
    /\ UNCHANGED <<jiraVars, member, cursor, lastError, feed, phase, run, queue, unrecorded, paused, faults>>

\* The read failed, or another issue was selected meanwhile.
DetailDropped ==
    /\ detail # None
    /\ detail' = None
    /\ UNCHANGED <<jiraVars, storeVars, phase, run, queue, unrecorded, paused, faults>>

\* LiveWorkspace::load_cached_for_partition
Displayed(s) == {e \in DOMAIN feed : e.issue \in member[s] /\ s \in feed[e].sets}

\* mark_read of a group of updates, mark_all_read of every one displayed.
mark_read(events) ==
    /\ phase = "idle"
    /\ "read" \in Activities
    /\ events # {} /\ events \subseteq Displayed(Home)
    /\ feed' = [e \in DOMAIN feed |->
                  IF e \in events THEN [feed[e] EXCEPT !.read = TRUE] ELSE feed[e]]
    /\ UNCHANGED <<jiraVars, snap, member, cursor, lastError, processVars, faults>>

MarkGroupRead(i) == mark_read({e \in Displayed(Home) : e.issue = i})
MarkAllRead == mark_read(Displayed(Home))

\* The process ends and starts again with the store alone.
Restart ==
    /\ faults < MaxFaults /\ faults' = faults + 1
    /\ phase' = "idle" /\ run' = NoRun /\ queue' = {} /\ unrecorded' = None
    /\ paused' = FALSE /\ detail' = None
    /\ UNCHANGED <<jiraVars, storeVars>>

-----------------------------------------------------------------------------

Init ==
    /\ now = 0
    /\ jira \in [Issues -> {<<[at |-> 0, assignee |-> a, mention |-> FALSE]>> : a \in Accounts}]
    /\ watched \in SUBSET Issues
    /\ toggles = 0
    /\ snap = NoSnapshot
    /\ member = [s \in UserSets |-> {}]
    /\ cursor = [s \in UserSets |-> None]
    /\ lastError = [s \in UserSets |-> None]
    /\ feed = [e \in {} |-> None]
    /\ phase = "idle"
    /\ run = NoRun
    /\ queue = {}
    /\ unrecorded = None
    /\ paused = FALSE
    /\ detail = None
    /\ faults = 0

Environment ==
    \/ Tick
    \/ \E i \in Issues, a \in Accounts, m \in BOOLEAN : Revise(i, a, m)
    \/ \E i \in Issues : ToggleWatch(i)

Sync ==
    \/ \E s \in UserSets : Refresh(s) \/ RefreshAutomatically(s)
    \/ \E page \in SUBSET Issues : FetchPage(page)
    \/ \E logged, readable \in SUBSET Issues : Derive(logged, readable)
    \/ FetchFails \/ CommitFails \/ commit_sync \/ CommitConflict
    \/ \E e \in queue : deliver_notification(e)
    \/ record_notification_delivery \/ RecordingFails
    \/ SyncCompleted \/ ReloadFails

Dashboard ==
    \/ \E i \in Issues : DetailRead(i) \/ MarkGroupRead(i)
    \/ cache_detail_issue \/ DetailDropped \/ MarkAllRead
    \/ Restart

Next == Environment \/ Sync \/ Dashboard

Spec == Init /\ [][Next]_vars

\* Fairness, for liveness only: Jira serves the rest of the pages, each await of
\* a run returns, and the automatic polling of Home comes round.  Nothing is
\* owed by the user, by the editors of issues or by the detail panel.
Fairness ==
    /\ WF_vars(RefreshAutomatically(Home))
    /\ WF_vars(FetchPage(Outstanding))
    /\ WF_vars(run.opened = None /\ FetchPage(Matching(run.set, run.since)))
    /\ WF_vars(\E logged, readable \in SUBSET Issues : Derive(logged, readable))
    /\ WF_vars(commit_sync \/ CommitConflict)
    /\ WF_vars(\E e \in queue : deliver_notification(e))
    /\ WF_vars(record_notification_delivery)
    /\ WF_vars(SyncCompleted)

FairSpec == Spec /\ Fairness

-----------------------------------------------------------------------------
(* Properties *)

\* Every variable has its type; an event id is stored under the event itself.
TypeOK ==
    /\ now \in Nat
    /\ jira \in [Issues -> Seq(Revision)] /\ \A i \in Issues : Latest(i) > 0
    /\ watched \subseteq Issues
    /\ toggles \in Nat
    /\ snap \in Snapshots
    /\ member \in [UserSets -> SUBSET Issues]
    /\ cursor \in [UserSets -> Nat \cup {None}]
    /\ lastError \in [UserSets -> Errors \cup {None}]
    /\ feed \in [DOMAIN feed -> Entry] /\ DOMAIN feed \subseteq Event
    /\ phase \in Phases
    /\ run \in Run
    /\ queue \subseteq Event
    /\ unrecorded \in [event : Event, delivery : Deliveries] \cup {None}
    /\ paused \in BOOLEAN
    /\ detail \in [issue : Issues, rev : Nat, at : Nat] \cup {None}
    /\ faults \in Nat

\* An event raises at most one desktop alert, however many overlapping queries,
\* retries, restarts and partitions derive it again: only events a commit has
\* inserted are offered to the notifier (inserted_events of commit_sync).
NotifiedAtMostOnce == \A e \in DOMAIN feed : feed[e].alerts <= 1

\* What the store says of a notification is what happened: Delivered only after
\* an alert, and SuppressedByPolicy or Unavailable only without one.  A lost
\* record leaves NotAttempted, which says nothing.
DeliveryRecordIsTrue ==
    \A e \in DOMAIN feed :
        /\ feed[e].delivery = "Delivered" => feed[e].alerts > 0
        /\ feed[e].delivery \in {"SuppressedByPolicy", "Unavailable"} => feed[e].alerts = 0

\* The feed and the issue list agree: no stored event tells of a revision later
\* than the cached snapshot, because commit_sync writes both or neither.
FeedNotAheadOfCache == \A e \in DOMAIN feed : e.rev <= snap[e.issue]

\* An update older than the overlap behind a cursor has been taken in: an issue
\* assigned within the user set is a member and its snapshot is the latest.
\* This is what the overlap is for; it must outlast the fetch and the clock skew.
NoUpdateLost ==
    \A s \in UserSets, i \in Issues :
        /\ cursor[s] # None
        /\ Assignee(i, Latest(i)) \in Assignees[s]
        /\ Updated(i) < cursor[s] - Overlap
        => i \in member[s] /\ snap[i] = Latest(i)

\* A revision is announced as a changelog entry or as the snapshot change ending
\* there, never as both, whether or not the changelog could be read each time.
AnnouncedInOneForm ==
    \A e, f \in DOMAIN feed :
        e.kind = "history" /\ f.kind \in {"assignee", "updated"}
        => ~ (e.issue = f.issue /\ e.rev = f.rev)

\* A reassignment in the feed did happen: the issue had the new assignee at the
\* revision named and the old one before it (the differ's "honest fallbacks").
ReassignmentsHappened ==
    \A e \in DOMAIN feed :
        e.kind \in {"assignee", "history"}
        => /\ Assignee(e.issue, e.rev) = e.new
           /\ \E r \in 1 .. e.rev - 1 : Assignee(e.issue, r) = e.old

\* An issue of the view never changes silently: when a synchronization moves
\* its snapshot forward, the feed holds an event of that user set for it.
ChangesAreAnnounced ==
    [][\A s \in UserSets, i \in Issues :
          i \in member[s] \cap member'[s] /\ snap'[i] > snap[i]
          => \E e \in DOMAIN feed' : /\ e.issue = i /\ s \in feed'[e].sets
                                     /\ e.rev \in snap[i] + 1 .. snap'[i]]_vars

\* The derivation of events is idempotent (issue_diff.rs: the same update derived
\* again has the same id and persistence deduplicates it), so no run ends because
\* an event id is already taken.
NoEventConflict == \A s \in UserSets : lastError[s] # "InvalidInput"

\* The feed keeps the promise of UpdateFeed: an event that is derived again
\* changes neither its time nor what the user has read or been alerted to.
Seen(entry) ==
    [occurred |-> entry.occurred, read |-> entry.read, alerted |-> entry.alerts > 0]
Feed == INSTANCE UpdateFeed WITH published <- [e \in DOMAIN feed |-> Seen(feed[e])]
KeepsFeedPromise == Feed!Spec

\* Once Jira is quiet and failures are over, automatic polling alone brings Home
\* up to date with every issue assigned to the account, unless it is paused.
Converged ==
    \A i \in Issues : Assignee(i, Latest(i)) \in Assignees[Home]
                     => i \in member[Home] /\ snap[i] = Latest(i)
Converges == <>[](Converged \/ paused)

=============================================================================
