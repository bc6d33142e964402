# Formal models of Jira Desk

TLA+ specifications of the program in `src/` (a desktop dashboard that keeps a
local cache of Jira issues and an update feed), TLC configurations that check
them on small instances, and TLAPS proofs about them for every instance. Paths
below are relative to `src/`.

## 1. The system

### Components, their state and their operations

| Component | State | Operations | What makes it correct |
|---|---|---|---|
| `SyncService` (`crates/application/src/sync.rs`) | none of its own; one run: request, pages read, cursor, events | `run`: read the cursor, fetch pages, diff, enrich, commit, notify | no update is lost between two queries; nothing is announced twice; a failed run changes only the recorded failure |
| Differ and enrichment (`issue_diff.rs`, `sync_activity.rs`, `event_identity.rs`) | none | `diff`, `enrich_with_changelog`, `mention_events`, event ids | a change is announced once, in one form, and tells the truth; deriving it again gives the same event |
| SQLite store (`crates/storage/src/sqlite/`) | issues, memberships per user set, cursors per user set, events and their user sets, edit and media caches | `commit_sync`, `cache_detail_issue`, `record_sync_failure`, `record_notification_delivery`, `mark_read`, cache operations | each operation is atomic; events are inserted once |
| Live workspace (`apps/gpui/src/live_workspace.rs`) | active scope, team | `refresh`, `refresh_automatically`, the same for the team, `mark_read`, `mark_all_read`, scope and team changes | the mode follows the cursor; only displayed events are marked |
| Automatic polling (`dashboard.rs`, `polling.rs`) | busy flag, paused flags, delay, consecutive failures | timer, run, back-off, pause, restart | goes on after transient failures, stops after permanent ones, one operation at a time |
| Detail and selection (`dashboard.rs`, `request_epoch.rs`) | selected issue, current ticket, panel state | select, answer, cache, cancel | a late answer is never shown for another issue |
| Comment, edit and watch flows (`dashboard/*_flow.rs`) | draft, confirmation, submission, unknown outcome | confirm, submit, finish, invalidate, reconcile | a confirmed write is sent once; an unknown outcome is not repeated blindly |
| Settings transactions (`dashboard/settings.rs`) | scope, team, preferences | apply, refresh, save, restore | all or nothing, or the workspace is invalidated |
| Pagination (`issue_pagination.rs`, `comment_pagination.rs`) | cursors seen, pages, items | prepare, accept, finish | terminates, no duplicate, limits respected |
| Edit options (`issue_edit.rs`, `sqlite/edit_cache.rs`) | cached users and transitions, the invalidation guard | read, store, change, invalidate | a list read before a change is not offered after it |
| Media cache and loader (`issue_media.rs`, `sqlite/media_cache.rs`, `dashboard/media/`) | images, their order and size, image states | hydrate, load, store, evict | bounds respected, no stale image, nothing spins for ever |
| Downloads (`dashboard/media/download.rs`) | one download, its temporary file | pick, read, write, rename, invalidate | every temporary file has an owner, only the current download is saved |
| Jira client (`crates/jira-http/`) | its thread, its queue, the calls under way | queue, run, cancel, reply | a write is told truthfully; every call is answered |
| Jira mapping (`crates/jira/src/adf.rs`) and rich text | none | parse, resolve, project, render under limits | what a limit leaves out is said |
| Application shell (`app_shell.rs`, `credential_store.rs`) | form, dialog, keyring | connect, remember, forget, disconnect | the keyring holds what was asked |
| Views (`issues_view.rs`, `team_table.rs`, `updates_view.rs`, ...) | section, filters, rows, selection, layout | click, type, rebuild, resize | what is selected is what is shown |
| SQLite worker (`sqlite/worker.rs`) | request queue | dispatch, handle | requests are handled one at a time, in order |

### Interaction

The dashboard's tasks call the live workspace, which runs a synchronization for
one *user set* (the account's own view or its team). A run awaits Jira and the
store many times; other tasks (the detail panel, and of course the people who
edit issues in Jira) act between any two awaits. The store's requests go through
one worker thread and each is atomic. Refreshing, polling, marking read, edits,
watch changes and settings exclude each other by the dashboard's
`operation_in_progress` flag; detail reads and comment posts do not take part in
it. Every call to Jira goes through the one thread of the client; option reads,
images and downloads reach it beside the synchronizations, each through a cache
of its own. Memberships, cursors and event tags belong to one user set. Issue snapshots
and events are shared by all user sets of a site.

### What is hard to test

Pages read while issues change; a detail read cached between a page and the
commit; two partitions that move each other's baseline; a change log that can be
read at one attempt and not at the next; a crash between commit, alert and
record; the overlap against slow fetches and clock skew; tasks that keep the busy
flag; writes whose answer is lost or whose caller gave up; page tokens that repeat;
a list read before a change and stored after it; images of two surfaces over one
cache; temporary files of downloads that were replaced; settings that are undone
by steps that fail; keyring threads that overtake each other; table rows rebuilt
under a selection; a feed that is read again when it is marked. `PROJECT.json` lists
these hazards at their lines with the properties that cover them.

## 2. What is modelled

### `IssueSync.tla`

Synchronization, store and update feed. Correspondence to the code:

| Model | Code |
|---|---|
| `jira[i]`, a sequence of revisions | Jira's issue `i`; a snapshot, `updated_at`, a history's `created` and a comment's time are all a revision number, 0 is "none" |
| `snap`, `member`, `cursor`, `lastError`, `feed` | tables `issues`, `issue_membership`, `sync_states`, `update_events` with `event_user_sets` |
| `phase`, `run` | where `run_inner` stands and what it holds in local variables between awaits |
| `queue`, `unrecorded` | `committed.inserted_events` not yet offered, an outcome before `record_notification` |
| `paused` | `automatic_polling_paused` |
| `detail` | an issue read by the panel, not yet cached |
| `feed[e].alerts` | not in the code: desktop alerts shown to the user |
| `Refresh`, `RefreshAutomatically` | the live workspace's refreshes up to the cursor read in `run_inner` |
| `FetchPage` | one turn of the loop of `fetch_issues` |
| `Derive` | after the last page: cursor, `issues_for_user_set`, `diff`, `enrich` |
| `commit_sync`, `CommitConflict`, `CommitFails` | the transaction, its "event ID conflicts" error, any other failure |
| `Matching`, `truncated` | the query of `enhanced_search_request`, whose `updated >=` literal is cut to the minute (`Minute` instants) |
| `FetchFails`, `Fail` | an error of a page, a comment read or a read of the store, by kind: one polling retries, one that stops it, one of the store, which stops it too; and `record_sync_failure`, whose own error is ignored |
| `deliver_notification`, `record_notification_delivery`, `RecordingFails` | one turn of `deliver_notifications` |
| `SyncCompleted`, `ReloadFails` | the end of `refresh_with_partition` and what the dashboard does with it |
| `DetailRead`, `cache_detail_issue`, `DetailDropped` | the detail panel |
| `MarkGroupRead`, `MarkAllRead` | the buttons of the updates view |
| `Restart` | the process ends anywhere and starts with the store alone |

Abstractions. The assignee stands for all fields the differ names (status,
priority, ...); a revision that leaves it alone is one the differ sees only as
`IssueUpdated`. That a field event gives way only to a history of the same field
(`issue_diff.rs:168-175`) is therefore "of the assignee" here. The kinds of a failed
fetch are three: `Upstream` stands for those polling backs off from, `Authentication`
for those that stop it (authorization, not found, a refused request), `Storage` for
the store's own. Event ids are the tuples the digests hash: hash collisions are
left out. A run of the enrichment reads the change logs and comments of any
subset of the changed issues. Watching an issue does not touch `updated`, as in
Jira. Issues are never deleted and the lifecycle flag, which the gateway always
sets to present, is left out. A manual refresh runs the account's view and then
the team; here the two are separate runs in any order, and the team's automatic
run may start whenever polling is not paused: both allow more than the code.
`cache_detail_issue` is also skipped by the code when the panel's list already
shows the same issue; here it may always run, which allows more. `Event`s of
comments carry no excerpt, so a comment edited between two derivations is one of
another revision.

`Jira` is external: what it answers is modelled from the query `jql.rs` builds.
`Outstanding` says what paging guarantees: an issue that matched at the first
page and has not changed since is served by the time the last page is read. One
that changed meanwhile may be missed, which is why the overlap exists.

### `UpdateFeed.tla`

What the feed promises its reader: events are published unread and silent, their
time never changes, they stay, are alerted at most once and do not become unread
again. `IssueSync` implements it under the mapping `Feed` (`KeepsFeedPromise`).

### `CommentFlow.tla`, `WatchFlow.tla`, `IssueEditFlow.tla`

The three state machines of `apps/gpui/src/dashboard/*_flow.rs`, one operator per
method, from a flow to the flow the method leaves behind. They have no variables:
`Dashboard` instantiates them and keeps a flow of each kind, as the struct does.

### `Dashboard.tla`

The shell's `Dashboard` struct and the order in which clicks, timers and
completions reach it.

| Model | Code |
|---|---|
| `ui.workspace`, `ui.busy` | `workspace.is_some()`, `operation_in_progress` |
| `ui.jobs` | tasks under way that took the flag: start-up, refresh, poll, mark read, team, settings |
| `ui.domain`, `ui.team`, `ui.selected`, `ui.core` | `domain_issues`, `team_issues`, `selected_issue`, `selected_issue_core` |
| `ui.detail` | `detail_state` with its task; `"pending"` is Loading or Refreshing |
| `ui.lookup`, `ui.query` | `remote_lookup`, and `search_query` where it is a key |
| `ui.transitions`, `ui.popover` | `status_transition_state`, the open list of transitions |
| `ui.comment`, `ui.draft`, `ui.post` | `comment_flow`, the text of `comment_input`, `comment_task` |
| `ui.edit`, `ui.edit_load`, `ui.edit_writes` | `issue_edit_flow`, the read of assignees, detached writes |
| `ui.watch`, `ui.watch_read`, `ui.watch_write`, `ui.watch_confirm_after_read` | `watch_flow` and its tasks |
| `ui.polling` | `polling_task` and `automatic_polling_paused` |
| `unsettled` | not in the code: issues with a watch change of unknown outcome that no read has followed |

An operator in the code's spelling (`select_issue`, `apply_cached`,
`invalidate_comment_selection`, ...) is the method of that name. An action is a
handler with everything it calls: `SelectRow`, `PostComment`, `SubmitEdit` are
clicks, guarded by what the panel offers and by the handler's early returns;
`FinishX` is the completion of a task.

Abstractions.

- A dropped task never completes (gpui cancels it), so the fields above hold the
  tasks that still can. A detached task is an element of a set and always completes.
- Generations are counters that are only compared with those of tasks in flight. A
  new one is any number that no task in flight carries (`Fresh`), which keeps the
  state space finite. The wrap-around of a 64-bit counter is left out.
- A completion is `"ok"`, `"rejected"` or `"unknown"`, as the flows tell
  `ErrorKind`s apart. The reads that verify a write belong to it.
- The open list of transitions takes the first click, so other controls wait for
  it to close; timers and completions do not.
- Which section is shown is not kept: every control is offered wherever its own
  condition holds, so sections may alternate freely between any two steps. This
  allows more than the code (a few controls belong to one section). The
  counterexample below uses the controls of one section only.
- Filters are reduced to which issue comes first; attachments, images and text
  are left out.

`Features` names the controls of an instance, so that a run explores the
interleavings of its own question; `MC_Dashboard.tla` lists the sets.

### `RemoteWrite.tla`, `JiraGateway.tla`

`RemoteWrite` is what the flows of the dashboard rely on: Jira carries a write
out at most once, a write told as done was carried out, one told as refused was
not and never will be, and anything else is told as unknown. `JiraGateway` is the
client (`crates/jira-http`) with the services that call it, and implements
`RemoteWrite` under the mapping `Promise` (`WritesAreHonest`).

| Model | Code |
|---|---|
| `phase`, `kind`, `stage`, `answer` | where a call stands between the service, the queue, its job and its reply |
| `doomed`, `cancelled` | a request its job refuses; the call's `CancellationToken` |
| `queue`, `runtime`, `running` | the channel and thread of `runtime_bridge.rs` |
| `pages`, `token`, `more` | locals of the page loops of `lib.rs` |
| `wire`, `applied` | not in the code: what became of a write on its way, and in Jira |
| `Preflight`, `AttachmentResponse` and the other operators | every check a port method makes, in order, with the kind of error each gives |

Jira and the network are the environment: a request is lost, turned down by Jira
or by a proxy, carried out, or carried out after the client stopped waiting.

### `IssuePagination.tla`, `CommentPagination.tla`, `Paging.tla`

The two ways of reading page by page, and both side by side. Jira may answer
anything: blank cursors, repeated ones, an item twice, a total that changes;
`CommentPagination` also has a listing it may answer from truthfully
(`honest`), which is what completeness is stated for. `asked` and `questions`
are histories of the requests.

### `Content.tla`

What becomes of an ADF document: the parser of `crates/jira/src/adf.rs` (depth,
nodes, text and table limits), the resolution of its attachments, the plain
projection of `rich_text.rs` and the rendering of `rich_text_view.rs`, each with
limits of its own and the marker it leaves where something was cut. A text is its
length. An operation on a block that meets deeper blocks takes what treats those as
its argument `within`; `parsing`, `append_block_text` and `render_block` tie the
knot as recursive functions, the first on the depth that is left, the others on the
block. `InTurn` is the loop that parses values one after the other, `UntilStopped`
the one that gives up a table. `Nodes` and `Attachments` are the sets the documents
and the lists of attachments are made of. `ContentAssumption` says that attachments
of one id are alike in being an image or not: `collect_fallback_images` remembers an
id before it looks at the type (`adf.rs:573`), so that of two attachments with one
id only the first would count. Jira's ids are unique.

### `EditOptions.tla`, `Media.tla`, `Download.tla`

`EditOptions`: the choices of the edit controls through the durable cache, with
the guard that tells a read which a change has overtaken. The tasks of a thread
are served in order (`db`, `http`, `woken` are queues). `Media`: the image cache
with its eviction, the loads of the selected and of the looked-up issue, and
hydration from the cache alone; `known` has what the lists describe and the core of
the selected issue, which is forgotten with its selection. `Download`: one attachment download at a time, its
thread, its temporary file, and everything that invalidates it.

### `SettingsTransaction.tla`

The two transactions of `dashboard/settings.rs` step by step (`activate`,
`refresh`, `save`, `sync_directory`, `restore`), with the failure of every step
and a restart between any two. It details what `Dashboard` gives as the three
results of a save.

### `Session.tla`

The connection form of `app_shell.rs` with its dialog, the task that builds a
session, and the keyring with its save and delete threads. The two parts of the
form other than the token are one input, because they are read and cleared alike.

### `Sections.tla`, `Inbox.tla`

What the window offers and what a click does. `Sections`: the issue list with its
filters and search, the team table with its rows and the index it keeps, both
layouts; events of the table are delivered before the next click or timer, as
gpui flushes effects. `Inbox`: the updates view over the local feed, its
grouping, filters, search and reading pane, and marking as read through the feed
as it is read again under its limit. Which cards are expanded is not kept.

### Instances and compositions

`MC_IssueSync`, `MC_Dashboard` and `MC_Writes` are instances of one module.
`MC_Jira` (with `MC_Content`, its documents) and `MC_Desktop` put modules side by
side that share no state: a variable `part`, chosen in Init, names the module whose
steps a behaviour takes, so a run explores each of them completely without their
product. `Absent` declares the constant `None` they share.

## 3. What is checked

| Run | Question | Instance |
|---|---|---|
| `sync_events` | is every change announced, once, truthfully; is the feed ever ahead of the cache; does deduplication ever fail | one issue, three revisions, mentions, one fault |
| `sync_feed` | alerts, delivery record; is an update ever lost between two queries or to a late detail read | one issue with detail panel, marking read and mentions, four instants, overlap 1, one fault |
| `sync_partitions` | does the shared feed keep the promise of `UpdateFeed` | account in its own team, one fault |
| `sync_converges` | does polling bring the view up to date | five instants, overlap 2, fetch 1, skew 1, one watch change, one fault, `FairSpec` |
| `dash_operations` | does every operation exclude the others and give the busy flag back; is the flow the selected issue's | one issue in scope, one in the team; edits, settings, team, mark read, polls |
| `dash_writes` | does a reload part a comment from its draft; is an unknown watch change read again first; do comment and watch overlap | two listed issues, or one listed and one looked up; watch, comments, lookups, polls |
| `jira` | is every write told truthfully and every call answered; is what is read whole, without repeated requests; is what is left out of a document said | one call of every method beside a watch that is taken back; three pages; documents at every limit |
| `desktop` | options, image limits, temporary files, settings, keyring, selection, filters, inbox | the seven modules of `MC_Desktop`, one at a time |
| `event_conflict`, `dash_unknown_comment`, `connect_again`, `team_rebuild` | see below | violations |

Some properties are conjunctions of two that concern one question:
`ImageLimitsHold` (the cache and the loads), `SettingsAreFoundAgain` (values and
user sets), `KeyringIsAsAsked` (saved and forgotten logins), `ReadingsAreWhole`
(issues, comments), `InboxIsTrue` (groups and selection).

### Bounds

`IssueSync`: two or three revisions are enough for a page, a baseline and a detail
read to see different ones; two instants give an edit before and one after a
cursor; `sync_converges` has five, so that a fetch, an edit that slips through it,
the next query and the time after the overlap all fit. One fault strikes at every
point (each failing await, each crash), and the program can react to it; a second
one repeats the situation. The issues of a run do not influence each other except
through the membership and the transaction, and the transaction takes all of them
or none; the instances therefore have one. `MaxTime`, `MaxRevisions`, `MaxToggles`
and `MaxFaults` are only bounds. `FetchLimit` is an assumption: a fetch is not open
for longer than that. The program does not enforce one (a thousand pages of thirty
seconds each are allowed), so `NoUpdateLost` holds for `FetchLimit + Skew` below or
equal to the overlap (`UpdatesTakenIn` proves it for all such values) and not in
general. `sync_feed` needs four instants for that to say something: a cursor at 3
with an overlap of 1 leaves updates that must have been taken in. A `Minute` is two
instants in `sync_events` and `sync_converges`, so that the literal of a query lies
before the time asked for, and one elsewhere.

`Dashboard`: no counter is bounded, since `Fresh` reuses generations. Two issues
are enough for "the selected one" and "another one", and for a lookup's issue
beside a selected one; every guard compares an issue with the selected or shown
one. The CONSTRAINT `Within` of `dash_writes` splits its states in two: either no
lookup was made, and comments and watch changes move among two listed issues; or
lookups were made, of one issue beside one listed one, and nothing was watched. A
lookup together with a watch change is left out there: `search_jira` is refused
while one is under way, and the panel of a looked-up issue has no watch control. The runs say `CHECK_DEADLOCK FALSE` because a start-up that fails leaves a
dashboard in which nothing is left to do.

`jira`: two calls are enough for one to wait behind, be left by a stopped thread
beside, or be cancelled during the other; a limit of three pages gives a first, a
middle and a last one, and cursors that repeat at distance one and two. Listings of
four and five comments with pages of two end on a full and on a short page, and lie
at and over the limit of four. The documents of `MC_Content` reach each limit from
below and from above. `desktop`: three reads of the options around one change, the
fewest with which an older read can undo the guard of a change whose invalidation
failed; three
images whose sizes fill the cache and the aggregate exactly and overflow them;
three downloads, so that one can be replaced while its predecessor still writes;
three saves, so that a failed one lies between two good ones; two starts and two
attempts to connect; three issues, with teams whose order is reversed and one that
is no longer in progress; four updates with a feed of three. Both say
`CHECK_DEADLOCK FALSE` because bounds run out and finished calls stay finished.

### Fairness

`Dashboard`: weak fairness of the completions of operations and writes, and of
nothing else. The HTTP client gives every request a timeout
(`crates/jira-http/src/lib.rs:45`), and the store's worker answers every request.
Clicks, timers and reads may never come. It carries `BusyIsReleased`.

`IssueSync` (`sync_converges` only): every await of a run returns, Jira serves the
remaining pages, and the timer of automatic polling fires; these are the await
points of `start_automatic_polling` and `run_inner`. Weak fairness is enough, since
the busy flag keeps others from disabling them for ever. Nothing is assumed of
users, of other people or of the detail panel, and failures stop because their
budget is bounded. `Converges` has the escape `paused`, which `docs/operations.md`
documents. It is checked without the detail panel: with one, a late detail read may
put an older snapshot back, the next run derives the same event with another
occurrence time, and the store refuses every synchronization from then on, as in
`event_conflict`.

`JiraGateway`: weak fairness of the thread (`RuntimeStep`: it takes the next job
and its requests end, at the latest by their timeout) and of the callers' futures
(`CallerStep`: the executor polls what is ready). Nothing is assumed of who begins
or cancels a call. It carries `CallsReturn`, also when the thread stops.

### Disagreements with the documentation

Four runs expect a violation, each with a short counterexample:

- `event_conflict`: an account in its own team. Both partitions derive the same
  membership event; the id leaves the detection time out and the collision test
  does not, so the later commit fails. Watching, unwatching and watching an
  unedited issue again runs into the same clash in one partition (`MaxToggles` 3).
- `dash_unknown_comment`: the selection is reloaded (a poll completes, a key is
  typed into the search box) while a comment is out. The draft and the flow are
  cleared, and an unknown outcome is not reported.
- `connect_again`: after a failed attempt the open dialog still shows the token
  input that the attempt replaced. A token entered again is not read.
- `team_rebuild`: the timer that keeps ages current sets the selected row of the
  team table again, which counts as a click and throws the user back to the team.

Further divergences were met while modelling; no run is kept for them.

Synchronization: the team's run takes an update into the shared snapshot, and the
account's own feed never announces it. The detail panel may cache a newer snapshot
under a running fetch, and the differ then announces a reassignment backwards.

Writes: an edit of unknown outcome may be repeated without a refresh once its
issue was selected again or reloaded (`docs/operations.md:270-271` asks for the
refresh). "Choose again" after a rejected transition (`detail_view.rs:2094-2103`)
reloads the list, but the flow stays in Error and the status control closed. The
guard of `issue_edit.rs:231-233` is lifted by a read of the transitions that was
under way when the change was reported; where the invalidation failed, the next read
takes the old choices from the cache. After
a comment to a looked-up issue a click on the row of the selected, loaded one
leaves the composer in Posting, with a completion that will be ignored.

Images: the aggregate of 32 MiB (`README.md:60-61`, `docs/architecture.md:84-85`,
`docs/operations.md:159-161`) is not that of what is shown:
`hydrate_cached_images` weighs cached images as nothing and
`merge_preserving_ready` keeps those of the earlier view. The number of file media
has narrower bounds than the parser's (`README.md:25-28`,
`docs/operations.md:152-155`): JSON nested deeper than 64 levels, which is 32
levels of ADF, or with more than 10 000 values is refused before it is parsed. The
fallback gallery may be cut by the render budget after it was decided whether to
note what is left out (`rich_text_view.rs:175-221`).

Downloads: a download that is dropped after its thread wrote the file and before
its task renamed it leaves the `.part` file beside the destination, since
`invalidate_attachment_download` drops the task that would have cleaned up
(`dashboard.rs:3058`) and the thread, which looks at the token for the last time
before it returns, has ended. `TemporaryFilesHaveAnOwner` leaves these downloads out
(`late`).

Settings: when the directory cannot be synchronized after the rename, the new
preferences are in the file although "restored" is reported
(`docs/operations.md:69-70`). When the team could not be restored either, the next
save of the scope writes an empty team. A login that is forgotten while the save
after a connection still runs may come back.

Comments deleted between two pages read by offset shift the listing, and one
comment is missed.

Sections: "Finish the confirmed Jira change before changing views"
(`shell_view.rs:551`) is bypassed by "Review updates" (`issues_view.rs:335`),
"Configure team" (`team_view.rs:166,288,409`) and the table's `SelectRow`. A click
on a team row that is refused during a confirmed edit leaves the row set in the
table and takes effect at the next rebuild. After mark-read in the team's section
`rebuild_issue_views` may select an issue outside the team. The age timer clears a
selected team issue that is not in progress. The branches of `render_issues` for
layouts other than mobile are never reached (`issues_view.rs:209`).

Inbox: statuses learnt of the team or of the selected issue may hide the selected
update without clearing it (`dashboard.rs:2863` is called only by filters, marks
and `apply_cached`). Events of the team push own ones past the limit of 500 events,
so that a group mark is refused as a whole ("update is outside the authenticated
issue view") and older unread ones are never marked by "Mark all read". "Mark all
read" also marks events stored by a synchronization whose own reading of the feed
failed.

`NoEventConflict`, `ChangesAreAnnounced` and `ReassignmentsHappened` therefore hold
only in the passing runs' settings: one partition, no watch change, and no detail
panel. `SelectionIsRead` and `UnseenStaysUnread` name their exceptions.

Some hazards of `PROJECT.json` are met only in part; each says so in its note. An
older snapshot put back by the detail panel is followed to the end of the overlap
(`NoUpdateLost`), and the backward announcement it causes is only described above.
Two partitions are checked for what the feed promises, not for what the account's
own feed must announce, which is false. A draft that a reload throws away goes
together with its flow, and that is all the code gives. The timers that might refill
a workspace that was given up belong to `Dashboard` and are not composed with
`SettingsTransaction`. A generation of requests that wraps, the common limit of
images over cache, loads and an earlier view, and a login that is forgotten while
it is saved are outside what the properties say.

## 4. What is proved

TLAPS proves the following for every value of the constants that satisfies the
modules' ASSUMEs; those say no more than what the code checks or what tells the
values of one kind from those of another.

| Theorem | Statement | Inductive invariant |
|---|---|---|
| `IssueSync_proofs!TypeCorrect` | `Spec => []TypeOK` | `TypeInv`: `TypeOK` and `RevisionsExist` |
| `AlertedOnce`, `DeliveryRecorded` | `Spec => []NotifiedAtMostOnce`, `Spec => []DeliveryRecordIsTrue` | `NotifyInv`, with `PendingIsFresh` |
| `FeedPromiseKept` | `Spec => KeepsFeedPromise` | both: the refinement of `UpdateFeed` |
| `UpdatesTakenIn` | `FetchLimit + Skew <= Overlap` implies `Spec => []NoUpdateLost` | `UpdateInv` |
| `FeedBehindCache`, `OneFormOnly`, `ReassignmentsAreTrue` | without the detail panel, `Spec => []FeedNotAheadOfCache`, `Spec => []AnnouncedInOneForm`, `Spec => []ReassignmentsHappened` | `AnnounceInv` |
| `ChangesAnnounced` | and with one user set, `Spec => ChangesAreAnnounced` | the same |
| `NoIdTakenTwice` | and with no watch change that counts, `Spec => []NoEventConflict` | `OnceInv`, with `AnnounceInv` |
| `Jira_proofs!TypeCorrect` | `Spec => []TypeOK` | `TypeOK` |
| `ClientKeepsItsPromise` | `Spec => WritesAreHonest` | `HonestInv`: `TypeOK`, `QueueInv` and `Honest(c)` of every call: the refinement of `RemoteWrite` |
| `SearchesAreComplete` | `Spec => []PagesAreComplete` | `PageInv`, with `HonestInv` |
| `NoCallIsForgotten` | `Spec => []NobodyWaitsInVain` | `ThreadInv`, with `HonestInv` |
| `EveryCallIsFinite` | `Spec => []StepsAreBounded /\ [][EveryStepCounts]_vars` | the same |
| `NoPageTwice` | `PagingSpec => []RequestsAreNew` | `PagingInv`: `FetchInv` and `ReadingInv` |
| `NothingIsCutOff` | `PagingSpec => []ReadingsAreWhole` | `PagingInv`, `TakenInv`, `WholeInv` |
| `ImagesAccounted` | `ContentSpec => []ImagesAreAccounted` | `ContentInv`, with `ParsedDocument` |
| `Settings_proofs!ActiveScopeIsShown` | `SettingsSpec => []ShownIsOfTheActiveScope` | `SettingsInv`: `Types`, `ShownInv`, `FileInv` |
| `RestartFindsTheSettings` | `SettingsSpec => []SettingsAreFoundAgain` | the same |
| `KeyringObeys` | `SessionSpec => []KeyringIsAsAsked` | `SessionInv` |
| `Media_proofs!ImagesKeepLimits` | `MediaSpec => []ImageLimitsHold` | `MediaInv`: `MediaTypes`, `Shows` of each surface, `HydrationOf`, `within_limits` |
| `ImagesAreTheIssues`, `SpinnersEnd` | `MediaSpec => []ImagesAreOfTheShownIssue`, `MediaSpec => []NoImageKeepsSpinning` | the same |
| `NoFileIsForgotten`, `OnlyTheCurrentIsSaved` | `DownloadSpec => []TemporaryFilesHaveAnOwner`, `DownloadSpec => OnlyTheCurrentDownloadIsSaved` | `DownloadInv` |
| `EditOptions_proofs!OptionsFollow` | `OptSpec => []OptionsFollowTransitionUnlessRaced` | `OptInv` |
| `Window_proofs!FiltersShow`, `SelectionHeld` | `SectionsSpec => []FiltersAreWhatIsShown`, `SectionsSpec => WriteHoldsSelection` | `WinInv` |
| `TableKeeps`, `TeamOpens` | `SectionsSpec => TableKeepsItsIssue`, `SectionsSpec => TeamOpensOnItsOwn` | the same |
| `InboxTold`, `UnseenKept` | `InboxSpec => []InboxIsTrue`, `InboxSpec => UnseenStaysUnread` | `InboxOk` |
| `Dashboard_proofs!TypeCorrect` | `Spec => []TypeOK` | `DashInv` |
| `OneHolderOfBusy`, `FlowsAreOfTheSelection` | `Spec => []BusyHasOneHolder`, `Spec => []FlowsConcernSelection` | the same |
| `WatchOutcomes`, `WatchReconciles` | `Spec => []WatchOutcomeIsShown`, `Spec => []WatchChangeIsReconciled` | the same |
| `CommentApartFromWatch`, `DraftKept` | `Spec => []CommentAndWatchDoNotOverlap`, `Spec => []SubmissionKeepsDraft` | the same |
| `BusyChangesHands` | `Spec => []HolderIsUnderWay /\ [][FlagChangesHands]_vars` | the same |

`IssueSync`. Deriving events looks revisions up, and the result is well typed only
if each revision a snapshot, a page, a detail read or an event names exists
(`RevisionsExist`). `PendingIsFresh` says that an event in the queue is stored,
silent and without an outcome, that an unrecorded outcome agrees with the alerts
shown, and that outside the notifying phase nothing is pending: this is what a
crash, a failed run and a new commit rely on. A commit is a `Publish` because
occurrence times are naturals, and an alert is an `Alert` because a queued event is
silent.

`UpdateInv` follows an update through a run. A query that starts `Overlap` behind the
cursor either returns the issue, or the issue was already in the cache when the
query began (`FetchFollows`); what a page brought is at least what Jira had when the
query opened, and the new cursor is at most `FetchLimit + Skew` past that moment
(`CommitFollows`); cutting the literal to the minute only asks for more
(`Truncates`, `InTheWindow`); an older snapshot put back by the detail panel was read at most
`FetchLimit` ago, so what it misses is younger than the overlap (`DetailFollows`).
The detail panel is in this theorem.

`AnnounceInv` is about the events a commit may still write: each is news, tells of a
step from the cached snapshot to the fetched one, and no stored event reaches beyond
the cache (`FeedInv`, `SnapshotsAdvance`, `EventsAreNews`). It needs snapshots that
only grow, which a late detail read breaks (TLC finds a reassignment announced
backwards); hence the hypothesis `NoDetail`. `ChangesAnnounced` needs one user set,
because a run of one set moves the snapshots that the other shares.

`OnceInv` says why an id that is derived again comes with the time it has. The id
of a membership event names the issue and the revision, the stored event also the
moment of detection, so it must not be derived twice. It is not, because an issue
that comes and goes moves in between: a member that a complete replacing read did
not find has a later revision than the cached one (`MissedHaveMoved`), and what was
told of a revision has been left behind (`ComingsAndGoings`). A reader may refuse
the first claim, since a poll reads pages while Jira changes and an issue may slip
out of all of them; but then it has changed since the first page was asked for.
Histories and comments keep Jira's time, which a second derivation finds again
(`JiraDates`). A watch that comes and goes without an edit breaks the argument, and
so does a second partition that derives the event: the run `event_conflict` and its
variant show both.

`JiraGateway`. What a call was answered must agree with what became of its request
for good, not only now: `Honest` ties each phase to the states of the wire it
allows, and `QueueInv` says that a job is queued once, so that the steps of one
call leave the others alone (`Moves`). That a search answers with every page needs
that an answer stands from the reply on, and that no other job was ever offered more
(`OfferedMore`).

That every call returns is proved as far as it does not need fairness. `ThreadInv`
says where a waiting call is: in the queue, or the one the thread runs. So either the
thread or the caller can take a step (`NoCallIsForgotten`), also after the thread
stopped, when the callers find the channel closed. `StepsLeft` counts what a call has
left to do, two steps for each page it may still ask for; no step of anyone raises
that of any call, and each step of the thread or of a caller lowers one
(`EveryCallIsFinite`). With weak fairness the two give `CallsReturn`.

`Paging`. No page is asked for twice because every cursor that was sent is
remembered, for issues; and because an offset only grows and a cursor is not
repeated, for comments (`OffsetsAndCursors`). The number of requests is that of the
pages, with at most one outstanding. What a fetch holds is compared with everything
its pages gave it (`HoldFirst`): every issue once, as its last snapshot, in the order
of the first ones. A page is a fold over its snapshots, and that the claim holds after
the first `m` of them for every `m` is shown by taking a least one that fails. For
comments, what was read is the beginning of the listing up to the next offset
(`WholeInv`), and a page of the listing either moves the offset by what it had, or
reaches the total.

`Content`. What the parser gives for any values is `Fine`: a state within its limits,
and a result in which every image is one that a media node names, or the only one
(`Justified`). Each operation is shown to give that as long as `within` does (`W`),
a loop by induction over its values (`EachFine`, `UntilStoppedFine`), and `parsing`
by induction over the depth that is left. An image must be named by a node of the
source, so the lemmas carry that what is parsed at a depth lies in the source at
that depth (`Known`): `all_nodes` reaches as deep as the parser looks. A nested task
list is attached to the item before it after that was parsed, which is why `Sound`
speaks of the children of every block. The gallery is followed through its loop
(`Listed`): each candidate once, among the first k attachments, for every k. That it
misses none takes the first of the attachments with an id.

`SettingsTransaction`. Between transactions the claims are about the session, the
board and the file; during one, each step says which of the two values each of the
three holds (`ShownInv`, `FileInv`), and `SetsOk` says that user sets are never
renumbered. After a failed `sync_directory` the file may be ahead (`unsynced`).

`Session`. A login is on its way to the keyring only when Jira accepted it for a
form that asked to remember it, and only one task and one thread of each kind are
under way (`OneAtATime`, `WayToTheKeyring`); a forgotten login is out of the
keyring and of the save thread before the answer is told (`Forgotten`).

`Media`. An image shown must be of the issue on view although loads and hydrations
outlive what was on view when they began; so the invariant says of each loader and
of the hydrator which issue they are about (`LoadOf`, `HydrationOf`). A load always
covers the catalog on view, by what it has got and what it has still to do, and what
it has got is settled: when nothing is left to do nothing spins. The hydrator leaves
images loading, so its answer may only be shown beside a load (`ticket_is_current`).
The limits are sums over what the cache and a load hold. `FiniteFolds` proves of
`SumFunctionOnSet` that a part weighs no more than the whole and that one more
element adds at most its weight, and of a fold that its value has the type of its
steps: among finite sets that refute a claim one is minimal, since strict inclusion
is well founded. The steps of a fold are functions there, because a theorem about any
operator is out of the provers' reach. `CacheAssumption` says that the file an earlier
process left is within the limits, by the same code.

`EditOptions`. Two things keep choices from before a status change away, and either
would do. The worker serves its queue in order, and the invalidation of a change is
queued behind every store of what was fetched before it: wherever a request of a
read stands in the queue, what the cache will hold by then is new (`HoldsNew`,
`Ordered`). That argument fails with the first request that fails. The guard
refuses a store and a showing of what was fetched before the change: with it nothing
old is in the queue at all (`Guarded`), unless the change is reported between the
fetch and the showing. The theorem therefore asks for no failure or no such race;
with both, TLC shows old choices to a third read.

`Sections`. What the table has (`Table`) and what filters the list (`Filters`)
change in few methods, so a method is shown to leave both alone (`Alike`), to change
only the filters (`Otherwise`), or to leave a table in order (`Settled`). The
invariant ties the row that is set to the issue the dashboard was told of (`RowOk`):
a sort selects by what was told, a replacement by what the row was, and the two
agree. An issue that was in the table is found again because sorting keeps the set
of rows; that a finite set under an order without ties has exactly one listing is
proved in `FiniteFolds` (`SortExists`, `SortedOnto`). `SectionsAssumption` says that
the site has finitely many issues, that keys are distinct and ordered, and that a
cache holds issues of the site. Whether a table without a selection tells that it was
cleared is left open (`quiet`).

`Inbox`. `InboxOk` says of the groups that they are those of the feed that was read,
whatever is marked in place (`Grouped`, `GroupOk`). Grouping is a fold over the
events; that it holds of the first `m` events for every `m` is shown by taking a
least one that fails. In a group the events stay in the feed's order because a next
event comes after all that are in (`ComesBefore`). The rows of an open card count
each event once: their weights are one, and that of the shared row is the number of
unnamed changes (`RowsCount`). For marking, the invariant compares what the feed
would list by now with what the view listed: a synchronization of the team may only
push events out of it (`FedShrinks`), and one of the own view shows what it stored,
or its reading failed. `InboxAssumption` says that the feed is finite and its order,
by time and then id, has no ties.

`Download`. A thread that still writes belongs to the task that waits for it, or
its download was cancelled and the thread removes the file when it is done
(`WritesAreWatched`).

`Dashboard`. Every handler is built from the same methods, so the invariant is about
a struct rather than about the variable: each method is shown once to keep `Good`
and whoever holds the busy flag (`Keeps`), and a handler's step follows from the
methods it calls. Some methods pass through structs that are sound but whose flows
are not yet about the new selection; `Sound` is what holds there, `Good` adds
`Concerned`. The parts depend on one another: a completion gives the flag back
because a write in flight is either the flow's own or among its invalidated ones and
`last` names it (`EditHeld`); the flow's own write is about the selected issue
because writes are only sent with a workspace open (`WritesHaveWorkspace`) and
flows then follow the selection; and choosing a transition, which looks neither at
the flag nor at the flow, cannot replace a write because its list is never open over
one. That `Fresh` gives a generation no task carries is itself proved
(`FreshIsNew`), and is why an answer about assignees cannot pass for the answer of a
write. `DashboardAssumption` says that `None` is neither an issue nor a read.

The lemmas about the methods also say which of them leave the flag and its holder
alone (`Steady`). From this, `BusyChangesHands`: while the flag is set, a job, an edit
or a watch write is under way, and nothing but its answer changes the flag or the
holder; the answer gives the flag back, or hands it to the refresh that follows an
applied edit, and a refresh only gives it back. A busy period therefore ends after at
most two answers, which is what `BusyIsReleased` rests on besides fairness.

Each inductive invariant was first checked by TLC on instances like those above. Only
model-checked are `LeftOutIsSaid`, which compares what three recursions over the
document leave of it, and liveness. Of `CallsReturn` and
`BusyIsReleased` the part without fairness is proved as above; the step from it to
the temporal property needs ENABLED and stays with TLC, as does `Converges`.

## 5. Plan

1. Theorems about the marks of `Content`: what the plain text and the rendering
   leave out of a document.
2. `PollingBackoff`: delays, Home then team, a clock that steps. `RequestEpoch`: a
   generation that wraps.
3. `SqliteWorker`: the queue and lost replies. `IssueSync` with the detail panel
   bound to `Dashboard`'s selection, to say how long an older snapshot survives.

## Not modelled

The SQLite worker's queue and the migrations (each request is atomic, which
`IssueSync` relies on); diagnostics (best-effort logging); the JSON codecs, the
mapping of issue fields and the text of JQL (pure conversions, except for the
clauses `IssueSync` takes from `jql.rs`); URLs and headers; layout, colours,
wording and appearance; the platform back ends of alerts; deleting user sets, which
the application never does; the UI laboratory, automation and packaging.
