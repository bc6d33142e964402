---------------------------- MODULE JiraGateway ----------------------------
(***************************************************************************)
(* The Jira HTTP client (crates/jira-http) and the services that call it   *)
(* for the dashboard: comments, edits and watches.  A call is checked,     *)
(* queued on the client's own thread, run there one job at a time and      *)
(* answered through a channel of its own.  Jira and the network are the    *)
(* environment: a request may be lost, turned down, carried out, or        *)
(* carried out after the client stopped waiting for it.                    *)
(***************************************************************************)
EXTENDS Naturals, Sequences, Absent

CONSTANTS
    Calls,              \* the calls the application makes, each once
    Workload,           \* the port methods each call may be of
    MaxIssueIdPages,    \* MAX_ISSUE_ID_PAGES
    MaxChangelogPages,  \* MAX_CHANGELOG_PAGES
    Tokens,             \* the page tokens Jira sends that are not blank
    Blank

Flaws == {"none", "site", "locator", "body", "limit", "query", "id",
          "count", "bounds", "empty"}
ReadErrors == {"Authentication", "Authorization", "NotFound", "RateLimited",
               "Upstream"}
Answers == {"none", "ok", "Cancelled", "InvalidInput", "Internal", "Offline",
            "UnknownOutcome"} \cup ReadErrors
Kinds == {"read", "issue_ids", "changelog", "thumbnail", "download",
          "comment", "edit", "unwatch"}
WriteKinds == {"comment", "edit", "unwatch"}

---------------------------------------------------------------------------
(* The port methods: what the service in front of the client refuses, what *)
(* the client refuses before it queues a job, what the job refuses before  *)
(* it sends anything, and what the job is.                                 *)

Method(service, client, job, kind) ==
    [service |-> service, client |-> client, job |-> job, kind |-> kind]

IssueActivityPort(op) ==
    IF op = "fetch_issue_changelog"
    THEN Method({}, {"site", "count"}, {}, "changelog")
    ELSE Method({}, {"site"}, {"limit"}, "read")

AttachmentReadPort(op) ==
    Method({}, {"site", "id", "bounds"}, {},
           IF op = "fetch_attachment_image" THEN "thumbnail" ELSE "download")

IssueDetailReadPort(op) ==
    Method({}, {"site"},
           IF op = "fetch_issue_comments_page" THEN {"limit"} ELSE {}, "read")

UserReadPort(op) ==
    Method({}, {"site"}, IF op = "search_users" THEN {"limit"} ELSE {},
           "read")

IssueSearchPort(op) ==
    Method({}, {"site"}, {"query"},
           IF op = "fetch_issues_by_id" THEN "issue_ids" ELSE "read")

CommentWritePort(op) == Method({"body"}, {"site", "body"}, {}, "comment")

IssueEditPort(op) ==
    CASE op = "search_assignable_users" ->
            Method({"locator", "limit", "query"},
                   {"site", "locator", "limit", "query"}, {}, "read")
      [] op = "fetch_issue_transitions" ->
            Method({"locator"}, {"site", "locator"}, {}, "read")
      [] op = "assign_issue" ->
            Method({"locator"}, {"site", "locator", "id"}, {}, "edit")
      [] OTHER ->
            Method({"locator", "id"}, {"site", "locator", "id"}, {}, "edit")

IssueWatchPort(op) ==
    Method({"locator"}, {"site", "locator"}, {},
           CASE op = "fetch_issue_watch_state" -> "read"
             [] op = "watch" -> "edit"
             [] OTHER -> "unwatch")

ActivityOps   == {"fetch_issue_changelog", "fetch_recent_issue_comments"}
AttachmentOps == {"fetch_attachment_image", "fetch_attachment_content"}
DetailOps     == {"fetch_issue_detail", "fetch_issue_comments_page"}
UserOps       == {"fetch_current_user", "search_users"}
SearchOps     == {"fetch_issue_page", "fetch_issues_by_id"}
EditOps       == {"search_assignable_users", "fetch_issue_transitions",
                  "assign_issue", "transition_issue"}
WatchOps      == {"fetch_issue_watch_state", "watch", "unwatch"}
Ops == ActivityOps \cup AttachmentOps \cup DetailOps \cup UserOps
         \cup SearchOps \cup EditOps \cup WatchOps \cup {"create_comment"}

method(op) ==
    CASE op \in ActivityOps   -> IssueActivityPort(op)
      [] op \in AttachmentOps -> AttachmentReadPort(op)
      [] op \in DetailOps     -> IssueDetailReadPort(op)
      [] op \in UserOps       -> UserReadPort(op)
      [] op \in SearchOps     -> IssueSearchPort(op)
      [] op \in EditOps       -> IssueEditPort(op)
      [] op \in WatchOps      -> IssueWatchPort(op)
      [] OTHER                -> CommentWritePort(op)

ASSUME GatewayAssumption ==
    /\ Workload \in [Calls -> SUBSET Ops]
    /\ MaxIssueIdPages \in Nat \ {0} /\ MaxChangelogPages \in Nat \ {0}
    /\ Blank \notin Tokens /\ None \notin Tokens \cup {Blank}
    /\ None \notin Calls

---------------------------------------------------------------------------
VARIABLES
    phase,      \* where a call is
    kind,       \* what its job is
    doomed,     \* its job will refuse the request before it sends it
    cancelled,  \* its CancellationToken
    queue,      \* the jobs waiting for the client's thread
    runtime,    \* the thread: "up" or "stopped"
    running,    \* the job the thread runs
    stage,      \* which request of its job a call is at
    pages, token, more,  \* page loops: fetched, last token, more was offered
    wire,       \* what became of a write request on its way to Jira
    applied,    \* how often Jira carried the write out
    answer

vars == <<phase, kind, doomed, cancelled, queue, runtime, running, stage, pages,
          token, more, wire, applied, answer>>
callerVars == <<kind, doomed, cancelled>>
pageVars == <<pages, token, more>>
jiraVars == <<wire, applied>>

Init ==
    /\ phase = [c \in Calls |-> "idle"]
    /\ kind = [c \in Calls |-> None]
    /\ doomed = [c \in Calls |-> FALSE]
    /\ cancelled = [c \in Calls |-> FALSE]
    /\ queue = <<>>
    /\ runtime = "up"
    /\ running = None
    /\ stage = [c \in Calls |-> "main"]
    /\ pages = [c \in Calls |-> 0]
    /\ token = [c \in Calls |-> None]
    /\ more = [c \in Calls |-> FALSE]
    /\ wire = [c \in Calls |-> "none"]
    /\ applied = [c \in Calls |-> 0]
    /\ answer = [c \in Calls |-> "none"]

is_write(c) == kind[c] \in WriteKinds

---------------------------------------------------------------------------
(* How a failure is told *)

read_status_error(status) ==
    CASE status = "unauthorized" -> "Authentication"
      [] status = "forbidden"    -> "Authorization"
      [] status = "not_found"    -> "NotFound"
      [] status = "too_many"     -> "RateLimited"
      [] OTHER                   -> "Upstream"

\* Mutant: a gateway's 5xx counts as a refusal.
write_status_error_ServerError(status) ==
    CASE status \in {"bad_request", "too_large", "unprocessable"} ->
            "InvalidInput"
      [] status = "unauthorized" -> "Authentication"
      [] status = "forbidden"    -> "Authorization"
      [] status = "not_found"    -> "NotFound"
      [] status \in {"conflict", "server_error"} -> "Upstream"
      [] status = "too_many"     -> "RateLimited"
      [] OTHER                   -> "UnknownOutcome"

write_status_error(status) ==
    CASE status \in {"bad_request", "too_large", "unprocessable"} ->
            "InvalidInput"
      [] status = "unauthorized" -> "Authentication"
      [] status = "forbidden"    -> "Authorization"
      [] status = "not_found"    -> "NotFound"
      [] status = "conflict"     -> "Upstream"
      [] status = "too_many"     -> "RateLimited"
      [] OTHER                   -> "UnknownOutcome"

(* A connection that fails otherwise than by a timeout reached nobody. *)
write_transport_error(failure) ==
    IF failure = "connect" THEN "Offline" ELSE "UnknownOutcome"

read_transport_error(failure) ==
    IF failure \in {"connect", "connect_timeout", "timeout"} THEN "Offline"
    ELSE "Upstream"

(* collect_bounded_body and the decoding of what it collected *)
read_body(body) ==
    CASE body = "ok" -> "ok"
      [] body = "cut_off" -> "Offline"
      [] OTHER -> "Upstream"

(* Any doubt about a created comment leaves the outcome unknown. *)
read_created_comment(status, body) ==
    IF status # "created" THEN write_status_error(status)
    ELSE IF body = "ok" THEN "ok" ELSE "UnknownOutcome"

read_write_response(status) ==
    IF status = "no_content" THEN "ok" ELSE write_status_error(status)

(* A thumbnail of an undeclared type is recognised by its first bytes. *)
read_attachment(thumbnail, mime, body) ==
    IF mime = "missing" THEN "Upstream"
    ELSE CASE body = "cut_off" -> "Offline"
           [] body \in {"too_large", "empty"} -> "Upstream"
           [] thumbnail /\ mime = "other" /\ body = "unsigned" -> "NotFound"
           [] OTHER -> "ok"

---------------------------------------------------------------------------
(* The caller *)

(* The service checks first, the token comes next, the client last. *)
Preflight(c, o, f) ==
    IF f \in method(o).service THEN "InvalidInput"
    ELSE IF cancelled[c] THEN "Cancelled"
    ELSE IF f \in method(o).client THEN "InvalidInput"
    ELSE IF f = "empty" /\ o = "fetch_issues_by_id" THEN "ok" ELSE "none"

Call(c) ==
    /\ phase[c] = "idle"
    /\ \E o \in Workload[c], f \in Flaws :
        /\ kind' = [kind EXCEPT ![c] = method(o).kind]
        /\ doomed' = [doomed EXCEPT ![c] = f \in method(o).job]
        /\ answer' = [answer EXCEPT ![c] = Preflight(c, o, f)]
        /\ phase' = [phase EXCEPT ![c] =
                        IF Preflight(c, o, f) = "none" THEN "ready"
                        ELSE "done"]
    /\ UNCHANGED <<cancelled, queue, runtime, running, stage, pageVars,
                   jiraVars>>

Cancel(c) ==
    /\ phase[c] # "done" /\ ~cancelled[c]
    /\ cancelled' = [cancelled EXCEPT ![c] = TRUE]
    /\ UNCHANGED <<phase, kind, doomed, queue, runtime, running, stage, pageVars,
                   jiraVars, answer>>

Done(c, told) ==
    /\ phase' = [phase EXCEPT ![c] = "done"]
    /\ answer' = [answer EXCEPT ![c] = told]

Unavailable(c) == IF is_write(c) THEN "UnknownOutcome" ELSE "Internal"

(* submit and submit_write: a read looks at its token again. *)
Dispatch(c) ==
    /\ phase[c] = "ready"
    /\ \/ /\ cancelled[c] /\ ~is_write(c)
          /\ Done(c, "Cancelled")
          /\ UNCHANGED queue
       \/ /\ ~cancelled[c] \/ is_write(c)
          /\ runtime = "stopped"
          /\ Done(c, Unavailable(c))
          /\ UNCHANGED queue
       \/ /\ ~cancelled[c] \/ is_write(c)
          /\ runtime = "up"
          /\ queue' = Append(queue, c)
          /\ phase' = [phase EXCEPT ![c] = "queued"]
          /\ UNCHANGED answer
    /\ UNCHANGED <<callerVars, runtime, running, stage, pageVars, jiraVars>>

(* The answer of a write stands whatever became of its token. *)
Collect(c) ==
    /\ phase[c] = "replied"
    /\ Done(c, IF cancelled[c] /\ ~is_write(c) THEN "Cancelled"
               ELSE answer[c])
    /\ UNCHANGED <<callerVars, queue, runtime, running, stage, pageVars,
                   jiraVars>>

---------------------------------------------------------------------------
(* The client's thread *)

(* The job leaves its result in the channel; the thread is free. *)
Reply(c, told) ==
    /\ phase' = [phase EXCEPT ![c] = "replied"]
    /\ answer' = [answer EXCEPT ![c] = told]
    /\ running' = None

Start ==
    /\ runtime = "up" /\ running = None /\ queue # <<>>
    /\ queue' = Tail(queue)
    /\ LET c == Head(queue) IN
        IF doomed[c]
        THEN /\ Reply(c, "InvalidInput")
             /\ UNCHANGED stage
        ELSE /\ running' = c
             /\ phase' = [phase EXCEPT ![c] = "running"]
             /\ stage' = [stage EXCEPT ![c] =
                            IF kind[c] = "unwatch" THEN "lookup" ELSE "main"]
             /\ UNCHANGED answer
    /\ UNCHANGED <<callerVars, runtime, pageVars, jiraVars>>

sends_write(c) == is_write(c) /\ stage[c] = "main"

checks_token(c) == kind[c] \in {"issue_ids", "changelog", "thumbnail",
                                "download"}

Send(c) ==
    /\ running = c /\ phase[c] = "running"
    /\ \/ /\ checks_token(c) /\ cancelled[c]
          /\ Reply(c, "Cancelled")
          /\ UNCHANGED wire
       \/ /\ ~checks_token(c) \/ ~cancelled[c]
          /\ \/ /\ phase' = [phase EXCEPT ![c] = "sent"]
                /\ wire' = IF sends_write(c)
                           THEN [wire EXCEPT ![c] = "sent"] ELSE wire
                /\ UNCHANGED <<answer, running>>
             \/ /\ \E failure \in {"connect", "connect_timeout"} :
                    Reply(c, IF sends_write(c)
                             THEN write_transport_error(failure)
                             ELSE read_transport_error(failure))
                /\ UNCHANGED wire
    /\ UNCHANGED <<callerVars, queue, runtime, stage, pageVars, applied>>

(* The request timed out or its connection broke. *)
TransportFails(c) ==
    /\ running = c /\ phase[c] = "sent"
    /\ \E failure \in {"timeout", "broken"} :
        Reply(c, IF sends_write(c) THEN write_transport_error(failure)
                 ELSE read_transport_error(failure))
    /\ UNCHANGED <<callerVars, queue, runtime, stage, pageVars, jiraVars>>

ReadStatuses == {"success", "unauthorized", "forbidden", "not_found",
                 "too_many", "server_error"}
Bodies == {"ok", "cut_off", "too_large", "malformed"}

ReadResponse(c) ==
    /\ running = c /\ phase[c] = "sent"
    /\ kind[c] = "read"
    /\ \E status \in ReadStatuses, body \in Bodies :
        Reply(c, IF status = "success" THEN read_body(body)
                 ELSE read_status_error(status))
    /\ UNCHANGED <<callerVars, queue, runtime, stage, pageVars, jiraVars>>

(* A read of the current user precedes the DELETE. *)
LookupResponse(c) ==
    /\ running = c /\ phase[c] = "sent"
    /\ kind[c] = "unwatch" /\ stage[c] = "lookup"
    /\ \E status \in ReadStatuses, body \in Bodies :
        LET told == IF status = "success" THEN read_body(body)
                    ELSE read_status_error(status)
        IN IF told = "ok"
           THEN /\ stage' = [stage EXCEPT ![c] = "main"]
                /\ phase' = [phase EXCEPT ![c] = "running"]
                /\ UNCHANGED <<answer, running>>
           ELSE Reply(c, told) /\ UNCHANGED stage
    /\ UNCHANGED <<callerVars, queue, runtime, pageVars, jiraVars>>

AttachmentResponse(c) ==
    /\ running = c /\ phase[c] = "sent"
    /\ kind[c] \in {"thumbnail", "download"}
    /\ \E status \in ReadStatuses, mime \in {"image", "other", "missing"},
          body \in {"ok", "cut_off", "too_large", "empty", "unsigned"} :
        Reply(c, IF status # "success" THEN read_status_error(status)
                 ELSE IF mime # "missing" /\ cancelled[c] THEN "Cancelled"
                 ELSE read_attachment(kind[c] = "thumbnail", mime, body))
    /\ UNCHANGED <<callerVars, queue, runtime, stage, pageVars, jiraVars>>

---------------------------------------------------------------------------
(* Page loops *)

max_pages(c) ==
    IF kind[c] = "issue_ids" THEN MaxIssueIdPages ELSE MaxChangelogPages

\* Mutant: at the limit the pages so far are the answer.
advance_Truncate(c, next, is_last) ==
    IF is_last \/ next = None \/ pages[c] + 1 >= max_pages(c) THEN "complete"
    ELSE IF kind[c] = "changelog" /\ next \in {Blank, token[c]} THEN "error"
    ELSE "continue"

(* TokenPageProgress::advance, where pages[c] have been fetched before. *)
advance(c, next, is_last) ==
    IF is_last \/ next = None THEN "complete"
    ELSE IF \/ kind[c] = "changelog" /\ next \in {Blank, token[c]}
            \/ pages[c] + 1 >= max_pages(c)
         THEN "error" ELSE "continue"

(* The changelog has no is_last. *)
PageResponse(c) ==
    /\ running = c /\ phase[c] = "sent"
    /\ kind[c] \in {"issue_ids", "changelog"}
    /\ \E next \in Tokens \cup {Blank, None},
          is_last \in IF kind[c] = "issue_ids" THEN BOOLEAN ELSE {FALSE} :
        /\ pages' = [pages EXCEPT ![c] = @ + 1]
        /\ more' = [more EXCEPT ![c] = next # None /\ ~is_last]
        /\ CASE advance(c, next, is_last) = "complete" ->
                    Reply(c, "ok") /\ UNCHANGED token
             [] advance(c, next, is_last) = "error" ->
                    Reply(c, "Upstream") /\ UNCHANGED token
             [] OTHER ->
                    /\ token' = [token EXCEPT ![c] = next]
                    /\ phase' = [phase EXCEPT ![c] = "running"]
                    /\ UNCHANGED <<answer, running>>
    /\ UNCHANGED <<callerVars, queue, runtime, stage, jiraVars>>

PageFails(c) ==
    /\ running = c /\ phase[c] = "sent"
    /\ kind[c] \in {"issue_ids", "changelog"}
    /\ \E status \in ReadStatuses, body \in Bodies :
        /\ status # "success" \/ body # "ok"
        /\ Reply(c, IF status = "success" THEN read_body(body)
                    ELSE read_status_error(status))
    /\ UNCHANGED <<callerVars, queue, runtime, stage, pageVars, jiraVars>>

---------------------------------------------------------------------------
(* Jira, and the answers to writes *)

JiraCarriesOut(c) ==
    /\ wire[c] = "sent"
    /\ wire' = [wire EXCEPT ![c] = "carried"]
    /\ applied' = [applied EXCEPT ![c] = @ + 1]
    /\ UNCHANGED <<phase, callerVars, queue, runtime, running, stage,
                   pageVars, answer>>

JiraTurnsDown(c) ==
    /\ wire[c] = "sent"
    /\ wire' = [wire EXCEPT ![c] = "turned_down"]
    /\ UNCHANGED <<phase, callerVars, queue, runtime, running, stage,
                   pageVars, applied, answer>>

Refusals == {"bad_request", "too_large", "unprocessable", "unauthorized",
             "forbidden", "not_found", "conflict", "too_many"}

(* Only Jira itself says that it did, or refused, what was asked; a gateway *)
(* on the way says "server_error" whatever Jira does.                       *)
WriteStatuses(c) ==
    CASE wire[c] = "carried" ->
            {"created", "no_content", "success", "server_error"}
      [] wire[c] = "turned_down" -> Refusals \cup {"server_error"}
      [] OTHER -> {"server_error"}

WriteResponse(c) ==
    /\ running = c /\ phase[c] = "sent" /\ sends_write(c)
    /\ \E status \in WriteStatuses(c), body \in Bodies :
        Reply(c, IF kind[c] = "comment" THEN read_created_comment(status, body)
                 ELSE read_write_response(status))
    /\ UNCHANGED <<callerVars, queue, runtime, stage, pageVars, jiraVars>>

(* A job that panics takes the thread, and the jobs that wait, with it. *)
RuntimeStops ==
    /\ runtime = "up" /\ running # None
    /\ runtime' = "stopped"
    /\ running' = None
    /\ queue' = <<>>
    /\ UNCHANGED <<phase, callerVars, stage, pageVars, jiraVars, answer>>

\* Mutant: only the caller of the job that ran is told.
ChannelCloses_Running(c) ==
    /\ runtime = "stopped"
    /\ phase[c] \in {"running", "sent"}
    /\ Done(c, Unavailable(c))
    /\ UNCHANGED <<callerVars, queue, runtime, running, stage, pageVars,
                   jiraVars>>

(* A caller that waits on a stopped thread finds its channel closed. *)
ChannelCloses(c) ==
    /\ runtime = "stopped"
    /\ phase[c] \in {"queued", "running", "sent"}
    /\ Done(c, Unavailable(c))
    /\ UNCHANGED <<callerVars, queue, runtime, running, stage, pageVars,
                   jiraVars>>

---------------------------------------------------------------------------
Receive(c) ==
    \/ TransportFails(c) \/ ReadResponse(c) \/ LookupResponse(c)
    \/ AttachmentResponse(c) \/ PageResponse(c) \/ PageFails(c)
    \/ WriteResponse(c)

RuntimeStep == Start \/ \E c \in Calls : Send(c) \/ Receive(c)
CallerStep == \E c \in Calls : Dispatch(c) \/ Collect(c) \/ ChannelCloses(c)

Next ==
    \/ RuntimeStep \/ CallerStep \/ RuntimeStops
    \/ \E c \in Calls :
        Call(c) \/ Cancel(c) \/ JiraCarriesOut(c) \/ JiraTurnsDown(c)

Spec == Init /\ [][Next]_vars

(* The executor polls what is ready and the thread runs its jobs; every    *)
(* request ends, at the latest by its timeout.                             *)
Fairness == WF_vars(RuntimeStep) /\ WF_vars(CallerStep)

FairSpec == Spec /\ Fairness

---------------------------------------------------------------------------
Phases == {"idle", "ready", "queued", "running", "sent", "replied", "done"}

(* Every variable holds a value of its kind. *)
TypeOK ==
    /\ phase \in [Calls -> Phases]
    /\ kind \in [Calls -> Kinds \cup {None}]
    /\ doomed \in [Calls -> BOOLEAN]
    /\ cancelled \in [Calls -> BOOLEAN]
    /\ queue \in Seq(Calls)
    /\ runtime \in {"up", "stopped"}
    /\ running \in Calls \cup {None}
    /\ stage \in [Calls -> {"lookup", "main"}]
    /\ pages \in [Calls -> Nat]
    /\ token \in [Calls -> Tokens \cup {Blank, None}]
    /\ more \in [Calls -> BOOLEAN]
    /\ wire \in [Calls -> {"none", "sent", "carried", "turned_down"}]
    /\ applied \in [Calls -> Nat]
    /\ answer \in [Calls -> Answers]

told(c) ==
    IF phase[c] # "done" \/ ~is_write(c) THEN "none"
    ELSE CASE answer[c] = "ok" -> "done"
           [] answer[c] = "UnknownOutcome" -> "unknown"
           [] OTHER -> "refused"

Promise == INSTANCE RemoteWrite
    WITH Writes <- Calls, effect <- applied,
         answer <- [c \in Calls |-> told(c)]

(* Writes are honest: Jira carries a write out at most once, one reported  *)
(* done was carried out, and one reported refused, cancelled or not sent   *)
(* was not and never will be, whatever the network, the runtime thread and *)
(* the token did meanwhile.                                                *)
WritesAreHonest == Promise!Spec

(* A search that is answered holds every page Jira offered: the limit on   *)
(* the pages is an error, never a silent cut.                              *)
PagesAreComplete ==
    \A c \in Calls :
        phase[c] = "done" /\ answer[c] = "ok" => ~more[c]

(* Every call is answered, also when the thread stops under it. *)
CallsReturn ==
    \A c \in Calls : phase[c] # "idle" ~> phase[c] = "done"
=============================================================================
