--------------------------- MODULE IssuePagination ---------------------------
(***************************************************************************)
(* Fetching the issues of a scope page by page (application::              *)
(* issue_pagination, issue_pull; a synchronization does the same): ask for *)
(* a page, take its issues in, follow its cursor.  Jira may answer         *)
(* anything: a blank cursor, one of an earlier page, an issue twice.       *)
(***************************************************************************)
EXTENDS Naturals, SequencesExt, Absent

CONSTANTS
    Snapshots,   \* records [id, version]: issues as a page may hold them
    Cursors,     \* the cursors that are not blank
    MaxPages,    \* IssuePullConfig::max_pages
    MaxPerPage   \* bound: the issues of a page

ASSUME IssuePaginationAssumption ==
    /\ MaxPages \in Nat \ {0} /\ MaxPerPage \in Nat
    /\ None \notin Cursors /\ "blank" \notin Cursors

VARIABLES
    fetch,        \* struct IssuePagination, and where the pull is
    fetch_token,  \* whether the caller cancelled
    asked,        \* history: the cursors that were sent, in order
    given         \* history: the issues of the accepted pages, in order

fetchVars == <<fetch, fetch_token, asked, given>>

Pages ==
    [issues : UNION {[1..n -> Snapshots] : n \in 0..MaxPerPage},
     next_cursor : Cursors \cup {None, "blank"}]

IssuePaginationInit ==
    /\ fetch = [at |-> "ready", cursor |-> None, requested_cursors |-> {},
                issues |-> <<>>, pages_fetched |-> 0]
    /\ fetch_token = FALSE
    /\ asked = <<>> /\ given = <<>>

Fails == fetch' = [fetch EXCEPT !.at = "failed"] /\ UNCHANGED <<asked, given>>

validate_cursor(cursor) == cursor # "blank"

(* A cursor that is blank or was followed before ends the fetch. *)
followable(cursor) ==
    cursor # None =>
        validate_cursor(cursor) /\ cursor \notin fetch.requested_cursors

prepare_request ==
    /\ fetch.at = "ready" /\ UNCHANGED fetch_token
    /\ IF fetch_token \/ fetch.pages_fetched >= MaxPages
          \/ ~followable(fetch.cursor)
       THEN Fails
       ELSE /\ fetch' = [fetch EXCEPT !.at = "asked",
                            !.requested_cursors = @ \cup ({fetch.cursor} \ {None})]
            /\ asked' = Append(asked, fetch.cursor)
            /\ UNCHANGED given

(* An issue that came before keeps its place and takes the new snapshot. *)
taken(issues, snapshot) ==
    IF \E i \in DOMAIN issues : issues[i].id = snapshot.id
    THEN [i \in DOMAIN issues |->
            IF issues[i].id = snapshot.id THEN snapshot ELSE issues[i]]
    ELSE Append(issues, snapshot)

accept_issue_page(page) ==
    /\ fetch.at = "asked" /\ UNCHANGED fetch_token
    /\ IF fetch_token \/ ~followable(page.next_cursor)
       THEN Fails
       ELSE /\ fetch' = [fetch EXCEPT
                            !.at = IF page.next_cursor = None THEN "done"
                                   ELSE "ready",
                            !.cursor = page.next_cursor,
                            !.issues = FoldLeft(taken, @, page.issues),
                            !.pages_fetched = @ + 1]
            /\ given' = given \o page.issues
            /\ UNCHANGED asked

AcceptIssuePage == \E page \in Pages : accept_issue_page(page)

FetchPageFails ==
    /\ fetch.at = "asked" /\ Fails
    /\ UNCHANGED fetch_token

CancelFetch ==
    /\ fetch.at \in {"ready", "asked"} /\ ~fetch_token
    /\ fetch_token' = TRUE
    /\ UNCHANGED <<fetch, asked, given>>

IssuePaginationNext ==
    prepare_request \/ AcceptIssuePage \/ FetchPageFails \/ CancelFetch

---------------------------------------------------------------------------
(* No page is asked for twice, and their number keeps the limit: a gateway  *)
(* that repeats cursors cannot keep a fetch going                           *)
(* (issue_pagination.rs, requested_cursors and max_pages).                  *)
IssueRequestsAreNew == IsInjective(asked) /\ Len(asked) <= MaxPages

(* A finished fetch has every issue of its pages once, in the order they    *)
(* were first seen, each as it was last seen (IssuePagination::finish).     *)
FetchedAreTheLast ==
    LET ids(s)  == [i \in DOMAIN s |-> s[i].id]
        last(i) == given[SelectLastInSeq(given, LAMBDA g : g.id = i)]
        first(i) == SelectInSeq(given, LAMBDA g : g.id = i)
    IN  fetch.at = "done" =>
            /\ ToSet(ids(fetch.issues)) = ToSet(ids(given))
            /\ \A m \in DOMAIN fetch.issues :
                 /\ fetch.issues[m] = last(fetch.issues[m].id)
                 /\ \A n \in 1..(m - 1) :
                      first(fetch.issues[n].id) < first(fetch.issues[m].id)
=============================================================================
