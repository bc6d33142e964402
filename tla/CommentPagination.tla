-------------------------- MODULE CommentPagination --------------------------
(***************************************************************************)
(* Reading an issue with all its comments (application::issue_detail,      *)
(* comment_pagination): first the issue, then page after page of comments, *)
(* by offset or by cursor, until the total is reached or a page is short.  *)
(* A comment is its place in Jira's listing.  Jira answers from a listing  *)
(* that stays as it is, or it answers anything.                            *)
(***************************************************************************)
EXTENDS Naturals, SequencesExt, Absent

CONSTANTS
    PageSize,         \* IssueDetailConfig::comment_page_size
    MaxCommentPages,  \* IssueDetailConfig::max_comment_pages
    MaxComments,      \* IssueDetailConfig::max_comments
    CommentCursors,   \* the cursors another adapter may use
    Listings          \* how many comments the issue may have in Jira

ASSUME CommentPaginationAssumption ==
    /\ PageSize \in Nat \ {0} /\ MaxCommentPages \in Nat \ {0}
    /\ MaxComments \in Nat \ {0} /\ Listings \subseteq Nat
    /\ None \notin CommentCursors /\ None \notin Nat

VARIABLES
    reading,        \* struct CommentPagination, and where the service is
    reading_token,  \* whether the caller cancelled
    listing,        \* Jira: the number of comments
    honest,         \* history: every page so far came from the listing
    questions       \* history: the offset and the cursor of each request

readingVars == <<reading, reading_token, listing, honest, questions>>

CommentPaginationInit ==
    /\ reading = [at |-> "core", start_at |-> 0, page_cursor |-> None,
                  seen_cursors |-> {}, comments |-> <<>>, pages_fetched |-> 0]
    /\ reading_token = FALSE
    /\ listing \in Listings
    /\ honest = TRUE
    /\ questions = <<>>

Failed(r) == [r EXCEPT !.at = "failed"]

(* The issue itself; an answer about another issue ends the read. *)
FetchCore ==
    /\ reading.at = "core"
    /\ \E matches \in BOOLEAN :
         reading' = IF matches /\ ~reading_token
                    THEN [reading EXCEPT !.at = "ready"] ELSE Failed(reading)
    /\ UNCHANGED <<reading_token, listing, honest, questions>>

FetchComments ==
    /\ reading.at = "ready"
    /\ IF reading_token
       THEN reading' = Failed(reading) /\ UNCHANGED questions
       ELSE /\ reading' = [reading EXCEPT !.at = "asked"]
            /\ questions' = Append(questions,
                                   <<reading.start_at, reading.page_cursor>>)
    /\ UNCHANGED <<reading_token, listing, honest>>

---------------------------------------------------------------------------
(* Pages *)

Page(start_at, comments, next_start_at, next_cursor, total) ==
    [start_at |-> start_at, comments |-> comments,
     next_start_at |-> next_start_at, next_cursor |-> next_cursor,
     total |-> total]

(* Jira's REST pages have no cursor; the offset of the next one follows    *)
(* from the total.                                                         *)
map_comment_page(start_at, comments, total) ==
    LET next == start_at + Len(comments)
    IN  Page(start_at, comments,
             IF total # None /\ comments # <<>> /\ next < total
             THEN next ELSE None,
             None, total)

(* What Jira answers from the listing: at least one comment if there are   *)
(* any left, perhaps fewer than were asked for.                            *)
HonestPages ==
    {map_comment_page(reading.start_at,
        [i \in 1..n |-> reading.start_at + i], listing) :
     n \in {k \in 0..PageSize :
              /\ reading.start_at + k <= listing
              /\ k = 0 => reading.start_at >= listing}}

(* Anything else; 0 stands for a comment that is not of the listing. *)
OtherPages ==
    LET comments == {[i \in 1..n |-> 0] : n \in 0..(PageSize + 1)}
        totals   == {None} \cup 0..(MaxComments + 1)
    IN  {map_comment_page(s, c, t) :
            s \in reading.start_at..(reading.start_at + 1),
            c \in comments, t \in totals}
        \cup {Page(reading.start_at, c, s, next, t) :
            c \in comments, s \in {None} \cup 0..(MaxComments + 1),
            next \in CommentCursors \cup {None}, t \in totals}

---------------------------------------------------------------------------
(* CommentPagination::accept_page *)

continue_or_limit(r) ==
    IF r.pages_fetched >= MaxCommentPages THEN Failed(r)
    ELSE [r EXCEPT !.at = "ready"]

\* Mutant: a cursor may come again.
by_cursor_Again(r, cursor) ==
    IF r.page_cursor = cursor THEN Failed(r)
    ELSE continue_or_limit([r EXCEPT !.page_cursor = cursor,
                                     !.seen_cursors = @ \cup {cursor}])

by_cursor(r, cursor) ==
    IF r.page_cursor = cursor \/ cursor \in r.seen_cursors THEN Failed(r)
    ELSE continue_or_limit([r EXCEPT !.page_cursor = cursor,
                                     !.seen_cursors = @ \cup {cursor}])

by_offset(r, next, total) ==
    IF next <= r.start_at \/ (total # None /\ next > total) THEN Failed(r)
    ELSE continue_or_limit([r EXCEPT !.start_at = next, !.page_cursor = None])

(* The page fits the request, the limit and its own total. *)
acceptable(page) ==
    LET count == Len(reading.comments) + Len(page.comments)
    IN  /\ page.start_at = reading.start_at
        /\ Len(page.comments) <= PageSize
        /\ page.total # None => page.total <= MaxComments /\ count <= page.total
        /\ count <= MaxComments

\* Mutant: a short page ends the read, whatever the total says.
continued_ShortEnds(r, page) ==
    IF Len(page.comments) < PageSize THEN [r EXCEPT !.at = "done"]
    ELSE by_offset(r, r.start_at + Len(page.comments), page.total)

continued(r, page) ==
    IF Len(r.comments) = page.total THEN [r EXCEPT !.at = "done"]
    ELSE IF page.next_cursor # None /\ page.next_start_at # None THEN Failed(r)
    ELSE IF page.next_cursor # None THEN by_cursor(r, page.next_cursor)
    ELSE IF page.next_start_at # None
         THEN by_offset(r, page.next_start_at, page.total)
    ELSE IF page.total # None THEN Failed(r)
    ELSE IF Len(page.comments) = PageSize
         THEN by_offset(r, r.start_at + PageSize, None)
    ELSE [r EXCEPT !.at = "done"]

accept_comments_page(page) ==
    IF reading_token \/ ~acceptable(page) THEN Failed(reading)
    ELSE continued([reading EXCEPT !.comments = @ \o page.comments,
                                   !.pages_fetched = @ + 1], page)

AcceptComments ==
    /\ reading.at = "asked"
    /\ \/ \E page \in HonestPages :
            reading' = accept_comments_page(page) /\ UNCHANGED honest
       \/ \E page \in OtherPages :
            reading' = accept_comments_page(page) /\ honest' = FALSE
    /\ UNCHANGED <<reading_token, listing, questions>>

ReadFails ==
    /\ reading.at \in {"core", "asked"}
    /\ reading' = Failed(reading)
    /\ UNCHANGED <<reading_token, listing, honest, questions>>

CancelRead ==
    /\ reading.at \in {"core", "ready", "asked"} /\ ~reading_token
    /\ reading_token' = TRUE
    /\ UNCHANGED <<reading, listing, honest, questions>>

CommentPaginationNext ==
    FetchCore \/ FetchComments \/ AcceptComments \/ ReadFails \/ CancelRead

---------------------------------------------------------------------------
(* No offset and cursor are asked for twice, and the number of requests    *)
(* keeps its limit (comment_pagination.rs, seen_cursors and max_pages).    *)
CommentRequestsAreNew ==
    IsInjective(questions) /\ Len(questions) <= MaxCommentPages

(* A read that ends well has every comment of the listing, in order, when  *)
(* Jira answered from it, however many comments each page had              *)
(* (comment_pagination.rs, CommentPageDecision::Complete).                 *)
CommentsAreWhole ==
    reading.at = "done" /\ honest =>
        reading.comments = [i \in 1..listing |-> i]
=============================================================================
