------------------------------- MODULE Paging -------------------------------
(***************************************************************************)
(* The two ways the application reads Jira page by page, side by side: the *)
(* issues of a scope and the comments of one issue.                        *)
(***************************************************************************)
EXTENDS IssuePagination, CommentPagination

PagingInit == IssuePaginationInit /\ CommentPaginationInit

PagingNext ==
    \/ IssuePaginationNext /\ UNCHANGED readingVars
    \/ CommentPaginationNext /\ UNCHANGED fetchVars

PagingSpec == PagingInit /\ [][PagingNext]_<<fetchVars, readingVars>>

---------------------------------------------------------------------------
(* Neither way of paging asks for the same page twice or beyond its limit. *)
RequestsAreNew == IssueRequestsAreNew /\ CommentRequestsAreNew

(* What is reported as complete is complete: the last snapshot of every     *)
(* issue of a search, and every comment of a listing that did not change.   *)
ReadingsAreWhole == FetchedAreTheLast /\ CommentsAreWhole
=============================================================================
