------------------------------ MODULE MC_Jira ------------------------------
(* Jira as the application sees it: the client that makes the calls, the    *)
(* pages of an issue search, the comments of one issue, and the documents   *)
(* in both.  Each behaviour moves one part.                                 *)
EXTENDS JiraGateway, Paging, MC_Content, TLC

CONSTANTS c1, c2, t1

(* A call of every method beside a watch that is taken back. *)
MCWorkload == (c1 :> Ops) @@ (c2 :> {"unwatch"})

MCSnapshots ==
    {[id |-> "x", version |-> 1], [id |-> "x", version |-> 2], [id |-> "y", version |-> 1]}

VARIABLE part

JiraInit ==
    /\ part \in {"calls", "issues", "comments", "content"}
    /\ Init /\ IssuePaginationInit
    /\ CommentPaginationInit /\ (part # "comments" => listing = 0)
    /\ IF part = "content" THEN ContentInit
       ELSE adf = None /\ attachments = None /\ rich = None /\ plain = None
            /\ view = None

Only(p) == part = p /\ UNCHANGED part

CallsStep == /\ Only("calls") /\ Next
             /\ UNCHANGED <<fetchVars, readingVars, contentVars>>

JiraNext ==
    \/ CallsStep
    \/ /\ Only("issues") /\ IssuePaginationNext
       /\ UNCHANGED <<vars, readingVars, contentVars>>
    \/ /\ Only("comments") /\ CommentPaginationNext
       /\ UNCHANGED <<vars, fetchVars, contentVars>>
    \/ /\ Only("content") /\ ContentNext
       /\ UNCHANGED <<vars, fetchVars, readingVars>>

JiraSpec ==
    /\ JiraInit
    /\ [][JiraNext]_<<part, vars, fetchVars, readingVars, contentVars>>
    /\ WF_vars(Only("calls") /\ RuntimeStep) /\ WF_vars(Only("calls") /\ CallerStep)
=============================================================================
