---------------------------- MODULE MC_IssueSync ----------------------------
(* Instances of IssueSync for TLC.                                         *)
EXTENDS IssueSync

CONSTANTS i1, me, mate, Primary, Team

\* The primary view is what is assigned to the account or watched by it; the
\* team partition has an assignee clause only, and the account may be in it.
MCAssignees == [s \in UserSets |-> IF s = Primary THEN {me} ELSE {mate}]
MCAssigneesWithMe == [s \in UserSets |-> IF s = Primary THEN {me} ELSE {me, mate}]
MCTeamOfMe == [s \in UserSets |-> {me}]
MCWatches == [s \in UserSets |-> s = Primary]

=============================================================================
