---------------------------- MODULE MC_Dashboard ----------------------------
(***************************************************************************)
(* Small instances of Dashboard.  s and t are issues of the tracked scope  *)
(* or of the team, r is one that only a lookup in Jira finds.  Each        *)
(* instance uses the controls that its question is about.                  *)
(***************************************************************************)
EXTENDS Dashboard

CONSTANTS s, t, r

InScope    == {s, t}
OneInScope == {s}
OneRemote  == {s, r}

EditControls      == {"edit", "status", "poll"}
CommentControls   == {"comment", "lookup", "poll"}
OperationControls == {"edit", "status", "poll", "mark", "team", "settings"}
=============================================================================
