----------------------------- MODULE MC_Writes -----------------------------
(* Comments and watch changes among two listed issues, or comments on one   *)
(* of the list and on one that is looked up.                                *)
EXTENDS MC_Dashboard

AnyIssue == {s, t, r}
WriteControls == {"watch", "comment", "lookup", "poll"}

Listed == ui.query = None /\ ui.lookup = NoLookup

LookedUp ==
    /\ ui.domain \subseteq OneInScope
    /\ t \notin {ui.query, ui.lookup.issue, ui.selected, ui.core, ui.post.issue}
    /\ ui.watch.kind = Watch!new.kind /\ ui.watch.last = None
    /\ ui.watch_read = None /\ ui.watch_write = None /\ unsettled = {}

Within == Listed \/ LookedUp
=============================================================================
