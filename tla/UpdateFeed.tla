----------------------------- MODULE UpdateFeed -----------------------------
(***************************************************************************)
(* What the update feed promises its reader, whatever derives and stores   *)
(* it.  An event is published once, with a time that never changes; it     *)
(* stays; it raises at most one desktop alert; and an event the user has   *)
(* marked read never comes back as unread.  IssueSync implements this      *)
(* (KeepsFeedPromise).                                                     *)
(***************************************************************************)
EXTENDS Naturals

VARIABLE published      \* event id -> what its reader sees

Init == published = [e \in {} |-> e]

\* New events appear unread and silent; the others stay as they are.
Publish ==
    /\ DOMAIN published \subseteq DOMAIN published'
    /\ \A e \in DOMAIN published : published'[e] = published[e]
    /\ \A e \in DOMAIN published' \ DOMAIN published :
          /\ published'[e].occurred \in Nat
          /\ ~ published'[e].read
          /\ ~ published'[e].alerted

Alert(e) ==
    /\ ~ published[e].alerted
    /\ published' = [published EXCEPT ![e].alerted = TRUE]

Read(events) ==
    published' = [e \in DOMAIN published |->
                    IF e \in events THEN [published[e] EXCEPT !.read = TRUE]
                    ELSE published[e]]

Next ==
    \/ Publish
    \/ \E e \in DOMAIN published : Alert(e)
    \/ \E events \in SUBSET DOMAIN published : Read(events)

Spec == Init /\ [][Next]_published

=============================================================================
