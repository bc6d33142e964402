-------------------------------- MODULE Inbox --------------------------------
(***************************************************************************)
(* The Activity section: the local feed of updates grouped by issue, its   *)
(* filters, the reading pane, and the marking of updates as read.  What is *)
(* marked goes through the feed of the account's own view, whose read is   *)
(* limited before the events of other views are left out.                  *)
(***************************************************************************)
EXTENDS Naturals, Sequences, SequencesExt, FiniteSets, Absent

CONSTANTS
    FeedEvents,     \* id -> [issue, at, generic, ours]: what may be stored
    FirstEvents,    \* those stored before the session
    InboxCaches,    \* caches of the issue scope: issue -> status category
    OtherStatuses,  \* statuses known from elsewhere: issue -> category
    FeedLimit,      \* MAX_FEED_EVENTS
    InboxStatuses,  \* the statuses the user filters by
    InboxQueries,   \* searches: an issue, or "generic" for the change's text
    MaxSyncs        \* bound: synchronizations of a session

VARIABLE inbox

EventIds == DOMAIN FeedEvents

(* `at' stands for the order of the feed: the time, then the id.           *)
ASSUME InboxAssumption ==
    /\ IsFiniteSet(EventIds) /\ FirstEvents \subseteq EventIds
    /\ \A e \in EventIds :
         /\ FeedEvents[e].at \in Nat /\ FeedEvents[e].issue # None
         /\ FeedEvents[e].generic \in BOOLEAN /\ FeedEvents[e].ours \in BOOLEAN
    /\ \A e, f \in EventIds : FeedEvents[e].at = FeedEvents[f].at => e = f
    /\ FeedLimit \in Nat \ {0}
    /\ MaxSyncs \in Nat

---------------------------------------------------------------------------
(* The feed, and its groups *)

newer(e, f) == FeedEvents[e].at > FeedEvents[f].at

newest_first(ids) ==
    CHOOSE list \in [1..Cardinality(ids) -> ids] :
        \A m, n \in DOMAIN list : m < n => newer(list[m], list[n])

(* The newest of the whole site, of these the ones of the displayed view.  *)
fed_events(store) ==
    LET newest == {e \in store.events :
                      Cardinality({f \in store.events : newer(f, e)}) < FeedLimit}
    IN  {e \in newest : FeedEvents[e].ours /\ FeedEvents[e].issue \in DOMAIN store.cache}

list_feed(store) ==
    LET list == newest_first(fed_events(store))
    IN  [n \in DOMAIN list |-> [id |-> list[n], unread |-> list[n] \in store.unread]]

Count(unread) == IF unread THEN 1 ELSE 0

alone(event) ==
    [issue |-> FeedEvents[event.id].issue, events |-> <<event>>,
     unread |-> event.unread, unread_count |-> Count(event.unread)]

joined_by(group, event) ==
    [group EXCEPT !.events = Append(@, event), !.unread = @ \/ event.unread,
                  !.unread_count = @ + Count(event.unread)]

\* Mutant: an event joins the group of its issue only if that was the last one.
group_with_Adjacent(groups, event) ==
    LET n == Len(groups)
    IN  IF n = 0 \/ groups[n].issue # FeedEvents[event.id].issue
        THEN Append(groups, alone(event))
        ELSE [groups EXCEPT ![n] = joined_by(@, event)]

group_with(groups, event) ==
    LET n == SelectInSeq(groups, LAMBDA g : g.issue = FeedEvents[event.id].issue)
    IN  IF n = 0 THEN Append(groups, alone(event))
        ELSE [groups EXCEPT ![n] = joined_by(@, event)]

update_groups_for_events(events) == FoldLeft(group_with, <<>>, events)

update_group_event_ids(group) ==
    {group.events[n].id : n \in DOMAIN group.events}

(* The rows of an open card: changes Jira did not name share one row, at   *)
(* the place of the first.                                                 *)
compact_update_rows(events) ==
    LET generic(n) == FeedEvents[events[n].id].generic
        named      == {n \in DOMAIN events : ~generic(n)}
        unnamed    == DOMAIN events \ named
        places     == {n \in DOMAIN events :
                          n \in named \/ \A m \in unnamed : n <= m}
        rows       == CHOOSE list \in [1..Cardinality(places) -> places] :
                          \A m, n \in DOMAIN list : m < n => list[m] < list[n]
    IN  [k \in DOMAIN rows |->
            IF rows[k] \in named THEN [id |-> events[rows[k]].id, count |-> 1]
            ELSE [id |-> None, count |-> Cardinality(unnamed)]]

---------------------------------------------------------------------------
(* What the filters leave *)

(* Issues of the view come first, then the team's and the selected one.    *)
status_of(w, issue) ==
    IF issue \in DOMAIN w.domain THEN w.domain[issue]
    ELSE IF issue \in DOMAIN w.others THEN w.others[issue] ELSE None

query_matches(query, group) ==
    \/ query \in {None, group.issue}
    \/ /\ query = "generic"
       /\ \E id \in update_group_event_ids(group) : FeedEvents[id].generic

(* A status leaves out the issues nothing is known of.                     *)
visible_inbox_groups(w) ==
    {n \in DOMAIN w.groups :
        /\ w.update_filter = "All" \/ w.groups[n].unread
        /\ query_matches(w.query, w.groups[n])
        /\ w.status_filter \in {None, status_of(w, w.groups[n].issue)}}

listed(w) == {w.groups[n].issue : n \in visible_inbox_groups(w)}

(* On a phone the pane takes the place of the list.                        *)
list_shown(w) == ~(w.mobile /\ w.detail_open)

reading_pane(w) ==
    IF w.mobile /\ ~w.detail_open THEN {}
    ELSE {n \in visible_inbox_groups(w) : w.groups[n].issue = w.selected}

(* What a card of the list offers, beside opening and closing its rows.    *)
update_group_card(group) ==
    IF group.unread THEN {"select", "mark-read"} ELSE {"select"}

unread_shown(w) == \E n \in DOMAIN w.groups : w.groups[n].unread_count > 0

clear_hidden_update_selection(w) ==
    IF w.selected \in listed(w) \cup {None} THEN w
    ELSE [w EXCEPT !.selected = None, !.detail_open = FALSE]

apply_cached(w, store) ==
    LET events == list_feed(store)
    IN  clear_hidden_update_selection(
            [w EXCEPT !.domain = store.cache, !.fed = events,
                      !.groups = update_groups_for_events(events)])

---------------------------------------------------------------------------
(* Without a workspace the window shows fixtures, read and marked in place.*)
InboxInit ==
    \E live \in BOOLEAN, cache \in InboxCaches :
        LET first == IF live THEN FirstEvents ELSE EventIds
            store == [events |-> first, unread |-> first, cache |-> cache]
            empty == [live |-> live, store |-> store, domain |-> <<>>,
                      others |-> <<>>, groups |-> <<>>, fed |-> <<>>,
                      update_filter |-> "All", status_filter |-> None,
                      query |-> None, selected |-> None, detail_open |-> FALSE,
                      mobile |-> FALSE, marking |-> None, unseen |-> {}, syncs |-> 0]
            shown == apply_cached(empty, store)
        IN  inbox = IF live THEN shown
                    ELSE [shown EXCEPT !.selected = IF shown.groups = <<>> THEN None
                                                    ELSE shown.groups[1].issue]

SelectUpdateGroup ==
    /\ list_shown(inbox)
    /\ \E n \in visible_inbox_groups(inbox) :
         /\ "select" \in update_group_card(inbox.groups[n])
         /\ inbox' = [inbox EXCEPT !.selected = inbox.groups[n].issue,
                                   !.detail_open = inbox.mobile]

CloseMobileUpdateDetail ==
    /\ inbox.mobile /\ inbox.detail_open
    /\ inbox' = [inbox EXCEPT !.detail_open = FALSE]

(* Every filter clears a selection that it hides.                          *)
SetUpdateFilter ==
    \E filter \in {"All", "Unread"} \ {inbox.update_filter} :
        inbox' = clear_hidden_update_selection([inbox EXCEPT !.update_filter = filter])

SetInboxStatus ==
    \E status \in (InboxStatuses \cup {None}) \ {inbox.status_filter} :
        inbox' = clear_hidden_update_selection([inbox EXCEPT !.status_filter = status])

TypeInboxQuery ==
    \E query \in (InboxQueries \cup {None}) \ {inbox.query} :
        inbox' = clear_hidden_update_selection([inbox EXCEPT !.query = query])

ResizeInbox == inbox' = [inbox EXCEPT !.mobile = ~@]

\* The selected issue was read, or the team was: statuses of other issues.
LearnStatuses ==
    inbox' = [inbox EXCEPT !.others = OtherStatuses]

---------------------------------------------------------------------------
(* Marking as read *)

read_in_place(group) ==
    [group EXCEPT !.unread = FALSE, !.unread_count = 0,
                  !.events = [n \in DOMAIN @ |-> [@[n] EXCEPT !.unread = FALSE]]]

(* The card asks for the events it shows.                                  *)
MarkGroupRead ==
    /\ list_shown(inbox)
    /\ \E n \in visible_inbox_groups(inbox) :
         /\ "mark-read" \in update_group_card(inbox.groups[n])
         /\ IF inbox.live
            THEN /\ inbox.marking = None
                 /\ inbox' = [inbox EXCEPT !.marking =
                                 [all |-> FALSE, ids |-> update_group_event_ids(inbox.groups[n])]]
            ELSE inbox' = clear_hidden_update_selection(
                              [inbox EXCEPT !.groups[n] = read_in_place(@)])

MarkAllRead ==
    /\ unread_shown(inbox)
    /\ inbox.marking = None
    /\ IF inbox.live
       THEN inbox' = [inbox EXCEPT !.marking = [all |-> TRUE, ids |-> {}]]
       ELSE inbox' = clear_hidden_update_selection(
                         [inbox EXCEPT !.groups = [n \in DOMAIN @ |-> read_in_place(@[n])]])

(* LiveWorkspace::mark_all_read reads the feed again; mark_read refuses    *)
(* what the feed no longer lists.                                          *)
displayed(w) == fed_events(w.store)

\* Mutant: every update of the site is marked.
asked_for_Site(w) == IF w.marking.all THEN w.store.events ELSE w.marking.ids

asked_for(w) == IF w.marking.all THEN displayed(w) ELSE w.marking.ids

(* The reads before and after the write may fail; the write is kept.       *)
MarkFails ==
    /\ inbox.marking # None
    /\ inbox' = [inbox EXCEPT !.marking = None]

MarkSucceeds ==
    /\ inbox.marking # None
    /\ inbox.marking.ids \subseteq displayed(inbox)
    /\ LET marked == [inbox EXCEPT !.marking = None, !.store.unread = @ \ asked_for(inbox)]
       IN  inbox' \in {marked, [apply_cached(marked, marked.store) EXCEPT !.unseen = {}]}

(* A synchronization of the own view stores events and the view; when the  *)
(* read that follows fails, the window keeps what it shows.                *)
SynchronizeOwn ==
    /\ inbox.live /\ inbox.marking = None /\ inbox.syncs < MaxSyncs
    /\ \E new \in SUBSET {e \in EventIds \ inbox.store.events : FeedEvents[e].ours},
         cache \in InboxCaches :
         LET store  == [events |-> inbox.store.events \cup new,
                        unread |-> inbox.store.unread \cup new, cache |-> cache]
             stored == [inbox EXCEPT !.store = store, !.syncs = @ + 1]
         IN  \/ inbox' = [apply_cached(stored, store) EXCEPT !.unseen = {}]
             \/ inbox' = [stored EXCEPT !.unseen = EventIds]

(* One of the team stores events tagged with the team's view only.         *)
SynchronizeTeam ==
    /\ inbox.live /\ inbox.marking = None
    /\ \E e \in EventIds \ inbox.store.events :
         /\ ~FeedEvents[e].ours
         /\ inbox' = [inbox EXCEPT !.store.events = @ \cup {e},
                                   !.store.unread = @ \cup {e}]

InboxNext ==
    \/ SelectUpdateGroup \/ CloseMobileUpdateDetail
    \/ SetUpdateFilter \/ SetInboxStatus \/ TypeInboxQuery \/ ResizeInbox
    \/ LearnStatuses \/ MarkGroupRead \/ MarkAllRead \/ MarkFails \/ MarkSucceeds
    \/ SynchronizeOwn \/ SynchronizeTeam

InboxSpec == InboxInit /\ [][InboxNext]_inbox

---------------------------------------------------------------------------
(* Properties *)

ids_of(events) == {events[n].id : n \in DOMAIN events}

(* The groups are the feed that was read, each event in the group of its   *)
(* issue and newest first, and the rows of an open card stand for every    *)
(* event of its group (presentation/updates.rs: "Grouping retains the      *)
(* first appearance order of issues and the input order of events").       *)
group_is_accounted(group) ==
    LET events == group.events
        rows   == compact_update_rows(events)
    IN  /\ \A k \in DOMAIN events : FeedEvents[events[k].id].issue = group.issue
        /\ \A j, k \in DOMAIN events : j < k => newer(events[j].id, events[k].id)
        /\ group.unread_count = Cardinality({k \in DOMAIN events : events[k].unread})
        /\ group.unread = (group.unread_count > 0)
        /\ SumFunctionOnSet([k \in DOMAIN rows |-> rows[k].count], DOMAIN rows) = Len(events)

updates_are_all_accounted(groups, events) ==
    /\ UNION {update_group_event_ids(groups[n]) : n \in DOMAIN groups} = ids_of(events)
    /\ \A m, n \in DOMAIN groups :
         m < n => /\ groups[m].issue # groups[n].issue
                  /\ newer(groups[m].events[1].id, groups[n].events[1].id)
    /\ \A n \in DOMAIN groups : group_is_accounted(groups[n])

(* The selected updates are read in the pane, whatever filter, mark or     *)
(* synchronization came between; on a phone the pane never hides the list  *)
(* without an issue to read.  Statuses learnt of other issues may hide the *)
(* selected one: dashboard.rs:2863 is called by filters, marks and         *)
(* apply_cached only.                                                      *)
SelectionIsRead ==
    /\ \/ inbox.selected = None \/ reading_pane(inbox) # {}
       \/ inbox.mobile /\ list_shown(inbox)
       \/ inbox.others # <<>>
    /\ inbox.detail_open => inbox.selected # None

(* The Activity section shows the feed it read, and what is selected in it. *)
InboxIsTrue == updates_are_all_accounted(inbox.groups, inbox.fed) /\ SelectionIsRead

(* No update becomes read that the window does not show ("Mark every       *)
(* currently displayed update as read", live_workspace.rs:830): not those  *)
(* of the team, nor those past the feed's limit; except after a            *)
(* synchronization whose own reading of the feed failed.                   *)
UnseenStaysUnread ==
    [][inbox.store.unread \ inbox'.store.unread
           \subseteq ids_of(inbox.fed) \cup inbox.unseen]_inbox
=============================================================================
