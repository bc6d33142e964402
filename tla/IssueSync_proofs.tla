-------------------------- MODULE IssueSync_proofs --------------------------
(***************************************************************************)
(* Proofs about IssueSync for every set of issues and user sets and every  *)
(* value of the bounds: the types; that an event raises at most one        *)
(* desktop alert; that the feed keeps its promise; that no update is lost; *)
(* what the feed says of a revision; and that no event id is taken twice.  *)
(***************************************************************************)
EXTENDS IssueSync, TLAPS

-----------------------------------------------------------------------------
(* The inductive invariant *)

\* TypeOK alone is not inductive: deriving events looks revisions up, so every
\* revision that is stored or in flight has to be one Jira has.
RevisionsExist ==
    /\ \A i \in Issues : snap[i] <= Latest(i)
    /\ \A i \in Issues : run.fetched[i] <= Latest(i)
    /\ detail # None => detail.rev <= Latest(detail.issue)
    /\ \A e \in run.events :
          e.kind \in {"history", "comment"} => e.rev \in 1 .. Latest(e.issue)

TypeInv == TypeOK /\ RevisionsExist

\* What is queued or waits to be recorded is stored and has no outcome yet, and
\* only the delivery of notifications has such events: so a commit never finds
\* an event of an earlier run that could still be alerted.
PendingIsFresh ==
    /\ \A e \in queue : /\ e \in DOMAIN feed
                        /\ feed[e].alerts = 0
                        /\ feed[e].delivery = "NotAttempted"
    /\ unrecorded # None =>
          /\ unrecorded.event \in DOMAIN feed \ queue
          /\ unrecorded.delivery = "Delivered" <=> feed[unrecorded.event].alerts > 0
    /\ phase # "notifying" => queue = {} /\ unrecorded = None

NotifyInv == NotifiedAtMostOnce /\ DeliveryRecordIsTrue /\ PendingIsFresh

-----------------------------------------------------------------------------
(* Lemmas about the operators *)

\* The idle run is a run.
LEMMA NoRunType == NoRun \in Run
  BY PartitionAssumption DEF NoRun, Run, NoSnapshot, Snapshots, Modes

\* A revision Jira has names an account.
LEMMA AssigneeType ==
  ASSUME TypeOK, NEW i \in Issues, NEW r \in 1 .. Latest(i)
  PROVE  Assignee(i, r) \in Accounts /\ jira[i][r].at \in Nat
<1>1. jira[i] \in Seq(Revision)
  BY DEF TypeOK
<1>2. jira[i][r] \in Revision
  BY <1>1 DEF Latest
<1> QED
  BY <1>2 DEF Revision, Assignee

\* What a partition holds are snapshots of revisions Jira has.
LEMMA ExistingType ==
  ASSUME TypeInv, NEW s \in UserSets
  PROVE  /\ issues_for_user_set(s) \in Snapshots
         /\ \A i \in Issues : issues_for_user_set(s)[i] <= Latest(i)
<1>1. \A i \in Issues : Latest(i) \in Nat
  BY DEF TypeInv, TypeOK, Latest
<1> QED
  BY <1>1 DEF TypeInv, TypeOK, RevisionsExist, issues_for_user_set, Snapshots

\* The differ makes events out of snapshots of existing revisions, and none of
\* them is dated by a changelog or a comment.
LEMMA DiffType ==
  ASSUME TypeOK, NEW existing \in Snapshots, NEW incoming \in Snapshots,
         \A i \in Issues : existing[i] <= Latest(i) /\ incoming[i] <= Latest(i),
         NEW removed \in BOOLEAN
  PROVE  \A e \in diff(existing, incoming, removed) :
            e \in Event /\ e.kind \notin {"history", "comment"}
<1>1. ASSUME NEW i \in Issues, NEW k \in {"added", "removed", "updated"},
             NEW r \in Nat
      PROVE  /\ MkEvent(i, k, r, None, None) \in Event
             /\ MkEvent(i, k, r, None, None).kind \notin {"history", "comment"}
  BY DEF MkEvent, Event, Kinds
<1>2. ASSUME NEW i \in Issues, existing[i] # 0, incoming[i] # 0
      PROVE  /\ assignee_event(i, existing, incoming) \in Event
             /\ assignee_event(i, existing, incoming).kind \notin {"history", "comment"}
  <2>1. existing[i] \in 1 .. Latest(i) /\ incoming[i] \in 1 .. Latest(i)
    BY <1>2 DEF Snapshots, Latest, TypeOK
  <2>2. Assignee(i, existing[i]) \in Accounts /\ Assignee(i, incoming[i]) \in Accounts
    BY <2>1, AssigneeType
  <2> QED
    BY <2>1, <2>2 DEF assignee_event, MkEvent, Event, Kinds, Snapshots
<1>3. \A i \in Issues : existing[i] \in Nat /\ incoming[i] \in Nat
  BY DEF Snapshots
<1> QED
  BY <1>1, <1>2, <1>3 DEF diff, changed_issues

\* Enrichment adds changelog and comment events of existing revisions only.
LEMMA EnrichType ==
  ASSUME TypeOK, NEW existing \in Snapshots, NEW incoming \in Snapshots,
         \A i \in Issues : existing[i] <= Latest(i) /\ incoming[i] <= Latest(i),
         NEW events \in SUBSET Event,
         \A e \in events : e.kind \notin {"history", "comment"},
         NEW logged \in SUBSET Issues, NEW readable \in SUBSET Issues,
         logged \cup readable \subseteq changed_issues(existing, incoming)
  PROVE  \A e \in enrich(events, existing, incoming, logged, readable) :
            /\ e \in Event
            /\ e.kind \in {"history", "comment"} => e.rev \in 1 .. Latest(e.issue)
<1>1. ASSUME NEW i \in logged \cup readable, NEW r \in existing[i] + 1 .. incoming[i]
      PROVE  i \in Issues /\ r - 1 \in 1 .. Latest(i) /\ r \in 1 .. Latest(i)
  BY DEF changed_issues, Snapshots, TypeOK, Latest
<1>2. ASSUME NEW i \in logged, NEW r \in histories(i, existing, incoming)
      PROVE  LET e == MkEvent(i, "history", r, Assignee(i, r - 1), Assignee(i, r))
             IN  e \in Event /\ e.rev \in 1 .. Latest(e.issue)
  <2>1. i \in Issues /\ r - 1 \in 1 .. Latest(i) /\ r \in 1 .. Latest(i)
    BY <1>1, <1>2 DEF histories
  <2>2. Assignee(i, r - 1) \in Accounts /\ Assignee(i, r) \in Accounts
    BY <2>1, AssigneeType
  <2> QED
    BY <2>1, <2>2 DEF MkEvent, Event, Kinds
<1>3. ASSUME NEW i \in readable, NEW r \in mentions(i, existing, incoming)
      PROVE  LET e == MkEvent(i, "comment", r, None, None)
             IN  e \in Event /\ e.rev \in 1 .. Latest(e.issue)
  <2>1. i \in Issues /\ r \in 1 .. Latest(i)
    BY <1>1, <1>3 DEF mentions
  <2> QED
    BY <2>1 DEF MkEvent, Event, Kinds
<1>4. SUFFICES ASSUME NEW e \in enrich(events, existing, incoming, logged, readable)
               PROVE  /\ e \in Event
                      /\ e.kind \in {"history", "comment"} => e.rev \in 1 .. Latest(e.issue)
  OBVIOUS
<1>5. CASE e \in events
  BY <1>5
<1>6. CASE e \in changelog_events(existing, incoming,
                                  enriched_issues(existing, incoming, logged))
  <2>1. PICK i \in logged : \E r \in histories(i, existing, incoming) :
                e = MkEvent(i, "history", r, Assignee(i, r - 1), Assignee(i, r))
    BY <1>6 DEF changelog_events, enriched_issues
  <2> QED
    BY <2>1, <1>2
<1>7. CASE e \in mention_events(existing, incoming,
                                mentioned_issues(existing, incoming, readable))
  <2>1. PICK i \in readable : \E r \in mentions(i, existing, incoming) :
                e = MkEvent(i, "comment", r, None, None)
    BY <1>7 DEF mention_events, mentioned_issues
  <2> QED
    BY <2>1, <1>3
<1> QED
  BY <1>5, <1>6, <1>7 DEF enrich

-----------------------------------------------------------------------------
(* Types *)

\* The empty store, the idle process and what Jira first has are well typed.
LEMMA TypeInvInit == Init => TypeInv
<1> SUFFICES ASSUME Init PROVE TypeInv
  OBVIOUS
<1>1. jira \in [Issues -> Seq(Revision)] /\ \A i \in Issues : Latest(i) > 0
  <2>1. \A a \in Accounts : /\ <<[at |-> 0, assignee |-> a, mention |-> FALSE]>> \in Seq(Revision)
                            /\ Len(<<[at |-> 0, assignee |-> a, mention |-> FALSE]>>) = 1
    BY DEF Revision
  <2> DEFINE Firsts == {<<[at |-> 0, assignee |-> a, mention |-> FALSE]>> : a \in Accounts}
  <2>2. jira \in [Issues -> Firsts]
    BY DEF Init
  <2>3. \A f \in Firsts : f \in Seq(Revision) /\ Len(f) = 1
    BY <2>1
  <2> HIDE DEF Firsts
  <2>4. \A i \in Issues : jira[i] \in Seq(Revision) /\ Len(jira[i]) = 1
    BY <2>2, <2>3
  <2>5. jira \in [Issues -> Seq(Revision)]
    BY <2>2, <2>4
  <2>6. ASSUME NEW i \in Issues PROVE Latest(i) > 0
    BY <2>4 DEF Latest
  <2> QED
    BY <2>5, <2>6
<1>2. NoSnapshot \in Snapshots /\ \A i \in Issues : NoSnapshot[i] <= Latest(i)
  BY <1>1 DEF NoSnapshot, Snapshots, Latest
<1>3. feed \in [DOMAIN feed -> Entry] /\ DOMAIN feed \subseteq Event
  BY DEF Init
<1>4. run \in Run
  BY NoRunType DEF Init
<1>5. RevisionsExist
  BY <1>1, <1>2 DEF Init, RevisionsExist, NoRun
<1> QED
  BY <1>1, <1>2, <1>3, <1>4, <1>5 DEF Init, TypeInv, TypeOK, Phases

\* The events of a run are well formed.
LEMMA DeriveTypeInv ==
  ASSUME TypeInv, NEW logged \in SUBSET Issues, NEW readable \in SUBSET Issues,
         Derive(logged, readable)
  PROVE  TypeInv'
<1> DEFINE existing == issues_for_user_set(run.set)
           derived == enrich(diff(existing, run.fetched, replaces_membership(run.mode)),
                             existing, run.fetched, logged, readable)
           events == IF emits_updates(run.mode) THEN derived ELSE {}
<1>1. /\ existing \in Snapshots /\ run.fetched \in Snapshots
      /\ \A i \in Issues : existing[i] <= Latest(i) /\ run.fetched[i] <= Latest(i)
  BY ExistingType DEF TypeInv, TypeOK, RevisionsExist, Run
<1>2. replaces_membership(run.mode) \in BOOLEAN
  BY DEF replaces_membership
<1>3. /\ diff(existing, run.fetched, replaces_membership(run.mode)) \in SUBSET Event
      /\ \A e \in diff(existing, run.fetched, replaces_membership(run.mode)) :
            e.kind \notin {"history", "comment"}
  BY <1>1, <1>2, DiffType DEF TypeInv
<1>4. ASSUME emits_updates(run.mode)
      PROVE  \A e \in derived :
                /\ e \in Event
                /\ e.kind \in {"history", "comment"} => e.rev \in 1 .. Latest(e.issue)
  <2>1. logged \cup readable \subseteq changed_issues(existing, run.fetched)
    BY <1>4 DEF Derive
  <2> QED
    BY <1>1, <1>3, <2>1, EnrichType DEF TypeInv
<1>5. \A e \in events :
          /\ e \in Event
          /\ e.kind \in {"history", "comment"} => e.rev \in 1 .. Latest(e.issue)
  BY <1>4
<1>6. run' = [run EXCEPT !.since = None, !.opened = None, !.expected = NoSnapshot,
                         !.cursor = now + Skew, !.events = events]
  BY DEF Derive
<1> HIDE DEF existing, derived, events
<1>7. run' \in Run /\ run'.fetched = run.fetched /\ run'.events = events
  <2>1. now + Skew \in Nat /\ NoSnapshot \in Snapshots /\ run \in Run
    BY TimeAssumption DEF TypeInv, TypeOK, NoSnapshot, Snapshots
  <2>2. events \in SUBSET Event
    BY <1>5
  <2> QED
    BY <1>6, <2>1, <2>2 DEF Run
<1>8. TypeOK'
  BY <1>7 DEF Derive, TypeInv, TypeOK, Phases, jiraVars, storeVars, Latest
<1>9. RevisionsExist'
  BY <1>5, <1>7 DEF Derive, TypeInv, RevisionsExist, jiraVars, storeVars, Latest
<1> QED
  BY <1>8, <1>9 DEF TypeInv

\* An event of the run can be stored with the time it occurred.
LEMMA OccurredType ==
  ASSUME TypeInv, NEW e \in run.events
  PROVE  occurred_at(e, run.cursor) \in Nat
<1>1. e \in Event /\ e.issue \in Issues /\ run.cursor \in Nat
  BY DEF TypeInv, TypeOK, Run, Event
<1>2. CASE e.kind \in {"history", "comment"}
  <2>1. e.rev \in 1 .. Latest(e.issue)
    BY <1>2 DEF TypeInv, RevisionsExist
  <2>2. jira[e.issue][e.rev].at \in Nat
    BY <1>1, <2>1, AssigneeType DEF TypeInv
  <2> QED
    BY <1>2, <2>2 DEF occurred_at
<1> QED
  BY <1>1, <1>2 DEF occurred_at

\* A commit stores well-typed entries, snapshots and members.
LEMMA CommitTypeInv ==
  ASSUME TypeInv, commit_sync
  PROVE  TypeInv'
<1>1. run.set \in UserSets /\ run.cursor \in Nat /\ run.events \subseteq Event
      /\ run.fetched \in Snapshots /\ run.manual \in BOOLEAN
  BY DEF TypeInv, TypeOK, Run
<1>2. \A e \in run.events : NewEntry(e) \in Entry
  BY <1>1, OccurredType DEF NewEntry, Entry, Deliveries
<1>3. \A e \in DOMAIN feed : [feed[e] EXCEPT !.sets = @ \cup {run.set}] \in Entry
                           /\ feed[e] \in Entry
  BY <1>1 DEF TypeInv, TypeOK, Entry
<1>4. insert_events \in [DOMAIN feed \cup run.events -> Entry]
  BY <1>2, <1>3 DEF insert_events
<1>5. feed' \in [DOMAIN feed' -> Entry] /\ DOMAIN feed' \subseteq Event
  BY <1>1, <1>4 DEF commit_sync, TypeInv, TypeOK
<1>6. insert_issue \in Snapshots /\ \A i \in Issues : insert_issue[i] <= Latest(i)
  BY <1>1 DEF insert_issue, Snapshots, TypeInv, TypeOK, RevisionsExist
<1>7. insert_membership \in SUBSET Issues
  BY <1>1 DEF insert_membership, fetched_issues, TypeInv, TypeOK
<1>8. run' \in Run /\ run'.fetched = run.fetched /\ run'.events = {}
  BY <1>1, NoRunType DEF commit_sync, NoRun, Run
<1>9. inserted_events \subseteq Event
  BY <1>1 DEF inserted_events
<1>10. TypeOK'
  BY <1>1, <1>5, <1>6, <1>7, <1>8, <1>9
     DEF commit_sync, TypeInv, TypeOK, Phases, jiraVars, Latest
<1>11. RevisionsExist'
  BY <1>6, <1>8 DEF commit_sync, TypeInv, RevisionsExist, jiraVars, Latest
<1> QED
  BY <1>10, <1>11 DEF TypeInv

\* Only the feed and the notification variables change.
LEMMA DeliverTypeInv ==
  ASSUME TypeInv, NEW e \in queue, deliver_notification(e)
  PROVE  TypeInv'
<1>1. e \in Event
  BY DEF TypeInv, TypeOK
<1>2. DOMAIN feed' = DOMAIN feed /\ feed' \in [DOMAIN feed -> Entry]
  <2>1. feed' = feed \/ feed' = [feed EXCEPT ![e] = [feed[e] EXCEPT !.alerts = @ + 1]]
    BY DEF deliver_notification
  <2>2. feed \in [DOMAIN feed -> Entry]
    BY DEF TypeInv, TypeOK
  <2>3. \A entry \in Entry : [entry EXCEPT !.alerts = @ + 1] \in Entry
    BY DEF Entry
  <2> QED
    BY <2>1, <2>2, <2>3
<1>3. unrecorded' \in [event : Event, delivery : Deliveries]
  BY <1>1 DEF deliver_notification, Deliveries
<1>4. faults' \in Nat
  BY DEF deliver_notification, TypeInv, TypeOK
<1>5. TypeOK'
  BY <1>2, <1>3, <1>4 DEF deliver_notification, TypeInv, TypeOK, jiraVars, Latest
<1>6. RevisionsExist'
  BY DEF deliver_notification, TypeInv, RevisionsExist, jiraVars, Latest
<1> QED
  BY <1>5, <1>6 DEF TypeInv

\* Recording an outcome changes the delivery of one entry.
LEMMA RecordTypeInv ==
  ASSUME TypeInv, record_notification_delivery
  PROVE  TypeInv'
<1>1. unrecorded.delivery \in Deliveries
  BY DEF record_notification_delivery, TypeInv, TypeOK
<1> DEFINE recorded(e) == [feed[e] EXCEPT !.delivery = unrecorded.delivery]
<1>2. \A e \in DOMAIN feed : feed[e] \in Entry /\ recorded(e) \in Entry
  BY <1>1 DEF TypeInv, TypeOK, Entry
<1>3. feed' = [feed EXCEPT ![unrecorded.event] = recorded(unrecorded.event)]
  BY DEF record_notification_delivery
<1> HIDE DEF recorded
<1>4. feed \in [DOMAIN feed -> Entry]
  BY DEF TypeInv, TypeOK
<1>5. DOMAIN feed' = DOMAIN feed /\ feed' \in [DOMAIN feed -> Entry]
  BY <1>2, <1>3, <1>4
<1>6. TypeOK'
  BY <1>5 DEF record_notification_delivery, TypeInv, TypeOK, jiraVars, Latest
<1>7. RevisionsExist'
  BY DEF record_notification_delivery, TypeInv, RevisionsExist, jiraVars, Latest
<1> QED
  BY <1>6, <1>7 DEF TypeInv

\* Marking read changes the read flag of stored entries.
LEMMA MarkReadTypeInv ==
  ASSUME TypeInv, NEW events, mark_read(events)
  PROVE  TypeInv'
<1>1. \A e \in DOMAIN feed : feed[e] \in Entry /\ [feed[e] EXCEPT !.read = TRUE] \in Entry
  BY DEF TypeInv, TypeOK, Entry
<1>2. DOMAIN feed' = DOMAIN feed /\ feed' \in [DOMAIN feed -> Entry]
  BY <1>1 DEF mark_read
<1>3. TypeOK'
  BY <1>2 DEF mark_read, TypeInv, TypeOK, jiraVars, processVars, Latest
<1>4. RevisionsExist'
  BY DEF mark_read, TypeInv, RevisionsExist, jiraVars, processVars, Latest
<1> QED
  BY <1>3, <1>4 DEF TypeInv

\* A run that ends is forgotten, whatever it had fetched.
LEMMA ForgetTypeInv ==
  ASSUME TypeInv, run' = NoRun, phase' = "idle", paused' \in BOOLEAN, faults' \in Nat,
         lastError' \in [UserSets -> Errors \cup {None}],
         UNCHANGED <<jiraVars, snap, member, cursor, feed, queue, unrecorded, detail>>
  PROVE  TypeInv'
<1>1. run' \in Run /\ run'.events = {} /\ run'.fetched = NoSnapshot
  BY NoRunType DEF NoRun
<1>2. UNCHANGED <<now, jira, watched, toggles, snap, member, cursor, feed, queue, unrecorded,
                  detail>>
  BY DEF jiraVars
<1>3. TypeOK'
  BY <1>1, <1>2 DEF TypeInv, TypeOK, Phases, Latest
<1>4. \A i \in Issues : run'.fetched[i] = 0 /\ Len(jira[i]) \in Nat
  BY <1>1 DEF NoSnapshot, TypeInv, TypeOK
<1>5. RevisionsExist'
  BY <1>1, <1>2, <1>4 DEF TypeInv, TypeOK, RevisionsExist, Latest
<1> QED
  BY <1>3, <1>5 DEF TypeInv

\* Failing with an error that is shown or not.
LEMMA FailTypeInv ==
  ASSUME TypeInv, NEW kind \in Errors, Fail(kind), faults' \in Nat
  PROVE  TypeInv'
<1>1. paused' \in BOOLEAN
  BY DEF Fail, paused_after, TypeInv, TypeOK
<1>2. [lastError EXCEPT ![run.set] = kind] \in [UserSets -> Errors \cup {None}]
  BY DEF TypeInv, TypeOK
<1>3. lastError' \in [UserSets -> Errors \cup {None}]
  BY <1>2 DEF Fail, TypeInv, TypeOK
<1> QED
  BY <1>1, <1>3, ForgetTypeInv DEF Fail

\* Every way a synchronization fails.
LEMMA FaultTypeInv ==
  ASSUME TypeInv, FetchFails \/ CommitFails \/ CommitConflict
  PROVE  TypeInv'
<1>1. faults' \in Nat
  BY DEF FetchFails, CommitFails, CommitConflict, TypeInv, TypeOK
<1>2. \E kind \in Errors : Fail(kind)
  BY DEF FetchFails, CommitFails, CommitConflict, Errors
<1> QED
  BY <1>1, <1>2, FailTypeInv

\* Every step keeps the types and the existence of revisions.
LEMMA TypeInvStep == TypeInv /\ [Next]_vars => TypeInv'
<1> SUFFICES ASSUME TypeInv, [Next]_vars PROVE TypeInv'
  OBVIOUS
<1> USE DEF TypeInv, TypeOK, RevisionsExist, Latest, jiraVars, storeVars, processVars
<1>1. CASE Tick
  BY <1>1 DEF Tick
<1>2. ASSUME NEW i \in Issues, NEW a \in Accounts, NEW m \in BOOLEAN, Revise(i, a, m)
      PROVE  TypeInv'
  <2> DEFINE new == [at |-> now, assignee |-> a, mention |-> m]
  <2>1. new \in Revision
    BY DEF Revision
  <2>2. jira[i] \in Seq(Revision) /\ Append(jira[i], new) \in Seq(Revision)
        /\ Len(Append(jira[i], new)) = Len(jira[i]) + 1
    BY <2>1
  <2>3. jira' = [jira EXCEPT ![i] = Append(jira[i], new)]
    BY <1>2 DEF Revise
  <2> HIDE DEF new
  <2>4. /\ jira' \in [Issues -> Seq(Revision)]
        /\ \A j \in Issues : Len(jira'[j]) \in Nat /\ Len(jira'[j]) >= Len(jira[j])
    BY <2>2, <2>3
  <2>5. TypeOK'
    BY <1>2, <2>4 DEF Revise
  <2>6. /\ \A j \in Issues : snap[j] <= Len(jira'[j]) /\ run.fetched[j] <= Len(jira'[j])
        /\ detail # None => detail.rev <= Len(jira'[detail.issue])
    <3>1. \A j \in Issues : snap[j] \in Nat /\ run.fetched[j] \in Nat /\ Len(jira[j]) \in Nat
      BY DEF Snapshots, Run
    <3>2. \A j \in Issues : snap[j] <= Len(jira[j]) /\ run.fetched[j] <= Len(jira[j])
      OBVIOUS
    <3>3. detail # None => /\ detail.issue \in Issues /\ detail.rev \in Nat
                           /\ detail.rev <= Len(jira[detail.issue])
      OBVIOUS
    <3> QED
      BY <2>4, <3>1, <3>2, <3>3
  <2>7. \A e \in run.events : e.kind \in {"history", "comment"} => e.rev \in 1 .. Len(jira'[e.issue])
    <3> SUFFICES ASSUME NEW e \in run.events, e.kind \in {"history", "comment"}
                 PROVE  e.rev \in 1 .. Len(jira'[e.issue])
      OBVIOUS
    <3>1. e \in Event
      BY DEF Run
    <3>2. e.issue \in Issues /\ e.rev \in 1 .. Len(jira[e.issue])
      BY <3>1 DEF Event
    <3> QED
      BY <3>2, <2>4
  <2> QED
    BY <1>2, <2>5, <2>6, <2>7 DEF Revise
<1>3. ASSUME NEW i \in Issues, ToggleWatch(i) PROVE TypeInv'
  BY <1>3 DEF ToggleWatch
<1>4. ASSUME NEW s \in UserSets, NEW manual \in BOOLEAN, Begin(s, manual) PROVE TypeInv'
  <2> DEFINE mode == next_mode(s, IF manual THEN "Reconciliation" ELSE "Incremental")
  <2> DEFINE since == updated_since(s, mode)
  <2>1. mode \in Modes /\ since \in Int \cup {None}
    BY TimeAssumption DEF next_mode, updated_since, Modes
  <2>2. run' = [NoRun EXCEPT !.set = s, !.mode = mode, !.manual = manual, !.since = since]
    BY <1>4 DEF Begin
  <2> HIDE DEF mode, since
  <2>3. run' \in Run /\ run'.fetched = NoSnapshot /\ run'.events = {}
    BY <2>1, <2>2, NoRunType DEF NoRun, Run
  <2>4. phase' \in Phases
    BY <1>4 DEF Begin, Phases
  <2> QED
    BY <1>4, <2>3, <2>4 DEF Begin, NoSnapshot
<1>5. ASSUME NEW page \in SUBSET Issues, FetchPage(page) PROVE TypeInv'
  <2> DEFINE opened == IF run.opened = None THEN now ELSE run.opened
             expected == IF run.opened # None THEN run.expected
                         ELSE [i \in Issues |->
                                 IF i \in Matching(run.set, run.since) THEN Latest(i) ELSE 0]
             fetched == [i \in Issues |-> IF i \in page THEN Latest(i) ELSE run.fetched[i]]
  <2>1. \A i \in Issues : Len(jira[i]) \in Nat
    OBVIOUS
  <2>2. opened \in Nat \cup {None} /\ expected \in Snapshots /\ fetched \in Snapshots
    BY <2>1 DEF Run, Snapshots
  <2>3. \A i \in Issues : fetched[i] <= Len(jira[i])
    BY <2>1 DEF Run, Snapshots
  <2>4. run' = [run EXCEPT !.opened = opened, !.expected = expected, !.fetched = fetched]
    BY <1>5 DEF FetchPage
  <2> HIDE DEF opened, expected, fetched
  <2>5. run' \in Run /\ run'.fetched = fetched /\ run'.events = run.events
    BY <2>2, <2>4 DEF Run
  <2> QED
    BY <1>5, <2>3, <2>5 DEF FetchPage
<1>6. ASSUME NEW logged \in SUBSET Issues, NEW readable \in SUBSET Issues,
             Derive(logged, readable)
      PROVE  TypeInv'
  BY <1>6, DeriveTypeInv
<1>7. CASE FetchFails
  BY <1>7, FaultTypeInv
<1>8. CASE CommitFails
  BY <1>8, FaultTypeInv
<1>9. CASE commit_sync
  BY <1>9, CommitTypeInv
<1>10. CASE CommitConflict
  BY <1>10, FaultTypeInv
<1>11. ASSUME NEW e \in queue, deliver_notification(e) PROVE TypeInv'
  BY <1>11, DeliverTypeInv
<1>12. CASE record_notification_delivery
  BY <1>12, RecordTypeInv
<1>13. CASE RecordingFails
  BY <1>13 DEF RecordingFails
<1>14. CASE SyncCompleted
  BY <1>14, ForgetTypeInv DEF SyncCompleted
<1>15. CASE ReloadFails
  BY <1>15, ForgetTypeInv DEF ReloadFails, paused_after
<1>16. ASSUME NEW i \in Issues, DetailRead(i) PROVE TypeInv'
  BY <1>16 DEF DetailRead
<1>17. CASE cache_detail_issue
  BY <1>17 DEF cache_detail_issue, Snapshots
<1>18. CASE DetailDropped
  BY <1>18 DEF DetailDropped
<1>19. ASSUME NEW events, mark_read(events) PROVE TypeInv'
  BY <1>19, MarkReadTypeInv
<1>20. CASE Restart
  <2>1. /\ run' \in Run /\ run'.events = {}
        /\ \A i \in Issues : run'.fetched[i] = 0
    BY <1>20, NoRunType DEF Restart, NoRun, NoSnapshot
  <2>2. faults' \in Nat
    BY <1>20 DEF Restart
  <2>3. /\ phase' \in Phases /\ queue' \subseteq Event /\ unrecorded' = None
        /\ paused' \in BOOLEAN /\ detail' = None
    BY <1>20 DEF Restart, Phases
  <2>4. TypeOK'
    BY <1>20, <2>1, <2>2, <2>3 DEF Restart
  <2>5. RevisionsExist'
    BY <1>20, <2>1, <2>3 DEF Restart
  <2> QED
    BY <2>4, <2>5
<1>21. CASE UNCHANGED vars
  BY <1>21 DEF vars
<1>22. Next => TypeInv'
  BY <1>1, <1>2, <1>3, <1>4, <1>5, <1>6, <1>7, <1>8, <1>9, <1>10, <1>11, <1>12, <1>13, <1>14,
     <1>15, <1>16, <1>17, <1>18, <1>19, <1>20
     DEF Next, Environment, Sync, Dashboard, Refresh, RefreshAutomatically, MarkGroupRead,
         MarkAllRead
<1> QED
  BY <1>21, <1>22
-----------------------------------------------------------------------------
(* Notifications *)

\* Nothing is stored, queued or unrecorded at first.
LEMMA NotifyInvInit == Init => NotifyInv
BY DEF Init, NotifyInv, NotifiedAtMostOnce, DeliveryRecordIsTrue, PendingIsFresh

\* A step that leaves the feed and the notifications alone keeps the invariant,
\* if it does not leave the notifying phase with something pending.
LEMMA NotifyInvUnchanged ==
  ASSUME NotifyInv, UNCHANGED <<feed, queue, unrecorded>>,
         phase' # "notifying" => phase # "notifying" \/ (queue = {} /\ unrecorded = None)
  PROVE  NotifyInv'
BY DEF NotifyInv, NotifiedAtMostOnce, DeliveryRecordIsTrue, PendingIsFresh

\* A commit queues new entries only; what was stored keeps its outcome.
LEMMA CommitNotifyInv ==
  ASSUME TypeInv, NotifyInv, commit_sync
  PROVE  NotifyInv'
<1>1. /\ feed' = insert_events /\ queue' = run.events \ DOMAIN feed
      /\ unrecorded' = None /\ phase' = "notifying"
  BY DEF commit_sync, inserted_events, NotifyInv, PendingIsFresh
<1>2. DOMAIN feed' = DOMAIN feed \cup run.events
  BY <1>1 DEF insert_events
<1>3. ASSUME NEW e \in DOMAIN feed
      PROVE  feed'[e].alerts = feed[e].alerts /\ feed'[e].delivery = feed[e].delivery
  <2>1. feed[e] \in Entry
    BY DEF TypeInv, TypeOK
  <2>2. feed'[e] = feed[e] \/ feed'[e] = [feed[e] EXCEPT !.sets = @ \cup {run.set}]
    BY <1>1, <1>2 DEF insert_events
  <2> QED
    BY <2>1, <2>2 DEF Entry
<1>4. ASSUME NEW e \in run.events \ DOMAIN feed
      PROVE  feed'[e].alerts = 0 /\ feed'[e].delivery = "NotAttempted"
  <2>1. feed'[e] = NewEntry(e)
    BY <1>1, <1>2 DEF insert_events
  <2> QED
    BY <2>1 DEF NewEntry
<1>5. NotifiedAtMostOnce'
  BY <1>2, <1>3, <1>4 DEF NotifyInv, NotifiedAtMostOnce
<1>6. DeliveryRecordIsTrue'
  BY <1>2, <1>3, <1>4 DEF NotifyInv, DeliveryRecordIsTrue
<1>7. PendingIsFresh'
  BY <1>1, <1>2, <1>4 DEF PendingIsFresh
<1> QED
  BY <1>5, <1>6, <1>7 DEF NotifyInv

\* The one alert of an event takes it out of the queue.
LEMMA DeliverNotifyInv ==
  ASSUME TypeInv, NotifyInv, NEW e \in queue, deliver_notification(e)
  PROVE  NotifyInv'
<1>1. /\ e \in DOMAIN feed /\ feed[e].alerts = 0 /\ feed[e].delivery = "NotAttempted"
      /\ feed[e] \in Entry
  BY DEF NotifyInv, PendingIsFresh, TypeInv, TypeOK
<1>2. queue' = queue \ {e} /\ phase' = "notifying"
  BY DEF deliver_notification
<1>3. /\ unrecorded'.event = e
      /\ \/ unrecorded'.delivery = "Delivered" /\ feed' = [feed EXCEPT ![e].alerts = @ + 1]
         \/ unrecorded'.delivery # "Delivered" /\ feed' = feed
  BY DEF deliver_notification
<1>4. /\ DOMAIN feed' = DOMAIN feed
      /\ \A f \in DOMAIN feed \ {e} : feed'[f] = feed[f]
      /\ feed'[e].delivery = "NotAttempted"
      /\ feed'[e].alerts = IF unrecorded'.delivery = "Delivered" THEN 1 ELSE 0
  <2>1. CASE unrecorded'.delivery = "Delivered"
    <3>1. feed' = [feed EXCEPT ![e] = [feed[e] EXCEPT !.alerts = @ + 1]]
      BY <1>3, <2>1
    <3>2. feed'[e] = [feed[e] EXCEPT !.alerts = @ + 1]
      BY <1>1, <3>1
    <3>3. feed'[e].delivery = "NotAttempted" /\ feed'[e].alerts = 1
      BY <1>1, <3>2 DEF Entry
    <3> QED
      BY <2>1, <3>1, <3>3
  <2> QED
    BY <1>1, <1>3, <2>1
<1>5. NotifiedAtMostOnce'
  BY <1>4 DEF NotifyInv, NotifiedAtMostOnce
<1>6. DeliveryRecordIsTrue'
  BY <1>4 DEF NotifyInv, DeliveryRecordIsTrue
<1>7. PendingIsFresh'
  BY <1>1, <1>2, <1>3, <1>4 DEF NotifyInv, PendingIsFresh
<1> QED
  BY <1>5, <1>6, <1>7 DEF NotifyInv

\* What is recorded is what the notifier answered.
LEMMA RecordNotifyInv ==
  ASSUME TypeInv, NotifyInv, record_notification_delivery
  PROVE  NotifyInv'
<1> DEFINE e == unrecorded.event
           delivery == unrecorded.delivery
<1>1. /\ e \in DOMAIN feed \ queue /\ feed[e] \in Entry /\ delivery \in Deliveries
      /\ delivery = "Delivered" <=> feed[e].alerts > 0
  BY DEF record_notification_delivery, NotifyInv, PendingIsFresh, TypeInv, TypeOK
<1>2. feed' = [feed EXCEPT ![e] = [feed[e] EXCEPT !.delivery = delivery]]
  BY DEF record_notification_delivery
<1>3. unrecorded' = None /\ queue' = queue /\ phase' = phase
  BY DEF record_notification_delivery
<1> HIDE DEF e, delivery
<1>4. feed'[e].delivery = delivery /\ feed'[e].alerts = feed[e].alerts
  <2>1. feed'[e] = [feed[e] EXCEPT !.delivery = delivery]
    BY <1>1, <1>2
  <2> QED
    BY <1>1, <2>1 DEF Entry
<1>5. DOMAIN feed' = DOMAIN feed /\ \A f \in DOMAIN feed \ {e} : feed'[f] = feed[f]
  BY <1>2
<1>6. feed[e].alerts \in Nat
  BY <1>1 DEF Entry
<1>7. NotifiedAtMostOnce'
  BY <1>4, <1>5 DEF NotifyInv, NotifiedAtMostOnce
<1>8. DeliveryRecordIsTrue'
  BY <1>1, <1>4, <1>5, <1>6 DEF NotifyInv, DeliveryRecordIsTrue
<1>9. PendingIsFresh'
  BY <1>1, <1>3, <1>5 DEF NotifyInv, PendingIsFresh
<1> QED
  BY <1>7, <1>8, <1>9 DEF NotifyInv

\* Marking read leaves alerts and outcomes alone.
LEMMA MarkReadNotifyInv ==
  ASSUME TypeInv, NotifyInv, NEW events, mark_read(events)
  PROVE  NotifyInv'
<1>1. queue' = queue /\ unrecorded' = unrecorded /\ phase' = phase
  BY DEF mark_read, processVars
<1>2. DOMAIN feed' = DOMAIN feed
  BY DEF mark_read
<1>3. ASSUME NEW e \in DOMAIN feed
      PROVE  feed'[e].alerts = feed[e].alerts /\ feed'[e].delivery = feed[e].delivery
  <2>1. feed[e] \in Entry
    BY DEF TypeInv, TypeOK
  <2>2. feed'[e] = feed[e] \/ feed'[e] = [feed[e] EXCEPT !.read = TRUE]
    BY DEF mark_read
  <2> QED
    BY <2>1, <2>2 DEF Entry
<1>4. NotifiedAtMostOnce'
  BY <1>2, <1>3 DEF NotifyInv, NotifiedAtMostOnce
<1>5. DeliveryRecordIsTrue'
  BY <1>2, <1>3 DEF NotifyInv, DeliveryRecordIsTrue
<1>6. PendingIsFresh'
  BY <1>1, <1>2, <1>3 DEF NotifyInv, PendingIsFresh
<1> QED
  BY <1>4, <1>5, <1>6 DEF NotifyInv

\* Every step keeps the invariant of the notifications.
LEMMA NotifyInvStep == TypeInv /\ NotifyInv /\ [Next]_vars => NotifyInv'
<1> SUFFICES ASSUME TypeInv, NotifyInv, [Next]_vars PROVE NotifyInv'
  OBVIOUS
<1>1. CASE commit_sync
  BY <1>1, CommitNotifyInv
<1>2. ASSUME NEW e \in queue, deliver_notification(e) PROVE NotifyInv'
  BY <1>2, DeliverNotifyInv
<1>3. CASE record_notification_delivery
  BY <1>3, RecordNotifyInv
<1>4. ASSUME NEW events, mark_read(events) PROVE NotifyInv'
  BY <1>4, MarkReadNotifyInv
<1>5. CASE \/ RecordingFails \/ Restart
  BY <1>5 DEF RecordingFails, Restart, storeVars, NotifyInv, NotifiedAtMostOnce,
              DeliveryRecordIsTrue, PendingIsFresh
<1>6. CASE \/ Environment
           \/ \E s \in UserSets : Refresh(s) \/ RefreshAutomatically(s)
           \/ \E page \in SUBSET Issues : FetchPage(page)
           \/ \E logged, readable \in SUBSET Issues : Derive(logged, readable)
           \/ FetchFails \/ CommitFails \/ CommitConflict
           \/ SyncCompleted \/ ReloadFails
           \/ \E i \in Issues : DetailRead(i)
           \/ cache_detail_issue \/ DetailDropped
           \/ UNCHANGED vars
  <2>1. UNCHANGED <<feed, queue, unrecorded>>
    BY <1>6 DEF Environment, Tick, Revise, ToggleWatch, Refresh, RefreshAutomatically,
                Begin, FetchPage, Derive, FetchFails, CommitFails, CommitConflict, Fail,
                SyncCompleted, ReloadFails, DetailRead, cache_detail_issue, DetailDropped,
                storeVars, processVars, vars
  <2>2. phase' = "notifying" \/ phase' = phase \/ phase # "notifying"
           \/ (queue = {} /\ unrecorded = None)
    BY <1>6 DEF Environment, Tick, Revise, ToggleWatch, Refresh, RefreshAutomatically,
                Begin, FetchPage, Derive, FetchFails, CommitFails, CommitConflict, Fail,
                SyncCompleted, ReloadFails, RunOver, DetailRead, cache_detail_issue,
                DetailDropped, processVars, vars
  <2> QED
    BY <2>1, <2>2, NotifyInvUnchanged
<1> QED
  BY <1>1, <1>2, <1>3, <1>4, <1>5, <1>6
     DEF Next, Sync, Dashboard, MarkGroupRead, MarkAllRead

-----------------------------------------------------------------------------
(* The promise of the feed *)

\* What the reader of the feed sees of it.
Published == [e \in DOMAIN feed |-> Seen(feed[e])]

\* The fields the reader sees.
LEMMA SeenFields ==
  ASSUME NEW entry
  PROVE  /\ Seen(entry).occurred = entry.occurred
         /\ entry.read = FALSE => ~ Seen(entry).read
         /\ ~ (entry.alerts > 0) => ~ Seen(entry).alerted
BY Zenon DEF Seen

\* The first alert of an entry is all the reader sees change.
LEMMA SeenAlert ==
  ASSUME NEW entry \in Entry, entry.alerts = 0
  PROVE  /\ ~ Seen(entry).alerted
         /\ Seen([entry EXCEPT !.alerts = @ + 1]) = [Seen(entry) EXCEPT !.alerted = TRUE]
<1> DEFINE alerted == [entry EXCEPT !.alerts = @ + 1]
<1>1. alerted.occurred = entry.occurred /\ alerted.read = entry.read /\ alerted.alerts = 1
  BY DEF Entry
<1> HIDE DEF alerted
<1>2. ~ (entry.alerts > 0) /\ alerted.alerts > 0
  BY <1>1
<1>3. (alerted.alerts > 0) = TRUE
  BY <1>2, Zenon
<1>4. Seen(alerted) = [occurred |-> entry.occurred, read |-> entry.read, alerted |-> TRUE]
  BY <1>1, <1>3, Zenon DEF Seen
<1>5. Seen(alerted) = [Seen(entry) EXCEPT !.alerted = TRUE]
  <2> DEFINE seen == Seen(entry)
             before == entry.alerts > 0
  <2>1. seen = [occurred |-> entry.occurred, read |-> entry.read, alerted |-> before]
    BY Zenon DEF Seen
  <2> HIDE DEF seen, before
  <2>2. \A t : [seen EXCEPT !.alerted = t]
                = [occurred |-> entry.occurred, read |-> entry.read, alerted |-> t]
    BY <2>1
  <2>3. Seen(alerted) = [seen EXCEPT !.alerted = TRUE]
    BY <1>4, <2>2, Zenon
  <2> QED
    BY <2>3 DEF seen
<1>6. ~ Seen(entry).alerted
  BY <1>2, Zenon DEF Seen
<1> QED
  BY <1>5, <1>6 DEF alerted

\* The empty feed is the initial feed of UpdateFeed.
LEMMA FeedInit == Init => Feed!Init
<1> SUFFICES ASSUME Init PROVE Feed!Init
  OBVIOUS
<1>1. DOMAIN feed = {}
  BY DEF Init
<1> QED
  BY <1>1 DEF Feed!Init

\* A commit publishes: it adds unread and silent events and changes no other.
LEMMA CommitPublishes ==
  ASSUME TypeInv, commit_sync
  PROVE  Feed!Publish
<1>1. feed' = insert_events /\ DOMAIN feed' = DOMAIN feed \cup run.events
  BY DEF commit_sync, insert_events
<1>2. ASSUME NEW e \in DOMAIN feed
      PROVE  Published'[e] = Published[e]
  <2>1. feed[e] \in Entry
    BY DEF TypeInv, TypeOK
  <2>2. feed'[e] = feed[e] \/ feed'[e] = [feed[e] EXCEPT !.sets = @ \cup {run.set}]
    BY <1>1 DEF insert_events
  <2>3. /\ feed'[e].occurred = feed[e].occurred /\ feed'[e].read = feed[e].read
        /\ feed'[e].alerts = feed[e].alerts
    BY <2>1, <2>2 DEF Entry
  <2>4. Seen(feed'[e]) = Seen(feed[e])
    BY <2>3, Zenon DEF Seen
  <2> QED
    BY <1>1, <2>4 DEF Published
<1>3. ASSUME NEW e \in run.events \ DOMAIN feed
      PROVE  /\ Published'[e].occurred \in Nat
             /\ ~ Published'[e].read /\ ~ Published'[e].alerted
  <2>1. feed'[e] = NewEntry(e)
    BY <1>1 DEF insert_events
  <2>2. feed'[e].occurred \in Nat /\ feed'[e].read = FALSE /\ feed'[e].alerts = 0
    BY <2>1, OccurredType DEF NewEntry
  <2>3. ~ feed'[e].read /\ ~ (feed'[e].alerts > 0)
    BY <2>2
  <2>4. Published'[e] = Seen(feed'[e])
    BY <1>1 DEF Published
  <2> QED
    BY <2>2, <2>3, <2>4, SeenFields
<1>4. DOMAIN Published = DOMAIN feed /\ DOMAIN Published' = DOMAIN feed'
  BY DEF Published
<1> QED
  BY <1>1, <1>2, <1>3, <1>4 DEF Feed!Publish, Published

\* An outcome of the notifier alerts the user to a silent event, or to none.
LEMMA DeliverAlerts ==
  ASSUME TypeInv, NotifyInv, NEW e \in queue, deliver_notification(e)
  PROVE  (Feed!Alert(e) /\ e \in DOMAIN Published) \/ Published' = Published
<1>1. /\ e \in DOMAIN feed /\ feed[e].alerts = 0 /\ feed[e] \in Entry
  BY DEF NotifyInv, PendingIsFresh, TypeInv, TypeOK
<1>2. CASE feed' = feed
  BY <1>2 DEF Published
<1>3. CASE feed' = [feed EXCEPT ![e] = [feed[e] EXCEPT !.alerts = @ + 1]]
  <2>1. feed'[e] = [feed[e] EXCEPT !.alerts = @ + 1]
    BY <1>1, <1>3
  <2>2. Published'[e] = Seen(feed'[e]) /\ Published[e] = Seen(feed[e])
    BY <1>1, <1>3 DEF Published
  <2>3. ~ Published[e].alerted
    BY <1>1, <2>2, SeenAlert
  <2>4. Published'[e] = [Published[e] EXCEPT !.alerted = TRUE]
    BY <1>1, <2>1, <2>2, SeenAlert
  <2>5. DOMAIN Published' = DOMAIN Published
        /\ \A f \in DOMAIN Published \ {e} : Published'[f] = Published[f]
    BY <1>3 DEF Published
  <2>6. Published' = [Published EXCEPT ![e].alerted = TRUE]
    BY <1>1, <2>4, <2>5 DEF Published
  <2> QED
    BY <1>1, <2>3, <2>6 DEF Feed!Alert, Published
<1> QED
  BY <1>2, <1>3 DEF deliver_notification

\* Marking an entry read is all the reader sees of it.
LEMMA SeenRead ==
  ASSUME NEW entry \in Entry
  PROVE  Seen([entry EXCEPT !.read = TRUE]) = [Seen(entry) EXCEPT !.read = TRUE]
<1> DEFINE marked == [entry EXCEPT !.read = TRUE]
           seen == Seen(entry)
           alerted == entry.alerts > 0
<1>1. /\ marked.occurred = entry.occurred /\ marked.alerts = entry.alerts
      /\ marked.read = TRUE
  BY DEF Entry
<1>2. seen = [occurred |-> entry.occurred, read |-> entry.read, alerted |-> alerted]
  BY Zenon DEF Seen
<1> HIDE DEF marked
<1>3. Seen(marked) = [occurred |-> entry.occurred, read |-> TRUE, alerted |-> alerted]
  BY <1>1, Zenon DEF Seen
<1> HIDE DEF seen, alerted
<1>4. \A t : [seen EXCEPT !.read = t]
              = [occurred |-> entry.occurred, read |-> t, alerted |-> alerted]
  BY <1>2
<1>5. Seen(marked) = [seen EXCEPT !.read = TRUE]
  BY <1>3, <1>4, Zenon
<1> QED
  BY <1>5 DEF seen, marked

\* mark_read is a Read.
LEMMA MarkReadReads ==
  ASSUME TypeInv, NEW events, mark_read(events)
  PROVE  events \in SUBSET DOMAIN Published /\ Feed!Read(events)
<1>1. DOMAIN feed' = DOMAIN feed /\ DOMAIN Published = DOMAIN feed
  BY DEF mark_read, Published
<1>2. events \in SUBSET DOMAIN Published
  BY <1>1 DEF mark_read, Displayed
<1>3. ASSUME NEW e \in DOMAIN feed
      PROVE  Published'[e] = IF e \in events THEN [Published[e] EXCEPT !.read = TRUE]
                             ELSE Published[e]
  <2>1. feed[e] \in Entry
    BY DEF TypeInv, TypeOK
  <2>2. Published'[e] = Seen(feed'[e]) /\ Published[e] = Seen(feed[e])
    BY <1>1 DEF Published
  <2>3. CASE e \in events
    <3>1. feed'[e] = [feed[e] EXCEPT !.read = TRUE]
      BY <2>3 DEF mark_read
    <3> QED
      BY <2>1, <2>2, <2>3, <3>1, SeenRead
  <2>4. CASE e \notin events
    BY <2>2, <2>4 DEF mark_read
  <2> QED
    BY <2>3, <2>4
<1>4. Published' = [e \in DOMAIN Published |->
                      IF e \in events THEN [Published[e] EXCEPT !.read = TRUE]
                      ELSE Published[e]]
  BY <1>1, <1>3 DEF Published
<1> QED
  BY <1>2, <1>4 DEF Feed!Read, Published

\* The reader of the feed does not see how a notification is recorded.
LEMMA RecordStutters ==
  ASSUME TypeInv, record_notification_delivery
  PROVE  Published' = Published
<1> DEFINE d == unrecorded.event
           delivery == unrecorded.delivery
<1>1. feed' = [feed EXCEPT ![d].delivery = delivery]
  BY DEF record_notification_delivery
<1> HIDE DEF d, delivery
<1>2. ASSUME NEW e \in DOMAIN feed
      PROVE  Published'[e] = Published[e]
  <2>1. feed[e] \in Entry
    BY DEF TypeInv, TypeOK
  <2>2. feed'[e] = feed[e] \/ feed'[e] = [feed[e] EXCEPT !.delivery = delivery]
    BY <1>1
  <2>3. /\ feed'[e].occurred = feed[e].occurred /\ feed'[e].read = feed[e].read
        /\ feed'[e].alerts = feed[e].alerts
    BY <2>1, <2>2 DEF Entry
  <2>4. Seen(feed'[e]) = Seen(feed[e])
    BY <2>3, Zenon DEF Seen
  <2> QED
    BY <1>1, <2>4 DEF Published
<1> QED
  BY <1>1, <1>2 DEF Published

\* Every step of IssueSync is a step of UpdateFeed or none.
LEMMA FeedStep == TypeInv /\ NotifyInv /\ [Next]_vars => [Feed!Next]_Published
<1> SUFFICES ASSUME TypeInv, NotifyInv, [Next]_vars
             PROVE  Feed!Next \/ Published' = Published
  OBVIOUS
<1>1. CASE commit_sync
  BY <1>1, CommitPublishes DEF Feed!Next
<1>2. ASSUME NEW e \in queue, deliver_notification(e)
      PROVE  Feed!Next \/ Published' = Published
  BY <1>2, DeliverAlerts DEF Feed!Next, Published
<1>3. CASE record_notification_delivery
  BY <1>3, RecordStutters
<1>4. ASSUME NEW events, mark_read(events)
      PROVE  Feed!Next
  BY <1>4, MarkReadReads DEF Feed!Next, Published
<1>5. CASE \/ Environment
           \/ \E s \in UserSets : Refresh(s) \/ RefreshAutomatically(s)
           \/ \E page \in SUBSET Issues : FetchPage(page)
           \/ \E logged, readable \in SUBSET Issues : Derive(logged, readable)
           \/ FetchFails \/ CommitFails \/ CommitConflict \/ RecordingFails
           \/ SyncCompleted \/ ReloadFails
           \/ \E i \in Issues : DetailRead(i)
           \/ cache_detail_issue \/ DetailDropped \/ Restart
           \/ UNCHANGED vars
  <2>1. feed' = feed
    BY <1>5 DEF Environment, Tick, Revise, ToggleWatch, Refresh, RefreshAutomatically,
                Begin, FetchPage, Derive, FetchFails, CommitFails, CommitConflict, Fail,
                RecordingFails, SyncCompleted, ReloadFails, DetailRead, cache_detail_issue,
                DetailDropped, Restart, storeVars, vars
  <2> QED
    BY <2>1 DEF Published
<1> QED
  BY <1>1, <1>2, <1>3, <1>4, <1>5 DEF Next, Sync, Dashboard, MarkGroupRead, MarkAllRead

-----------------------------------------------------------------------------
(* Theorems *)

\* The types hold in every state, whatever Jira, the store and the user do.
THEOREM TypeCorrect == Spec => []TypeOK
<1>1. Spec => []TypeInv
  BY TypeInvInit, TypeInvStep, PTL DEF Spec
<1>2. TypeInv => TypeOK
  BY DEF TypeInv
<1> QED
  BY <1>1, <1>2, PTL

\* Both invariants hold together in every state.
LEMMA Invariant == Spec => [](TypeInv /\ NotifyInv)
<1>1. Init => TypeInv /\ NotifyInv
  BY TypeInvInit, NotifyInvInit
<1>2. (TypeInv /\ NotifyInv) /\ [Next]_vars => (TypeInv /\ NotifyInv)'
  BY TypeInvStep, NotifyInvStep
<1> QED
  BY <1>1, <1>2, PTL DEF Spec

\* However often an event is derived, by however many user sets, retries and
\* restarts, the user is alerted to it at most once.
THEOREM AlertedOnce == Spec => []NotifiedAtMostOnce
<1>1. TypeInv /\ NotifyInv => NotifiedAtMostOnce
  BY DEF NotifyInv
<1> QED
  BY <1>1, Invariant, PTL

\* The stored outcome of a notification is never a lie, whatever is lost.
THEOREM DeliveryRecorded == Spec => []DeliveryRecordIsTrue
<1>1. TypeInv /\ NotifyInv => DeliveryRecordIsTrue
  BY DEF NotifyInv
<1> QED
  BY <1>1, Invariant, PTL

\* The synchronization implements UpdateFeed: an event derived again changes
\* neither its time nor what the user has read or been alerted to.
THEOREM FeedPromiseKept == Spec => KeepsFeedPromise
<1>1. Spec => [][Feed!Next]_Published
  BY Invariant, FeedStep, PTL DEF Spec
<1> QED
  BY <1>1, FeedInit, PTL DEF Spec, KeepsFeedPromise, Feed!Spec, Published

-----------------------------------------------------------------------------
(* Updates are taken in *)

\* A snapshot that Jira has moved on from.
Stale(i, r) == r # 0 /\ r # Latest(i)

\* Is time t covered by the next incremental query of s?
Covered(s, t) == cursor[s] # None => t >= cursor[s] - Overlap

\* The issues the assignee clause of the running synchronization finds.
Assigned(i) == Assignee(i, Latest(i)) \in Assignees[run.set]

\* A cursor was the local clock once, which does not run ahead by more than Skew.
CursorsFollowClock ==
    \A s \in UserSets : cursor[s] # None => cursor[s] <= now + Skew

\* The bound of an incremental query is that of the stored cursor.
QueryFromCursor ==
    IF run.mode = "Incremental"
    THEN cursor[run.set] # None /\ run.since = cursor[run.set] - Overlap
    ELSE run.since = None

\* A page read since `opened' holds what was the latest then; what the first page
\* promised is the latest unless it was revised since.
PagesFollowJira ==
    /\ run.opened <= now /\ now <= run.opened + FetchLimit
    /\ \A s \in UserSets : cursor[s] # None => cursor[s] <= run.opened + Skew
    /\ \A i \in Issues : Stale(i, run.fetched[i]) => Updated(i) >= run.opened
    /\ \A i \in Issues :
          /\ Assigned(i) /\ Updated(i) < run.opened
          /\ run.since = None \/ Updated(i) >= run.since
          => run.expected[i] = Latest(i)

FetchFollows ==
    phase = "fetching" =>
        /\ QueryFromCursor
        /\ run.opened = None => run.fetched = NoSnapshot
        /\ run.opened # None => PagesFollowJira

\* What is about to be stored is the latest, or was revised so late that the new
\* cursor covers it; what it leaves out was older than the query.
CommitFollows ==
    phase = "committing" =>
        /\ run.cursor <= now + Skew
        /\ \A i \in Issues : Stale(i, run.fetched[i]) =>
              /\ Updated(i) >= run.cursor - Overlap
              /\ \A s \in UserSets : Covered(s, Updated(i))
        /\ \A i \in Issues :
              Assigned(i) /\ Updated(i) < run.cursor - Overlap =>
                 \/ run.fetched[i] = Latest(i)
                 \/ run.mode = "Incremental" /\ ~ Covered(run.set, Updated(i))

\* The same of the detail panel.
DetailFollows ==
    detail # None =>
        /\ detail.at <= now /\ now <= detail.at + FetchLimit
        /\ detail.rev # Latest(detail.issue) => Updated(detail.issue) >= detail.at

UpdateInv ==
    /\ CursorsFollowClock /\ NoUpdateLost
    /\ FetchFollows /\ CommitFollows /\ DetailFollows

\* The overlap outlasts a fetch and the skew of the clock.
OverlapSuffices == FetchLimit + Skew <= Overlap

\* Instants and revisions are numbers.
LEMMA UpdateTypes ==
  ASSUME TypeOK
  PROVE  /\ now \in Nat
         /\ \A i \in Issues : Latest(i) \in Nat \ {0} /\ Updated(i) \in Nat
         /\ \A s \in UserSets : cursor[s] \in Nat \cup {None}
         /\ run \in Run /\ run.cursor \in Nat /\ run.set \in UserSets
         /\ run.opened \in Nat \cup {None} /\ run.since \in Int \cup {None}
         /\ \A i \in Issues : run.fetched[i] \in Nat /\ run.expected[i] \in Nat
         /\ \A i \in Issues : snap[i] \in Nat
         /\ detail # None => /\ detail.issue \in Issues
                             /\ detail.rev \in Nat /\ detail.at \in Nat
         /\ None \notin Int
<1>1. ASSUME NEW i \in Issues
      PROVE  Latest(i) \in Nat \ {0} /\ Updated(i) \in Nat
  <2>1. Latest(i) \in Nat \ {0}
    BY DEF TypeOK, Latest
  <2>2. jira[i][Latest(i)].at \in Nat
    BY <2>1, AssigneeType
  <2> QED
    BY <2>1, <2>2 DEF Updated
<1>2. run \in Run
  BY DEF TypeOK
<1>3. /\ run.cursor \in Nat /\ run.set \in UserSets
      /\ run.opened \in Nat \cup {None} /\ run.since \in Int \cup {None}
      /\ \A i \in Issues : run.fetched[i] \in Nat /\ run.expected[i] \in Nat
  BY <1>2 DEF Run, Snapshots
<1>4. \A i \in Issues : snap[i] \in Nat
  BY DEF TypeOK, Snapshots
<1>5. detail # None => /\ detail.issue \in Issues
                       /\ detail.rev \in Nat /\ detail.at \in Nat
  BY DEF TypeOK
<1> QED
  BY <1>1, <1>2, <1>3, <1>4, <1>5, NoneAssumption DEF TypeOK

LEMMA UpdateInvInit == TypeOK /\ Init => UpdateInv
  BY DEF Init, UpdateInv, CursorsFollowClock, NoUpdateLost, FetchFollows, CommitFollows,
         DetailFollows

\* What Jira has is a matter of jira alone.
LEMMA SameJira ==
  ASSUME UNCHANGED jira
  PROVE  \A i \in Issues :
            /\ Latest(i)' = Latest(i) /\ Updated(i)' = Updated(i)
            /\ Assignee(i, Latest(i))' = Assignee(i, Latest(i))
            /\ \A r : Stale(i, r)' = Stale(i, r)
  BY DEF Latest, Updated, Assignee, Stale

\* The store agrees with Jira as before while neither moves.
LEMMA StoreUnchanged ==
  ASSUME TypeOK, CursorsFollowClock, NoUpdateLost,
         UNCHANGED <<jira, snap, cursor, member>>,
         now' \in Nat, now' >= now
  PROVE  CursorsFollowClock' /\ NoUpdateLost'
<1>1. CursorsFollowClock'
  <2>1. \A s \in UserSets : cursor[s] # None => cursor[s] \in Nat
    BY UpdateTypes
  <2> QED
    BY <2>1, UpdateTypes, TimeAssumption DEF CursorsFollowClock
<1>2. NoUpdateLost'
  BY SameJira DEF NoUpdateLost
<1> QED
  BY <1>1, <1>2

\* Nor does a detail that is read go out of date by itself.
LEMMA DetailUnchanged ==
  ASSUME TypeOK, DetailFollows, UNCHANGED <<now, jira>>, detail' = detail \/ detail' = None
  PROVE  DetailFollows'
  BY SameJira, UpdateTypes DEF DetailFollows

\* A step that only ends the run, or leaves it alone, keeps the invariant.
LEMMA UpdateInvUnchanged ==
  ASSUME TypeOK, UpdateInv, UNCHANGED <<now, jira, snap, cursor, member>>,
         UNCHANGED <<phase, run>> \/ phase' \in {"idle", "notifying"},
         detail' = detail \/ detail' = None
  PROVE  UpdateInv'
<1>1. CursorsFollowClock' /\ NoUpdateLost'
  BY StoreUnchanged, UpdateTypes DEF UpdateInv
<1>2. DetailFollows'
  BY DetailUnchanged DEF UpdateInv
<1>3. CASE phase' \in {"idle", "notifying"}
  BY <1>1, <1>2, <1>3 DEF UpdateInv, FetchFollows, CommitFollows
<1>4. CASE UNCHANGED <<phase, run>>
  <2>1. FetchFollows'
    BY <1>4, SameJira DEF UpdateInv, FetchFollows, QueryFromCursor, PagesFollowJira, Assigned
  <2>2. CommitFollows'
    BY <1>4, SameJira DEF UpdateInv, CommitFollows, Assigned, Covered
  <2> QED
    BY <1>1, <1>2, <2>1, <2>2 DEF UpdateInv
<1> QED
  BY <1>3, <1>4

\* Time passes, but a fetch or a detail read lasts no longer than FetchLimit.
LEMMA TickUpdateInv ==
  ASSUME TypeOK, UpdateInv, Tick
  PROVE  UpdateInv'
<1> USE UpdateTypes, TimeAssumption
<1>1. /\ now' = now + 1 /\ UNCHANGED <<jira, snap, cursor, member, phase, run, detail>>
      /\ phase = "fetching" /\ run.opened # None => now + 1 <= run.opened + FetchLimit
      /\ detail # None => now + 1 <= detail.at + FetchLimit
  BY DEF Tick, storeVars, processVars
<1>2. CursorsFollowClock' /\ NoUpdateLost'
  BY <1>1, StoreUnchanged DEF UpdateInv
<1>3. DetailFollows'
  BY <1>1, SameJira DEF UpdateInv, DetailFollows
<1>4. FetchFollows'
  <2> SUFFICES ASSUME phase = "fetching", run.opened # None PROVE PagesFollowJira'
    BY <1>1 DEF UpdateInv, FetchFollows, QueryFromCursor
  <2> QED
    BY <1>1, SameJira DEF UpdateInv, FetchFollows, PagesFollowJira, Assigned
<1>5. CommitFollows'
  BY <1>1, SameJira DEF UpdateInv, CommitFollows, Assigned, Covered
<1> QED
  BY <1>2, <1>3, <1>4, <1>5 DEF UpdateInv

\* A revision is dated now, so every cursor, and every fetch under way, covers it.
LEMMA ReviseUpdateInv ==
  ASSUME TypeOK, TypeOK', UpdateInv, OverlapSuffices, NEW i \in Issues,
         NEW a \in Accounts, NEW m \in BOOLEAN, Revise(i, a, m)
  PROVE  UpdateInv'
<1> USE UpdateTypes, TimeAssumption
<1>1. UNCHANGED <<now, snap, cursor, member, phase, run, detail>>
  BY DEF Revise, storeVars, processVars
<1>2. \A j \in Issues \ {i} :
         /\ Latest(j)' = Latest(j) /\ Updated(j)' = Updated(j)
         /\ Assignee(j, Latest(j))' = Assignee(j, Latest(j))
         /\ \A r : Stale(j, r)' = Stale(j, r)
  BY DEF Revise, Latest, Updated, Assignee, Stale
<1>3. Updated(i)' = now
  <2> DEFINE new == [at |-> now, assignee |-> a, mention |-> m]
  <2>1. jira'[i] = Append(jira[i], new) /\ jira[i] \in Seq(Revision) /\ new \in Revision
    BY DEF Revise, TypeOK, Revision
  <2>2. new.at = now
    OBVIOUS
  <2> HIDE DEF new
  <2>3. jira'[i][Len(jira'[i])] = new
    BY <2>1
  <2> QED
    BY <2>2, <2>3 DEF Updated, Latest
<1>4. \A s \in UserSets : cursor[s] # None => now >= cursor[s] - Overlap
  BY DEF UpdateInv, CursorsFollowClock, OverlapSuffices
<1>5. CursorsFollowClock'
  BY <1>1 DEF UpdateInv, CursorsFollowClock
<1>6. NoUpdateLost'
  <2> SUFFICES ASSUME NEW s \in UserSets, NEW j \in Issues, cursor[s] # None,
                      (Assignee(j, Latest(j)) \in Assignees[s])',
                      Updated(j)' < cursor[s] - Overlap
               PROVE  j \in member[s] /\ snap[j] = Latest(j)'
    BY <1>1 DEF NoUpdateLost
  <2>1. j # i
    BY <1>3, <1>4
  <2> QED
    BY <1>2, <2>1 DEF UpdateInv, NoUpdateLost
<1>7. DetailFollows'
  BY <1>1, <1>2, <1>3 DEF UpdateInv, DetailFollows
<1>8. FetchFollows'
  <2> SUFFICES ASSUME phase = "fetching", run.opened # None PROVE PagesFollowJira'
    BY <1>1 DEF UpdateInv, FetchFollows, QueryFromCursor
  <2> QED
    BY <1>1, <1>2, <1>3 DEF UpdateInv, FetchFollows, PagesFollowJira, Assigned
<1>9. CommitFollows'
  <2> SUFFICES ASSUME phase = "committing" PROVE CommitFollows'
    BY <1>1 DEF CommitFollows
  <2>1. now >= run.cursor - Overlap
    BY DEF UpdateInv, CommitFollows, OverlapSuffices
  <2>2. ASSUME NEW j \in Issues, Stale(j, run.fetched[j])'
        PROVE  /\ Updated(j)' >= run.cursor - Overlap
               /\ \A s \in UserSets : Covered(s, Updated(j))'
    BY <1>1, <1>2, <1>3, <1>4, <2>1, <2>2 DEF UpdateInv, CommitFollows, Covered
  <2>3. ASSUME NEW j \in Issues, Assigned(j)', Updated(j)' < run.cursor - Overlap
        PROVE  \/ run.fetched[j] = Latest(j)'
               \/ run.mode = "Incremental" /\ ~ Covered(run.set, Updated(j))'
    BY <1>1, <1>2, <1>3, <2>1, <2>3 DEF UpdateInv, CommitFollows, Covered, Assigned
  <2> QED
    BY <1>1, <2>2, <2>3 DEF UpdateInv, CommitFollows
<1> QED
  BY <1>5, <1>6, <1>7, <1>8, <1>9 DEF UpdateInv
\* A run begins with the stored cursor and without a page.
LEMMA BeginUpdateInv ==
  ASSUME TypeOK, UpdateInv, NEW s \in UserSets, NEW manual \in BOOLEAN, Begin(s, manual)
  PROVE  UpdateInv'
<1> DEFINE mode == next_mode(s, IF manual THEN "Reconciliation" ELSE "Incremental")
<1>1. mode \in Modes /\ (mode = "Incremental" => cursor[s] # None)
  BY DEF next_mode, Modes
<1>2. /\ UNCHANGED <<now, jira, snap, cursor, member, detail>> /\ phase' = "fetching"
      /\ run' = [NoRun EXCEPT !.set = s, !.mode = mode, !.manual = manual,
                              !.since = updated_since(s, mode)]
  BY DEF Begin, jiraVars, storeVars
<1> HIDE DEF mode
<1>3. /\ run'.set = s /\ run'.mode = mode /\ run'.since = updated_since(s, mode)
      /\ run'.opened = None /\ run'.fetched = NoSnapshot
  BY <1>2 DEF NoRun
<1>4. CursorsFollowClock' /\ NoUpdateLost'
  BY <1>2, StoreUnchanged, UpdateTypes DEF UpdateInv
<1>5. DetailFollows'
  BY <1>2, DetailUnchanged DEF UpdateInv
<1>6. QueryFromCursor'
  BY <1>1, <1>2, <1>3 DEF QueryFromCursor, updated_since
<1> QED
  BY <1>2, <1>3, <1>4, <1>5, <1>6 DEF UpdateInv, FetchFollows, CommitFollows

\* Cut down to the minute, a query reaches further back.
LEMMA Truncates ==
  ASSUME NEW since \in Int
  PROVE  truncated(since) \in Int /\ truncated(since) <= since
<1>1. since % Minute \in Nat
  BY TimeAssumption
<1> QED
  BY <1>1 DEF truncated

\* A query finds at least what is as new as it asks for.
LEMMA InTheWindow ==
  ASSUME TypeOK, NEW i \in Issues, Assigned(i),
         run.since = None \/ Updated(i) >= run.since
  PROVE  i \in Matching(run.set, run.since)
<1>1. CASE run.since = None
  BY <1>1 DEF Matching, InView, Assigned
<1>2. CASE run.since # None
  <2>1. run.since \in Int /\ Updated(i) \in Int
    BY <1>2, UpdateTypes DEF TypeOK, Run
  <2>2. Updated(i) >= truncated(run.since)
    BY <1>2, <2>1, Truncates
  <2> QED
    BY <2>2 DEF Matching, InView, Assigned
<1> QED
  BY <1>1, <1>2

\* A page holds what is the latest when it is read.
LEMMA FetchPageUpdateInv ==
  ASSUME TypeOK, UpdateInv, NEW page \in SUBSET Issues, FetchPage(page)
  PROVE  UpdateInv'
<1> USE UpdateTypes, TimeAssumption
<1> DEFINE opened == IF run.opened = None THEN now ELSE run.opened
           expected == IF run.opened # None THEN run.expected
                       ELSE [i \in Issues |->
                               IF i \in Matching(run.set, run.since) THEN Latest(i) ELSE 0]
           fetched == [i \in Issues |-> IF i \in page THEN Latest(i) ELSE run.fetched[i]]
<1>1. /\ UNCHANGED <<now, jira, snap, cursor, member, detail, phase>> /\ phase = "fetching"
      /\ run' = [run EXCEPT !.opened = opened, !.expected = expected, !.fetched = fetched]
  BY DEF FetchPage, jiraVars, storeVars
<1>2. FetchFollows
  BY DEF UpdateInv
<1>3. opened \in Nat
  OBVIOUS
<1>4. opened <= now /\ now <= opened + FetchLimit
  BY <1>1, <1>2 DEF FetchFollows, PagesFollowJira
<1>5. \A s \in UserSets : cursor[s] # None => cursor[s] <= opened + Skew
  BY <1>1, <1>2 DEF FetchFollows, PagesFollowJira, UpdateInv, CursorsFollowClock
<1>6. ASSUME NEW i \in Issues, Stale(i, fetched[i]) PROVE Updated(i) >= opened
  <2>1. i \notin page /\ Stale(i, run.fetched[i])
    BY <1>6 DEF Stale
  <2>2. run.opened # None
    BY <1>1, <1>2, <2>1 DEF FetchFollows, Stale, NoSnapshot
  <2> QED
    BY <1>1, <1>2, <2>1, <2>2 DEF FetchFollows, PagesFollowJira
<1>7. ASSUME NEW i \in Issues, Assigned(i), Updated(i) < opened,
             run.since = None \/ Updated(i) >= run.since
      PROVE  expected[i] = Latest(i)
  <2>1. CASE run.opened = None
    <3>1. i \in Matching(run.set, run.since)
      BY <1>7, InTheWindow
    <3> QED
      BY <2>1, <3>1
  <2>2. CASE run.opened # None
    BY <1>1, <1>2, <1>7, <2>2 DEF FetchFollows, PagesFollowJira
  <2> QED
    BY <2>1, <2>2
<1> HIDE DEF opened, expected, fetched
<1>8. /\ run'.opened = opened /\ run'.expected = expected /\ run'.fetched = fetched
      /\ run'.set = run.set /\ run'.since = run.since /\ run'.mode = run.mode
  <2>1. run \in Run
    OBVIOUS
  <2> QED
    BY <1>1, <2>1 DEF Run
<1>9. CursorsFollowClock' /\ NoUpdateLost'
  BY <1>1, StoreUnchanged DEF UpdateInv
<1>10. DetailFollows'
  BY <1>1, DetailUnchanged DEF UpdateInv
<1>11. PagesFollowJira'
  BY <1>1, <1>3, <1>4, <1>5, <1>6, <1>7, <1>8, SameJira DEF PagesFollowJira, Assigned
<1>12. QueryFromCursor'
  BY <1>1, <1>2, <1>8 DEF FetchFollows, QueryFromCursor
<1> QED
  BY <1>1, <1>3, <1>8, <1>9, <1>10, <1>11, <1>12 DEF UpdateInv, FetchFollows, CommitFollows

\* The overlap covers what was revised since the first page was read.
LEMMA DeriveUpdateInv ==
  ASSUME TypeOK, UpdateInv, OverlapSuffices,
         NEW logged \in SUBSET Issues, NEW readable \in SUBSET Issues,
         Derive(logged, readable)
  PROVE  UpdateInv'
<1> USE UpdateTypes, TimeAssumption
<1>1. /\ UNCHANGED <<now, jira, snap, cursor, member, detail>>
      /\ phase = "fetching" /\ phase' = "committing"
      /\ run.opened # None /\ Outstanding = {}
  BY DEF Derive, jiraVars, storeVars
<1>2. /\ run'.set = run.set /\ run'.mode = run.mode /\ run'.fetched = run.fetched
      /\ run'.cursor = now + Skew
  <2>1. run \in Run
    OBVIOUS
  <2>2. \E events : run' = [run EXCEPT !.since = None, !.opened = None,
                                       !.expected = NoSnapshot, !.cursor = now + Skew,
                                       !.events = events]
    BY DEF Derive
  <2> QED
    BY <2>1, <2>2 DEF Run
<1>3. QueryFromCursor /\ PagesFollowJira
  BY <1>1 DEF UpdateInv, FetchFollows
<1>4. now + Skew - Overlap <= run.opened /\ run.opened + Skew - Overlap <= run.opened
  BY <1>1, <1>3 DEF PagesFollowJira, OverlapSuffices
<1>5. ASSUME NEW i \in Issues, Stale(i, run.fetched[i])
      PROVE  /\ Updated(i) >= now + Skew - Overlap
             /\ \A s \in UserSets : Covered(s, Updated(i))
  <2>1. Updated(i) >= run.opened
    BY <1>3, <1>5 DEF PagesFollowJira
  <2>2. ASSUME NEW s \in UserSets, cursor[s] # None
        PROVE  cursor[s] - Overlap <= Updated(i)
    BY <1>1, <1>3, <1>4, <2>1, <2>2 DEF PagesFollowJira
  <2> QED
    BY <1>1, <1>4, <2>1, <2>2 DEF Covered
<1>6. ASSUME NEW i \in Issues, Assigned(i), Updated(i) < now + Skew - Overlap
      PROVE  \/ run.fetched[i] = Latest(i)
             \/ run.mode = "Incremental" /\ ~ Covered(run.set, Updated(i))
  <2>1. Updated(i) < run.opened
    BY <1>1, <1>4, <1>6
  <2>2. CASE run.since = None \/ Updated(i) >= run.since
    <3>1. run.expected[i] = Latest(i)
      BY <1>3, <1>6, <2>1, <2>2 DEF PagesFollowJira
    <3>2. i \in Matching(run.set, run.since)
      BY <1>6, <2>2, InTheWindow
    <3>3. run.fetched[i] # 0
      BY <1>1, <3>1, <3>2 DEF Outstanding
    <3>4. ~ Stale(i, run.fetched[i])
      BY <1>1, <1>3, <2>1 DEF PagesFollowJira
    <3> QED
      BY <3>3, <3>4 DEF Stale
  <2>3. CASE run.since # None /\ Updated(i) < run.since
    <3>1. run.mode = "Incremental" /\ cursor[run.set] # None
          /\ run.since = cursor[run.set] - Overlap
      BY <1>3, <2>3 DEF QueryFromCursor
    <3> QED
      BY <2>3, <3>1 DEF Covered
  <2> QED
    BY <2>2, <2>3
<1>7. CursorsFollowClock' /\ NoUpdateLost'
  BY <1>1, StoreUnchanged DEF UpdateInv
<1>8. DetailFollows'
  BY <1>1, DetailUnchanged DEF UpdateInv
<1>9. CommitFollows'
  BY <1>1, <1>2, <1>5, <1>6, SameJira DEF CommitFollows, Assigned, Covered
<1> QED
  BY <1>1, <1>7, <1>8, <1>9 DEF UpdateInv, FetchFollows

\* A commit stores what is the latest or still covered, and what it does not
\* store was taken in before.
LEMMA CommitUpdateInv ==
  ASSUME TypeOK, TypeOK', UpdateInv, commit_sync
  PROVE  UpdateInv'
<1> USE UpdateTypes, TimeAssumption
<1>1. /\ UNCHANGED <<now, jira, detail>>
      /\ phase = "committing" /\ phase' = "notifying"
      /\ member' = [member EXCEPT ![run.set] = insert_membership]
      /\ snap' = insert_issue
      /\ cursor' = [cursor EXCEPT ![run.set] = run.cursor]
  BY DEF commit_sync, jiraVars
<1>2. /\ cursor \in [UserSets -> Nat \cup {None}]
      /\ member \in [UserSets -> SUBSET Issues]
  BY DEF TypeOK
<1>3. CommitFollows /\ NoUpdateLost /\ CursorsFollowClock /\ DetailFollows
  BY DEF UpdateInv
<1>4. CursorsFollowClock'
  BY <1>1, <1>2, <1>3 DEF CursorsFollowClock, CommitFollows
<1>5. ASSUME NEW s \in UserSets, NEW i \in Issues, cursor'[s] # None,
             Assignee(i, Latest(i)) \in Assignees[s],
             Updated(i) < cursor'[s] - Overlap
      PROVE  i \in member'[s] /\ snap'[i] = Latest(i)
  <2>1. snap'[i] = IF run.fetched[i] # 0 THEN run.fetched[i] ELSE snap[i]
    BY <1>1 DEF insert_issue, fetched_issues
  <2>2. CASE s # run.set
    <3>1. cursor'[s] = cursor[s] /\ member'[s] = member[s]
      BY <1>1, <1>2, <2>2
    <3>2. i \in member[s] /\ snap[i] = Latest(i)
      BY <1>3, <1>5, <3>1 DEF NoUpdateLost
    <3>3. ~ Stale(i, run.fetched[i])
      BY <1>1, <1>3, <1>5, <3>1 DEF CommitFollows, Covered
    <3> QED
      BY <2>1, <3>1, <3>2, <3>3 DEF Stale
  <2>3. CASE s = run.set
    <3>1. cursor'[s] = run.cursor /\ member'[s] = insert_membership
      BY <1>1, <1>2, <2>3
    <3>2. \/ run.fetched[i] = Latest(i)
          \/ run.mode = "Incremental" /\ ~ Covered(run.set, Updated(i))
      BY <1>1, <1>3, <1>5, <2>3, <3>1 DEF CommitFollows, Assigned
    <3>3. ~ Stale(i, run.fetched[i])
      BY <1>1, <1>3, <1>5, <3>1 DEF CommitFollows
    <3>4. CASE run.fetched[i] = Latest(i)
      BY <2>1, <3>1, <3>4 DEF insert_membership, fetched_issues
    <3>5. CASE run.mode = "Incremental" /\ ~ Covered(run.set, Updated(i))
      <4>1. i \in member[s] /\ snap[i] = Latest(i)
        BY <1>3, <1>5, <2>3, <3>5 DEF NoUpdateLost, Covered
      <4> QED
        BY <2>1, <2>3, <3>1, <3>3, <3>5, <4>1
           DEF insert_membership, replaces_membership, Stale
    <3> QED
      BY <3>2, <3>4, <3>5
  <2> QED
    BY <2>2, <2>3
<1>6. NoUpdateLost'
  BY <1>1, <1>5, SameJira DEF NoUpdateLost
<1>7. DetailFollows'
  BY <1>1, <1>3, DetailUnchanged
<1> QED
  BY <1>1, <1>4, <1>6, <1>7 DEF UpdateInv, FetchFollows, CommitFollows

\* The panel reads the latest revision.
LEMMA DetailReadUpdateInv ==
  ASSUME TypeOK, UpdateInv, NEW i \in Issues, DetailRead(i)
  PROVE  UpdateInv'
<1> USE UpdateTypes, TimeAssumption
<1>1. /\ UNCHANGED <<now, jira, snap, cursor, member, phase, run>>
      /\ detail' = [issue |-> i, rev |-> Latest(i), at |-> now]
  BY DEF DetailRead, jiraVars, storeVars
<1>2. CursorsFollowClock' /\ NoUpdateLost'
  BY <1>1, StoreUnchanged DEF UpdateInv
<1>3. DetailFollows'
  BY <1>1, SameJira DEF DetailFollows, Stale
<1>4. FetchFollows'
  BY <1>1, SameJira DEF UpdateInv, FetchFollows, QueryFromCursor, PagesFollowJira, Assigned
<1>5. CommitFollows'
  BY <1>1, SameJira DEF UpdateInv, CommitFollows, Assigned, Covered
<1> QED
  BY <1>2, <1>3, <1>4, <1>5 DEF UpdateInv

\* A detail that is out of date was revised so late that every cursor covers it.
LEMMA CacheDetailUpdateInv ==
  ASSUME TypeOK, UpdateInv, OverlapSuffices, cache_detail_issue
  PROVE  UpdateInv'
<1> USE UpdateTypes, TimeAssumption
<1>1. /\ UNCHANGED <<now, jira, cursor, member, phase, run>> /\ detail # None
      /\ snap' = IF snap[detail.issue] = 0 THEN snap
                 ELSE [snap EXCEPT ![detail.issue] = detail.rev]
      /\ detail' = None
  BY DEF cache_detail_issue, jiraVars
<1>2. snap \in [Issues -> Nat]
  BY DEF TypeOK, Snapshots
<1>3. CursorsFollowClock'
  BY <1>1 DEF UpdateInv, CursorsFollowClock
<1>4. ASSUME NEW s \in UserSets, NEW i \in Issues, cursor[s] # None,
             Assignee(i, Latest(i)) \in Assignees[s], Updated(i) < cursor[s] - Overlap
      PROVE  i \in member[s] /\ snap'[i] = Latest(i)
  <2>1. i \in member[s] /\ snap[i] = Latest(i)
    BY <1>4 DEF UpdateInv, NoUpdateLost
  <2>2. CASE i = detail.issue
    <3>1. cursor[s] <= now + Skew /\ now <= detail.at + FetchLimit
      BY <1>1, <1>4 DEF UpdateInv, CursorsFollowClock, DetailFollows
    <3>2. Updated(i) < detail.at
      BY <1>1, <1>4, <2>2, <3>1 DEF OverlapSuffices
    <3>3. detail.rev = Latest(i)
      BY <1>1, <2>2, <3>2 DEF UpdateInv, DetailFollows
    <3> QED
      BY <1>1, <1>2, <2>1, <2>2, <3>3
  <2>3. CASE i # detail.issue
    BY <1>1, <1>2, <2>1, <2>3
  <2> QED
    BY <2>1, <2>2, <2>3
<1>5. NoUpdateLost'
  BY <1>1, <1>4, SameJira DEF NoUpdateLost
<1>6. FetchFollows'
  BY <1>1, SameJira DEF UpdateInv, FetchFollows, QueryFromCursor, PagesFollowJira, Assigned
<1>7. CommitFollows'
  BY <1>1, SameJira DEF UpdateInv, CommitFollows, Assigned, Covered
<1> QED
  BY <1>1, <1>3, <1>5, <1>6, <1>7 DEF UpdateInv, DetailFollows

\* Every step keeps the invariant of the updates.
LEMMA UpdateInvStep ==
  OverlapSuffices /\ TypeInv /\ TypeInv' /\ UpdateInv /\ [Next]_vars => UpdateInv'
<1> SUFFICES ASSUME OverlapSuffices, TypeOK, TypeOK', UpdateInv, [Next]_vars
             PROVE  UpdateInv'
  BY DEF TypeInv
<1>1. CASE Tick
  BY <1>1, TickUpdateInv
<1>2. ASSUME NEW i \in Issues, NEW a \in Accounts, NEW m \in BOOLEAN, Revise(i, a, m)
      PROVE  UpdateInv'
  BY <1>2, ReviseUpdateInv
<1>3. ASSUME NEW s \in UserSets, NEW manual \in BOOLEAN, Begin(s, manual)
      PROVE  UpdateInv'
  BY <1>3, BeginUpdateInv
<1>4. ASSUME NEW page \in SUBSET Issues, FetchPage(page) PROVE UpdateInv'
  BY <1>4, FetchPageUpdateInv
<1>5. ASSUME NEW logged \in SUBSET Issues, NEW readable \in SUBSET Issues,
             Derive(logged, readable)
      PROVE  UpdateInv'
  BY <1>5, DeriveUpdateInv
<1>6. CASE commit_sync
  BY <1>6, CommitUpdateInv
<1>7. ASSUME NEW i \in Issues, DetailRead(i) PROVE UpdateInv'
  BY <1>7, DetailReadUpdateInv
<1>8. CASE cache_detail_issue
  BY <1>8, CacheDetailUpdateInv
<1>9. CASE \/ \E i \in Issues : ToggleWatch(i)
           \/ FetchFails \/ CommitFails \/ CommitConflict
           \/ \E e \in queue : deliver_notification(e)
           \/ record_notification_delivery \/ RecordingFails
           \/ SyncCompleted \/ ReloadFails
           \/ \E events \in SUBSET DOMAIN feed : mark_read(events)
           \/ DetailDropped \/ Restart \/ UNCHANGED vars
  <2>1. /\ UNCHANGED <<now, jira, snap, cursor, member>>
        /\ UNCHANGED <<phase, run>> \/ phase' \in {"idle", "notifying"}
        /\ detail' = detail \/ detail' = None
    BY <1>9 DEF ToggleWatch, FetchFails, CommitFails, CommitConflict, Fail,
                deliver_notification, record_notification_delivery, RecordingFails,
                SyncCompleted, ReloadFails, mark_read, DetailDropped, Restart,
                jiraVars, storeVars, processVars, vars
  <2> QED
    BY <2>1, UpdateInvUnchanged
<1>10. ASSUME NEW events, mark_read(events)
       PROVE  \E known \in SUBSET DOMAIN feed : mark_read(known)
  BY <1>10 DEF mark_read, Displayed
<1> QED
  BY <1>1, <1>2, <1>3, <1>4, <1>5, <1>6, <1>7, <1>8, <1>9, <1>10
     DEF Next, Environment, Sync, Dashboard, Refresh, RefreshAutomatically,
         MarkGroupRead, MarkAllRead

\* When the overlap outlasts a fetch and the skew of the clock, an update older
\* than the overlap is never missing from the cache, whatever fails in between.
THEOREM UpdatesTakenIn ==
  ASSUME OverlapSuffices
  PROVE  Spec => []NoUpdateLost
<1>1. Init => TypeInv /\ UpdateInv
  BY TypeInvInit, UpdateInvInit DEF TypeInv
<1>2. (TypeInv /\ UpdateInv) /\ [Next]_vars => (TypeInv /\ UpdateInv)'
  BY TypeInvStep, UpdateInvStep, OverlapSuffices
<1>3. TypeInv /\ UpdateInv => NoUpdateLost
  BY DEF UpdateInv
<1> QED
  BY <1>1, <1>2, <1>3, PTL DEF Spec

-----------------------------------------------------------------------------
(* What the feed says of a revision *)

\* Without the detail panel nothing but a synchronization writes snapshots.
NoDetail == "detail" \notin Activities

\* What the cache will hold of an issue once the run is committed.
Stored(i) == IF run.fetched[i] # 0 THEN run.fetched[i] ELSE snap[i]

\* A run never fetches less than the cache holds: it alone writes it.
SnapshotsAdvance ==
    /\ detail = None
    /\ phase \in {"fetching", "committing"} =>
          \A i \in Issues : run.fetched[i] # 0 => run.fetched[i] >= snap[i]

ChangeKinds == {"assignee", "updated", "history"}

\* A reassignment names two assignees the issue had, in their order.
IsTrue(e) ==
    e.kind \in {"assignee", "history"}
    => /\ Assignee(e.issue, e.rev) = e.new
       /\ \E r \in 1 .. e.rev - 1 : Assignee(e.issue, r) = e.old

\* Do two events tell of a revision in two forms?
TwoForms(e, f) ==
    /\ e.kind = "history" /\ f.kind \in {"assignee", "updated"}
    /\ e.issue = f.issue /\ e.rev = f.rev

\* The events of a run tell of revisions that will be cached, and of changes
\* that are not cached yet; each change is told once, and it happened.
EventsAreNews ==
    phase = "committing" =>
        /\ \A e \in run.events :
              /\ e.rev <= Stored(e.issue)
              /\ e.kind \in ChangeKinds => e.rev > snap[e.issue]
              /\ IsTrue(e)
        /\ \A e, f \in run.events : ~ TwoForms(e, f)

FeedInv ==
    /\ SnapshotsAdvance /\ EventsAreNews
    /\ FeedNotAheadOfCache /\ AnnouncedInOneForm /\ ReassignmentsHappened

\* Members have a snapshot, and a partition that was never synchronized has none.
MembersAreCached ==
    /\ \A s \in UserSets : \A i \in member[s] : snap[i] # 0
    /\ \A s \in UserSets : cursor[s] = None => member[s] = {}
    /\ phase \in {"fetching", "committing"} /\ run.mode = "Baseline" => cursor[run.set] = None

\* The events of a run tell of every member whose snapshot moves forward.
ChangesAreDerived ==
    phase = "committing" =>
        \A i \in member[run.set] :
            Stored(i) > snap[i] =>
                \E e \in run.events : e.issue = i /\ e.rev \in snap[i] + 1 .. Stored(i)

AnnounceInv == FeedInv /\ MembersAreCached /\ ChangesAreDerived

\* What a derivation compares: the partition and the pages, which are not older.
Comparable(existing, incoming) ==
    /\ existing \in Snapshots /\ incoming \in Snapshots
    /\ \A i \in Issues : /\ existing[i] <= Latest(i) /\ incoming[i] <= Latest(i)
                         /\ incoming[i] # 0 => incoming[i] >= existing[i]

\* An event tells of a snapshot of the later side, or of one that is gone; a
\* change is later than the earlier side.
Tells(e, existing, incoming) ==
    /\ e.issue \in Issues /\ e.rev \in Nat
    /\ e.rev <= (IF incoming[e.issue] # 0 THEN incoming[e.issue] ELSE existing[e.issue])
    /\ e.kind \in ChangeKinds =>
          existing[e.issue] # 0 /\ incoming[e.issue] # 0 /\ e.rev > existing[e.issue]
    /\ IsTrue(e)

\* So it is of the events of the differ.
LEMMA DiffTells ==
  ASSUME TypeOK, NEW existing, NEW incoming, Comparable(existing, incoming),
         NEW removed \in BOOLEAN, NEW e \in diff(existing, incoming, removed)
  PROVE  Tells(e, existing, incoming) /\ e.kind # "history"
<1>1. \A i \in Issues : /\ existing[i] \in Nat /\ incoming[i] \in Nat /\ Latest(i) \in Nat
                        /\ existing[i] <= Latest(i) /\ incoming[i] <= Latest(i)
                        /\ incoming[i] # 0 => incoming[i] >= existing[i]
  BY DEF Comparable, Snapshots, TypeOK, Latest
<1>2. CASE \E i \in Issues : e = MkEvent(i, "added", incoming[i], None, None)
                             /\ existing[i] = 0 /\ incoming[i] # 0
  BY <1>1, <1>2 DEF MkEvent, Tells, IsTrue, ChangeKinds
<1>3. CASE \E i \in Issues : e = MkEvent(i, "removed", existing[i], None, None)
                             /\ existing[i] # 0 /\ incoming[i] = 0
  BY <1>1, <1>3 DEF MkEvent, Tells, IsTrue, ChangeKinds
<1>4. CASE \E i \in changed_issues(existing, incoming) :
              e = MkEvent(i, "updated", incoming[i], None, None)
  BY <1>1, <1>4 DEF changed_issues, MkEvent, Tells, IsTrue, ChangeKinds
<1>5. CASE \E i \in changed_issues(existing, incoming) :
              e = assignee_event(i, existing, incoming)
  <2>1. PICK i \in changed_issues(existing, incoming) : e = assignee_event(i, existing, incoming)
    BY <1>5
  <2>2. /\ e.issue = i /\ e.kind = "assignee" /\ e.rev = incoming[i]
        /\ e.old = Assignee(i, existing[i]) /\ e.new = Assignee(i, incoming[i])
    BY <2>1 DEF assignee_event, MkEvent
  <2>3. /\ i \in Issues /\ existing[i] # 0 /\ incoming[i] > existing[i]
    BY <1>1 DEF changed_issues
  <2>4. existing[i] \in 1 .. e.rev - 1
    BY <1>1, <2>2, <2>3
  <2> QED
    BY <1>1, <2>2, <2>3, <2>4 DEF Tells, IsTrue
<1> QED
  BY <1>2, <1>3, <1>4, <1>5 DEF diff

\* And of those of the changelogs and comments, which replace some of them.
LEMMA EnrichTells ==
  ASSUME TypeOK, NEW existing, NEW incoming, Comparable(existing, incoming),
         NEW events, \A e \in events : Tells(e, existing, incoming) /\ e.kind # "history",
         NEW logged \in SUBSET Issues, NEW readable \in SUBSET Issues,
         logged \cup readable \subseteq changed_issues(existing, incoming)
  PROVE  LET derived == enrich(events, existing, incoming, logged, readable)
         IN  /\ \A e \in derived : Tells(e, existing, incoming)
             /\ \A e, f \in derived : ~ TwoForms(e, f)
<1> DEFINE derived == enrich(events, existing, incoming, logged, readable)
           enriched == enriched_issues(existing, incoming, logged)
           mentioned == mentioned_issues(existing, incoming, readable)
<1>1. \A i \in Issues : /\ existing[i] \in Nat /\ incoming[i] \in Nat /\ Latest(i) \in Nat
                        /\ existing[i] <= Latest(i) /\ incoming[i] <= Latest(i)
                        /\ incoming[i] # 0 => incoming[i] >= existing[i]
  BY DEF Comparable, Snapshots, TypeOK, Latest
<1>2. /\ enriched \subseteq logged /\ mentioned \subseteq readable
      /\ \A i \in logged \cup readable : i \in Issues /\ existing[i] # 0 /\ incoming[i] # 0
  BY DEF enriched_issues, mentioned_issues, changed_issues
<1>3. ASSUME NEW i \in enriched, NEW r \in histories(i, existing, incoming)
      PROVE  Tells(MkEvent(i, "history", r, Assignee(i, r - 1), Assignee(i, r)),
                   existing, incoming)
  <2>1. i \in Issues /\ existing[i] # 0 /\ incoming[i] # 0 /\ r \in existing[i] + 1 .. incoming[i]
    BY <1>2, <1>3 DEF histories
  <2>2. r - 1 \in 1 .. r - 1
    BY <1>1, <2>1
  <2> QED
    BY <1>1, <2>1, <2>2 DEF MkEvent, Tells, IsTrue
<1>4. ASSUME NEW i \in mentioned, NEW r \in mentions(i, existing, incoming)
      PROVE  Tells(MkEvent(i, "comment", r, None, None), existing, incoming)
  <2>1. i \in Issues /\ existing[i] # 0 /\ incoming[i] # 0 /\ r \in existing[i] + 1 .. incoming[i]
    BY <1>2, <1>4 DEF mentions
  <2> QED
    BY <1>1, <2>1 DEF MkEvent, Tells, IsTrue, ChangeKinds
<1>5. ASSUME NEW e \in changelog_events(existing, incoming, enriched)
      PROVE  /\ Tells(e, existing, incoming)
             /\ e.kind = "history" /\ e.issue \in enriched
  <2>1. PICK i \in enriched : \E r \in histories(i, existing, incoming) :
                e = MkEvent(i, "history", r, Assignee(i, r - 1), Assignee(i, r))
    BY <1>5 DEF changelog_events
  <2> QED
    BY <1>3, <2>1 DEF MkEvent
<1>6. ASSUME NEW e \in mention_events(existing, incoming, mentioned)
      PROVE  Tells(e, existing, incoming) /\ e.kind = "comment"
  <2>1. PICK i \in mentioned : \E r \in mentions(i, existing, incoming) :
                e = MkEvent(i, "comment", r, None, None)
    BY <1>6 DEF mention_events
  <2> QED
    BY <1>4, <2>1 DEF MkEvent
<1>7. derived = {e \in events : ~ superseded(e, enriched, mentioned)}
                \cup changelog_events(existing, incoming, enriched)
                \cup mention_events(existing, incoming, mentioned)
  BY DEF enrich
<1> HIDE DEF derived, enriched, mentioned
<1>8. \A e \in derived : Tells(e, existing, incoming)
  BY <1>5, <1>6, <1>7
<1>9. ASSUME NEW e \in derived, NEW f \in derived, TwoForms(e, f) PROVE FALSE
  <2>1. e.kind = "history" /\ f.kind \in {"assignee", "updated"} /\ e.issue = f.issue
    BY <1>9 DEF TwoForms
  <2>2. e.issue \in enriched
    BY <1>5, <1>6, <1>7, <2>1
  <2>3. ~ superseded(f, enriched, mentioned)
    BY <1>5, <1>6, <1>7, <2>1
  <2> QED
    BY <2>1, <2>2, <2>3 DEF superseded
<1> QED
  BY <1>8, <1>9 DEF derived

\* A change of a member is always told.
LEMMA ChangeIsTold ==
  ASSUME TypeOK, NEW existing, NEW incoming, Comparable(existing, incoming),
         NEW removed \in BOOLEAN, NEW i \in Issues,
         existing[i] # 0, incoming[i] > existing[i],
         NEW logged \in SUBSET Issues, NEW readable \in SUBSET Issues
  PROVE  \E e \in enrich(diff(existing, incoming, removed), existing, incoming,
                         logged, readable) :
            e.issue = i /\ e.rev \in existing[i] + 1 .. incoming[i]
<1> DEFINE events == diff(existing, incoming, removed)
           derived == enrich(events, existing, incoming, logged, readable)
           enriched == enriched_issues(existing, incoming, logged)
           mentioned == mentioned_issues(existing, incoming, readable)
<1>1. /\ existing[i] \in Nat /\ incoming[i] \in Nat /\ incoming[i] # 0
      /\ i \in changed_issues(existing, incoming)
  BY DEF Comparable, Snapshots, changed_issues
<1>2. CASE i \in enriched
  <2>1. PICK r \in histories(i, existing, incoming) : TRUE
    BY <1>2 DEF enriched_issues
  <2>2. MkEvent(i, "history", r, Assignee(i, r - 1), Assignee(i, r)) \in derived
    BY <1>2, <2>1 DEF enrich, changelog_events
  <2> QED
    BY <2>1, <2>2 DEF MkEvent, histories
<1>3. CASE i \in mentioned
  <2>1. PICK r \in mentions(i, existing, incoming) : TRUE
    BY <1>3 DEF mentioned_issues
  <2>2. MkEvent(i, "comment", r, None, None) \in derived
    BY <1>3, <2>1 DEF enrich, mention_events
  <2> QED
    BY <2>1, <2>2 DEF MkEvent, mentions
<1>4. CASE i \notin enriched \cup mentioned
  <2>1. PICK e \in events : e.issue = i /\ e.rev = incoming[i]
    <3>1. \/ assignee_event(i, existing, incoming) \in events
          \/ MkEvent(i, "updated", incoming[i], None, None) \in events
      BY <1>1 DEF diff
    <3> QED
      BY <3>1 DEF assignee_event, MkEvent
  <2>2. e \in derived
    BY <1>4, <2>1 DEF enrich, superseded
  <2> QED
    BY <1>1, <2>1, <2>2
<1> QED
  BY <1>2, <1>3, <1>4

-----------------------------------------------------------------------------
(* Steps *)

LEMMA AnnounceInvInit == Init => AnnounceInv
  BY DEF Init, AnnounceInv, FeedInv, SnapshotsAdvance, EventsAreNews, FeedNotAheadOfCache,
         AnnouncedInOneForm, ReassignmentsHappened, MembersAreCached, ChangesAreDerived

\* Revisions Jira has stay as they are.
LEMMA JiraAppendsOnly ==
  ASSUME TypeOK, [Next]_vars
  PROVE  \A i \in Issues : \A r \in 1 .. Latest(i) :
            /\ jira'[i][r] = jira[i][r]
            /\ Assignee(i, r)' = Assignee(i, r) /\ r \in 1 .. Latest(i)'
<1>1. CASE UNCHANGED jira
  BY <1>1 DEF Assignee, Latest
<1>2. ASSUME NEW j \in Issues, NEW a \in Accounts, NEW m \in BOOLEAN, Revise(j, a, m),
             NEW i \in Issues, NEW r \in 1 .. Latest(i)
      PROVE  /\ jira'[i][r] = jira[i][r]
             /\ Assignee(i, r)' = Assignee(i, r) /\ r \in 1 .. Latest(i)'
  <2> DEFINE new == [at |-> now, assignee |-> a, mention |-> m]
  <2>1. jira' = [jira EXCEPT ![j] = Append(jira[j], new)] /\ jira[i] \in Seq(Revision)
    BY <1>2 DEF Revise, TypeOK
  <2> HIDE DEF new
  <2>2. jira'[i] = jira[i] \/ jira'[i] = Append(jira[i], new)
    BY <2>1 DEF TypeOK
  <2>3. jira'[i][r] = jira[i][r] /\ Len(jira'[i]) >= Len(jira[i])
    BY <2>1, <2>2 DEF Latest
  <2> QED
    BY <2>1, <2>3 DEF Assignee, Latest
<1>3. (\E i \in Issues, a \in Accounts, m \in BOOLEAN : Revise(i, a, m)) \/ UNCHANGED jira
  BY DEF Next, Environment, Sync, Dashboard, Tick, ToggleWatch, Refresh, RefreshAutomatically,
         Begin, FetchPage, Derive, FetchFails, CommitFails, CommitConflict, Fail, commit_sync,
         deliver_notification, record_notification_delivery, RecordingFails,
         SyncCompleted, ReloadFails, DetailRead, MarkGroupRead, MarkAllRead, mark_read,
         cache_detail_issue, DetailDropped, Restart,
         jiraVars, storeVars, processVars, vars
<1> QED
  BY <1>1, <1>2, <1>3

\* What is true of an event stays true.
LEMMA TruthStays ==
  ASSUME TypeOK, [Next]_vars, NEW e \in Event, e.rev <= Latest(e.issue), IsTrue(e)
  PROVE  IsTrue(e)'
<1>1. e.issue \in Issues /\ e.rev \in Nat /\ Latest(e.issue) \in Nat
  BY DEF TypeOK, Latest, Event
<1>2. SUFFICES ASSUME e.kind \in {"assignee", "history"} PROVE IsTrue(e)'
  BY DEF IsTrue
<1>3. PICK r \in 1 .. e.rev - 1 : Assignee(e.issue, r) = e.old
  BY <1>2 DEF IsTrue
<1>4. e.rev \in 1 .. Latest(e.issue) /\ r \in 1 .. Latest(e.issue)
  BY <1>1, <1>3
<1> QED
  BY <1>1, <1>2, <1>3, <1>4, JiraAppendsOnly DEF IsTrue

\* Stored events name revisions Jira has, and so do those of a run.
LEMMA EventsExist ==
  ASSUME TypeInv, FeedInv
  PROVE  /\ \A e \in DOMAIN feed : e \in Event /\ e.rev <= Latest(e.issue)
         /\ phase = "committing" =>
               \A e \in run.events : e \in Event /\ e.rev <= Latest(e.issue)
<1>1. \A i \in Issues : /\ Latest(i) \in Nat /\ snap[i] \in Nat /\ snap[i] <= Latest(i)
                        /\ run.fetched[i] \in Nat /\ run.fetched[i] <= Latest(i)
  BY UpdateTypes DEF TypeInv, RevisionsExist
<1>2. DOMAIN feed \subseteq Event /\ run.events \subseteq Event
  BY DEF TypeInv, TypeOK, Run
<1>3. \A e \in Event : e.issue \in Issues /\ e.rev \in Nat
  BY DEF Event
<1> QED
  BY <1>1, <1>2, <1>3 DEF FeedInv, FeedNotAheadOfCache, EventsAreNews, Stored

\* The feed stays true while nothing is added to it.
LEMMA FeedStaysTrue ==
  ASSUME TypeInv, FeedInv, [Next]_vars, DOMAIN feed' = DOMAIN feed
  PROVE  ReassignmentsHappened'
<1>1. \A e \in DOMAIN feed : IsTrue(e)
  BY DEF FeedInv, ReassignmentsHappened, IsTrue
<1>2. \A e \in DOMAIN feed : IsTrue(e)'
  BY <1>1, EventsExist, TruthStays DEF TypeInv
<1> QED
  BY <1>2 DEF ReassignmentsHappened, IsTrue

\* A step that writes no snapshot and no event, and leaves the run alone or ends it.
LEMMA AnnounceInvUnchanged ==
  ASSUME TypeInv, AnnounceInv, [Next]_vars,
         DOMAIN feed' = DOMAIN feed, UNCHANGED <<snap, member, cursor>>,
         UNCHANGED <<phase, run>> \/ phase' \in {"idle", "notifying"},
         detail' = None
  PROVE  AnnounceInv'
<1> USE DEF AnnounceInv, FeedInv
<1>1. FeedNotAheadOfCache' /\ AnnouncedInOneForm'
  BY DEF FeedNotAheadOfCache, AnnouncedInOneForm
<1>2. ReassignmentsHappened'
  BY FeedStaysTrue
<1>3. CASE phase' \in {"idle", "notifying"}
  BY <1>1, <1>2, <1>3
     DEF SnapshotsAdvance, EventsAreNews, MembersAreCached, ChangesAreDerived
<1>4. CASE UNCHANGED <<phase, run>>
  <2>1. \A i : Stored(i)' = Stored(i)
    BY <1>4 DEF Stored
  <2>2. EventsAreNews'
    <3> SUFFICES ASSUME phase = "committing" PROVE EventsAreNews'
      BY <1>4 DEF EventsAreNews
    <3>1. \A e \in run.events : IsTrue(e)'
      BY EventsExist, TruthStays DEF TypeInv, EventsAreNews
    <3>2. \A e, f \in run.events : TwoForms(e, f)' = TwoForms(e, f)
      BY DEF TwoForms
    <3> QED
      BY <1>4, <2>1, <3>1, <3>2 DEF EventsAreNews
  <2>3. SnapshotsAdvance' /\ MembersAreCached' /\ ChangesAreDerived'
    BY <1>4, <2>1 DEF SnapshotsAdvance, MembersAreCached, ChangesAreDerived
  <2> QED
    BY <1>1, <1>2, <2>2, <2>3
<1> QED
  BY <1>3, <1>4

\* A run begins, a baseline only where nothing was stored before.
LEMMA BeginAnnounceInv ==
  ASSUME TypeInv, AnnounceInv, [Next]_vars,
         NEW s \in UserSets, NEW manual \in BOOLEAN, Begin(s, manual)
  PROVE  AnnounceInv'
<1> USE DEF AnnounceInv, FeedInv
<1>1. /\ UNCHANGED <<snap, member, cursor, feed, detail>> /\ phase' = "fetching"
  BY DEF Begin, jiraVars, storeVars
<1>2. run'.set = s /\ run'.mode = next_mode(s, IF manual THEN "Reconciliation" ELSE "Incremental")
      /\ run'.fetched = NoSnapshot
  BY DEF Begin, NoRun
<1>3. run'.mode = "Baseline" => cursor'[run'.set] = None
  BY <1>1, <1>2 DEF next_mode
<1>4. ReassignmentsHappened'
  BY <1>1, FeedStaysTrue
<1> QED
  BY <1>1, <1>2, <1>3, <1>4
     DEF SnapshotsAdvance, EventsAreNews, MembersAreCached, ChangesAreDerived,
         FeedNotAheadOfCache, AnnouncedInOneForm, NoSnapshot

\* What a page holds is the latest, so nothing older than the cache.
LEMMA FetchPageAnnounceInv ==
  ASSUME TypeInv, AnnounceInv, [Next]_vars, NEW page \in SUBSET Issues, FetchPage(page)
  PROVE  AnnounceInv'
<1> USE DEF AnnounceInv, FeedInv
<1>1. /\ UNCHANGED <<snap, member, cursor, feed, detail, phase>> /\ phase = "fetching"
  BY DEF FetchPage, jiraVars, storeVars
<1>2. /\ run'.mode = run.mode /\ run'.set = run.set
      /\ run'.fetched = [i \in Issues |-> IF i \in page THEN Latest(i) ELSE run.fetched[i]]
  <2>1. run \in Run
    BY DEF TypeInv, TypeOK
  <2> QED
    BY <2>1 DEF FetchPage, Run
<1>3. \A i \in Issues : Latest(i) >= snap[i]
  BY UpdateTypes DEF TypeInv, RevisionsExist
<1>4. ReassignmentsHappened'
  BY <1>1, FeedStaysTrue
<1>5. SnapshotsAdvance'
  BY <1>1, <1>2, <1>3 DEF SnapshotsAdvance
<1> QED
  BY <1>1, <1>2, <1>4, <1>5
     DEF EventsAreNews, MembersAreCached, ChangesAreDerived,
         FeedNotAheadOfCache, AnnouncedInOneForm

\* The events of a run are news, and every change of a member is among them.
LEMMA DeriveAnnounceInv ==
  ASSUME TypeInv, AnnounceInv, [Next]_vars,
         NEW logged \in SUBSET Issues, NEW readable \in SUBSET Issues,
         Derive(logged, readable)
  PROVE  AnnounceInv'
<1> USE DEF AnnounceInv, FeedInv
<1> DEFINE existing == issues_for_user_set(run.set)
           removed == replaces_membership(run.mode)
           derived == enrich(diff(existing, run.fetched, removed),
                             existing, run.fetched, logged, readable)
<1>1. /\ UNCHANGED <<jira, snap, member, cursor, feed, detail>>
      /\ phase = "fetching" /\ phase' = "committing"
      /\ emits_updates(run.mode) =>
            logged \cup readable \subseteq changed_issues(existing, run.fetched)
  BY DEF Derive, jiraVars, storeVars
<1>2. /\ run'.set = run.set /\ run'.mode = run.mode /\ run'.fetched = run.fetched
      /\ run'.events = IF emits_updates(run.mode) THEN derived ELSE {}
  <2>1. run \in Run
    BY DEF TypeInv, TypeOK
  <2> QED
    BY <2>1 DEF Derive, Run
<1>3. /\ run.set \in UserSets /\ removed \in BOOLEAN
      /\ \A i \in Issues : snap[i] \in Nat /\ run.fetched[i] \in Nat
  BY UpdateTypes DEF replaces_membership, TypeInv
<1>4. \A i \in Issues : existing[i] = IF i \in member[run.set] THEN snap[i] ELSE 0
  BY DEF issues_for_user_set
<1>5. Comparable(existing, run.fetched)
  <2>1. run.fetched \in Snapshots /\ \A i \in Issues : run.fetched[i] <= Latest(i)
    BY DEF TypeInv, TypeOK, RevisionsExist, Run
  <2>2. \A i \in Issues : run.fetched[i] # 0 => run.fetched[i] >= existing[i]
    BY <1>1, <1>3, <1>4 DEF SnapshotsAdvance
  <2>3. existing \in Snapshots /\ \A i \in Issues : existing[i] <= Latest(i)
    BY <1>3, ExistingType
  <2> QED
    BY <2>1, <2>2, <2>3 DEF Comparable
<1> HIDE DEF existing, removed
<1>6. ASSUME emits_updates(run.mode)
      PROVE  /\ \A e \in derived : Tells(e, existing, run.fetched)
             /\ \A e, f \in derived : ~ TwoForms(e, f)
  <2>1. \A e \in diff(existing, run.fetched, removed) :
            Tells(e, existing, run.fetched) /\ e.kind # "history"
    BY <1>3, <1>5, DiffTells DEF TypeInv
  <2> QED
    BY <1>1, <1>5, <1>6, <2>1, EnrichTells DEF TypeInv
<1>7. ASSUME emits_updates(run.mode), NEW i \in member[run.set], Stored(i) > snap[i]
      PROVE  \E e \in derived : e.issue = i /\ e.rev \in snap[i] + 1 .. Stored(i)
  <2>1. i \in Issues /\ snap[i] # 0 /\ existing[i] = snap[i]
    BY <1>3, <1>4 DEF TypeInv, TypeOK, MembersAreCached
  <2>2. Stored(i) = run.fetched[i] /\ run.fetched[i] > existing[i]
    BY <1>3, <1>7, <2>1 DEF Stored
  <2> QED
    BY <1>3, <1>5, <2>1, <2>2, ChangeIsTold DEF TypeInv
<1> HIDE DEF derived
<1>8. \A i : Stored(i)' = Stored(i)
  BY <1>1, <1>2 DEF Stored
<1>9. EventsAreNews'
  <2>1. ASSUME NEW e \in run'.events
        PROVE  /\ e.rev <= Stored(e.issue)
               /\ e.kind \in ChangeKinds => e.rev > snap[e.issue]
               /\ IsTrue(e)
    <3>1. Tells(e, existing, run.fetched)
      BY <1>2, <1>6
    <3> QED
      BY <1>3, <1>4, <3>1 DEF Tells, Stored
  <2>2. \A e : IsTrue(e)' = IsTrue(e)
    BY <1>1 DEF IsTrue, Assignee
  <2>3. \A e, f \in run'.events : ~ TwoForms(e, f)'
    BY <1>2, <1>6 DEF TwoForms
  <2> QED
    BY <1>1, <1>8, <2>1, <2>2, <2>3 DEF EventsAreNews
<1>10. ChangesAreDerived'
  <2> SUFFICES ASSUME NEW i \in member[run.set], Stored(i) > snap[i]
               PROVE  \E e \in run'.events : e.issue = i /\ e.rev \in snap[i] + 1 .. Stored(i)
    BY <1>1, <1>2, <1>8 DEF ChangesAreDerived
  <2>1. run.mode # "Baseline"
    BY <1>1, <1>3 DEF MembersAreCached
  <2> QED
    BY <1>2, <1>7, <2>1 DEF emits_updates
<1>11. ReassignmentsHappened'
  BY <1>1, FeedStaysTrue
<1> QED
  BY <1>1, <1>2, <1>9, <1>10, <1>11
     DEF SnapshotsAdvance, MembersAreCached, FeedNotAheadOfCache, AnnouncedInOneForm

\* A commit writes the snapshots and the events that tell of them.
LEMMA CommitAnnounceInv ==
  ASSUME TypeInv, AnnounceInv, [Next]_vars, commit_sync
  PROVE  AnnounceInv'
<1> USE DEF AnnounceInv, FeedInv
<1>1. /\ UNCHANGED <<jira, detail>>
      /\ phase = "committing" /\ phase' = "notifying"
      /\ member' = [member EXCEPT ![run.set] = insert_membership]
      /\ snap' = insert_issue
      /\ cursor' = [cursor EXCEPT ![run.set] = run.cursor]
      /\ DOMAIN feed' = DOMAIN feed \cup run.events
  BY DEF commit_sync, jiraVars, insert_events
<1>2. /\ run.set \in UserSets /\ run.cursor # None
      /\ \A i \in Issues : snap[i] \in Nat /\ run.fetched[i] \in Nat
  BY UpdateTypes DEF TypeInv
<1>3. \A i \in Issues : snap'[i] = Stored(i) /\ snap'[i] >= snap[i] /\ snap'[i] \in Nat
  BY <1>1, <1>2 DEF insert_issue, fetched_issues, Stored, SnapshotsAdvance
<1>4. \A e \in DOMAIN feed' : /\ e.issue \in Issues /\ e.rev \in Nat
  BY <1>1, EventsExist DEF Event
<1>5. FeedNotAheadOfCache'
  BY <1>1, <1>2, <1>3, <1>4 DEF FeedNotAheadOfCache, EventsAreNews
<1>6. AnnouncedInOneForm'
  <2> SUFFICES ASSUME NEW e \in DOMAIN feed', NEW f \in DOMAIN feed', TwoForms(e, f)
               PROVE  FALSE
    BY DEF AnnouncedInOneForm, TwoForms
  <2>1. e.kind \in ChangeKinds /\ f.kind \in ChangeKinds /\ e.issue = f.issue /\ e.rev = f.rev
    BY DEF TwoForms, ChangeKinds
  <2>2. \A d \in DOMAIN feed : d.rev <= snap[d.issue]
    BY DEF FeedNotAheadOfCache
  <2>3. \A d \in run.events : d.kind \in ChangeKinds => d.rev > snap[d.issue]
    BY <1>1 DEF EventsAreNews
  <2>4. CASE e \in DOMAIN feed /\ f \in DOMAIN feed
    BY <2>4 DEF AnnouncedInOneForm, TwoForms
  <2>5. CASE e \in run.events /\ f \in run.events
    BY <1>1, <2>5 DEF EventsAreNews
  <2>6. CASE e \in DOMAIN feed /\ f \in run.events
    BY <1>2, <1>4, <2>1, <2>2, <2>3, <2>6
  <2>7. CASE e \in run.events /\ f \in DOMAIN feed
    BY <1>2, <1>4, <2>1, <2>2, <2>3, <2>7
  <2> QED
    BY <1>1, <2>4, <2>5, <2>6, <2>7
<1>7. ReassignmentsHappened'
  <2>1. \A e \in DOMAIN feed' : IsTrue(e)
    BY <1>1 DEF ReassignmentsHappened, IsTrue, EventsAreNews
  <2> QED
    BY <1>1, <2>1 DEF ReassignmentsHappened, IsTrue, Assignee
<1>8. MembersAreCached'
  <2>1. /\ cursor \in [UserSets -> Nat \cup {None}]
        /\ member \in [UserSets -> SUBSET Issues]
    BY DEF TypeInv, TypeOK
  <2>2. \A i \in insert_membership : i \in Issues /\ snap'[i] # 0
    BY <1>2, <1>3, <2>1 DEF insert_membership, fetched_issues, Stored, MembersAreCached
  <2>3. ASSUME NEW s \in UserSets, NEW i \in member'[s] PROVE snap'[i] # 0
    <3>1. CASE s = run.set
      BY <1>1, <2>1, <2>2, <3>1
    <3>2. CASE s # run.set
      BY <1>1, <1>2, <1>3, <2>1, <3>2 DEF MembersAreCached
    <3> QED
      BY <3>1, <3>2
  <2>4. ASSUME NEW s \in UserSets, cursor'[s] = None PROVE member'[s] = {}
    BY <1>1, <1>2, <2>1, <2>4 DEF MembersAreCached
  <2> QED
    BY <1>1, <2>3, <2>4 DEF MembersAreCached
<1> QED
  BY <1>1, <1>5, <1>6, <1>7, <1>8 DEF SnapshotsAdvance, EventsAreNews, ChangesAreDerived

\* Every step keeps the invariant of the announcements.
LEMMA AnnounceInvStep ==
  NoDetail /\ TypeInv /\ AnnounceInv /\ [Next]_vars => AnnounceInv'
<1> SUFFICES ASSUME NoDetail, TypeInv, AnnounceInv, [Next]_vars PROVE AnnounceInv'
  OBVIOUS
<1>1. detail = None
  BY DEF AnnounceInv, FeedInv, SnapshotsAdvance
<1>2. ASSUME NEW s \in UserSets, NEW manual \in BOOLEAN, Begin(s, manual)
      PROVE  AnnounceInv'
  BY <1>2, BeginAnnounceInv
<1>3. ASSUME NEW page \in SUBSET Issues, FetchPage(page) PROVE AnnounceInv'
  BY <1>3, FetchPageAnnounceInv
<1>4. ASSUME NEW logged \in SUBSET Issues, NEW readable \in SUBSET Issues,
             Derive(logged, readable)
      PROVE  AnnounceInv'
  BY <1>4, DeriveAnnounceInv
<1>5. CASE commit_sync
  BY <1>5, CommitAnnounceInv
<1>6. CASE \/ Environment
           \/ FetchFails \/ CommitFails \/ CommitConflict
           \/ \E e \in queue : deliver_notification(e)
           \/ record_notification_delivery \/ RecordingFails
           \/ SyncCompleted \/ ReloadFails
           \/ \E events \in SUBSET DOMAIN feed : mark_read(events)
           \/ Restart \/ UNCHANGED vars
  <2>1. /\ UNCHANGED <<snap, cursor, member>> /\ DOMAIN feed' = DOMAIN feed
        /\ UNCHANGED <<phase, run>> \/ phase' \in {"idle", "notifying"}
        /\ detail' = None
    BY <1>1, <1>6
       DEF Environment, Tick, Revise, ToggleWatch, FetchFails, CommitFails, CommitConflict,
           Fail, deliver_notification, record_notification_delivery, RecordingFails,
           SyncCompleted, ReloadFails, mark_read, Restart,
           jiraVars, storeVars, processVars, vars
  <2> QED
    BY <2>1, AnnounceInvUnchanged
<1>7. ASSUME NEW events, mark_read(events)
      PROVE  \E known \in SUBSET DOMAIN feed : mark_read(known)
  BY <1>7 DEF mark_read, Displayed
<1>8. /\ \A i : ~ DetailRead(i)
      /\ ~ cache_detail_issue /\ ~ DetailDropped
  BY <1>1 DEF NoDetail, DetailRead, cache_detail_issue, DetailDropped
<1> QED
  BY <1>2, <1>3, <1>4, <1>5, <1>6, <1>7, <1>8
     DEF Next, Sync, Dashboard, Refresh, RefreshAutomatically, MarkGroupRead, MarkAllRead

LEMMA AnnounceInvariant == NoDetail => (Spec => [](TypeInv /\ AnnounceInv))
<1> SUFFICES ASSUME NoDetail PROVE Spec => [](TypeInv /\ AnnounceInv)
  OBVIOUS
<1>1. Init => TypeInv /\ AnnounceInv
  BY TypeInvInit, AnnounceInvInit
<1>2. (TypeInv /\ AnnounceInv) /\ [Next]_vars => (TypeInv /\ AnnounceInv)'
  BY TypeInvStep, AnnounceInvStep
<1> QED
  BY <1>1, <1>2, PTL DEF Spec

\* The feed and the cache agree when nothing but synchronizations writes the cache.
THEOREM FeedBehindCache ==
  ASSUME NoDetail
  PROVE  Spec => []FeedNotAheadOfCache
<1>1. TypeInv /\ AnnounceInv => FeedNotAheadOfCache
  BY DEF AnnounceInv, FeedInv
<1> QED
  BY <1>1, AnnounceInvariant, PTL

\* Then a revision is announced in one form, however many runs, partitions and
\* failures of the changelog come between.
THEOREM OneFormOnly ==
  ASSUME NoDetail
  PROVE  Spec => []AnnouncedInOneForm
<1>1. TypeInv /\ AnnounceInv => AnnouncedInOneForm
  BY DEF AnnounceInv, FeedInv
<1> QED
  BY <1>1, AnnounceInvariant, PTL

\* And every reassignment of the feed happened.
THEOREM ReassignmentsAreTrue ==
  ASSUME NoDetail
  PROVE  Spec => []ReassignmentsHappened
<1>1. TypeInv /\ AnnounceInv => ReassignmentsHappened
  BY DEF AnnounceInv, FeedInv
<1> QED
  BY <1>1, AnnounceInvariant, PTL

\* Only a commit moves a snapshot, and it stores the events of its run.
LEMMA CommitAnnounces ==
  ASSUME TypeInv, AnnounceInv, commit_sync,
         NEW i \in member[run.set], snap'[i] > snap[i]
  PROVE  \E e \in DOMAIN feed' : /\ e.issue = i /\ run.set \in feed'[e].sets
                                 /\ e.rev \in snap[i] + 1 .. snap'[i]
<1>1. /\ phase = "committing" /\ i \in Issues /\ run.set \in UserSets
      /\ snap' = insert_issue /\ feed' = insert_events
  BY UpdateTypes DEF commit_sync, TypeInv, TypeOK
<1>2. snap'[i] = Stored(i)
  BY <1>1 DEF insert_issue, fetched_issues, Stored
<1>3. PICK e \in run.events : e.issue = i /\ e.rev \in snap[i] + 1 .. Stored(i)
  BY <1>1, <1>2 DEF AnnounceInv, ChangesAreDerived
<1>4. e \in DOMAIN feed' /\ run.set \in feed'[e].sets
  <2>1. e \in DOMAIN feed'
    BY <1>1 DEF insert_events
  <2>2. CASE e \in DOMAIN feed
    <3>1. feed[e] \in Entry
      BY <2>2 DEF TypeInv, TypeOK
    <3>2. feed'[e] = [feed[e] EXCEPT !.sets = @ \cup {run.set}]
      BY <1>1, <2>2 DEF insert_events
    <3> QED
      BY <2>1, <3>1, <3>2 DEF Entry
  <2>3. CASE e \notin DOMAIN feed
    BY <1>1, <2>1, <2>3 DEF insert_events, NewEntry
  <2> QED
    BY <2>2, <2>3
<1> QED
  BY <1>2, <1>3, <1>4

\* With one user set, no member's snapshot moves forward silently.  With more, a
\* run of one set moves the snapshots the others share.
THEOREM ChangesAnnounced ==
  ASSUME NoDetail, UserSets = {Home}
  PROVE  Spec => ChangesAreAnnounced
<1> DEFINE Announced ==
      \A s \in UserSets, i \in Issues :
          i \in member[s] \cap member'[s] /\ snap'[i] > snap[i]
          => \E e \in DOMAIN feed' : /\ e.issue = i /\ s \in feed'[e].sets
                                     /\ e.rev \in snap[i] + 1 .. snap'[i]
<1>1. TypeInv /\ AnnounceInv /\ [Next]_vars => [Announced]_vars
  <2> SUFFICES ASSUME TypeInv, AnnounceInv, [Next]_vars PROVE Announced \/ UNCHANGED vars
    OBVIOUS
  <2>1. CASE commit_sync
    <3>1. run.set = Home
      BY UpdateTypes DEF TypeInv
    <3> QED
      BY <2>1, <3>1, CommitAnnounces
  <2>2. CASE UNCHANGED snap
    <3>1. \A i \in Issues : ~ (snap'[i] > snap[i])
      BY <2>2, UpdateTypes DEF TypeInv
    <3> QED
      BY <3>1
  <2>3. detail = None
    BY DEF AnnounceInv, FeedInv, SnapshotsAdvance
  <2>4. commit_sync \/ UNCHANGED snap
    BY <2>3
       DEF Next, Environment, Sync, Dashboard, Tick, Revise, ToggleWatch, Refresh,
           RefreshAutomatically, Begin, FetchPage, Derive, FetchFails, CommitFails,
           CommitConflict, Fail, deliver_notification, record_notification_delivery,
           RecordingFails, SyncCompleted, ReloadFails, DetailRead, MarkGroupRead,
           MarkAllRead, mark_read, cache_detail_issue, DetailDropped, Restart,
           jiraVars, storeVars, processVars, vars
  <2> QED
    BY <2>1, <2>2, <2>4
<1>2. Spec => [][Announced]_vars
  BY <1>1, AnnounceInvariant, PTL DEF Spec
<1> QED
  BY <1>2 DEF ChangesAreAnnounced

-----------------------------------------------------------------------------
(* No event is derived twice *)

\* The view of Home moves with the issues alone: nobody changes a watch that counts.
SteadyView == Watches[Home] => MaxToggles = 0

Reading == phase \in {"fetching", "committing"}

\* Is (or was) revision r of an issue in the view of Home?
Shown(i, r) ==
    \/ Assignee(i, r) \in Assignees[Home]
    \/ Watches[Home] /\ i \in watched

\* What is cached for the members, and what has been read, was in the view.
MembersAreShown ==
    /\ \A i \in member[Home] : Shown(i, snap[i])
    /\ Reading => \A i \in Issues : run.fetched[i] # 0 => Shown(i, run.fetched[i])

\* A read that replaces the membership is to find every member that has stayed as
\* it is cached, so one it did not find has a later revision.
MissedHaveMoved ==
    /\ phase = "fetching" /\ replaces_membership(run.mode) =>
          /\ run.since = None
          /\ run.opened # None =>
                \A i \in member[Home] : snap[i] = Latest(i) => run.expected[i] = Latest(i)
    /\ phase = "committing" /\ replaces_membership(run.mode) =>
          \A i \in member[Home] : run.fetched[i] = 0 => snap[i] < Latest(i)

\* An issue that is no member has moved since the feed told that it came or went,
\* and so has what was read of it; a member has moved since it was told to be gone.
ComingsAndGoings ==
    \A e \in DOMAIN feed : e.kind \in {"added", "removed"} =>
        /\ e.issue \notin member[Home] => e.rev < Latest(e.issue)
        /\ Reading /\ e.issue \notin member[Home] /\ run.fetched[e.issue] # 0
              => e.rev < run.fetched[e.issue]
        /\ e.kind = "removed" /\ e.issue \in member[Home] => e.rev < snap[e.issue]

\* What an event of coming or going tells of the cache and the pages.
Moves(e, existing, incoming) ==
    /\ e.kind = "added" => /\ existing[e.issue] = 0 /\ incoming[e.issue] # 0
                           /\ e.rev = incoming[e.issue]
    /\ e.kind = "removed" => /\ existing[e.issue] # 0 /\ incoming[e.issue] = 0
                             /\ e.rev = existing[e.issue]
                             /\ replaces_membership(run.mode)

\* A run tells of comings and goings as the cache still has them.
RunTellsMoves ==
    phase = "committing" =>
        \A e \in run.events : Moves(e, issues_for_user_set(Home), run.fetched)

\* Histories and comments are stored with their own time.
JiraDates ==
    \A e \in DOMAIN feed : e.kind \in {"history", "comment"} =>
        /\ e.rev \in 1 .. Latest(e.issue)
        /\ feed[e].occurred = jira[e.issue][e.rev].at

OnceInv ==
    /\ MembersAreShown /\ MissedHaveMoved /\ ComingsAndGoings
    /\ RunTellsMoves /\ JiraDates
    /\ NoEventConflict

LEMMA OnceInvInit == UserSets = {Home} /\ Init => OnceInv
<1> SUFFICES ASSUME UserSets = {Home}, Init PROVE OnceInv
  OBVIOUS
<1>1. /\ member[Home] = {} /\ phase = "idle" /\ DOMAIN feed = {} /\ lastError[Home] = None
  BY DEF Init
<1>2. None # "InvalidInput"
  BY ErrorAssumption DEF Errors
<1> QED
  BY <1>1, <1>2 DEF OnceInv, MembersAreShown, MissedHaveMoved, ComingsAndGoings, RunTellsMoves,
                    JiraDates, NoEventConflict, Reading

\* The comings and goings the differ derives.
LEMMA DiffMoves ==
  ASSUME NEW existing, NEW incoming,
         NEW e \in diff(existing, incoming, replaces_membership(run.mode))
  PROVE  Moves(e, existing, incoming)
<1>1. CASE \E i \in Issues : e = MkEvent(i, "added", incoming[i], None, None)
                             /\ existing[i] = 0 /\ incoming[i] # 0
  BY <1>1 DEF MkEvent, Moves
<1>2. CASE \E i \in Issues : e = MkEvent(i, "removed", existing[i], None, None)
                             /\ replaces_membership(run.mode)
                             /\ existing[i] # 0 /\ incoming[i] = 0
  BY <1>2 DEF MkEvent, Moves
<1>3. CASE \E i \in Issues : \/ e = MkEvent(i, "updated", incoming[i], None, None)
                             \/ e = assignee_event(i, existing, incoming)
  BY <1>3 DEF MkEvent, assignee_event, Moves
<1> QED
  BY <1>1, <1>2, <1>3 DEF diff, changed_issues

\* The enrichment adds none.
LEMMA EnrichMoves ==
  ASSUME NEW existing, NEW incoming, NEW logged, NEW readable,
         NEW e \in enrich(diff(existing, incoming, replaces_membership(run.mode)),
                          existing, incoming, logged, readable)
  PROVE  Moves(e, existing, incoming)
<1>1. CASE e \in diff(existing, incoming, replaces_membership(run.mode))
  BY <1>1, DiffMoves
<1>2. CASE e.kind \in {"history", "comment"}
  BY <1>2 DEF Moves
<1>3. \A enriched : \A f \in changelog_events(existing, incoming, enriched) : f.kind = "history"
  BY DEF changelog_events, MkEvent
<1>4. \A mentioned : \A f \in mention_events(existing, incoming, mentioned) : f.kind = "comment"
  BY DEF mention_events, MkEvent
<1> QED
  BY <1>1, <1>2, <1>3, <1>4 DEF enrich

\* The watches that count stay, so the view of a revision does.
LEMMA ViewStays ==
  ASSUME TypeInv, SteadyView, [Next]_vars
  PROVE  \A i \in Issues : \A r \in 1 .. Latest(i) : Shown(i, r) => Shown(i, r)'
<1>1. ASSUME Watches[Home] PROVE watched' = watched
  <2>1. ~ (toggles < MaxToggles)
    BY <1>1 DEF SteadyView, TypeInv, TypeOK
  <2> QED
    BY <2>1
       DEF Next, Environment, Sync, Dashboard, Tick, Revise, ToggleWatch, Refresh,
           RefreshAutomatically, Begin, FetchPage, Derive, FetchFails, CommitFails,
           CommitConflict, Fail, commit_sync, deliver_notification,
           record_notification_delivery, RecordingFails, SyncCompleted, ReloadFails,
           DetailRead, MarkGroupRead, MarkAllRead, mark_read,
           cache_detail_issue, DetailDropped, Restart, jiraVars, storeVars, processVars, vars
<1> QED
  BY <1>1, JiraAppendsOnly DEF Shown, TypeInv

\* Revisions are only added.
LEMMA RevisionsGrow ==
  ASSUME TypeInv, [Next]_vars
  PROVE  \A i \in Issues : Latest(i) \in Nat /\ Latest(i)' \in Nat /\ Latest(i) <= Latest(i)'
<1>1. TypeInv'
  BY TypeInvStep
<1>2. ASSUME NEW i \in Issues
      PROVE  Latest(i) \in Nat \ {0} /\ Latest(i)' \in Nat
  BY <1>1 DEF TypeInv, TypeOK, Latest
<1>3. ASSUME NEW i \in Issues PROVE Latest(i) <= Latest(i)'
  <2>1. Latest(i) \in 1 .. Latest(i)'
    BY <1>2, JiraAppendsOnly DEF TypeInv
  <2> QED
    BY <1>2, <2>1
<1> QED
  BY <1>2, <1>3

\* So the times of the stored histories and comments stay right.
LEMMA DatesStay ==
  ASSUME TypeInv, JiraDates, [Next]_vars,
         DOMAIN feed' = DOMAIN feed,
         \A e \in DOMAIN feed : feed'[e].occurred = feed[e].occurred
  PROVE  JiraDates'
<1> SUFFICES ASSUME NEW e \in DOMAIN feed, e.kind \in {"history", "comment"}
             PROVE  /\ e.rev \in 1 .. Latest(e.issue)'
                    /\ feed'[e].occurred = jira'[e.issue][e.rev].at
  BY DEF JiraDates
<1>1. e.issue \in Issues /\ e.rev \in 1 .. Latest(e.issue)
      /\ feed[e].occurred = jira[e.issue][e.rev].at
  BY DEF JiraDates, TypeInv, TypeOK, Event
<1> QED
  BY <1>1, JiraAppendsOnly DEF TypeInv

\* What a run tells is not in the feed, or is there with the time it has again.
LEMMA EventsAreFresh ==
  ASSUME TypeInv, AnnounceInv, OnceInv, phase = "committing"
  PROVE  Conflicts = {}
<1> SUFFICES ASSUME NEW e \in run.events, e \in DOMAIN feed
             PROVE  same_event_identity(e)
  BY DEF Conflicts
<1>1. /\ e.issue \in Issues /\ e.rev \in Nat /\ e.kind \in Kinds
      /\ snap[e.issue] \in Nat /\ run.fetched[e.issue] \in Nat
  BY UpdateTypes DEF TypeInv, TypeOK, Event
<1>2. e.rev <= snap[e.issue]
  BY DEF AnnounceInv, FeedInv, FeedNotAheadOfCache
<1>3. e.kind \notin ChangeKinds \ {"history"}
  BY <1>1, <1>2 DEF AnnounceInv, FeedInv, EventsAreNews
<1>4. Moves(e, issues_for_user_set(Home), run.fetched)
  BY DEF OnceInv, RunTellsMoves
<1>5. issues_for_user_set(Home)[e.issue] = IF e.issue \in member[Home] THEN snap[e.issue] ELSE 0
  BY <1>1 DEF issues_for_user_set
<1>6. Reading
  BY DEF Reading
<1>7. e.kind # "added"
  <2> SUFFICES ASSUME e.kind = "added" PROVE FALSE
    OBVIOUS
  <2>1. e.issue \notin member[Home]
    BY <1>4, <1>5, PartitionAssumption DEF Moves, AnnounceInv, MembersAreCached
  <2> QED
    BY <1>1, <1>4, <1>6, <2>1 DEF Moves, OnceInv, ComingsAndGoings
<1>8. e.kind # "removed"
  BY <1>1, <1>4, <1>5 DEF Moves, OnceInv, ComingsAndGoings
<1>9. e.kind \in {"history", "comment"}
  BY <1>1, <1>3, <1>7, <1>8 DEF Kinds, ChangeKinds
<1> QED
  BY <1>9 DEF OnceInv, JiraDates, same_event_identity, occurred_at

\* A step that leaves the cache alone, and the run as well unless it ends it.
LEMMA OnceInvUnchanged ==
  ASSUME UserSets = {Home}, SteadyView, TypeInv, AnnounceInv, OnceInv, [Next]_vars,
         UNCHANGED <<snap, member>>,
         UNCHANGED <<phase, run>> \/ phase' \in {"idle", "notifying"},
         DOMAIN feed' = DOMAIN feed,
         \A e \in DOMAIN feed : feed'[e].occurred = feed[e].occurred,
         NoEventConflict'
  PROVE  OnceInv'
<1>1. \A i \in Issues : /\ Latest(i) \in Nat /\ Latest(i)' \in Nat /\ Latest(i) <= Latest(i)'
                        /\ snap[i] \in Nat /\ snap[i] <= Latest(i)
                        /\ run.fetched[i] \in Nat /\ run.fetched[i] <= Latest(i)
  BY RevisionsGrow, UpdateTypes DEF TypeInv, RevisionsExist
<1>2. \A e \in DOMAIN feed : e.issue \in Issues /\ e.rev \in Nat
  BY DEF TypeInv, TypeOK, Event
<1>3. \A i \in member[Home] : i \in Issues /\ snap[i] \in 1 .. Latest(i)
  BY <1>1, PartitionAssumption DEF TypeInv, TypeOK, AnnounceInv, MembersAreCached
<1>4. Reading' => Reading /\ UNCHANGED <<phase, run>>
  BY DEF Reading
<1>5. MembersAreShown'
  <2> DEFINE Kept(i, r) == \/ jira'[i][r].assignee \in Assignees[Home]
                           \/ Watches[Home] /\ i \in watched'
  <2>1. \A i \in Issues : \A r \in 1 .. Latest(i) : Shown(i, r) => Kept(i, r)
    BY ViewStays DEF Shown, Assignee
  <2>2. \A i, r : Kept(i, r) <=> \/ jira'[i][r].assignee \in Assignees[Home]
                                 \/ Watches[Home] /\ i \in watched'
    OBVIOUS
  <2> HIDE DEF Kept
  <2>3. \A i \in member[Home] : Kept(i, snap[i])
    BY <1>3, <2>1 DEF OnceInv, MembersAreShown
  <2>4. ASSUME Reading', NEW i \in Issues, run.fetched[i] # 0
        PROVE  Kept(i, run.fetched[i]) /\ run' = run
    <3>1. run.fetched[i] \in 1 .. Latest(i) /\ Shown(i, run.fetched[i]) /\ run' = run
      BY <1>1, <1>4, <2>4 DEF OnceInv, MembersAreShown
    <3> QED
      BY <2>1, <3>1
  <2>5. \A i \in member'[Home] : Kept(i, snap'[i])
    BY <2>3
  <2>6. Reading' => \A i \in Issues : run'.fetched[i] # 0 => Kept(i, run'.fetched[i])
    BY <1>4, <2>4
  <2>7. \A i \in member'[Home] : \/ jira'[i][snap'[i]].assignee \in Assignees[Home]
                                 \/ Watches[Home] /\ i \in watched'
    BY <2>2, <2>5
  <2>8. ASSUME Reading', NEW i \in Issues, run'.fetched[i] # 0
        PROVE  \/ jira'[i][run'.fetched[i]].assignee \in Assignees[Home]
               \/ Watches[Home] /\ i \in watched'
    BY <2>2, <2>6, <2>8
  <2> QED
    BY <2>7, <2>8 DEF MembersAreShown, Shown, Assignee
<1>6. MissedHaveMoved'
  <2>1. CASE phase' \in {"idle", "notifying"}
    BY <2>1 DEF MissedHaveMoved
  <2>2. CASE UNCHANGED <<phase, run>>
    <3>1. ASSUME NEW i \in member[Home], snap[i] = Latest(i)' PROVE snap[i] = Latest(i)
      BY <1>1, <1>3, <3>1
    <3>2. ASSUME NEW i \in member[Home], snap[i] < Latest(i) PROVE snap[i] < Latest(i)'
      BY <1>1, <1>3, <3>2
    <3>3. ASSUME NEW i \in member[Home], snap[i] = Latest(i)' PROVE Latest(i)' = Latest(i)
      BY <3>1, <3>3
    <3> QED
      BY <2>2, <3>1, <3>2, <3>3 DEF OnceInv, MissedHaveMoved
  <2> QED
    BY <2>1, <2>2
<1>7. ComingsAndGoings'
  <2> SUFFICES ASSUME NEW e \in DOMAIN feed, e.kind \in {"added", "removed"}
               PROVE  /\ e.issue \notin member[Home] => e.rev < Latest(e.issue)'
                      /\ Reading' /\ e.issue \notin member[Home] /\ run'.fetched[e.issue] # 0
                            => e.rev < run'.fetched[e.issue]
                      /\ e.kind = "removed" /\ e.issue \in member[Home]
                            => e.rev < snap[e.issue]
    BY DEF ComingsAndGoings
  <2>1. e.issue \notin member[Home] => e.rev < Latest(e.issue)'
    BY <1>1, <1>2 DEF OnceInv, ComingsAndGoings
  <2> QED
    BY <1>4, <2>1 DEF OnceInv, ComingsAndGoings
<1>8. RunTellsMoves'
  <2>1. CASE phase' \in {"idle", "notifying"}
    BY <2>1 DEF RunTellsMoves
  <2>2. CASE UNCHANGED <<phase, run>>
    <3>1. \A e, x, y : Moves(e, x, y)' <=> Moves(e, x, y)
      BY <2>2 DEF Moves, replaces_membership
    <3>2. issues_for_user_set(Home)' = issues_for_user_set(Home)
      BY DEF issues_for_user_set
    <3> QED
      BY <2>2, <3>1, <3>2 DEF OnceInv, RunTellsMoves
  <2> QED
    BY <2>1, <2>2
<1>9. JiraDates'
  BY DatesStay DEF OnceInv
<1> QED
  BY <1>5, <1>6, <1>7, <1>8, <1>9 DEF OnceInv

\* A run begins with nothing read.
LEMMA BeginOnceInv ==
  ASSUME UserSets = {Home}, SteadyView, TypeInv, AnnounceInv, OnceInv, [Next]_vars,
         NEW s \in UserSets, NEW manual \in BOOLEAN, Begin(s, manual)
  PROVE  OnceInv'
<1>1. /\ UNCHANGED <<jira, watched, snap, member, feed, lastError>> /\ phase' = "fetching"
  BY DEF Begin, jiraVars, storeVars
<1>2. /\ run'.since = updated_since(s, run'.mode) /\ run'.opened = None
      /\ run'.fetched = NoSnapshot
  BY DEF Begin, NoRun
<1>3. \A i, r : Shown(i, r)' = Shown(i, r)
  BY <1>1 DEF Shown, Assignee
<1>4. MembersAreShown'
  BY <1>1, <1>2, <1>3 DEF OnceInv, MembersAreShown, NoSnapshot
<1>5. MissedHaveMoved'
  BY <1>1, <1>2 DEF MissedHaveMoved, updated_since, replaces_membership
<1>6. ComingsAndGoings'
  <2>1. \A e \in DOMAIN feed : run'.fetched[e.issue] = 0
    BY <1>2 DEF TypeInv, TypeOK, Event, NoSnapshot
  <2> QED
    BY <1>1, <2>1 DEF OnceInv, ComingsAndGoings, Latest
<1>7. RunTellsMoves' /\ NoEventConflict'
  BY <1>1 DEF OnceInv, RunTellsMoves, NoEventConflict
<1>8. JiraDates'
  BY <1>1, DatesStay DEF OnceInv
<1> QED
  BY <1>4, <1>5, <1>6, <1>7, <1>8 DEF OnceInv

\* A page holds the latest of issues of the view; the first says what to wait for.
LEMMA FetchPageOnceInv ==
  ASSUME UserSets = {Home}, SteadyView, TypeInv, AnnounceInv, OnceInv, [Next]_vars,
         NEW page \in SUBSET Issues, FetchPage(page)
  PROVE  OnceInv'
<1>1. /\ UNCHANGED <<jira, watched, snap, member, feed, lastError, phase>> /\ phase = "fetching"
      /\ page \subseteq Matching(run.set, run.since)
  BY DEF FetchPage, jiraVars, storeVars
<1>2. /\ run'.mode = run.mode /\ run'.since = run.since /\ run.set = Home
      /\ run'.expected = IF run.opened # None THEN run.expected
                         ELSE [i \in Issues |-> IF i \in Matching(run.set, run.since)
                                                THEN Latest(i) ELSE 0]
      /\ run'.fetched = [i \in Issues |-> IF i \in page THEN Latest(i) ELSE run.fetched[i]]
  <2>1. run \in Run
    BY DEF TypeInv, TypeOK
  <2> QED
    BY <2>1 DEF FetchPage, Run
<1>3. Reading /\ Reading'
  BY <1>1 DEF Reading
<1>4. \A i, r : Shown(i, r)' = Shown(i, r)
  BY <1>1 DEF Shown, Assignee
<1>5. \A i \in page : Shown(i, Latest(i))
  BY <1>1, <1>2 DEF Matching, InView, Shown
<1>6. MembersAreShown'
  BY <1>1, <1>2, <1>3, <1>4, <1>5 DEF OnceInv, MembersAreShown
<1>7. MissedHaveMoved'
  <2> SUFFICES ASSUME replaces_membership(run.mode)
               PROVE  /\ run.since = None
                      /\ \A i \in member[Home] :
                            snap[i] = Latest(i) => run'.expected[i] = Latest(i)
    BY <1>1, <1>2 DEF MissedHaveMoved, Latest
  <2>1. run.since = None
    BY <1>1 DEF OnceInv, MissedHaveMoved
  <2>2. ASSUME NEW i \in member[Home], snap[i] = Latest(i)
        PROVE  run'.expected[i] = Latest(i)
    <3>1. i \in Issues /\ Shown(i, Latest(i))
      BY <2>2, PartitionAssumption DEF TypeInv, TypeOK, OnceInv, MembersAreShown
    <3>2. i \in Matching(run.set, run.since)
      BY <1>2, <2>1, <3>1 DEF Matching, InView, Shown
    <3> QED
      BY <1>1, <1>2, <2>2, <3>1, <3>2 DEF OnceInv, MissedHaveMoved
  <2> QED
    BY <2>1, <2>2
<1>8. ComingsAndGoings'
  <2>1. \A e \in DOMAIN feed : e.issue \in Issues
    BY DEF TypeInv, TypeOK, Event
  <2> QED
    BY <1>1, <1>2, <1>3, <2>1 DEF OnceInv, ComingsAndGoings, Latest
<1>9. RunTellsMoves' /\ NoEventConflict'
  BY <1>1 DEF OnceInv, RunTellsMoves, NoEventConflict
<1>10. JiraDates'
  BY <1>1, DatesStay DEF OnceInv
<1> QED
  BY <1>6, <1>7, <1>8, <1>9, <1>10 DEF OnceInv

\* After the last page no member that has stayed is missing.
LEMMA DeriveOnceInv ==
  ASSUME UserSets = {Home}, SteadyView, TypeInv, AnnounceInv, OnceInv, [Next]_vars,
         NEW logged \in SUBSET Issues, NEW readable \in SUBSET Issues,
         Derive(logged, readable)
  PROVE  OnceInv'
<1> DEFINE existing == issues_for_user_set(Home)
           removed == replaces_membership(run.mode)
           derived == enrich(diff(existing, run.fetched, removed),
                             existing, run.fetched, logged, readable)
<1>1. /\ UNCHANGED <<jira, watched, snap, member, feed, lastError>>
      /\ phase = "fetching" /\ phase' = "committing"
      /\ run.opened # None /\ Outstanding = {}
  BY DEF Derive, jiraVars, storeVars
<1>2. run.set = Home
  BY UpdateTypes DEF TypeInv
<1>3. /\ run'.mode = run.mode /\ run'.fetched = run.fetched
      /\ run'.events = IF emits_updates(run.mode) THEN derived ELSE {}
  <2>1. run \in Run
    BY DEF TypeInv, TypeOK
  <2> QED
    BY <1>2, <2>1 DEF Derive, Run
<1>5. \A e \in derived : Moves(e, existing, run.fetched)
  BY EnrichMoves
<1>6. issues_for_user_set(Home)' = existing
  BY <1>1 DEF issues_for_user_set
<1> HIDE DEF derived
<1>7. Reading /\ Reading'
  BY <1>1 DEF Reading
<1>8. MembersAreShown'
  <2>1. \A i, r : Shown(i, r)' = Shown(i, r)
    BY <1>1 DEF Shown, Assignee
  <2> QED
    BY <1>1, <1>3, <1>7, <2>1 DEF OnceInv, MembersAreShown
<1>9. MissedHaveMoved'
  <2> SUFFICES ASSUME replaces_membership(run.mode), NEW i \in member[Home], run.fetched[i] = 0
               PROVE  snap[i] < Latest(i)
    BY <1>1, <1>3 DEF MissedHaveMoved, Latest
  <2>1. i \in Issues
    BY PartitionAssumption DEF TypeInv, TypeOK
  <2>2. snap[i] \in Nat /\ Latest(i) \in Nat /\ snap[i] <= Latest(i)
    BY <2>1, UpdateTypes DEF TypeInv, RevisionsExist
  <2>3. ASSUME snap[i] = Latest(i) PROVE FALSE
    <3>1. run.since = None /\ run.expected[i] = Latest(i)
      BY <1>1, <2>3 DEF OnceInv, MissedHaveMoved
    <3>2. Shown(i, Latest(i))
      BY <2>3 DEF OnceInv, MembersAreShown
    <3>3. i \in Matching(run.set, run.since)
      BY <1>2, <2>1, <3>1, <3>2 DEF Matching, InView, Shown
    <3> QED
      BY <1>1, <3>1, <3>3 DEF Outstanding
  <2> QED
    BY <2>2, <2>3
<1>10. ComingsAndGoings'
  BY <1>1, <1>3, <1>7 DEF OnceInv, ComingsAndGoings, Latest
<1>11. RunTellsMoves'
  <2>1. \A e \in run'.events : Moves(e, existing, run.fetched)
    BY <1>3, <1>5
  <2>2. \A e, x, y : Moves(e, x, y)' <=> Moves(e, x, y)
    BY <1>3 DEF Moves, replaces_membership
  <2> QED
    BY <1>3, <1>6, <2>1, <2>2 DEF RunTellsMoves
<1>12. JiraDates' /\ NoEventConflict'
  BY <1>1, DatesStay DEF OnceInv, NoEventConflict
<1> QED
  BY <1>8, <1>9, <1>10, <1>11, <1>12 DEF OnceInv

\* A commit makes members of what came and strangers of what went.
LEMMA CommitOnceInv ==
  ASSUME UserSets = {Home}, SteadyView, TypeInv, AnnounceInv, OnceInv, [Next]_vars,
         commit_sync
  PROVE  OnceInv'
<1>1. /\ UNCHANGED <<jira, watched>>
      /\ phase = "committing" /\ phase' = "notifying"
      /\ member' = [member EXCEPT ![run.set] = insert_membership]
      /\ snap' = insert_issue
      /\ feed' = insert_events
      /\ lastError' = [lastError EXCEPT ![run.set] = None]
  BY DEF commit_sync, jiraVars
<1>2. /\ run.set = Home /\ member'[Home] = insert_membership /\ lastError'[Home] = None
  BY <1>1, UpdateTypes DEF TypeInv, TypeOK
<1>3. \A i \in Issues : /\ snap[i] \in Nat /\ run.fetched[i] \in Nat /\ Latest(i) \in Nat
                        /\ snap[i] <= Latest(i) /\ run.fetched[i] <= Latest(i)
                        /\ run.fetched[i] # 0 => run.fetched[i] >= snap[i]
                        /\ snap'[i] = IF run.fetched[i] # 0 THEN run.fetched[i] ELSE snap[i]
                        /\ Latest(i)' = Latest(i)
  BY <1>1, UpdateTypes
     DEF TypeInv, RevisionsExist, AnnounceInv, FeedInv, SnapshotsAdvance,
         insert_issue, fetched_issues, Latest
<1>4. /\ member[Home] \subseteq Issues
      /\ \A i \in Issues :
            i \in member'[Home] <=> \/ run.fetched[i] # 0
                                    \/ i \in member[Home] /\ ~ replaces_membership(run.mode)
      /\ member'[Home] \subseteq Issues
  <2>1. member[Home] \subseteq Issues
    BY PartitionAssumption DEF TypeInv, TypeOK
  <2> QED
    BY <1>2, <2>1 DEF insert_membership, fetched_issues
<1>5. Reading /\ ~ Reading'
  BY <1>1 DEF Reading
<1>6. MembersAreShown'
  <2>1. \A i, r : Shown(i, r)' = Shown(i, r)
    BY <1>1 DEF Shown, Assignee
  <2> SUFFICES ASSUME NEW i \in member'[Home] PROVE Shown(i, snap'[i])
    BY <1>5, <2>1 DEF MembersAreShown
  <2>2. CASE run.fetched[i] # 0
    BY <1>3, <1>4, <1>5, <2>2 DEF OnceInv, MembersAreShown
  <2>3. CASE run.fetched[i] = 0
    BY <1>3, <1>4, <2>3 DEF OnceInv, MembersAreShown
  <2> QED
    BY <2>2, <2>3
<1>7. MissedHaveMoved' /\ RunTellsMoves'
  BY <1>1 DEF MissedHaveMoved, RunTellsMoves
<1>8. DOMAIN feed' = DOMAIN feed \cup run.events
  BY <1>1 DEF insert_events
<1>9. \A e \in DOMAIN feed' : /\ e.issue \in Issues /\ e.rev \in Nat
  BY <1>8 DEF TypeInv, TypeOK, Event, Run
<1>10. ASSUME NEW i \in member[Home], i \notin member'[Home] PROVE snap[i] < Latest(i)
  BY <1>1, <1>4, <1>10 DEF OnceInv, MissedHaveMoved
<1>11. ComingsAndGoings'
  <2> SUFFICES ASSUME NEW e \in DOMAIN feed', e.kind \in {"added", "removed"}
               PROVE  /\ e.issue \notin member'[Home] => e.rev < Latest(e.issue)
                      /\ e.kind = "removed" /\ e.issue \in member'[Home]
                            => e.rev < snap'[e.issue]
    BY <1>3, <1>5, <1>9 DEF ComingsAndGoings
  <2>1. CASE e \in DOMAIN feed
    <3>1. e.rev <= snap[e.issue]
      BY <2>1 DEF AnnounceInv, FeedInv, FeedNotAheadOfCache
    <3>2. /\ e.issue \notin member[Home] => e.rev < Latest(e.issue)
          /\ e.issue \notin member[Home] /\ run.fetched[e.issue] # 0
                => e.rev < run.fetched[e.issue]
          /\ e.kind = "removed" /\ e.issue \in member[Home] => e.rev < snap[e.issue]
      BY <1>5, <2>1 DEF OnceInv, ComingsAndGoings
    <3>3. e.issue \notin member'[Home] => e.rev < Latest(e.issue)
      BY <1>3, <1>9, <1>10, <3>1, <3>2
    <3>4. e.kind = "removed" /\ e.issue \in member'[Home] => e.rev < snap'[e.issue]
      BY <1>3, <1>4, <1>9, <3>2
    <3> QED
      BY <3>3, <3>4
  <2>2. CASE e \in run.events
    <3>1. Moves(e, issues_for_user_set(Home), run.fetched)
      BY <1>1, <2>2 DEF OnceInv, RunTellsMoves
    <3>2. issues_for_user_set(Home)[e.issue]
             = IF e.issue \in member[Home] THEN snap[e.issue] ELSE 0
      BY <1>9 DEF issues_for_user_set
    <3>3. CASE e.kind = "added"
      BY <1>4, <1>9, <3>1, <3>3 DEF Moves
    <3>4. CASE e.kind = "removed"
      <4>1. /\ e.issue \in member[Home] /\ run.fetched[e.issue] = 0
            /\ e.rev = snap[e.issue]
        BY <3>1, <3>2, <3>4 DEF Moves
      <4>2. replaces_membership(run.mode)
        BY <3>1, <3>4 DEF Moves
      <4> QED
        BY <1>4, <1>9, <1>10, <3>4, <4>1, <4>2
    <3> QED
      BY <3>3, <3>4
  <2> QED
    BY <1>8, <2>1, <2>2
<1>12. JiraDates'
  <2> SUFFICES ASSUME NEW e \in DOMAIN feed', e.kind \in {"history", "comment"}
               PROVE  /\ e.rev \in 1 .. Latest(e.issue)
                      /\ feed'[e].occurred = jira[e.issue][e.rev].at
    BY <1>1, <1>3, <1>9 DEF JiraDates
  <2>1. CASE e \in DOMAIN feed
    <3>1. feed[e] \in Entry
      BY <2>1 DEF TypeInv, TypeOK
    <3>2. feed'[e].occurred = feed[e].occurred
      BY <1>1, <2>1, <3>1 DEF insert_events, Entry
    <3> QED
      BY <2>1, <3>2 DEF OnceInv, JiraDates
  <2>2. CASE e \notin DOMAIN feed
    <3>1. e \in run.events /\ feed'[e] = NewEntry(e)
      BY <1>1, <1>8, <2>2 DEF insert_events
    <3>2. feed'[e].occurred = jira[e.issue][e.rev].at
      BY <3>1 DEF NewEntry, occurred_at
    <3> QED
      BY <3>1, <3>2 DEF TypeInv, RevisionsExist
  <2> QED
    BY <2>1, <2>2
<1>13. NoEventConflict'
  BY <1>2, ErrorAssumption DEF NoEventConflict, Errors
<1> QED
  BY <1>6, <1>7, <1>11, <1>12, <1>13 DEF OnceInv

\* Every step keeps it.
LEMMA OnceInvStep ==
  ASSUME NoDetail, UserSets = {Home}, SteadyView,
         TypeInv, AnnounceInv, OnceInv, [Next]_vars
  PROVE  OnceInv'
<1>1. ASSUME NEW s \in UserSets, NEW manual \in BOOLEAN, Begin(s, manual)
      PROVE  OnceInv'
  BY <1>1, BeginOnceInv
<1>2. ASSUME NEW page \in SUBSET Issues, FetchPage(page) PROVE OnceInv'
  BY <1>2, FetchPageOnceInv
<1>3. ASSUME NEW logged \in SUBSET Issues, NEW readable \in SUBSET Issues,
             Derive(logged, readable)
      PROVE  OnceInv'
  BY <1>3, DeriveOnceInv
<1>4. CASE commit_sync
  BY <1>4, CommitOnceInv
<1>5. CASE FetchFails \/ CommitFails
  <2>1. /\ UNCHANGED <<snap, member, feed>> /\ phase' = "idle"
        /\ \E kind \in {"Upstream", "Authentication", "Storage"} :
              lastError' \in {lastError, [lastError EXCEPT ![run.set] = kind]}
    BY <1>5 DEF FetchFails, CommitFails, Fail
  <2>2. NoEventConflict'
    BY <2>1 DEF OnceInv, NoEventConflict, TypeInv, TypeOK
  <2> QED
    BY <2>1, <2>2, OnceInvUnchanged
<1>6. ~ CommitConflict
  BY EventsAreFresh DEF CommitConflict
<1>7. CASE \/ Environment
           \/ \E e \in queue : deliver_notification(e)
           \/ record_notification_delivery \/ RecordingFails
           \/ SyncCompleted \/ ReloadFails
           \/ \E events \in SUBSET DOMAIN feed : mark_read(events)
           \/ Restart \/ UNCHANGED vars
  <2>1. /\ UNCHANGED <<snap, member, lastError>>
        /\ UNCHANGED <<phase, run>> \/ phase' \in {"idle", "notifying"}
    BY <1>7
       DEF Environment, Tick, Revise, ToggleWatch, deliver_notification,
           record_notification_delivery, RecordingFails,
           SyncCompleted, ReloadFails, mark_read, Restart,
           jiraVars, storeVars, processVars, vars
  <2>2. DOMAIN feed' = DOMAIN feed /\ \A e \in DOMAIN feed : feed'[e].occurred = feed[e].occurred
    <3>1. \A e \in DOMAIN feed : feed[e] \in Entry
      BY DEF TypeInv, TypeOK
    <3>2. CASE UNCHANGED feed
      BY <3>2
    <3>3. CASE \E e \in queue : feed' = [feed EXCEPT ![e].alerts = @ + 1]
      BY <3>1, <3>3 DEF Entry
    <3>4. CASE feed' = [feed EXCEPT ![unrecorded.event].delivery = unrecorded.delivery]
      BY <3>1, <3>4 DEF Entry
    <3>5. ASSUME NEW events \in SUBSET DOMAIN feed, mark_read(events)
          PROVE  /\ DOMAIN feed' = DOMAIN feed
                 /\ \A e \in DOMAIN feed : feed'[e].occurred = feed[e].occurred
      BY <3>1, <3>5 DEF mark_read, Entry
    <3> QED
      BY <1>7, <3>2, <3>3, <3>4, <3>5
         DEF Environment, Tick, Revise, ToggleWatch, deliver_notification,
             record_notification_delivery, RecordingFails, SyncCompleted, ReloadFails,
             Restart, jiraVars, storeVars, processVars, vars
  <2>3. NoEventConflict'
    BY <2>1 DEF OnceInv, NoEventConflict
  <2> QED
    BY <2>1, <2>2, <2>3, OnceInvUnchanged
<1>8. ASSUME NEW events, mark_read(events)
      PROVE  \E known \in SUBSET DOMAIN feed : mark_read(known)
  BY <1>8 DEF mark_read, Displayed
<1>9. /\ \A i : ~ DetailRead(i)
      /\ ~ cache_detail_issue /\ ~ DetailDropped
  BY DEF NoDetail, DetailRead, cache_detail_issue, DetailDropped,
         AnnounceInv, FeedInv, SnapshotsAdvance
<1> QED
  BY <1>1, <1>2, <1>3, <1>4, <1>5, <1>6, <1>7, <1>8, <1>9
     DEF Next, Sync, Dashboard, Refresh, RefreshAutomatically, MarkGroupRead, MarkAllRead

\* No run of a single user set ends because an event id is taken, however many
\* faults, restarts and overlapping queries derive the events again, as long as
\* nothing but synchronizations writes the cache and no watch that counts changes.
THEOREM NoIdTakenTwice ==
  ASSUME NoDetail, UserSets = {Home}, SteadyView
  PROVE  Spec => []NoEventConflict
<1>1. Init => TypeInv /\ AnnounceInv /\ OnceInv
  BY TypeInvInit, AnnounceInvInit, OnceInvInit
<1>2. (TypeInv /\ AnnounceInv /\ OnceInv) /\ [Next]_vars => (TypeInv /\ AnnounceInv /\ OnceInv)'
  BY TypeInvStep, AnnounceInvStep, OnceInvStep
<1>3. TypeInv /\ AnnounceInv /\ OnceInv => NoEventConflict
  BY DEF OnceInv
<1> QED
  BY <1>1, <1>2, <1>3, PTL DEF Spec

=============================================================================
