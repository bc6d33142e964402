------------------------------ MODULE Jira_proofs ------------------------------
(***************************************************************************)
(* Proofs about what asks Jira. The client, for every set of calls,        *)
(* workload and number of pages: the types, that it keeps the promise of   *)
(* RemoteWrite whatever is lost, cancelled or answered late, that a search *)
(* it answers has every page, and that every call has steps left to take   *)
(* until it is done, and not more than its pages allow. Paging, for every  *)
(* answer Jira may give and every limit: no page is asked for twice, the   *)
(* requests keep their limit, and what is reported as read is read.        *)
(* Content, for every document: the images that are shown and the gallery. *)
(***************************************************************************)
EXTENDS JiraGateway, Paging, Content, SequenceTheorems, FiniteFolds

-----------------------------------------------------------------------------
(* The client: lemmas about its operators *)

\* Every port method makes a job of a known kind, and the one that can be
\* answered without a job is a read.
LEMMA MethodKind ==
  ASSUME NEW o \in Ops
  PROVE  /\ method(o).kind \in Kinds
         /\ method(o).kind \in WriteKinds => o # "fetch_issues_by_id"
<1>1. CASE o \in ActivityOps
  <2>1. method(o) = IssueActivityPort(o)
    BY <1>1 DEF method, ActivityOps, AttachmentOps, DetailOps, UserOps, SearchOps,
                 EditOps, WatchOps
  <2>2. IssueActivityPort(o).kind \in {"changelog", "read"}
    BY DEF IssueActivityPort, Method
  <2> QED
    BY <2>1, <2>2, <1>1 DEF Kinds, WriteKinds, ActivityOps
<1>2. CASE o \in AttachmentOps
  <2>1. method(o) = AttachmentReadPort(o)
    BY <1>2 DEF method, ActivityOps, AttachmentOps, DetailOps, UserOps, SearchOps,
                 EditOps, WatchOps
  <2>2. AttachmentReadPort(o).kind \in {"thumbnail", "download"}
    BY DEF AttachmentReadPort, Method
  <2> QED
    BY <2>1, <2>2, <1>2 DEF Kinds, WriteKinds, AttachmentOps
<1>3. CASE o \in DetailOps
  <2>1. method(o) = IssueDetailReadPort(o)
    BY <1>3 DEF method, ActivityOps, AttachmentOps, DetailOps, UserOps, SearchOps,
                 EditOps, WatchOps
  <2>2. IssueDetailReadPort(o).kind \in {"read"}
    BY DEF IssueDetailReadPort, Method
  <2> QED
    BY <2>1, <2>2, <1>3 DEF Kinds, WriteKinds, DetailOps
<1>4. CASE o \in UserOps
  <2>1. method(o) = UserReadPort(o)
    BY <1>4 DEF method, ActivityOps, AttachmentOps, DetailOps, UserOps, SearchOps,
                 EditOps, WatchOps
  <2>2. UserReadPort(o).kind \in {"read"}
    BY DEF UserReadPort, Method
  <2> QED
    BY <2>1, <2>2, <1>4 DEF Kinds, WriteKinds, UserOps
<1>5. CASE o \in SearchOps
  <2>1. method(o) = IssueSearchPort(o)
    BY <1>5 DEF method, ActivityOps, AttachmentOps, DetailOps, UserOps, SearchOps,
                 EditOps, WatchOps
  <2>2. IssueSearchPort(o).kind \in {"issue_ids", "read"}
    BY DEF IssueSearchPort, Method
  <2> QED
    BY <2>1, <2>2, <1>5 DEF Kinds, WriteKinds, SearchOps
<1>6. CASE o \in EditOps
  <2>1. method(o) = IssueEditPort(o)
    BY <1>6 DEF method, ActivityOps, AttachmentOps, DetailOps, UserOps, SearchOps,
                 EditOps, WatchOps
  <2>2. IssueEditPort(o).kind \in {"read", "edit"}
    BY DEF IssueEditPort, Method
  <2> QED
    BY <2>1, <2>2, <1>6 DEF Kinds, WriteKinds, EditOps
<1>7. CASE o \in WatchOps
  <2>1. method(o) = IssueWatchPort(o)
    BY <1>7 DEF method, ActivityOps, AttachmentOps, DetailOps, UserOps, SearchOps,
                 EditOps, WatchOps
  <2>2. IssueWatchPort(o).kind \in {"read", "edit", "unwatch"}
    BY DEF IssueWatchPort, Method
  <2> QED
    BY <2>1, <2>2, <1>7 DEF Kinds, WriteKinds, WatchOps
<1>8. CASE o = "create_comment"
  <2>1. method(o) = CommentWritePort(o)
    BY <1>8 DEF method, ActivityOps, AttachmentOps, DetailOps, UserOps, SearchOps,
                 EditOps, WatchOps
  <2>2. CommentWritePort(o).kind \in {"comment"}
    BY DEF CommentWritePort, Method
  <2> QED
    BY <2>1, <2>2, <1>8 DEF Kinds, WriteKinds, Ops
<1> QED
  BY <1>1, <1>2, <1>3, <1>4, <1>5, <1>6, <1>7, <1>8 DEF Ops

\* A call that ends before its job is refused, cancelled, or a read of nothing.
LEMMA PreflightAnswer ==
  ASSUME NEW c \in Calls, NEW o \in Ops, NEW f \in Flaws
  PROVE  /\ Preflight(c, o, f) \in {"none", "InvalidInput", "Cancelled", "ok"}
         /\ Preflight(c, o, f) = "ok" => o = "fetch_issues_by_id"
  BY DEF Preflight

\* What is told of a failure is an answer; a write is only told done when Jira
\* said so, and refused when Jira said so or when nothing was sent.
LEMMA ToldAnswers ==
  /\ \A s : /\ read_status_error(s) \in Answers \ {"none", "ok"}
            /\ write_status_error(s) \in Answers \ {"none", "ok"}
            /\ read_body(s) \in Answers \ {"none"}
            /\ write_transport_error(s) \in {"Offline", "UnknownOutcome"}
            /\ read_transport_error(s) \in {"Offline", "Upstream"}
  /\ \A s, b : /\ read_created_comment(s, b) \in Answers \ {"none"}
               /\ read_write_response(s) \in Answers \ {"none"}
  /\ \A t, m, b : read_attachment(t, m, b) \in Answers \ {"none"}
  BY DEF read_status_error, write_status_error, read_body, write_transport_error,
         read_transport_error, read_created_comment, read_write_response,
         read_attachment, Answers, ReadErrors

LEMMA FailureAnswer ==
  ASSUME NEW c, NEW failure
  PROVE  (IF sends_write(c) THEN write_transport_error(failure)
          ELSE read_transport_error(failure)) \in Answers
  BY ToldAnswers DEF Answers, ReadErrors

\* The actions, one by one.
LEMMA NextCases ==
  ASSUME [Next]_vars
  PROVE  \/ Start \/ RuntimeStops \/ UNCHANGED vars
         \/ \E c \in Calls :
              \/ Send(c) \/ TransportFails(c) \/ ReadResponse(c) \/ LookupResponse(c)
              \/ AttachmentResponse(c) \/ PageResponse(c) \/ PageFails(c)
              \/ WriteResponse(c) \/ Dispatch(c) \/ Collect(c) \/ ChannelCloses(c)
              \/ Call(c) \/ Cancel(c) \/ JiraCarriesOut(c) \/ JiraTurnsDown(c)
  BY ZenonT(60) DEF Next, RuntimeStep, CallerStep, Receive

-----------------------------------------------------------------------------
(* Types *)

\* The steps that answer a job keep the types of what they change.
LEMMA ReplyType ==
  ASSUME TypeOK, NEW c \in Calls, NEW a \in Answers, Reply(c, a)
  PROVE  /\ phase' \in [Calls -> Phases]
         /\ answer' \in [Calls -> Answers]
         /\ running' \in Calls \cup {None}
  BY DEF TypeOK, Reply, Phases

LEMMA DoneType ==
  ASSUME TypeOK, NEW c \in Calls, NEW a \in Answers, Done(c, a)
  PROVE  phase' \in [Calls -> Phases] /\ answer' \in [Calls -> Answers]
  BY DEF TypeOK, Done, Phases

LEMMA InitType == Init => TypeOK
  BY GatewayAssumption DEF Init, TypeOK, Phases, Answers

LEMMA CallType ==
  ASSUME TypeOK, NEW c \in Calls, Call(c)
  PROVE  TypeOK'
<1>1. PICK o \in Workload[c], f \in Flaws :
        /\ kind' = [kind EXCEPT ![c] = method(o).kind]
        /\ doomed' = [doomed EXCEPT ![c] = f \in method(o).job]
        /\ answer' = [answer EXCEPT ![c] = Preflight(c, o, f)]
        /\ phase' = [phase EXCEPT ![c] =
                        IF Preflight(c, o, f) = "none" THEN "ready" ELSE "done"]
  BY DEF Call
<1>2. o \in Ops
  BY GatewayAssumption
<1>3. kind' \in [Calls -> Kinds \cup {None}]
  BY <1>1, <1>2, MethodKind DEF TypeOK
<1>4. answer' \in [Calls -> Answers]
  BY <1>1, <1>2, PreflightAnswer DEF TypeOK, Answers
<1>5. phase' \in [Calls -> Phases]
  BY <1>1 DEF TypeOK, Phases
<1>6. doomed' \in [Calls -> BOOLEAN]
  <2>1. (f \in method(o).job) \in BOOLEAN
    OBVIOUS
  <2> QED
    BY <1>1, <2>1, Zenon DEF TypeOK
<1> QED
  BY <1>3, <1>4, <1>5, <1>6 DEF Call, TypeOK, pageVars, jiraVars

\* One step per action.
LEMMA NextType ==
  ASSUME TypeOK, [Next]_vars
  PROVE  TypeOK'
<1> USE DEF callerVars, pageVars, jiraVars
<1>1. ASSUME Start PROVE TypeOK'
  <2>1. queue # <<>> /\ Head(queue) \in Calls /\ queue' \in Seq(Calls)
    BY <1>1 DEF Start, TypeOK
  <2>2. CASE doomed[Head(queue)]
    <3>1. Reply(Head(queue), "InvalidInput") /\ UNCHANGED stage
      BY <1>1, <2>2 DEF Start
    <3> QED
      BY <1>1, <2>1, <3>1, ReplyType DEF Start, TypeOK, Answers
  <2>3. CASE ~doomed[Head(queue)]
    BY <1>1, <2>1, <2>3 DEF Start, TypeOK, Phases
  <2> QED
    BY <2>2, <2>3
<1>2. ASSUME NEW c \in Calls, Send(c) PROVE TypeOK'
  <2>1. CASE Reply(c, "Cancelled") /\ UNCHANGED wire
    BY <1>2, <2>1, ReplyType DEF Send, TypeOK, Answers
  <2>2. CASE /\ phase' = [phase EXCEPT ![c] = "sent"]
             /\ wire' = IF sends_write(c) THEN [wire EXCEPT ![c] = "sent"] ELSE wire
             /\ UNCHANGED <<answer, running>>
    BY <1>2, <2>2 DEF Send, TypeOK, Phases
  <2>3. CASE /\ \E failure \in {"connect", "connect_timeout"} :
                   Reply(c, IF sends_write(c) THEN write_transport_error(failure)
                            ELSE read_transport_error(failure))
             /\ UNCHANGED wire
    BY <1>2, <2>3, ReplyType, FailureAnswer DEF Send, TypeOK
  <2> QED
    BY <1>2, <2>1, <2>2, <2>3 DEF Send
<1>3. ASSUME NEW c \in Calls, TransportFails(c) PROVE TypeOK'
  BY <1>3, ReplyType, FailureAnswer DEF TransportFails, TypeOK
<1>4. ASSUME NEW c \in Calls, ReadResponse(c) PROVE TypeOK'
  BY <1>4, ReplyType, ToldAnswers DEF ReadResponse, TypeOK
<1>5. ASSUME NEW c \in Calls, LookupResponse(c) PROVE TypeOK'
  <2>1. PICK a \in Answers :
          \/ /\ stage' = [stage EXCEPT ![c] = "main"]
             /\ phase' = [phase EXCEPT ![c] = "running"]
             /\ UNCHANGED <<answer, running>>
          \/ Reply(c, a) /\ UNCHANGED stage
    BY <1>5, ToldAnswers DEF LookupResponse
  <2> QED
    BY <1>5, <2>1, ReplyType DEF LookupResponse, TypeOK, Phases
<1>6. ASSUME NEW c \in Calls, AttachmentResponse(c) PROVE TypeOK'
  <2>1. PICK a \in Answers : Reply(c, a)
    <3>1. PICK status \in ReadStatuses, mime \in {"image", "other", "missing"},
               body \in {"ok", "cut_off", "too_large", "empty", "unsigned"} :
            Reply(c, IF status # "success" THEN read_status_error(status)
                     ELSE IF mime # "missing" /\ cancelled[c] THEN "Cancelled"
                     ELSE read_attachment(kind[c] = "thumbnail", mime, body))
      BY <1>6 DEF AttachmentResponse
    <3>2. (IF status # "success" THEN read_status_error(status)
           ELSE IF mime # "missing" /\ cancelled[c] THEN "Cancelled"
           ELSE read_attachment(kind[c] = "thumbnail", mime, body)) \in Answers
      BY ToldAnswers DEF Answers
    <3> QED
      BY <3>1, <3>2
  <2> QED
    BY <1>6, <2>1, ReplyType DEF AttachmentResponse, TypeOK
<1>7. ASSUME NEW c \in Calls, PageResponse(c) PROVE TypeOK'
  <2>1. PICK next \in Tokens \cup {Blank, None}, is_last \in BOOLEAN :
          /\ pages' = [pages EXCEPT ![c] = @ + 1]
          /\ more' = [more EXCEPT ![c] = next # None /\ ~is_last]
          /\ \/ \E a \in {"ok", "Upstream"} : Reply(c, a) /\ UNCHANGED token
             \/ /\ token' = [token EXCEPT ![c] = next]
                /\ phase' = [phase EXCEPT ![c] = "running"]
                /\ UNCHANGED <<answer, running>>
    BY <1>7 DEF PageResponse
  <2>2. pages' \in [Calls -> Nat]
    BY <2>1 DEF TypeOK
  <2>3. more' \in [Calls -> BOOLEAN]
    <3>1. (next # None /\ ~is_last) \in BOOLEAN
      OBVIOUS
    <3> QED
      BY <2>1, <3>1, Zenon DEF TypeOK
  <2>4. CASE \E a \in {"ok", "Upstream"} : Reply(c, a) /\ UNCHANGED token
    BY <1>7, <2>2, <2>3, <2>4, ReplyType DEF PageResponse, TypeOK, Answers, ReadErrors
  <2>5. CASE /\ token' = [token EXCEPT ![c] = next]
             /\ phase' = [phase EXCEPT ![c] = "running"]
             /\ UNCHANGED <<answer, running>>
    BY <1>7, <2>2, <2>3, <2>5 DEF PageResponse, TypeOK, Phases
  <2> QED
    BY <2>1, <2>4, <2>5
<1>8. ASSUME NEW c \in Calls, PageFails(c) PROVE TypeOK'
  BY <1>8, ReplyType, ToldAnswers DEF PageFails, TypeOK
<1>9. ASSUME NEW c \in Calls, WriteResponse(c) PROVE TypeOK'
  BY <1>9, ReplyType, ToldAnswers DEF WriteResponse, TypeOK
<1>10. ASSUME NEW c \in Calls, Dispatch(c) PROVE TypeOK'
  <2>1. CASE \E a \in Answers : Done(c, a) /\ UNCHANGED queue
    BY <1>10, <2>1, DoneType DEF Dispatch, TypeOK
  <2>2. CASE /\ queue' = Append(queue, c)
             /\ phase' = [phase EXCEPT ![c] = "queued"]
             /\ UNCHANGED answer
    BY <1>10, <2>2 DEF Dispatch, TypeOK, Phases
  <2> QED
    BY <1>10, <2>1, <2>2 DEF Dispatch, Unavailable, Answers
<1>11. ASSUME NEW c \in Calls, Collect(c) PROVE TypeOK'
  <2>1. (IF cancelled[c] /\ ~is_write(c) THEN "Cancelled" ELSE answer[c]) \in Answers
    BY DEF TypeOK, Answers
  <2> QED
    BY <1>11, <2>1, DoneType DEF Collect, TypeOK
<1>12. ASSUME NEW c \in Calls, ChannelCloses(c) PROVE TypeOK'
  <2>1. Unavailable(c) \in Answers
    BY DEF Unavailable, Answers
  <2> QED
    BY <1>12, <2>1, DoneType DEF ChannelCloses, TypeOK
<1>13. ASSUME RuntimeStops PROVE TypeOK'
  BY <1>13 DEF RuntimeStops, TypeOK
<1>14. ASSUME NEW c \in Calls, Call(c) PROVE TypeOK'
  BY <1>14, CallType
<1>15. ASSUME NEW c \in Calls, Cancel(c) PROVE TypeOK'
  BY <1>15 DEF Cancel, TypeOK
<1>16. ASSUME NEW c \in Calls, JiraCarriesOut(c) PROVE TypeOK'
  BY <1>16 DEF JiraCarriesOut, TypeOK
<1>19. ASSUME NEW c \in Calls, JiraTurnsDown(c) PROVE TypeOK'
  BY <1>19 DEF JiraTurnsDown, TypeOK
<1>17. CASE UNCHANGED vars
  BY <1>17 DEF vars, TypeOK
<1>18. \/ Start \/ RuntimeStops \/ UNCHANGED vars
       \/ \E c \in Calls :
            \/ Send(c) \/ TransportFails(c) \/ ReadResponse(c) \/ LookupResponse(c)
            \/ AttachmentResponse(c) \/ PageResponse(c) \/ PageFails(c)
            \/ WriteResponse(c) \/ Dispatch(c) \/ Collect(c) \/ ChannelCloses(c)
            \/ Call(c) \/ Cancel(c) \/ JiraCarriesOut(c) \/ JiraTurnsDown(c)
  BY NextCases
<1> QED
  BY <1>1, <1>2, <1>3, <1>4, <1>5, <1>6, <1>7, <1>8, <1>9, <1>10, <1>11, <1>12,
     <1>13, <1>14, <1>15, <1>16, <1>17, <1>18, <1>19

\* Every variable of the client holds a value of its kind, whatever is called.
THEOREM TypeCorrect == Spec => []TypeOK
<1>1. Init => TypeOK
  BY InitType
<1>2. TypeOK /\ [Next]_vars => TypeOK'
  BY NextType
<1> QED
  BY <1>1, <1>2, PTL DEF Spec

-----------------------------------------------------------------------------
(* The inductive invariant *)

\* What became of the write of a call agrees with where the call is and with
\* what it was told.
Honest(c) ==
    /\ applied[c] = IF wire[c] = "carried" THEN 1 ELSE 0
    /\ phase[c] \in {"idle", "ready", "queued", "running"} => wire[c] = "none"
    /\ wire[c] # "none" => is_write(c)
    /\ phase[c] = "sent" /\ ~sends_write(c) => wire[c] = "none"
    /\ phase[c] \in {"replied", "done"} /\ is_write(c) =>
          /\ answer[c] = "ok" => wire[c] = "carried"
          /\ answer[c] \notin {"ok", "UnknownOutcome"} =>
                wire[c] \in {"none", "turned_down"}

\* The thread takes a job from its queue once, and a stopped one has none.
QueueInv ==
    /\ \A m \in 1 .. Len(queue) : phase[queue[m]] = "queued"
    /\ \A m, n \in 1 .. Len(queue) : queue[m] = queue[n] => m = n
    /\ runtime = "stopped" => queue = <<>>

HonestInv == TypeOK /\ QueueInv /\ \A c \in Calls : Honest(c)

\* A step of one call leaves the others alone, and no call that is done moves.
Moves(c) ==
    /\ phase[c] # "done"
    /\ \A d \in Calls \ {c} :
          /\ phase'[d] = phase[d] /\ kind'[d] = kind[d] /\ stage'[d] = stage[d]
          /\ answer'[d] = answer[d] /\ wire'[d] = wire[d]

LEMMA ReplyMoves ==
  ASSUME TypeOK, NEW c \in Calls, NEW a, Reply(c, a), phase[c] # "done",
         UNCHANGED <<kind, stage, wire>>
  PROVE  Moves(c) /\ phase'[c] = "replied" /\ answer'[c] = a
  BY DEF TypeOK, Reply, Moves

LEMMA DoneMoves ==
  ASSUME TypeOK, NEW c \in Calls, NEW a, Done(c, a), phase[c] # "done",
         UNCHANGED <<kind, stage, wire>>
  PROVE  Moves(c) /\ phase'[c] = "done" /\ answer'[c] = a
  BY DEF TypeOK, Done, Moves

\* Where one call moved and its own part still holds, every part holds.
LEMMA OthersHonest ==
  ASSUME HonestInv, NEW c \in Calls, Moves(c), UNCHANGED applied, Honest(c)'
  PROVE  \A d \in Calls : Honest(d)'
  BY DEF HonestInv, Honest, Moves, is_write, sends_write

\* The queue is as it was when the call that moved was not in it.
LEMMA SameQueue ==
  ASSUME HonestInv, NEW c \in Calls, Moves(c), phase[c] # "queued",
         UNCHANGED <<queue, runtime>>
  PROVE  QueueInv'
<1>1. \A m \in 1 .. Len(queue) : queue[m] \in Calls \ {c}
  BY DEF HonestInv, QueueInv, TypeOK
<1> QED
  BY <1>1 DEF HonestInv, QueueInv, Moves

-----------------------------------------------------------------------------
(* The steps keep it *)

\* A step of one call that answers or advances it: it moves, nothing is carried
\* out, and what it is told is true.
Kept(c) == Moves(c) /\ UNCHANGED applied /\ Honest(c)' /\ QueueInv'

\* A write that ends in a response is told what Jira did.
LEMMA WriteResponseHonest ==
  ASSUME HonestInv, NEW c \in Calls, WriteResponse(c)
  PROVE  Kept(c)
<1>1. PICK status \in WriteStatuses(c), body \in Bodies :
        Reply(c, IF kind[c] = "comment" THEN read_created_comment(status, body)
                 ELSE read_write_response(status))
  BY DEF WriteResponse
<1> DEFINE a == IF kind[c] = "comment" THEN read_created_comment(status, body)
                ELSE read_write_response(status)
<1>2. Moves(c) /\ phase'[c] = "replied" /\ answer'[c] = a
  BY <1>1, ReplyMoves DEF WriteResponse, HonestInv, callerVars, jiraVars
<1>3. a = "ok" => wire[c] = "carried"
  <2>1. a = "ok" => status \in {"created", "no_content"}
    BY DEF read_created_comment, read_write_response, write_status_error
  <2> QED
    BY <2>1 DEF WriteStatuses, Refusals
<1>4. a \notin {"ok", "UnknownOutcome"} => wire[c] = "turned_down"
  <2>1. a \notin {"ok", "UnknownOutcome"} => status \in Refusals
    BY DEF read_created_comment, read_write_response, write_status_error, Refusals
  <2> QED
    BY <2>1 DEF WriteStatuses, Refusals
<1>5. Honest(c)'
  BY <1>2, <1>3, <1>4 DEF WriteResponse, HonestInv, Honest, is_write, sends_write,
                          callerVars, jiraVars
<1> QED
  BY <1>2, <1>5, SameQueue DEF WriteResponse, Kept, jiraVars

\* A read is told anything; no write of it is on its way.
LEMMA ReadHonest ==
  ASSUME HonestInv, NEW c \in Calls, NEW a, Reply(c, a), phase[c] = "sent",
         ~is_write(c), UNCHANGED <<kind, stage, wire, applied, queue, runtime>>
  PROVE  Kept(c)
<1>1. Moves(c) /\ phase'[c] = "replied"
  BY ReplyMoves DEF HonestInv
<1>2. Honest(c)'
  BY <1>1 DEF HonestInv, Honest, is_write, sends_write
<1> QED
  BY <1>1, <1>2, SameQueue DEF Kept

\* The requests and answers of one job.
LEMMA JobHonest ==
  ASSUME HonestInv, NEW c \in Calls,
         \/ Send(c) \/ TransportFails(c) \/ ReadResponse(c) \/ LookupResponse(c)
         \/ AttachmentResponse(c) \/ PageResponse(c) \/ PageFails(c)
         \/ WriteResponse(c)
  PROVE  Kept(c)
<1> USE DEF callerVars, pageVars, jiraVars
<1>1. CASE Send(c)
  <2>1. CASE /\ phase' = [phase EXCEPT ![c] = "sent"]
             /\ wire' = IF sends_write(c) THEN [wire EXCEPT ![c] = "sent"] ELSE wire
             /\ UNCHANGED <<answer, running>>
    <3>1. Moves(c) /\ phase'[c] = "sent"
      BY <1>1, <2>1 DEF Send, Moves, HonestInv, TypeOK
    <3>2. wire'[c] = IF sends_write(c) THEN "sent" ELSE "none"
      BY <1>1, <2>1 DEF Send, HonestInv, TypeOK, Honest
    <3>3. Honest(c)'
      BY <1>1, <3>1, <3>2 DEF Send, HonestInv, Honest, is_write, sends_write
    <3> QED
      BY <1>1, <3>1, <3>3, SameQueue DEF Send, Kept
  <2>2. CASE \E a \in Answers \ {"ok"} : Reply(c, a) /\ UNCHANGED wire
    <3>1. PICK a \in Answers \ {"ok"} : Reply(c, a) /\ UNCHANGED wire
      BY <2>2
    <3>2. Moves(c) /\ phase'[c] = "replied" /\ answer'[c] = a
      BY <1>1, <3>1, ReplyMoves DEF Send, HonestInv
    <3>3. Honest(c)'
      BY <1>1, <3>1, <3>2 DEF Send, HonestInv, Honest, is_write
    <3> QED
      BY <1>1, <3>2, <3>3, SameQueue DEF Send, Kept
  <2>3. ASSUME NEW failure
        PROVE  (IF sends_write(c) THEN write_transport_error(failure)
                ELSE read_transport_error(failure)) \in Answers \ {"ok"}
    BY ToldAnswers DEF Answers, ReadErrors
  <2>4. "Cancelled" \in Answers \ {"ok"}
    BY DEF Answers
  <2> QED
    BY <1>1, <2>1, <2>2, <2>3, <2>4 DEF Send
<1>2. CASE TransportFails(c)
  <2>1. PICK failure \in {"timeout", "broken"} :
          Reply(c, IF sends_write(c) THEN write_transport_error(failure)
                   ELSE read_transport_error(failure))
    BY <1>2 DEF TransportFails
  <2> DEFINE a == IF sends_write(c) THEN write_transport_error(failure)
                  ELSE read_transport_error(failure)
  <2>2. Moves(c) /\ phase'[c] = "replied" /\ answer'[c] = a
    BY <1>2, <2>1, ReplyMoves DEF TransportFails, HonestInv
  <2>3. a # "ok" /\ (sends_write(c) => a = "UnknownOutcome")
    BY ToldAnswers DEF write_transport_error
  <2>4. Honest(c)'
    BY <1>2, <2>2, <2>3 DEF TransportFails, HonestInv, Honest, is_write, sends_write
  <2> QED
    BY <1>2, <2>2, <2>4, SameQueue DEF TransportFails, Kept
<1>3. CASE ReadResponse(c)
  BY <1>3, ReadHonest DEF ReadResponse, is_write, WriteKinds
<1>4. CASE LookupResponse(c)
  <2>1. CASE \E a \in Answers \ {"ok"} : Reply(c, a) /\ UNCHANGED stage
    <3>1. PICK a \in Answers \ {"ok"} : Reply(c, a) /\ UNCHANGED stage
      BY <2>1
    <3>2. Moves(c) /\ phase'[c] = "replied" /\ answer'[c] = a
      BY <1>4, <3>1, ReplyMoves DEF LookupResponse, HonestInv
    <3>3. Honest(c)'
      BY <1>4, <3>1, <3>2 DEF LookupResponse, HonestInv, Honest, is_write, sends_write
    <3> QED
      BY <1>4, <3>2, <3>3, SameQueue DEF LookupResponse, Kept
  <2>2. CASE /\ stage' = [stage EXCEPT ![c] = "main"]
             /\ phase' = [phase EXCEPT ![c] = "running"]
             /\ UNCHANGED <<answer, running>>
    <3>1. Moves(c) /\ phase'[c] = "running"
      BY <1>4, <2>2 DEF LookupResponse, Moves, HonestInv, TypeOK
    <3>2. Honest(c)'
      BY <1>4, <3>1 DEF LookupResponse, HonestInv, Honest, is_write, sends_write
    <3> QED
      BY <1>4, <3>1, <3>2, SameQueue DEF LookupResponse, Kept
  <2> QED
    BY <1>4, <2>1, <2>2, ToldAnswers DEF LookupResponse
<1>5. CASE AttachmentResponse(c)
  BY <1>5, ReadHonest DEF AttachmentResponse, is_write, WriteKinds
<1>6. CASE PageResponse(c)
  <2>1. ~is_write(c)
    BY <1>6 DEF PageResponse, is_write, WriteKinds
  <2>2. CASE \E a : Reply(c, a)
    BY <1>6, <2>1, <2>2, ReadHonest DEF PageResponse
  <2>3. CASE /\ phase' = [phase EXCEPT ![c] = "running"]
             /\ UNCHANGED <<answer, running>>
    <3>1. Moves(c) /\ phase'[c] = "running"
      BY <1>6, <2>3 DEF PageResponse, Moves, HonestInv, TypeOK
    <3>2. Honest(c)'
      BY <1>6, <2>1, <3>1 DEF PageResponse, HonestInv, Honest, is_write, sends_write
    <3> QED
      BY <1>6, <3>1, <3>2, SameQueue DEF PageResponse, Kept
  <2> QED
    BY <1>6, <2>2, <2>3 DEF PageResponse
<1>7. CASE PageFails(c)
  BY <1>7, ReadHonest DEF PageFails, is_write, WriteKinds
<1>8. CASE WriteResponse(c)
  BY <1>8, WriteResponseHonest
<1> QED
  BY <1>1, <1>2, <1>3, <1>4, <1>5, <1>6, <1>7, <1>8

\* A job that leaves the queue has sent nothing, whatever it does next.
LEMMA QueuedHonest ==
  ASSUME HonestInv, NEW c \in Calls, phase[c] = "queued",
         UNCHANGED <<kind, wire, applied>>,
         phase'[c] \in {"running", "replied"},
         phase'[c] = "replied" => answer'[c] = "InvalidInput"
  PROVE  Honest(c)'
<1>1. /\ wire[c] = "none" /\ applied[c] = 0 /\ wire' = wire /\ applied' = applied
      /\ phase'[c] # "sent"
  BY DEF HonestInv, Honest
<1> QED
  BY <1>1 DEF Honest

\* The thread takes the job at the head of its queue.
LEMMA StartKeeps ==
  ASSUME HonestInv, Start
  PROVE  \E c \in Calls : Kept(c) /\ phase[c] = "queued" /\ phase'[c] # "done"
<1> USE DEF callerVars, pageVars, jiraVars
<1>0. PICK c \in Calls : c = Head(queue)
  BY HeadTailProperties DEF Start, HonestInv, TypeOK
<1>1. /\ c = queue[1] /\ Len(queue) \in Nat /\ Len(queue) > 0
      /\ queue' = Tail(queue) /\ Len(queue') = Len(queue) - 1
      /\ \A m \in 1 .. Len(queue') : queue'[m] = queue[m + 1]
  BY <1>0, HeadTailProperties DEF Start, HonestInv, TypeOK
<1>2. phase[c] = "queued"
  BY <1>1 DEF HonestInv, QueueInv
<1>3. \A m \in 1 .. Len(queue') : queue'[m] \in Calls \ {c}
                                  /\ phase[queue'[m]] = "queued"
  <2> TAKE m \in 1 .. Len(queue')
  <2>1. m + 1 \in 1 .. Len(queue) /\ 1 \in 1 .. Len(queue) /\ m + 1 # 1
    BY <1>1
  <2>2. queue[m + 1] # queue[1] /\ phase[queue[m + 1]] = "queued"
    BY <2>1 DEF HonestInv, QueueInv
  <2>3. queue[m + 1] \in Calls
    BY <2>1, ElementOfSeq DEF HonestInv, TypeOK
  <2> QED
    BY <1>1, <2>2, <2>3
<1>4. Moves(c) /\ Honest(c)' /\ phase'[c] # "done"
  <2>1. CASE doomed[c]
    <3>1. Reply(c, "InvalidInput") /\ UNCHANGED <<kind, stage, wire, applied>>
      BY <1>0, <2>1 DEF Start
    <3>2. Moves(c) /\ phase'[c] = "replied" /\ answer'[c] = "InvalidInput"
      BY <1>1, <1>2, <3>1, ReplyMoves DEF HonestInv
    <3> QED
      BY <1>2, <3>1, <3>2, QueuedHonest
  <2>2. CASE ~doomed[c]
    <3>1. Moves(c) /\ phase'[c] = "running"
      BY <1>0, <1>2, <2>2 DEF Start, Moves, HonestInv, TypeOK
    <3>2. UNCHANGED <<kind, wire, applied>>
      BY DEF Start
    <3> QED
      BY <1>2, <3>1, <3>2, QueuedHonest
  <2> QED
    BY <2>1, <2>2
<1>5. \A m, n \in 1 .. Len(queue') : queue'[m] = queue'[n] => m = n
  BY <1>1 DEF HonestInv, QueueInv
<1>6. QueueInv'
  <2>1. runtime' = "up"
    BY DEF Start
  <2>2. \A m \in 1 .. Len(queue') : phase'[queue'[m]] = "queued"
    BY <1>3, <1>4 DEF Moves
  <2> QED
    BY <1>5, <2>1, <2>2 DEF QueueInv
<1>7. Kept(c)
  BY <1>4, <1>6 DEF Start, Kept
<1> QED
  BY <1>2, <1>4, <1>7

\* The call itself, and what its caller does while it waits.
LEMMA CallHonest ==
  ASSUME HonestInv, NEW c \in Calls, Call(c)
  PROVE  Kept(c)
<1>1. PICK o \in Workload[c], f \in Flaws :
        /\ kind' = [kind EXCEPT ![c] = method(o).kind]
        /\ answer' = [answer EXCEPT ![c] = Preflight(c, o, f)]
        /\ phase' = [phase EXCEPT ![c] =
                        IF Preflight(c, o, f) = "none" THEN "ready" ELSE "done"]
  BY DEF Call
<1>2. o \in Ops
  BY GatewayAssumption
<1>3. /\ Moves(c) /\ phase[c] = "idle" /\ wire[c] = "none"
      /\ UNCHANGED <<wire, applied, queue, runtime, stage>>
  BY <1>1 DEF Call, Moves, HonestInv, TypeOK, Honest, pageVars, jiraVars
<1>4. /\ kind'[c] = method(o).kind /\ answer'[c] = Preflight(c, o, f)
      /\ phase'[c] \in {"ready", "done"}
  BY <1>1 DEF HonestInv, TypeOK
<1>5. answer'[c] = "ok" => kind'[c] \notin WriteKinds
  <2>1. Preflight(c, o, f) = "ok" => o = "fetch_issues_by_id"
    BY <1>2, PreflightAnswer
  <2>2. method(o).kind \in WriteKinds => o # "fetch_issues_by_id"
    BY <1>2, MethodKind
  <2> QED
    BY <1>4, <2>1, <2>2
<1>6. Honest(c)'
  BY <1>3, <1>4, <1>5 DEF HonestInv, Honest, is_write
<1> QED
  BY <1>3, <1>6, SameQueue DEF Kept

LEMMA DispatchHonest ==
  ASSUME HonestInv, NEW c \in Calls, Dispatch(c)
  PROVE  Kept(c)
<1> USE DEF callerVars, pageVars, jiraVars
<1>1. CASE \E a : /\ (a = "Cancelled" /\ ~is_write(c)) \/ a = Unavailable(c)
                  /\ Done(c, a) /\ UNCHANGED queue
  <2>1. PICK a : /\ (a = "Cancelled" /\ ~is_write(c)) \/ a = Unavailable(c)
                 /\ Done(c, a) /\ UNCHANGED queue
    BY <1>1
  <2>2. Moves(c) /\ phase'[c] = "done" /\ answer'[c] = a
    BY <2>1, DoneMoves DEF Dispatch, HonestInv
  <2>3. is_write(c) => a = "UnknownOutcome"
    BY <2>1 DEF Unavailable
  <2>4. Honest(c)'
    BY <2>2, <2>3 DEF Dispatch, HonestInv, Honest, is_write
  <2> QED
    BY <2>1, <2>2, <2>4, SameQueue DEF Dispatch, Kept
<1>2. CASE /\ runtime = "up"
           /\ queue' = Append(queue, c)
           /\ phase' = [phase EXCEPT ![c] = "queued"]
           /\ UNCHANGED answer
  <2>1. Moves(c) /\ phase'[c] = "queued"
    BY <1>2 DEF Dispatch, Moves, HonestInv, TypeOK
  <2>2. Honest(c)'
    BY <2>1 DEF Dispatch, HonestInv, Honest, is_write, sends_write
  <2>3. /\ Len(queue) \in Nat /\ Len(queue') = Len(queue) + 1
        /\ \A m \in 1 .. Len(queue) : queue'[m] = queue[m]
        /\ queue'[Len(queue) + 1] = c
    BY <1>2, AppendProperties DEF HonestInv, TypeOK
  <2>4. \A m \in 1 .. Len(queue) : queue[m] \in Calls \ {c}
    BY ElementOfSeq DEF Dispatch, HonestInv, TypeOK, QueueInv
  <2>5. \A m \in 1 .. Len(queue') : phase'[queue'[m]] = "queued"
    <3> TAKE m \in 1 .. Len(queue')
    <3>1. CASE m \in 1 .. Len(queue)
      BY <2>1, <2>3, <2>4, <3>1 DEF HonestInv, QueueInv, Moves
    <3>2. CASE m = Len(queue) + 1
      BY <2>1, <2>3, <3>2
    <3> QED
      BY <2>3, <3>1, <3>2
  <2>6. \A m, n \in 1 .. Len(queue') : queue'[m] = queue'[n] => m = n
    <3> TAKE m, n \in 1 .. Len(queue')
    <3>1. (m \in 1 .. Len(queue) \/ m = Len(queue) + 1)
            /\ (n \in 1 .. Len(queue) \/ n = Len(queue) + 1)
      BY <2>3
    <3> QED
      BY <2>3, <2>4, <3>1 DEF HonestInv, QueueInv
  <2>7. QueueInv'
    BY <1>2, <2>5, <2>6 DEF Dispatch, QueueInv
  <2> QED
    BY <2>1, <2>2, <2>7 DEF Dispatch, Kept
<1> QED
  BY <1>1, <1>2 DEF Dispatch

LEMMA CollectHonest ==
  ASSUME HonestInv, NEW c \in Calls, Collect(c)
  PROVE  Kept(c)
<1> USE DEF callerVars, pageVars, jiraVars
<1> DEFINE a == IF cancelled[c] /\ ~is_write(c) THEN "Cancelled" ELSE answer[c]
<1>1. Moves(c) /\ phase'[c] = "done" /\ answer'[c] = a
  BY DoneMoves DEF Collect, HonestInv
<1>2. Honest(c)'
  BY <1>1 DEF Collect, HonestInv, Honest, is_write
<1> QED
  BY <1>1, <1>2, SameQueue DEF Collect, Kept

LEMMA ChannelHonest ==
  ASSUME HonestInv, NEW c \in Calls, ChannelCloses(c)
  PROVE  Kept(c)
<1> USE DEF callerVars, pageVars, jiraVars
<1>1. Moves(c) /\ phase'[c] = "done" /\ answer'[c] = Unavailable(c)
  BY DoneMoves DEF ChannelCloses, HonestInv
<1>2. Honest(c)'
  BY <1>1 DEF ChannelCloses, HonestInv, Honest, is_write, Unavailable
<1>3. queue = <<>> /\ queue' = <<>>
  BY DEF ChannelCloses, HonestInv, QueueInv
<1>4. QueueInv'
  BY <1>3, EmptySeq DEF QueueInv
<1> QED
  BY <1>1, <1>2, <1>4 DEF ChannelCloses, Kept

\* Jira decides on a request of which the caller was told nothing, or nothing
\* certain.
LEMMA OnTheWire ==
  ASSUME HonestInv, NEW c \in Calls, wire[c] = "sent"
  PROVE  /\ applied[c] = 0 /\ is_write(c)
         /\ \/ phase[c] = "sent" /\ sends_write(c)
            \/ phase[c] \in {"replied", "done"} /\ answer[c] = "UnknownOutcome"
<1>1. applied[c] = 0 /\ is_write(c)
  BY DEF HonestInv, Honest
<1>2. phase[c] \in {"sent", "replied", "done"}
  BY DEF HonestInv, TypeOK, Phases, Honest
<1>3. phase[c] = "sent" => sends_write(c)
  BY DEF HonestInv, Honest
<1>4. phase[c] \in {"replied", "done"} => answer[c] = "UnknownOutcome"
  BY <1>1 DEF HonestInv, Honest
<1> QED
  BY <1>1, <1>2, <1>3, <1>4

LEMMA JiraHonest ==
  ASSUME HonestInv, NEW c \in Calls, JiraCarriesOut(c) \/ JiraTurnsDown(c)
  PROVE  QueueInv' /\ \A d \in Calls : Honest(d)'
<1> USE DEF callerVars, pageVars
<1>1. QueueInv'
  BY DEF JiraCarriesOut, JiraTurnsDown, HonestInv, QueueInv
<1>2. /\ applied[c] = 0 /\ is_write(c)
      /\ \/ phase[c] = "sent" /\ sends_write(c)
         \/ phase[c] \in {"replied", "done"} /\ answer[c] = "UnknownOutcome"
  BY OnTheWire DEF JiraCarriesOut, JiraTurnsDown
<1>3. ASSUME NEW d \in Calls PROVE Honest(d)'
  <2>1. CASE d = c
    <3>1. CASE JiraCarriesOut(c)
      BY <1>2, <2>1, <3>1 DEF JiraCarriesOut, HonestInv, TypeOK, Honest, is_write,
                              sends_write
    <3>2. CASE JiraTurnsDown(c)
      BY <1>2, <2>1, <3>2 DEF JiraTurnsDown, HonestInv, TypeOK, Honest, is_write,
                              sends_write
    <3> QED
      BY <3>1, <3>2
  <2>2. CASE d # c
    BY <2>2 DEF JiraCarriesOut, JiraTurnsDown, HonestInv, TypeOK, Honest, is_write,
                sends_write
  <2> QED
    BY <2>1, <2>2
<1> QED
  BY <1>1, <1>3

\* Every step of a call is one of those above.
LEMMA CallSteps ==
  ASSUME HonestInv, NEW c \in Calls,
         \/ Send(c) \/ TransportFails(c) \/ ReadResponse(c) \/ LookupResponse(c)
         \/ AttachmentResponse(c) \/ PageResponse(c) \/ PageFails(c)
         \/ WriteResponse(c) \/ Dispatch(c) \/ Collect(c) \/ ChannelCloses(c)
         \/ Call(c)
  PROVE  Kept(c)
  BY JobHonest, DispatchHonest, CollectHonest, ChannelHonest, CallHonest, Zenon

\* A step that is neither of a call nor of Jira.
Quiet == UNCHANGED <<phase, kind, stage, answer, wire, applied>>

LEMMA StepKinds ==
  ASSUME HonestInv, [Next]_vars
  PROVE  \/ \E c \in Calls : Kept(c)
         \/ \E c \in Calls : JiraCarriesOut(c) \/ JiraTurnsDown(c)
         \/ Quiet /\ QueueInv'
<1>1. CASE Start
  BY <1>1, StartKeeps
<1>2. CASE RuntimeStops
  <2>1. QueueInv'
    BY <1>2, EmptySeq DEF RuntimeStops, QueueInv
  <2> QED
    BY <1>2, <2>1 DEF RuntimeStops, Quiet, callerVars, jiraVars
<1>3. CASE UNCHANGED vars
  BY <1>3 DEF vars, Quiet, HonestInv, QueueInv
<1>4. ASSUME NEW c \in Calls, Cancel(c) PROVE Quiet /\ QueueInv'
  BY <1>4 DEF Cancel, Quiet, HonestInv, QueueInv, jiraVars
<1> QED
  BY <1>1, <1>2, <1>3, <1>4, NextCases, CallSteps, ZenonT(60)

LEMMA NextHonest ==
  ASSUME HonestInv, [Next]_vars
  PROVE  HonestInv'
<1>1. TypeOK'
  BY NextType DEF HonestInv
<1>2. CASE \E c \in Calls : Kept(c)
  BY <1>1, <1>2, OthersHonest DEF Kept, HonestInv
<1>3. CASE \E c \in Calls : JiraCarriesOut(c) \/ JiraTurnsDown(c)
  BY <1>1, <1>3, JiraHonest DEF HonestInv
<1>4. CASE Quiet /\ QueueInv'
  <2>1. \A c \in Calls : Honest(c)'
    BY <1>4 DEF Quiet, HonestInv, Honest, is_write, sends_write
  <2> QED
    BY <1>1, <1>4, <2>1 DEF HonestInv
<1> QED
  BY <1>2, <1>3, <1>4, StepKinds

LEMMA InitHonest == Init => HonestInv
<1> SUFFICES ASSUME Init PROVE HonestInv
  OBVIOUS
<1>1. QueueInv
  BY EmptySeq DEF Init, QueueInv
<1>2. \A c \in Calls : Honest(c)
  BY DEF Init, Honest, is_write, WriteKinds
<1> QED
  BY <1>1, <1>2, InitType DEF HonestInv

-----------------------------------------------------------------------------
(* The promise of RemoteWrite *)

\* What a caller was told agrees with what Jira did.
LEMMA ToldIsTrue ==
  ASSUME HonestInv, NEW c \in Calls
  PROVE  /\ told(c) \in {"none", "done", "unknown", "refused"}
         /\ phase[c] # "done" => told(c) = "none"
         /\ told(c) = "done" => applied[c] = 1
         /\ told(c) = "refused" => applied[c] = 0 /\ wire[c] # "sent"
<1>1. CASE phase[c] # "done" \/ ~is_write(c)
  BY <1>1 DEF told, is_write
<1>2. CASE phase[c] = "done" /\ is_write(c)
  <2>1. /\ answer[c] = "ok" => wire[c] = "carried"
        /\ answer[c] \notin {"ok", "UnknownOutcome"} =>
                wire[c] \in {"none", "turned_down"}
        /\ applied[c] = IF wire[c] = "carried" THEN 1 ELSE 0
    BY <1>2 DEF HonestInv, Honest
  <2>2. CASE answer[c] = "ok"
    BY <1>2, <2>1, <2>2 DEF told
  <2>3. CASE answer[c] = "UnknownOutcome"
    BY <1>2, <2>3 DEF told
  <2>4. CASE answer[c] \notin {"ok", "UnknownOutcome"}
    <3>1. told(c) = "refused"
      BY <1>2, <2>4 DEF told
    <3> QED
      BY <1>2, <2>1, <2>4, <3>1
  <2> QED
    BY <2>2, <2>3, <2>4
<1> QED
  BY <1>1, <1>2

\* The same, as a formula of every state.
LEMMA ToldIsTrueAlways ==
  HonestInv => \A c \in Calls :
                 /\ told(c) \in {"none", "done", "unknown", "refused"}
                 /\ told(c) = "done" => applied[c] = 1
                 /\ told(c) = "refused" => applied[c] = 0
  BY ToldIsTrue

LEMMA InitPromise == Init => Promise!Init
  BY DEF Init, Promise!Init, told

\* Every step of the client is one the promise allows, or none it sees.
LEMMA NextPromise ==
  ASSUME HonestInv, [Next]_vars
  PROVE  [Promise!Next]_<<applied, [c \in Calls |-> told(c)]>>
<1> DEFINE all == [c \in Calls |-> told(c)]
<1>1. \A c \in Calls :
        /\ told(c)' \in {"none", "done", "unknown", "refused"}
        /\ told(c)' = "done" => applied'[c] = 1
        /\ told(c)' = "refused" => applied'[c] = 0
  <2>1. HonestInv'
    BY NextHonest
  <2>2. (HonestInv => \A c \in Calls :
                       /\ told(c) \in {"none", "done", "unknown", "refused"}
                       /\ told(c) = "done" => applied[c] = 1
                       /\ told(c) = "refused" => applied[c] = 0)'
    BY ToldIsTrueAlways, PTL
  <2> QED
    BY <2>1, <2>2
<1>2. ASSUME NEW c \in Calls, Kept(c)
      PROVE  [Promise!Next]_<<applied, all>>
  <2>1. \A d \in Calls \ {c} : told(d)' = told(d)
    BY <1>2 DEF Kept, Moves, told, is_write
  <2>2. told(c) = "none" /\ UNCHANGED applied
    BY <1>2, ToldIsTrue DEF Kept, Moves
  <2>3. all' = [all EXCEPT ![c] = told(c)']
    BY <2>1
  <2>4. CASE told(c)' = "none"
    BY <2>2, <2>3, <2>4
  <2>5. CASE told(c)' # "none"
    <3>1. /\ told(c)' \in {"done", "unknown", "refused"}
          /\ told(c)' = "done" => applied[c] = 1
          /\ told(c)' = "refused" => applied[c] = 0
      BY <1>1, <2>2, <2>5
    <3>2. Promise!Answer(c, told(c)')
      BY <2>2, <2>3, <3>1 DEF Promise!Answer
    <3> QED
      BY <3>1, <3>2 DEF Promise!Next, Promise!Answers
  <2> QED
    BY <2>4, <2>5
<1>3. ASSUME NEW c \in Calls, JiraCarriesOut(c)
      PROVE  [Promise!Next]_<<applied, all>>
  <2>1. all' = all
    BY <1>3 DEF JiraCarriesOut, told, is_write, callerVars
  <2>2. applied[c] = 0 /\ told(c) \in {"none", "unknown"}
    <3>1. /\ applied[c] = 0 /\ is_write(c)
          /\ phase[c] # "done" \/ answer[c] = "UnknownOutcome"
      BY <1>3, OnTheWire DEF JiraCarriesOut
    <3>2. CASE phase[c] # "done"
      BY <3>1, <3>2 DEF told, is_write
    <3>3. CASE phase[c] = "done"
      BY <3>1, <3>3 DEF told
    <3> QED
      BY <3>1, <3>2, <3>3
  <2>3. applied' = [applied EXCEPT ![c] = 1]
    BY <1>3, <2>2 DEF JiraCarriesOut, HonestInv, TypeOK
  <2>4. Promise!TakeEffect(c)
    BY <2>1, <2>2, <2>3 DEF Promise!TakeEffect
  <2> QED
    BY <2>4 DEF Promise!Next
<1>4. ASSUME NEW c \in Calls, JiraTurnsDown(c)
      PROVE  [Promise!Next]_<<applied, all>>
  BY <1>4 DEF JiraTurnsDown, told, is_write, callerVars
<1>5. CASE Quiet
  BY <1>5 DEF Quiet, told, is_write
<1> QED
  BY <1>2, <1>3, <1>4, <1>5, StepKinds

\* Whatever is lost, cancelled, answered late or stopped, Jira carries a write
\* out at most once, one told as done was carried out, and one told as refused
\* never is: the client refines RemoteWrite.
THEOREM ClientKeepsItsPromise == Spec => WritesAreHonest
<1>1. Init => HonestInv
  BY InitHonest
<1>2. HonestInv /\ [Next]_vars => HonestInv'
  BY NextHonest
<1>3. Init => Promise!Init
  BY InitPromise
<1>4. HonestInv /\ [Next]_vars
        => [Promise!Next]_<<applied, [c \in Calls |-> told(c)]>>
  BY NextPromise
<1> QED
  BY <1>1, <1>2, <1>3, <1>4, PTL DEF Spec, WritesAreHonest, Promise!Spec

-----------------------------------------------------------------------------
(* A job that reads pages answers when there are no more *)

\* Only a job that reads pages can have been offered more, and one that was is
\* not answered.
OfferedMore(c) ==
    /\ more[c] => kind[c] \in {"issue_ids", "changelog"} /\ phase[c] # "idle"
    /\ answer[c] = "ok" => ~more[c] /\ phase[c] \in {"replied", "done"}

PageInv == \A c \in Calls : OfferedMore(c)

\* An answer keeps it that is not "ok", or comes when there are no more pages.
LEMMA AnswerKeepsPages ==
  ASSUME TypeOK, PageInv, NEW c \in Calls, NEW a, Reply(c, a) \/ Done(c, a),
         UNCHANGED <<kind, more>>, a = "ok" => ~more[c]
  PROVE  PageInv'
<1>1. \A d \in Calls \ {c} : phase'[d] = phase[d] /\ answer'[d] = answer[d]
  BY DEF TypeOK, Reply, Done
<1>2. phase'[c] \in {"replied", "done"} /\ answer'[c] = a
  BY DEF TypeOK, Reply, Done
<1> QED
  BY <1>1, <1>2 DEF PageInv, OfferedMore

\* A call that goes on keeps it.
LEMMA GoingOnKeepsPages ==
  ASSUME TypeOK, PageInv, NEW c \in Calls, phase[c] \notin {"replied", "done"},
         NEW p, p # "idle", phase' = [phase EXCEPT ![c] = p],
         UNCHANGED <<kind, more, answer>>
  PROVE  PageInv'
<1>1. \A d \in Calls \ {c} : phase'[d] = phase[d]
  BY DEF TypeOK
<1>2. phase'[c] = p
  BY DEF TypeOK
<1> QED
  BY <1>1, <1>2 DEF PageInv, OfferedMore

LEMMA PageResponseKeepsPages ==
  ASSUME TypeOK, PageInv, NEW c \in Calls, PageResponse(c)
  PROVE  PageInv'
<1>1. PICK next, is_last :
        /\ more' = [more EXCEPT ![c] = next # None /\ ~is_last]
        /\ CASE advance(c, next, is_last) = "complete" ->
                    Reply(c, "ok") /\ UNCHANGED token
             [] advance(c, next, is_last) = "error" ->
                    Reply(c, "Upstream") /\ UNCHANGED token
             [] OTHER ->
                    /\ token' = [token EXCEPT ![c] = next]
                    /\ phase' = [phase EXCEPT ![c] = "running"]
                    /\ UNCHANGED <<answer, running>>
  BY Zenon DEF PageResponse
<1>2. /\ phase[c] = "sent" /\ kind[c] \in {"issue_ids", "changelog"} /\ UNCHANGED kind
      /\ answer[c] # "ok"
  BY DEF PageResponse, callerVars, PageInv, OfferedMore
<1>3. /\ \A d \in Calls \ {c} : more'[d] = more[d]
      /\ more'[c] = (next # None /\ ~is_last)
  BY <1>1 DEF TypeOK
<1>4. \/ Reply(c, "ok") /\ advance(c, next, is_last) = "complete"
      \/ Reply(c, "Upstream")
      \/ phase' = [phase EXCEPT ![c] = "running"] /\ UNCHANGED answer
  BY <1>1
<1>5. advance(c, next, is_last) = "complete" => ~more'[c]
  BY <1>3 DEF advance
<1>6. /\ \A d \in Calls \ {c} : phase'[d] = phase[d] /\ answer'[d] = answer[d]
      /\ phase'[c] # "idle"
      /\ answer'[c] = "ok" => ~more'[c] /\ phase'[c] \in {"replied", "done"}
  BY <1>2, <1>4, <1>5 DEF Reply, TypeOK
<1> QED
  BY <1>2, <1>3, <1>6 DEF PageInv, OfferedMore

\* The other steps of the client's thread.
LEMMA JobKeepsPages ==
  ASSUME TypeOK, PageInv, NEW c \in Calls,
         \/ Send(c) \/ TransportFails(c) \/ ReadResponse(c) \/ LookupResponse(c)
         \/ AttachmentResponse(c) \/ PageFails(c) \/ WriteResponse(c)
  PROVE  PageInv'
<1> USE DEF callerVars, pageVars
<1>0. more[c] => kind[c] \in {"issue_ids", "changelog"}
  BY DEF PageInv, OfferedMore
<1>1. ASSUME NEW failure, NEW a, a = write_transport_error(failure)
                              \/ a = read_transport_error(failure)
      PROVE  a # "ok"
  BY <1>1, ToldAnswers
<1>2. CASE Send(c)
  <2>1. phase[c] = "running" /\ UNCHANGED <<kind, more>>
    BY <1>2 DEF Send
  <2>2. CASE phase' = [phase EXCEPT ![c] = "sent"] /\ UNCHANGED answer
    BY <2>1, <2>2, GoingOnKeepsPages
  <2>3. CASE Reply(c, "Cancelled")
    BY <2>1, <2>3, AnswerKeepsPages
  <2>4. ASSUME NEW failure, Reply(c, IF sends_write(c) THEN write_transport_error(failure)
                                     ELSE read_transport_error(failure))
        PROVE  PageInv'
    BY <1>1, <2>1, <2>4, AnswerKeepsPages
  <2> QED
    BY <1>2, <2>2, <2>3, <2>4, Zenon DEF Send
<1>3. CASE TransportFails(c)
  <2>1. UNCHANGED <<kind, more>>
    BY <1>3 DEF TransportFails
  <2>2. PICK failure : Reply(c, IF sends_write(c) THEN write_transport_error(failure)
                                ELSE read_transport_error(failure))
    BY <1>3 DEF TransportFails
  <2> QED
    BY <1>1, <2>1, <2>2, AnswerKeepsPages
<1>4. CASE ReadResponse(c)
  <2>1. UNCHANGED <<kind, more>> /\ ~more[c]
    BY <1>0, <1>4 DEF ReadResponse
  <2>2. PICK a : Reply(c, a)
    BY <1>4, Zenon DEF ReadResponse
  <2> QED
    BY <2>1, <2>2, AnswerKeepsPages
<1>5. CASE LookupResponse(c)
  <2>1. UNCHANGED <<kind, more>> /\ ~more[c] /\ phase[c] = "sent"
    BY <1>0, <1>5 DEF LookupResponse
  <2>2. \/ phase' = [phase EXCEPT ![c] = "running"] /\ UNCHANGED answer
        \/ \E a : Reply(c, a)
    BY <1>5, Zenon DEF LookupResponse
  <2> QED
    BY <2>1, <2>2, AnswerKeepsPages, GoingOnKeepsPages
<1>6. CASE AttachmentResponse(c)
  <2>1. UNCHANGED <<kind, more>> /\ ~more[c]
    BY <1>0, <1>6 DEF AttachmentResponse
  <2>2. PICK a : Reply(c, a)
    BY <1>6, Zenon DEF AttachmentResponse
  <2> QED
    BY <2>1, <2>2, AnswerKeepsPages
<1>7. CASE PageFails(c)
  <2>1. UNCHANGED <<kind, more>>
    BY <1>7 DEF PageFails
  <2>2. PICK status \in ReadStatuses, body \in Bodies :
          /\ status # "success" \/ body # "ok"
          /\ Reply(c, IF status = "success" THEN read_body(body)
                      ELSE read_status_error(status))
    BY <1>7 DEF PageFails
  <2>3. (IF status = "success" THEN read_body(body) ELSE read_status_error(status)) # "ok"
    <3>1. body # "ok" => read_body(body) # "ok"
      BY DEF read_body
    <3>2. read_status_error(status) # "ok"
      BY ToldAnswers
    <3> QED
      BY <2>2, <3>1, <3>2
  <2> QED
    BY <2>1, <2>2, <2>3, AnswerKeepsPages
<1>8. CASE WriteResponse(c)
  <2>1. UNCHANGED <<kind, more>> /\ ~more[c]
    BY <1>0, <1>8 DEF WriteResponse, sends_write, is_write, WriteKinds
  <2>2. PICK a : Reply(c, a)
    BY <1>8, Zenon DEF WriteResponse
  <2> QED
    BY <2>1, <2>2, AnswerKeepsPages
<1> QED
  BY <1>2, <1>3, <1>4, <1>5, <1>6, <1>7, <1>8

\* The steps of the callers.
LEMMA CallerKeepsPages ==
  ASSUME TypeOK, PageInv, NEW c \in Calls,
         Call(c) \/ Dispatch(c) \/ Collect(c) \/ ChannelCloses(c)
  PROVE  PageInv'
<1> USE DEF callerVars, pageVars
<1>1. Unavailable(c) # "ok"
  BY DEF Unavailable
<1>2. CASE Call(c)
  <2>1. phase[c] = "idle" /\ UNCHANGED more /\ ~more[c]
    BY <1>2 DEF Call, PageInv, OfferedMore
  <2>2. PICK o, f :
          /\ kind' = [kind EXCEPT ![c] = method(o).kind]
          /\ answer' = [answer EXCEPT ![c] = Preflight(c, o, f)]
          /\ phase' = [phase EXCEPT ![c] =
                          IF Preflight(c, o, f) = "none" THEN "ready" ELSE "done"]
    BY <1>2, Zenon DEF Call
  <2>3. \A d \in Calls \ {c} :
          phase'[d] = phase[d] /\ kind'[d] = kind[d] /\ answer'[d] = answer[d]
    BY <2>2 DEF TypeOK
  <2>4. answer'[c] = "ok" => phase'[c] = "done"
    BY <2>2 DEF TypeOK
  <2> QED
    BY <2>1, <2>3, <2>4 DEF PageInv, OfferedMore
<1>3. CASE Dispatch(c)
  <2>1. phase[c] = "ready" /\ UNCHANGED <<kind, more>>
    BY <1>3 DEF Dispatch
  <2>2. \/ Done(c, "Cancelled") \/ Done(c, Unavailable(c))
        \/ phase' = [phase EXCEPT ![c] = "queued"] /\ UNCHANGED answer
    BY <1>3 DEF Dispatch
  <2> QED
    BY <1>1, <2>1, <2>2, AnswerKeepsPages, GoingOnKeepsPages
<1>4. CASE Collect(c)
  <2>1. UNCHANGED <<kind, more>>
    BY <1>4 DEF Collect
  <2>2. PICK a : Done(c, a) /\ a \in {"Cancelled", answer[c]}
    BY <1>4 DEF Collect
  <2> QED
    BY <2>1, <2>2, AnswerKeepsPages DEF PageInv, OfferedMore
<1>5. CASE ChannelCloses(c)
  <2>1. UNCHANGED <<kind, more>> /\ Done(c, Unavailable(c))
    BY <1>5 DEF ChannelCloses
  <2> QED
    BY <1>1, <2>1, AnswerKeepsPages
<1> QED
  BY <1>2, <1>3, <1>4, <1>5

LEMMA NextKeepsPages ==
  ASSUME HonestInv, PageInv, [Next]_vars
  PROVE  PageInv'
<1> USE DEF callerVars, pageVars, jiraVars
<1>1. TypeOK
  BY DEF HonestInv
<1>2. CASE Start
  <2> DEFINE c == Head(queue)
  <2>1. c \in Calls /\ phase[c] = "queued" /\ UNCHANGED <<kind, more>>
    <3>1. queue # <<>> /\ queue \in Seq(Calls)
      BY <1>1, <1>2 DEF Start, TypeOK
    <3>2. c = queue[1] /\ 1 \in 1 .. Len(queue) /\ c \in Calls
      BY <3>1
    <3> QED
      BY <1>2, <3>2 DEF Start, HonestInv, QueueInv
  <2>2. \/ Reply(c, "InvalidInput")
        \/ phase' = [phase EXCEPT ![c] = "running"] /\ UNCHANGED answer
    BY <1>2 DEF Start
  <2> HIDE DEF c
  <2> QED
    BY <1>1, <2>1, <2>2, AnswerKeepsPages, GoingOnKeepsPages
<1>3. CASE RuntimeStops \/ UNCHANGED vars
  BY <1>3 DEF RuntimeStops, vars, PageInv, OfferedMore
<1>4. ASSUME NEW c \in Calls, Cancel(c) \/ JiraCarriesOut(c) \/ JiraTurnsDown(c)
      PROVE  PageInv'
  BY <1>4 DEF Cancel, JiraCarriesOut, JiraTurnsDown, PageInv, OfferedMore
<1> QED
  BY <1>1, <1>2, <1>3, <1>4, NextCases, JobKeepsPages, CallerKeepsPages,
     PageResponseKeepsPages, ZenonT(60)

\* Whatever pages Jira offers, however it ends them, and wherever the call is
\* cancelled, fails or loses the thread: what is answered is complete.
THEOREM SearchesAreComplete == Spec => []PagesAreComplete
<1>1. Init => PageInv
  BY DEF Init, PageInv, OfferedMore
<1>2. Init => HonestInv
  BY InitHonest
<1>3. HonestInv /\ [Next]_vars => HonestInv'
  BY NextHonest
<1>4. HonestInv /\ PageInv /\ [Next]_vars => PageInv'
  BY NextKeepsPages
<1>5. PageInv => PagesAreComplete
  BY DEF PageInv, OfferedMore, PagesAreComplete
<1> QED
  BY <1>1, <1>2, <1>3, <1>4, <1>5, PTL DEF Spec

-----------------------------------------------------------------------------
(* Every call is answered *)

ReadsPages(c) == kind[c] \in {"issue_ids", "changelog"}

\* A call that waits is where its answer will come from: in the queue, or the
\* one the thread runs; and a job that reads pages may read another.
Found(c) ==
    /\ phase[c] \in {"idle", "ready", "queued"} => pages[c] = 0
    /\ ReadsPages(c) => pages[c] <= max_pages(c)
    /\ ReadsPages(c) /\ phase[c] \in {"running", "sent"} => pages[c] < max_pages(c)
    /\ runtime = "up" /\ phase[c] = "queued" => \E m \in 1 .. Len(queue) : queue[m] = c
    /\ runtime = "up" /\ phase[c] \in {"running", "sent"} => running = c

ThreadInv ==
    /\ running # None => runtime = "up" /\ phase[running] \in {"running", "sent"}
    /\ \A c \in Calls : Found(c)

\* How often a job that is running may still go back for another request.
Rounds(c) ==
    IF ReadsPages(c) THEN max_pages(c) - pages[c] - 1
    ELSE IF kind[c] = "unwatch" /\ stage[c] = "lookup" THEN 1 ELSE 0

MaxRounds == MaxIssueIdPages + MaxChangelogPages

\* The steps a call may still take until it is done.
StepsLeft(c) ==
    CASE phase[c] = "done"    -> 0
      [] phase[c] = "replied" -> 1
      [] phase[c] = "sent"    -> 2 + 2 * Rounds(c)
      [] phase[c] = "running" -> 3 + 2 * Rounds(c)
      [] phase[c] = "queued"  -> 4 + 2 * MaxRounds
      [] phase[c] = "ready"   -> 5 + 2 * MaxRounds
      [] OTHER                -> 6 + 2 * MaxRounds

LEMMA LimitsArePositive ==
  ASSUME NEW c
  PROVE  /\ max_pages(c) \in Nat \ {0} /\ MaxRounds \in Nat
         /\ max_pages(c) <= MaxRounds /\ 2 <= MaxRounds
  BY GatewayAssumption DEF max_pages, MaxRounds

LEMMA RoundsLeft ==
  ASSUME TypeOK, NEW c \in Calls, Found(c), phase[c] \in {"running", "sent"}
  PROVE  Rounds(c) \in Nat /\ Rounds(c) < MaxRounds
<1>1. pages[c] \in Nat /\ (ReadsPages(c) => pages[c] < max_pages(c))
  BY DEF TypeOK, Found
<1>2. /\ max_pages(c) \in Nat \ {0} /\ MaxRounds \in Nat
      /\ max_pages(c) <= MaxRounds /\ 2 <= MaxRounds
  BY LimitsArePositive
<1> QED
  BY <1>1, <1>2 DEF Rounds

LEMMA StepsLeftType ==
  ASSUME TypeOK, NEW c \in Calls, Found(c)
  PROVE  /\ StepsLeft(c) \in 0 .. 6 + 2 * MaxRounds
         /\ StepsLeft(c) = 0 <=> phase[c] = "done"
<1>1. MaxRounds \in Nat
  BY LimitsArePositive
<1>2. CASE phase[c] \in {"running", "sent"}
  <2>1. Rounds(c) \in Nat /\ Rounds(c) < MaxRounds
    BY <1>2, RoundsLeft
  <2> HIDE DEF Rounds, MaxRounds
  <2>2. CASE phase[c] = "sent"
    <3>1. StepsLeft(c) = 2 + 2 * Rounds(c)
      BY <2>2 DEF StepsLeft
    <3> QED
      BY <1>1, <2>1, <2>2, <3>1
  <2>3. CASE phase[c] = "running"
    <3>1. StepsLeft(c) = 3 + 2 * Rounds(c)
      BY <2>3 DEF StepsLeft
    <3> QED
      BY <1>1, <2>1, <2>3, <3>1
  <2> QED
    BY <1>2, <2>2, <2>3
<1>3. CASE phase[c] \notin {"running", "sent"}
  <2>1. \/ phase[c] = "done" /\ StepsLeft(c) = 0
        \/ phase[c] # "done" /\ StepsLeft(c) \in {1, 4 + 2 * MaxRounds, 5 + 2 * MaxRounds,
                                                 6 + 2 * MaxRounds}
    BY <1>3 DEF StepsLeft
  <2> HIDE DEF MaxRounds
  <2> QED
    BY <1>1, <2>1
<1> QED
  BY <1>2, <1>3

-----------------------------------------------------------------------------
(* What a step of one call does *)

\* The call nears its answer, and the others are where they were.
Nears(c) ==
    /\ phase[c] # "done"
    /\ \A d \in Calls \ {c} :
          /\ phase'[d] = phase[d] /\ kind'[d] = kind[d] /\ stage'[d] = stage[d]
          /\ pages'[d] = pages[d]
    /\ StepsLeft(c)' < StepsLeft(c)
    /\ ThreadInv'

\* A job answers.
LEMMA AnswerNears ==
  ASSUME HonestInv, ThreadInv, NEW c \in Calls, NEW a, Reply(c, a),
         phase[c] \in {"running", "sent"}, running = c,
         UNCHANGED <<kind, stage, queue, runtime>>,
         \A d \in Calls \ {c} : pages'[d] = pages[d],
         ReadsPages(c) => pages'[c] <= max_pages(c)
  PROVE  Nears(c)
<1>1. TypeOK /\ Found(c)
  BY DEF HonestInv, ThreadInv
<1>2. /\ phase'[c] = "replied" /\ running' = None
      /\ \A d \in Calls \ {c} : phase'[d] = phase[d]
  BY <1>1 DEF Reply, TypeOK
<1>3. StepsLeft(c)' < StepsLeft(c)
  <2>1. StepsLeft(c)' = 1
    BY <1>2 DEF StepsLeft
  <2>2. Rounds(c) \in Nat /\ StepsLeft(c) \in {2 + 2 * Rounds(c), 3 + 2 * Rounds(c)}
    BY <1>1, RoundsLeft DEF StepsLeft
  <2> QED
    BY <2>1, <2>2
<1>4. Found(c)'
  BY <1>2 DEF Found, ReadsPages, max_pages
<1>5. ASSUME NEW d \in Calls \ {c} PROVE Found(d)'
  <2>1. Found(d) /\ phase'[d] = phase[d] /\ pages'[d] = pages[d]
    BY <1>2 DEF ThreadInv
  <2>2. running # d /\ ~(runtime = "up" /\ phase[d] \in {"running", "sent"})
    BY <2>1 DEF Found
  <2> QED
    BY <2>1, <2>2 DEF Found, ReadsPages, max_pages
<1>6. ThreadInv'
  BY <1>2, <1>4, <1>5 DEF ThreadInv
<1> QED
  BY <1>2, <1>3, <1>6 DEF Nears

\* A job goes on: it sends a request, or goes back for another one.
LEMMA GoingOnNears ==
  ASSUME HonestInv, ThreadInv, NEW c \in Calls, NEW p \in {"running", "sent"},
         phase' = [phase EXCEPT ![c] = p],
         phase[c] \in {"running", "sent"}, running = c,
         UNCHANGED <<kind, queue, runtime, running>>,
         \A d \in Calls \ {c} : pages'[d] = pages[d] /\ stage'[d] = stage[d],
         pages'[c] \in Nat, ReadsPages(c) => pages'[c] < max_pages(c),
         \/ phase[c] = "running" /\ p = "sent" /\ Rounds(c)' = Rounds(c)
         \/ phase[c] = "sent" /\ p = "running" /\ Rounds(c)' < Rounds(c)
  PROVE  Nears(c)
<1>1. TypeOK /\ Found(c)
  BY DEF HonestInv, ThreadInv
<1>2. phase'[c] = p /\ \A d \in Calls \ {c} : phase'[d] = phase[d]
  BY <1>1 DEF TypeOK
<1>3. Rounds(c) \in Nat /\ max_pages(c) \in Nat /\ UNCHANGED max_pages(c)
  BY <1>1, RoundsLeft, LimitsArePositive DEF max_pages
<1>4. Rounds(c)' \in Int
  BY <1>3 DEF Rounds
<1>5. StepsLeft(c)' < StepsLeft(c)
  <2>1. CASE phase[c] = "running" /\ p = "sent" /\ Rounds(c)' = Rounds(c)
    <3>1. StepsLeft(c)' = 2 + 2 * Rounds(c)' /\ StepsLeft(c) = 3 + 2 * Rounds(c)
      BY <1>2, <2>1 DEF StepsLeft
    <3> QED
      BY <1>3, <2>1, <3>1
  <2>2. CASE phase[c] = "sent" /\ p = "running" /\ Rounds(c)' < Rounds(c)
    <3>1. StepsLeft(c)' = 3 + 2 * Rounds(c)' /\ StepsLeft(c) = 2 + 2 * Rounds(c)
      BY <1>2, <2>2 DEF StepsLeft
    <3> QED
      BY <1>3, <1>4, <2>2, <3>1
  <2> QED
    BY <2>1, <2>2
<1>6. Found(c)'
  <2>1. ReadsPages(c) => pages'[c] <= max_pages(c)
    BY <1>3
  <2> QED
    BY <1>2, <2>1 DEF Found, ReadsPages, max_pages
<1>7. ASSUME NEW d \in Calls \ {c} PROVE Found(d)'
  BY <1>2 DEF ThreadInv, Found, ReadsPages, max_pages
<1>8. ThreadInv'
  BY <1>2, <1>6, <1>7 DEF ThreadInv
<1> QED
  BY <1>2, <1>5, <1>8 DEF Nears

\* A caller's step: the call is done, or has its job queued.
LEMMA CallerNears ==
  ASSUME HonestInv, ThreadInv, NEW c \in Calls,
         Call(c) \/ Dispatch(c) \/ Collect(c) \/ ChannelCloses(c)
  PROVE  Nears(c)
<1> USE DEF callerVars, pageVars
<1>1. TypeOK /\ Found(c) /\ MaxRounds \in Nat
  BY LimitsArePositive DEF HonestInv, ThreadInv
<1>2. /\ \A d \in Calls \ {c} : phase'[d] = phase[d] /\ kind'[d] = kind[d]
      /\ UNCHANGED <<stage, pages, running, runtime>>
      /\ phase[c] \in {"idle", "ready", "replied"} \/ runtime = "stopped"
      /\ phase[c] # "done"
  BY <1>1 DEF Call, Dispatch, Collect, ChannelCloses, Done, TypeOK
<1>3. \/ phase'[c] = "done"
      \/ phase[c] = "idle" /\ phase'[c] = "ready" /\ UNCHANGED queue
      \/ phase[c] = "ready" /\ phase'[c] = "queued" /\ queue' = Append(queue, c)
  BY <1>1 DEF Call, Dispatch, Collect, ChannelCloses, Done, TypeOK
<1>4. phase'[c] = "done" => UNCHANGED queue
  BY <1>1 DEF Call, Dispatch, Collect, ChannelCloses, Done, TypeOK
<1>5. StepsLeft(c)' < StepsLeft(c)
  <2>1. CASE phase'[c] = "done"
    <3>1. StepsLeft(c)' = 0
      BY <2>1 DEF StepsLeft
    <3> QED
      BY <1>1, <1>2, <3>1, StepsLeftType
  <2>2. CASE phase[c] = "idle" /\ phase'[c] = "ready"
    <3>1. StepsLeft(c)' = 5 + 2 * MaxRounds /\ StepsLeft(c) = 6 + 2 * MaxRounds
      BY <2>2 DEF StepsLeft, MaxRounds
    <3> QED
      BY <1>1, <3>1
  <2>3. CASE phase[c] = "ready" /\ phase'[c] = "queued"
    <3>1. StepsLeft(c)' = 4 + 2 * MaxRounds /\ StepsLeft(c) = 5 + 2 * MaxRounds
      BY <2>3 DEF StepsLeft, MaxRounds
    <3> QED
      BY <1>1, <3>1
  <2> QED
    BY <1>3, <2>1, <2>2, <2>3
<1>6. Found(c)'
  <2>1. phase'[c] # "idle" => phase'[c] \notin {"running", "sent"}
    BY <1>3
  <2>2. (ReadsPages(c) => pages[c] <= max_pages(c))'
    <3>1. CASE Call(c)
      <4>1. pages'[c] = 0
        BY <1>1, <1>2, <3>1 DEF Call, Found
      <4>2. max_pages(c)' \in Nat
        BY GatewayAssumption DEF max_pages
      <4> QED
        BY <4>1, <4>2
    <3>2. CASE UNCHANGED kind
      BY <1>1, <1>2, <3>2 DEF Found, ReadsPages, max_pages
    <3> QED
      BY <3>1, <3>2 DEF Dispatch, Collect, ChannelCloses
  <2>3. phase'[c] \in {"idle", "ready", "queued"} => pages'[c] = 0
    BY <1>1, <1>2, <1>3 DEF Found
  <2>4. phase'[c] = "queued" => \E m \in 1 .. Len(queue') : queue'[m] = c
    <3>1. queue \in Seq(Calls)
      BY <1>1 DEF TypeOK
    <3>2. ASSUME queue' = Append(queue, c)
          PROVE  Len(queue') = Len(queue) + 1 /\ queue'[Len(queue) + 1] = c
      BY <3>1, <3>2
    <3> QED
      BY <1>3, <3>1, <3>2
  <2> QED
    BY <1>3, <2>2, <2>3, <2>4 DEF Found
<1>7. ASSUME NEW d \in Calls \ {c} PROVE Found(d)'
  <2>1. Found(d) /\ queue \in Seq(Calls)
    BY <1>1 DEF ThreadInv, TypeOK
  <2>2. \A m \in 1 .. Len(queue) : m \in 1 .. Len(queue') /\ queue'[m] = queue[m]
    BY <1>3, <1>4, <2>1
  <2> QED
    BY <1>2, <2>1, <2>2 DEF Found, ReadsPages, max_pages
<1>8. running # None => runtime' = "up" /\ phase'[running] \in {"running", "sent"}
  <2>1. running # None => runtime = "up" /\ phase[running] \in {"running", "sent"}
    BY DEF ThreadInv
  <2>2. running # None => running # c
    BY <1>2, <2>1
  <2> QED
    BY <1>1, <1>2, <2>1, <2>2 DEF TypeOK
<1> QED
  BY <1>2, <1>5, <1>6, <1>7, <1>8 DEF Nears, ThreadInv

\* The steps of the client's thread with the job it runs.
LEMMA JobNears ==
  ASSUME HonestInv, ThreadInv, NEW c \in Calls,
         \/ Send(c) \/ TransportFails(c) \/ ReadResponse(c) \/ LookupResponse(c)
         \/ AttachmentResponse(c) \/ PageResponse(c) \/ PageFails(c) \/ WriteResponse(c)
  PROVE  Nears(c)
<1> USE DEF callerVars, pageVars
<1>0. TypeOK /\ Found(c) /\ pages[c] \in Nat
  BY DEF HonestInv, ThreadInv, TypeOK
<1>1. CASE Send(c)
  <2>1. /\ phase[c] = "running" /\ running = c
        /\ UNCHANGED <<kind, stage, pages, queue, runtime>>
    BY <1>1 DEF Send
  <2>2. \/ phase' = [phase EXCEPT ![c] = "sent"] /\ UNCHANGED running
        \/ \E a : Reply(c, a)
    BY <1>1, Zenon DEF Send
  <2>3. CASE phase' = [phase EXCEPT ![c] = "sent"] /\ UNCHANGED running
    <3>1. Rounds(c)' = Rounds(c)
      BY <2>1 DEF Rounds, ReadsPages, max_pages
    <3> QED
      BY <1>0, <2>1, <2>3, <3>1, GoingOnNears DEF Found
  <2>4. CASE \E a : Reply(c, a)
    BY <1>0, <2>1, <2>4, AnswerNears DEF Found
  <2> QED
    BY <2>2, <2>3, <2>4
<1>2. CASE \/ TransportFails(c) \/ ReadResponse(c) \/ AttachmentResponse(c)
           \/ PageFails(c) \/ WriteResponse(c)
  <2>1. /\ phase[c] = "sent" /\ running = c
        /\ UNCHANGED <<kind, stage, pages, queue, runtime>>
    BY <1>2 DEF TransportFails, ReadResponse, AttachmentResponse, PageFails, WriteResponse
  <2>2. \E a : Reply(c, a)
    BY <1>2, Zenon DEF TransportFails, ReadResponse, AttachmentResponse, PageFails,
                       WriteResponse
  <2> QED
    BY <1>0, <2>1, <2>2, AnswerNears DEF Found
<1>3. CASE LookupResponse(c)
  <2>1. /\ phase[c] = "sent" /\ running = c /\ kind[c] = "unwatch" /\ stage[c] = "lookup"
        /\ UNCHANGED <<kind, pages, queue, runtime>>
    BY <1>3 DEF LookupResponse
  <2>2. \/ /\ stage' = [stage EXCEPT ![c] = "main"]
           /\ phase' = [phase EXCEPT ![c] = "running"] /\ UNCHANGED running
        \/ \E a : Reply(c, a) /\ UNCHANGED stage
    BY <1>3, Zenon DEF LookupResponse
  <2>3. CASE /\ stage' = [stage EXCEPT ![c] = "main"]
             /\ phase' = [phase EXCEPT ![c] = "running"] /\ UNCHANGED running
    <3>1. stage'[c] = "main" /\ \A d \in Calls \ {c} : stage'[d] = stage[d]
      BY <1>0, <2>3 DEF TypeOK
    <3>2. Rounds(c)' = 0 /\ Rounds(c) = 1
      BY <2>1, <3>1 DEF Rounds, ReadsPages
    <3>3. ~ReadsPages(c) /\ Rounds(c)' < Rounds(c)
      BY <2>1, <3>2 DEF ReadsPages
    <3>4. pages'[c] \in Nat /\ \A d \in Calls \ {c} : pages'[d] = pages[d]
      BY <1>0, <2>1
    <3> QED
      BY <2>1, <2>3, <3>1, <3>3, <3>4, GoingOnNears
  <2>4. CASE \E a : Reply(c, a) /\ UNCHANGED stage
    BY <1>0, <2>1, <2>4, AnswerNears DEF Found
  <2> QED
    BY <2>2, <2>3, <2>4
<1>4. CASE PageResponse(c)
  <2>1. /\ phase[c] = "sent" /\ running = c /\ kind[c] \in {"issue_ids", "changelog"}
        /\ UNCHANGED <<kind, stage, queue, runtime>>
    BY <1>4 DEF PageResponse
  <2>2. PICK next, is_last :
          /\ pages' = [pages EXCEPT ![c] = @ + 1]
          /\ \/ \E a : Reply(c, a)
             \/ /\ advance(c, next, is_last) \notin {"complete", "error"}
                /\ phase' = [phase EXCEPT ![c] = "running"] /\ UNCHANGED running
    <3>1. PICK next, is_last :
            /\ pages' = [pages EXCEPT ![c] = @ + 1]
            /\ CASE advance(c, next, is_last) = "complete" ->
                        Reply(c, "ok") /\ UNCHANGED token
                 [] advance(c, next, is_last) = "error" ->
                        Reply(c, "Upstream") /\ UNCHANGED token
                 [] OTHER ->
                        /\ token' = [token EXCEPT ![c] = next]
                        /\ phase' = [phase EXCEPT ![c] = "running"]
                        /\ UNCHANGED <<answer, running>>
      BY <1>4, Zenon DEF PageResponse
    <3> QED
      BY <3>1
  <2>3. pages'[c] = pages[c] + 1 /\ \A d \in Calls \ {c} : pages'[d] = pages[d]
    BY <1>0, <2>2 DEF TypeOK
  <2>4. /\ ReadsPages(c) /\ max_pages(c) \in Nat /\ pages[c] < max_pages(c)
        /\ max_pages(c)' = max_pages(c)
    BY <1>0, <2>1, LimitsArePositive DEF Found, ReadsPages, max_pages
  <2>5. CASE \E a : Reply(c, a)
    <3>1. pages'[c] <= max_pages(c)
      BY <1>0, <2>3, <2>4
    <3> QED
      BY <2>1, <2>3, <2>5, <3>1, AnswerNears
  <2>6. CASE /\ advance(c, next, is_last) \notin {"complete", "error"}
             /\ phase' = [phase EXCEPT ![c] = "running"] /\ UNCHANGED running
    <3>1. ~(pages[c] + 1 >= max_pages(c))
      BY <2>6 DEF advance
    <3>2. pages'[c] \in Nat /\ pages'[c] < max_pages(c)
      BY <1>0, <2>3, <2>4, <3>1
    <3>3. Rounds(c)' = max_pages(c) - pages'[c] - 1 /\ Rounds(c) = max_pages(c) - pages[c] - 1
      BY <2>1, <2>4 DEF Rounds, ReadsPages
    <3>4. Rounds(c)' < Rounds(c)
      BY <1>0, <2>3, <2>4, <3>3
    <3> QED
      BY <2>1, <2>3, <2>6, <3>2, <3>4, GoingOnNears
  <2> QED
    BY <2>2, <2>5, <2>6
<1> QED
  BY <1>1, <1>2, <1>3, <1>4

\* The thread takes the first job of its queue.
LEMMA StartNears ==
  ASSUME HonestInv, ThreadInv, Start
  PROVE  \E c \in Calls : Nears(c)
<1> USE DEF callerVars, pageVars
<1>1. /\ TypeOK /\ queue \in Seq(Calls) /\ queue # <<>> /\ queue' = Tail(queue)
      /\ running = None /\ runtime = "up" /\ UNCHANGED <<kind, pages, runtime>>
  BY DEF Start, HonestInv, TypeOK
<1>0. PICK c \in Calls : c = Head(queue)
  BY <1>1
<1>2. /\ 1 \in 1 .. Len(queue) /\ c = queue[1]
      /\ Len(queue') = Len(queue) - 1
      /\ \A m \in 1 .. Len(queue') : queue'[m] = queue[m + 1]
  BY <1>0, <1>1
<1>3. phase[c] = "queued"
  BY <1>2 DEF HonestInv, QueueInv
<1>4. /\ \A d \in Calls \ {c} : phase'[d] = phase[d] /\ stage'[d] = stage[d]
      /\ \/ phase'[c] = "replied" /\ running' = None
         \/ phase'[c] = "running" /\ running' = c
  BY <1>0, <1>1 DEF Start, Reply, TypeOK
<1>5. pages'[c] = 0 /\ max_pages(c)' = max_pages(c) /\ max_pages(c) \in Nat \ {0}
  BY <1>1, <1>2, <1>3, LimitsArePositive DEF ThreadInv, Found, max_pages
<1>6. StepsLeft(c)' < StepsLeft(c)
  <2>1. StepsLeft(c) = 4 + 2 * MaxRounds /\ MaxRounds \in Nat
    BY <1>3, LimitsArePositive DEF StepsLeft, MaxRounds
  <2>2. CASE phase'[c] = "replied"
    <3>1. StepsLeft(c)' = 1
      BY <2>2 DEF StepsLeft
    <3> QED
      BY <2>1, <3>1
  <2>3. CASE phase'[c] = "running"
    <3>1. StepsLeft(c)' = 3 + 2 * Rounds(c)'
      BY <2>3 DEF StepsLeft
    <3>2. Rounds(c)' \in Nat /\ Rounds(c)' < MaxRounds
      <4>1. max_pages(c) <= MaxRounds /\ 2 <= MaxRounds
        BY LimitsArePositive
      <4>2. Rounds(c)' \in {max_pages(c) - 1, 0, 1}
        BY <1>5 DEF Rounds
      <4> QED
        BY <1>5, <2>1, <4>1, <4>2
    <3> QED
      BY <2>1, <3>1, <3>2
  <2> QED
    BY <1>4, <2>2, <2>3
<1>7. Found(c)'
  <2>1. pages'[c] < max_pages(c) /\ pages'[c] <= max_pages(c)
    BY <1>5
  <2> QED
    BY <1>4, <1>5, <2>1 DEF Found
<1>8. ASSUME NEW d \in Calls \ {c} PROVE Found(d)'
  <2>1. Found(d) /\ running # d
    BY <1>1, GatewayAssumption DEF ThreadInv
  <2>2. ASSUME phase[d] = "queued" PROVE \E m \in 1 .. Len(queue') : queue'[m] = d
    <3>1. PICK m \in 1 .. Len(queue) : queue[m] = d
      BY <1>1, <2>1, <2>2 DEF Found
    <3>2. m # 1
      BY <1>2, <3>1
    <3>3. m - 1 \in 1 .. Len(queue') /\ queue'[m - 1] = queue[(m - 1) + 1]
      BY <1>1, <1>2, <3>2
    <3> QED
      BY <3>1, <3>3
  <2>3. ~(phase[d] \in {"running", "sent"})
    BY <1>1, <2>1 DEF Found
  <2> QED
    BY <1>1, <1>4, <2>1, <2>2, <2>3 DEF Found, ReadsPages, max_pages
<1>9. ThreadInv'
  BY <1>1, <1>4, <1>7, <1>8 DEF ThreadInv
<1> QED
  BY <1>1, <1>2, <1>3, <1>4, <1>6, <1>9 DEF Nears

\* The steps that bring no call nearer to its answer.
Aside == RuntimeStops \/ UNCHANGED vars
           \/ \E c \in Calls : Cancel(c) \/ JiraCarriesOut(c) \/ JiraTurnsDown(c)

LEMMA AsideKeepsPlace ==
  ASSUME HonestInv, ThreadInv, Aside
  PROVE  /\ ThreadInv'
         /\ \A c \in Calls : StepsLeft(c)' = StepsLeft(c)
<1> USE DEF pageVars, callerVars, jiraVars
<1>1. UNCHANGED <<phase, kind, stage, pages>>
  BY DEF Aside, RuntimeStops, vars, Cancel, JiraCarriesOut, JiraTurnsDown
<1>2. \A c \in Calls : StepsLeft(c)' = StepsLeft(c)
  BY <1>1 DEF StepsLeft, Rounds, ReadsPages, max_pages
<1>3. \/ UNCHANGED <<queue, runtime, running>>
      \/ runtime' = "stopped" /\ running' = None
  BY DEF Aside, RuntimeStops, vars, Cancel, JiraCarriesOut, JiraTurnsDown
<1>4. ThreadInv'
  BY <1>1, <1>3 DEF ThreadInv, Found, ReadsPages, max_pages
<1> QED
  BY <1>2, <1>4

LEMMA StepCounts ==
  ASSUME HonestInv, ThreadInv, [Next]_vars
  PROVE  Aside \/ \E c \in Calls : Nears(c)
  BY NextCases, StartNears, JobNears, CallerNears, ZenonT(60) DEF Aside

LEMMA InitThread == Init => ThreadInv
<1> SUFFICES ASSUME Init PROVE ThreadInv
  OBVIOUS
<1>1. \A c \in Calls : Found(c)
  <2> TAKE c \in Calls
  <2>1. phase[c] = "idle" /\ pages[c] = 0 /\ max_pages(c) \in Nat
    BY LimitsArePositive DEF Init
  <2> QED
    BY <2>1 DEF Found
<1> QED
  BY <1>1 DEF ThreadInv, Init

LEMMA NextThread ==
  ASSUME HonestInv, ThreadInv, [Next]_vars
  PROVE  ThreadInv'
  BY StepCounts, AsideKeepsPlace DEF Nears

\* What the thread needs for a step, and what the caller of a call needs.
ThreadCanGoOn ==
    \/ runtime = "up" /\ running = None /\ queue # <<>>
    \/ \E c \in Calls : running = c /\ phase[c] \in {"running", "sent"}

CallerCanGoOn(c) ==
    \/ phase[c] \in {"ready", "replied"}
    \/ runtime = "stopped" /\ phase[c] \in {"queued", "running", "sent"}

\* No call waits in vain: whatever was cancelled, lost or answered late, and
\* also when the thread has stopped, as long as a call is not done its caller or
\* the thread has a step to take.
NobodyWaitsInVain ==
    \A c \in Calls :
        phase[c] \notin {"idle", "done"} => ThreadCanGoOn \/ CallerCanGoOn(c)

LEMMA WaitingGoesOn ==
  ASSUME HonestInv, ThreadInv
  PROVE  NobodyWaitsInVain
<1> SUFFICES ASSUME NEW c \in Calls, phase[c] \notin {"idle", "done"}, ~CallerCanGoOn(c)
             PROVE  ThreadCanGoOn
  BY DEF NobodyWaitsInVain
<1>1. Found(c) /\ phase[c] \in {"queued", "running", "sent"} /\ runtime = "up"
  BY DEF ThreadInv, CallerCanGoOn, HonestInv, TypeOK, Phases
<1>2. CASE phase[c] \in {"running", "sent"}
  BY <1>1, <1>2 DEF Found, ThreadCanGoOn
<1>3. CASE phase[c] = "queued"
  <2>1. queue # <<>>
    BY <1>1, <1>3, EmptySeq DEF Found
  <2>2. CASE running = None
    BY <1>1, <2>1, <2>2 DEF ThreadCanGoOn
  <2>3. CASE running # None
    BY <2>3 DEF ThreadInv, ThreadCanGoOn, HonestInv, TypeOK
  <2> QED
    BY <2>2, <2>3
<1> QED
  BY <1>1, <1>2, <1>3

\* The thread runs no job for ever and forgets none: as long as a call waits,
\* something brings it, or the one before it, nearer to its answer.
THEOREM NoCallIsForgotten == Spec => []NobodyWaitsInVain
<1>1. Init => HonestInv /\ ThreadInv
  BY InitHonest, InitThread
<1>2. HonestInv /\ ThreadInv /\ [Next]_vars => HonestInv' /\ ThreadInv'
  BY NextHonest, NextThread
<1>3. HonestInv /\ ThreadInv => NobodyWaitsInVain
  BY WaitingGoesOn
<1> QED
  BY <1>1, <1>2, <1>3, PTL DEF Spec

\* A call has a bounded number of steps to its answer, and none when it is done.
StepsAreBounded ==
    \A c \in Calls : /\ StepsLeft(c) \in 0 .. 6 + 2 * MaxRounds
                     /\ StepsLeft(c) = 0 <=> phase[c] = "done"

\* No step leads any call away from its answer, and every step of the thread or
\* of a caller leads one towards it: retries and page loops end.
EveryStepCounts ==
    /\ \A c \in Calls : StepsLeft(c)' <= StepsLeft(c)
    /\ RuntimeStep \/ CallerStep => \E c \in Calls : StepsLeft(c)' < StepsLeft(c)

LEMMA NextCounts ==
  ASSUME HonestInv, ThreadInv, [Next]_vars
  PROVE  EveryStepCounts \/ UNCHANGED vars
<1>1. \A c \in Calls : StepsLeft(c) \in Nat
  <2>1. \A c \in Calls : StepsLeft(c) \in 0 .. 6 + 2 * MaxRounds
    BY StepsLeftType DEF HonestInv, ThreadInv
  <2>2. MaxRounds \in Nat
    BY LimitsArePositive
  <2> QED
    BY <2>1, <2>2
<1>2. ASSUME NEW c \in Calls, Nears(c)
      PROVE  \A d \in Calls : StepsLeft(d)' <= StepsLeft(d)
  <2>1. \A d \in Calls \ {c} : StepsLeft(d)' = StepsLeft(d)
    BY <1>2 DEF Nears, StepsLeft, Rounds, ReadsPages, max_pages
  <2>2. StepsLeft(c)' \in Int /\ StepsLeft(c)' < StepsLeft(c)
    <3>1. Rounds(c)' \in Int
      <4>1. pages'[c] \in Nat /\ max_pages(c)' \in Nat
        BY NextType, GatewayAssumption DEF HonestInv, TypeOK, max_pages
      <4> QED
        BY <4>1 DEF Rounds
    <3>2. StepsLeft(c)' \in Int
      BY <3>1, LimitsArePositive DEF StepsLeft, MaxRounds
    <3> QED
      BY <1>2, <3>2 DEF Nears
  <2> QED
    BY <1>1, <2>1, <2>2
<1>3. \A c \in Calls : StepsLeft(c)' <= StepsLeft(c)
  BY <1>1, <1>2, StepCounts, AsideKeepsPlace
<1>4. RuntimeStep \/ CallerStep => \E c \in Calls : Nears(c)
  <2>1. RuntimeStep => \E c \in Calls : Nears(c)
    BY StartNears, JobNears, ZenonT(60) DEF RuntimeStep, Receive
  <2>2. CallerStep => \E c \in Calls : Nears(c)
    BY CallerNears, Zenon DEF CallerStep
  <2> QED
    BY <2>1, <2>2
<1> QED
  BY <1>3, <1>4 DEF EveryStepCounts, Nears

(* A call has a number of steps left that no step of another raises and    *)
(* each step of its own, or of the thread for it, lowers: paging included, *)
(* a call that is not cancelled takes at most six steps and two for every  *)
(* page it may ask for (client.rs, MAX_ISSUE_ID_PAGES and                  *)
(* MAX_CHANGELOG_PAGES).                                                   *)
THEOREM EveryCallIsFinite == Spec => []StepsAreBounded /\ [][EveryStepCounts]_vars
<1>1. Init => HonestInv /\ ThreadInv
  BY InitHonest, InitThread
<1>2. HonestInv /\ ThreadInv /\ [Next]_vars => HonestInv' /\ ThreadInv'
  BY NextHonest, NextThread
<1>3. HonestInv /\ ThreadInv => StepsAreBounded
  BY StepsLeftType DEF HonestInv, ThreadInv, StepsAreBounded
<1>4. HonestInv /\ ThreadInv /\ [Next]_vars => [EveryStepCounts]_vars
  BY NextCounts
<1> QED
  BY <1>1, <1>2, <1>3, <1>4, PTL DEF Spec

-----------------------------------------------------------------------------
(* Sequences without repetitions *)

\* What was not in a sequence without repetitions can be appended to it.
LEMMA AppendNew ==
  ASSUME NEW S, NEW s \in Seq(S), NEW e \in S, IsInjective(s),
         \A i \in 1 .. Len(s) : s[i] # e
  PROVE  IsInjective(Append(s, e))
<1>1. /\ Append(s, e) \in Seq(S) /\ Len(s) \in Nat
      /\ Len(Append(s, e)) = Len(s) + 1
      /\ \A i \in 1 .. Len(s) : Append(s, e)[i] = s[i]
      /\ Append(s, e)[Len(s) + 1] = e
  BY AppendProperties
<1>2. DOMAIN s = 1 .. Len(s) /\ DOMAIN Append(s, e) = 1 .. Len(s) + 1
  BY <1>1, LenProperties
<1>3. ASSUME NEW a \in DOMAIN Append(s, e), NEW b \in DOMAIN Append(s, e),
             Append(s, e)[a] = Append(s, e)[b]
      PROVE  a = b
  <2>1. /\ a \in 1 .. Len(s) \/ a = Len(s) + 1
        /\ b \in 1 .. Len(s) \/ b = Len(s) + 1
    BY <1>1, <1>2, <1>3
  <2>2. CASE a \in 1 .. Len(s) /\ b \in 1 .. Len(s)
    BY <1>1, <1>2, <1>3, <2>2 DEF IsInjective
  <2>3. CASE ~(a \in 1 .. Len(s) /\ b \in 1 .. Len(s))
    BY <1>1, <1>3, <2>1, <2>3
  <2> QED
    BY <2>2, <2>3
<1> QED
  BY <1>3 DEF IsInjective

-----------------------------------------------------------------------------
(* The issues of a scope *)

Asked == Cursors \cup {None, "blank"}

\* Every cursor that was sent is remembered, and there are as many requests as
\* pages, with at most one page outstanding.
FetchInv ==
    /\ fetch.at \in {"ready", "asked", "done", "failed"}
    /\ fetch.pages_fetched \in Nat
    /\ fetch.cursor \in Asked
    /\ fetch = [at |-> fetch.at, cursor |-> fetch.cursor,
                requested_cursors |-> fetch.requested_cursors,
                issues |-> fetch.issues, pages_fetched |-> fetch.pages_fetched]
    /\ asked \in Seq(Asked)
    /\ \A i \in 1 .. Len(asked) : asked[i] = None \/ asked[i] \in fetch.requested_cursors
    /\ fetch.at = "ready" /\ fetch.cursor = None => asked = <<>>
    /\ fetch.at = "ready" => Len(asked) = fetch.pages_fetched
    /\ fetch.at = "asked" => Len(asked) = fetch.pages_fetched + 1
    /\ Len(asked) <= MaxPages
    /\ IsInjective(asked)

LEMMA FetchInit == IssuePaginationInit => FetchInv
<1> SUFFICES ASSUME IssuePaginationInit PROVE FetchInv
  OBVIOUS
<1>1. asked = <<>> /\ asked \in Seq(Asked) /\ Len(asked) = 0 /\ DOMAIN asked = 1 .. 0
  BY EmptySeq, LenProperties DEF IssuePaginationInit
<1>2. IsInjective(asked)
  BY <1>1 DEF IsInjective
<1> QED
  BY <1>1, <1>2, IssuePaginationAssumption DEF IssuePaginationInit, FetchInv, Asked

LEMMA FetchStep ==
  ASSUME FetchInv, IssuePaginationNext
  PROVE  FetchInv'
<1>0. Len(asked) \in Nat
  BY LenProperties DEF FetchInv
<1>1. ASSUME Fails PROVE FetchInv'
  BY <1>1 DEF Fails, FetchInv
<1>2. CASE prepare_request
  <2>1. CASE ~(fetch_token \/ fetch.pages_fetched >= MaxPages \/ ~followable(fetch.cursor))
    <3>1. /\ fetch.at = "ready" /\ fetch.pages_fetched < MaxPages
          /\ followable(fetch.cursor)
          /\ fetch' = [fetch EXCEPT !.at = "asked",
                         !.requested_cursors = @ \cup ({fetch.cursor} \ {None})]
          /\ asked' = Append(asked, fetch.cursor)
      BY <1>2, <2>1, IssuePaginationAssumption DEF prepare_request, FetchInv
    <3>2. /\ asked' \in Seq(Asked) /\ Len(asked') = Len(asked) + 1
          /\ \A i \in 1 .. Len(asked) : asked'[i] = asked[i]
          /\ asked'[Len(asked) + 1] = fetch.cursor
      BY <3>1, AppendProperties DEF FetchInv
    <3>3. \A i \in 1 .. Len(asked) : asked[i] # fetch.cursor
      BY <3>1, EmptySeq DEF followable, FetchInv
    <3>4. IsInjective(asked')
      BY <3>1, <3>3, AppendNew DEF FetchInv
    <3>5. /\ fetch'.at = "asked" /\ fetch'.cursor = fetch.cursor
          /\ fetch'.pages_fetched = fetch.pages_fetched
          /\ fetch'.requested_cursors = fetch.requested_cursors \cup ({fetch.cursor} \ {None})
          /\ fetch' = [at |-> fetch'.at, cursor |-> fetch'.cursor,
                requested_cursors |-> fetch'.requested_cursors,
                issues |-> fetch'.issues, pages_fetched |-> fetch'.pages_fetched]
      BY <3>1 DEF FetchInv
    <3>6. \A i \in 1 .. Len(asked') :
             asked'[i] = None \/ asked'[i] \in fetch'.requested_cursors
      <4> TAKE i \in 1 .. Len(asked')
      <4>1. i \in 1 .. Len(asked) \/ i = Len(asked) + 1
        BY <1>0, <3>2
      <4> QED
        BY <3>2, <3>5, <4>1 DEF FetchInv
    <3>7. Len(asked') <= MaxPages /\ Len(asked') = fetch'.pages_fetched + 1
      BY <1>0, <3>1, <3>2, <3>5, IssuePaginationAssumption DEF FetchInv
    <3> QED
      BY <3>2, <3>4, <3>5, <3>6, <3>7 DEF FetchInv
  <2> QED
    BY <1>1, <1>2, <2>1 DEF prepare_request
<1>3. CASE AcceptIssuePage
  <2>1. PICK page \in Pages : accept_issue_page(page)
    BY <1>3 DEF AcceptIssuePage
  <2>2. page.next_cursor \in Asked
    BY DEF Pages, Asked
  <2>3. CASE ~(fetch_token \/ ~followable(page.next_cursor))
    <3>1. /\ fetch.at = "asked" /\ UNCHANGED asked
          /\ fetch' = [fetch EXCEPT
                            !.at = IF page.next_cursor = None THEN "done" ELSE "ready",
                            !.cursor = page.next_cursor,
                            !.issues = FoldLeft(taken, @, page.issues),
                            !.pages_fetched = @ + 1]
      BY <2>1, <2>3 DEF accept_issue_page
    <3>2. /\ fetch'.at = (IF page.next_cursor = None THEN "done" ELSE "ready")
          /\ fetch'.cursor = page.next_cursor
          /\ fetch'.pages_fetched = fetch.pages_fetched + 1
          /\ fetch'.requested_cursors = fetch.requested_cursors
          /\ fetch' = [at |-> fetch'.at, cursor |-> fetch'.cursor,
                requested_cursors |-> fetch'.requested_cursors,
                issues |-> fetch'.issues, pages_fetched |-> fetch'.pages_fetched]
      BY <3>1 DEF FetchInv
    <3> QED
      BY <1>0, <2>2, <3>1, <3>2 DEF FetchInv
  <2> QED
    BY <1>1, <2>1, <2>3 DEF accept_issue_page
<1>4. CASE FetchPageFails
  BY <1>1, <1>4 DEF FetchPageFails
<1>5. CASE CancelFetch
  BY <1>5 DEF CancelFetch, FetchInv
<1> QED
  BY <1>2, <1>3, <1>4, <1>5 DEF IssuePaginationNext

-----------------------------------------------------------------------------
(* What a search takes in *)

\* g[k] is the first of its issue in g.
FirstOf(g, k) == \A l \in 1 .. k - 1 : g[l].id # g[k].id

\* The issues hold the first n snapshots of g: every issue once, in the order
\* they came first, each as it came last.
HoldFirst(issues, g, n) ==
    /\ issues \in Seq(Snapshots)
    /\ \A m \in DOMAIN issues : \E k \in 1 .. n :
         issues[m] = g[k] /\ \A l \in k + 1 .. n : g[l].id # g[k].id
    /\ \A k \in 1 .. n : \E m \in DOMAIN issues : issues[m].id = g[k].id
    /\ \A m \in DOMAIN issues : \E k \in 1 .. n :
         /\ g[k].id = issues[m].id /\ FirstOf(g, k)
         /\ \A j \in DOMAIN issues : j < m => \E l \in 1 .. k - 1 : g[l].id = issues[j].id

\* One more snapshot is taken in.
LEMMA SnapshotTaken ==
  ASSUME NEW g \in Seq(Snapshots), NEW n \in Nat, n < Len(g),
         NEW issues, HoldFirst(issues, g, n)
  PROVE  HoldFirst(taken(issues, g[n + 1]), g, n + 1)
<1> DEFINE s == g[n + 1]
           next == taken(issues, s)
<1>1. /\ issues \in Seq(Snapshots) /\ Len(issues) \in Nat /\ DOMAIN issues = 1 .. Len(issues)
      /\ n + 1 \in 1 .. Len(g) /\ s \in Snapshots
      /\ \A i \in DOMAIN issues : issues[i] \in Snapshots
  BY DEF HoldFirst
<1>2. \A k \in 1 .. n : k \in 1 .. n + 1
  OBVIOUS
<1>3. CASE \E i \in DOMAIN issues : issues[i].id = s.id
  <2>1. next = [i \in DOMAIN issues |-> IF issues[i].id = s.id THEN s ELSE issues[i]]
    BY <1>3 DEF taken
  <2>2. /\ next \in Seq(Snapshots) /\ DOMAIN next = DOMAIN issues
        /\ \A m \in DOMAIN issues :
             next[m] = (IF issues[m].id = s.id THEN s ELSE issues[m])
    BY <1>1, <2>1
  <2>3. \A m \in DOMAIN issues : next[m].id = issues[m].id
    BY <2>2
  <2> HIDE DEF next
  <2>4. ASSUME NEW m \in DOMAIN next
        PROVE  \E k \in 1 .. n + 1 :
                 next[m] = g[k] /\ \A l \in k + 1 .. n + 1 : g[l].id # g[k].id
    <3>1. CASE issues[m].id = s.id
      <4>1. next[m] = g[n + 1] /\ n + 1 \in 1 .. n + 1 /\ (n + 1) + 1 .. n + 1 = {}
        BY <2>2, <2>4, <3>1
      <4> QED
        BY <4>1
    <3>2. CASE issues[m].id # s.id
      <4>1. PICK k \in 1 .. n :
              issues[m] = g[k] /\ \A l \in k + 1 .. n : g[l].id # g[k].id
        BY <2>2, <2>4 DEF HoldFirst
      <4>2. next[m] = g[k] /\ g[n + 1].id # g[k].id
        BY <2>2, <2>4, <3>2, <4>1
      <4>3. \A l \in k + 1 .. n + 1 : l \in k + 1 .. n \/ l = n + 1
        OBVIOUS
      <4> QED
        BY <1>2, <4>1, <4>2, <4>3
    <3> QED
      BY <3>1, <3>2
  <2>5. ASSUME NEW k \in 1 .. n + 1
        PROVE  \E m \in DOMAIN next : next[m].id = g[k].id
    <3>1. CASE k = n + 1
      BY <1>3, <2>2, <2>3, <3>1
    <3>2. CASE k # n + 1
      <4>1. k \in 1 .. n
        BY <3>2
      <4> QED
        BY <2>2, <2>3, <4>1 DEF HoldFirst
    <3> QED
      BY <3>1, <3>2
  <2>6. ASSUME NEW m \in DOMAIN next
        PROVE  \E k \in 1 .. n + 1 :
                 /\ g[k].id = next[m].id /\ FirstOf(g, k)
                 /\ \A j \in DOMAIN next :
                      j < m => \E l \in 1 .. k - 1 : g[l].id = next[j].id
    <3>1. PICK k \in 1 .. n :
            /\ g[k].id = issues[m].id /\ FirstOf(g, k)
            /\ \A j \in DOMAIN issues :
                 j < m => \E l \in 1 .. k - 1 : g[l].id = issues[j].id
      BY <2>2, <2>6 DEF HoldFirst
    <3> QED
      BY <1>2, <2>2, <2>3, <3>1
  <2> QED
    BY <2>2, <2>4, <2>5, <2>6 DEF HoldFirst, next
<1>4. CASE ~ \E i \in DOMAIN issues : issues[i].id = s.id
  <2> DEFINE z == Len(issues) + 1
  <2>1. next = Append(issues, s)
    BY <1>4 DEF taken
  <2>2. /\ next \in Seq(Snapshots) /\ DOMAIN next = 1 .. z
        /\ \A m \in DOMAIN issues : next[m] = issues[m]
        /\ next[z] = s
    BY <1>1, <2>1
  <2> HIDE DEF next
  <2>3. \A m \in DOMAIN next : m \in DOMAIN issues \/ m = z
    BY <1>1, <2>2
  <2>4. \A k \in 1 .. n : g[k].id # s.id
    BY <1>4 DEF HoldFirst
  <2>5. ASSUME NEW m \in DOMAIN next
        PROVE  \E k \in 1 .. n + 1 :
                 next[m] = g[k] /\ \A l \in k + 1 .. n + 1 : g[l].id # g[k].id
    <3>1. CASE m = z
      <4>1. next[m] = g[n + 1] /\ n + 1 \in 1 .. n + 1 /\ (n + 1) + 1 .. n + 1 = {}
        BY <2>2, <3>1
      <4> QED
        BY <4>1
    <3>2. CASE m \in DOMAIN issues
      <4>1. PICK k \in 1 .. n :
              issues[m] = g[k] /\ \A l \in k + 1 .. n : g[l].id # g[k].id
        BY <3>2 DEF HoldFirst
      <4>2. next[m] = g[k] /\ g[n + 1].id # g[k].id
        BY <2>2, <2>4, <3>2, <4>1
      <4>3. \A l \in k + 1 .. n + 1 : l \in k + 1 .. n \/ l = n + 1
        OBVIOUS
      <4> QED
        BY <1>2, <4>1, <4>2, <4>3
    <3> QED
      BY <2>3, <2>5, <3>1, <3>2
  <2>6. ASSUME NEW k \in 1 .. n + 1
        PROVE  \E m \in DOMAIN next : next[m].id = g[k].id
    <3>1. CASE k = n + 1
      <4>1. z \in DOMAIN next
        BY <1>1, <2>2
      <4> QED
        BY <2>2, <3>1, <4>1
    <3>2. CASE k # n + 1
      <4>1. k \in 1 .. n
        BY <3>2
      <4>2. PICK m \in DOMAIN issues : issues[m].id = g[k].id
        BY <4>1 DEF HoldFirst
      <4>3. m \in DOMAIN next
        BY <1>1, <2>2
      <4> QED
        BY <2>2, <4>2, <4>3
    <3> QED
      BY <3>1, <3>2
  <2>7. ASSUME NEW m \in DOMAIN next
        PROVE  \E k \in 1 .. n + 1 :
                 /\ g[k].id = next[m].id /\ FirstOf(g, k)
                 /\ \A j \in DOMAIN next :
                      j < m => \E l \in 1 .. k - 1 : g[l].id = next[j].id
    <3>1. CASE m = z
      <4>1. /\ g[n + 1].id = next[m].id /\ n + 1 \in 1 .. n + 1
            /\ (n + 1) - 1 = n
        BY <2>2, <3>1
      <4>2. FirstOf(g, n + 1)
        BY <2>4, <4>1 DEF FirstOf
      <4>3. ASSUME NEW j \in DOMAIN next, j < m
            PROVE  \E l \in 1 .. n : g[l].id = next[j].id
        <5>1. j \in DOMAIN issues
          BY <1>1, <2>2, <3>1, <4>3
        <5>2. PICK l \in 1 .. n : issues[j] = g[l]
          BY <5>1 DEF HoldFirst
        <5> QED
          BY <2>2, <5>1, <5>2
      <4> QED
        BY <4>1, <4>2, <4>3
    <3>2. CASE m \in DOMAIN issues
      <4>1. PICK k \in 1 .. n :
              /\ g[k].id = issues[m].id /\ FirstOf(g, k)
              /\ \A j \in DOMAIN issues :
                   j < m => \E l \in 1 .. k - 1 : g[l].id = issues[j].id
        BY <3>2 DEF HoldFirst
      <4>2. \A j \in DOMAIN next : j < m => j \in DOMAIN issues
        BY <1>1, <2>2, <3>2
      <4> QED
        BY <1>2, <2>2, <3>2, <4>1, <4>2
    <3> QED
      BY <2>3, <2>7, <3>1, <3>2
  <2> QED
    BY <2>2, <2>5, <2>6, <2>7 DEF HoldFirst, next
<1> QED
  BY <1>3, <1>4

\* What comes later in the sequence does not matter.
LEMMA HoldFirstExtends ==
  ASSUME NEW g, NEW all, NEW n \in Nat, \A k \in 1 .. n : all[k] = g[k],
         NEW issues, HoldFirst(issues, g, n)
  PROVE  HoldFirst(issues, all, n)
<1>1. /\ \A k \in 1 .. n : \A l \in k + 1 .. n : l \in 1 .. n
      /\ \A k \in 1 .. n : \A l \in 1 .. k - 1 : l \in 1 .. n
  OBVIOUS
<1>2. ASSUME NEW m \in DOMAIN issues
      PROVE  \E k \in 1 .. n :
               issues[m] = all[k] /\ \A l \in k + 1 .. n : all[l].id # all[k].id
  <2>1. PICK k \in 1 .. n : issues[m] = g[k] /\ \A l \in k + 1 .. n : g[l].id # g[k].id
    BY <1>2 DEF HoldFirst
  <2>2. \A l \in k + 1 .. n : all[l] = g[l]
    BY <1>1
  <2> QED
    BY <2>1, <2>2
<1>3. ASSUME NEW k \in 1 .. n PROVE \E m \in DOMAIN issues : issues[m].id = all[k].id
  <2>1. all[k] = g[k]
    OBVIOUS
  <2>2. \E m \in DOMAIN issues : issues[m].id = g[k].id
    BY DEF HoldFirst
  <2> QED
    BY <2>1, <2>2
<1>4. ASSUME NEW m \in DOMAIN issues
      PROVE  \E k \in 1 .. n :
               /\ all[k].id = issues[m].id /\ FirstOf(all, k)
               /\ \A j \in DOMAIN issues :
                    j < m => \E l \in 1 .. k - 1 : all[l].id = issues[j].id
  <2>1. PICK k \in 1 .. n :
          /\ g[k].id = issues[m].id /\ FirstOf(g, k)
          /\ \A j \in DOMAIN issues : j < m => \E l \in 1 .. k - 1 : g[l].id = issues[j].id
    BY <1>4 DEF HoldFirst
  <2>2. \A l \in 1 .. k - 1 : all[l] = g[l]
    BY <1>1
  <2>3. FirstOf(all, k)
    BY <2>1, <2>2 DEF FirstOf
  <2>4. ASSUME NEW j \in DOMAIN issues, j < m
        PROVE  \E l \in 1 .. k - 1 : all[l].id = issues[j].id
    <3>1. PICK l \in 1 .. k - 1 : g[l].id = issues[j].id
      BY <2>1, <2>4
    <3> QED
      BY <2>2, <3>1
  <2> QED
    BY <2>1, <2>3, <2>4
<1>5. issues \in Seq(Snapshots)
  BY DEF HoldFirst
<1> QED
  BY <1>2, <1>3, <1>4, <1>5 DEF HoldFirst

\* Taken in, a snapshot leaves a sequence of snapshots.
LEMMA TakenType ==
  ASSUME NEW issues \in Seq(Snapshots), NEW s \in Snapshots
  PROVE  taken(issues, s) \in Seq(Snapshots)
<1>1. [i \in DOMAIN issues |-> IF issues[i].id = s.id THEN s ELSE issues[i]] \in Seq(Snapshots)
  OBVIOUS
<1>2. Append(issues, s) \in Seq(Snapshots)
  OBVIOUS
<1> QED
  BY <1>1, <1>2 DEF taken

\* The snapshots of a page are taken in one after the other.
LEMMA PageTaken ==
  ASSUME NEW issues, NEW g \in Seq(Snapshots), NEW page \in Seq(Snapshots),
         HoldFirst(issues, g, Len(g))
  PROVE  HoldFirst(FoldLeft(taken, issues, page), g \o page, Len(g \o page))
<1> DEFINE S == DOMAIN page
           V == Seq(Snapshots)
           all == g \o page
           a == Len(g)
           pick == [s \in SUBSET S |-> Max(s)]
           step == [p \in S \X V |-> taken(p[2], page[p[1]])]
           Iter(h) == [s \in SUBSET S |->
                         IF s = {} THEN issues
                         ELSE taken(h[s \ {Max(s)}], page[Max(s)])]
           c == CHOOSE h : h = Iter(h)
<1>1. FoldLeft(taken, issues, page) = c[S]
  BY Zenon DEF FoldLeft, MapThenFoldSet
<1>2. /\ S = 1 .. Len(page) /\ IsFiniteSet(S) /\ Len(page) \in Nat
      /\ a \in Nat /\ issues \in V
  BY FS_Interval DEF HoldFirst
<1>3. \A s \in SUBSET S : s # {} => pick[s] = Max(s) /\ pick[s] \in s
  <2> SUFFICES ASSUME NEW s \in SUBSET S, s # {} PROVE Max(s) \in s
    OBVIOUS
  <2>1. Len(page) \in Nat /\ s \in SUBSET (1 .. Len(page))
    BY <1>2
  <2> QED
    BY <2>1, Greatest
<1>4. Picks(pick, S)
  BY <1>3 DEF Picks
<1>5. \A x \in S, l \in V : taken(l, page[x]) \in V
  <2>1. \A x \in S : page[x] \in Snapshots
    OBVIOUS
  <2> QED
    BY <2>1, TakenType
<1>6. step \in [S \X V -> V] /\ \A x \in S, l \in V : step[<<x, l>>] = taken(l, page[x])
  BY <1>5
<1> HIDE DEF step, pick, V, S
<1>7. PICK f \in [SUBSET S -> V] : IsFold(f, S, issues, step, pick)
  BY <1>2, <1>4, <1>6, FoldExists
<1>8. f = Iter(f)
  <2>1. ASSUME NEW s \in SUBSET S
        PROVE  f[s] = IF s = {} THEN issues ELSE taken(f[s \ {Max(s)}], page[Max(s)])
    <3>1. CASE s = {}
      BY <1>7, <3>1 DEF IsFold
    <3>2. CASE s # {}
      <4>1. f[s] = step[<<pick[s], f[s \ {pick[s]}]>>]
        BY <1>7, <3>2 DEF IsFold
      <4>2. pick[s] = Max(s) /\ pick[s] \in S /\ f[s \ {pick[s]}] \in V
        BY <1>3, <3>2
      <4> QED
        BY <1>6, <3>2, <4>1, <4>2
    <3> QED
      BY <3>1, <3>2
  <2> QED
    BY <2>1
<1>9. c = Iter(c)
  <2> HIDE DEF Iter
  <2> QED
    BY <1>8, Zenon
<1> HIDE DEF c
<1>10. \A s \in SUBSET S :
         c[s] = IF s = {} THEN issues ELSE taken(c[s \ {Max(s)}], page[Max(s)])
  BY <1>9, Zenon
<1>11. /\ all \in Seq(Snapshots) /\ Len(all) = a + Len(page)
       /\ \A k \in 1 .. a : all[k] = g[k]
       /\ \A m \in 1 .. Len(page) : all[a + m] = page[m]
  <2>1. /\ all \in Seq(Snapshots) /\ Len(all) = a + Len(page)
        /\ \A k \in 1 .. a + Len(page) : all[k] = IF k <= a THEN g[k] ELSE page[k - a]
    BY ConcatProperties
  <2>2. \A m \in 1 .. Len(page) : a + m \in 1 .. a + Len(page) /\ ~(a + m <= a) /\ (a + m) - a = m
    BY <1>2
  <2> HIDE DEF all
  <2>3. \A m \in 1 .. Len(page) : all[a + m] = page[m]
    BY <2>1, <2>2
  <2>4. \A k \in 1 .. a : all[k] = g[k]
    BY <1>2, <2>1
  <2> QED
    BY <2>1, <2>3, <2>4
<1> HIDE DEF all
<1>12. HoldFirst(issues, all, a)
  BY <1>2, <1>11, HoldFirstExtends
<1> DEFINE Bad == {m \in 0 .. Len(page) : ~HoldFirst(c[1 .. m], all, a + m)}
<1>13. Bad = {}
  <2> SUFFICES ASSUME Bad # {} PROVE FALSE
    OBVIOUS
  <2>1. Bad \in SUBSET Nat
    BY <1>2
  <2>2. PICK m \in Bad : \A k \in Bad : m <= k
    <3> HIDE DEF Bad
    <3> QED
      BY <2>1, Least
  <2>3. m \in Nat /\ m <= Len(page) /\ ~HoldFirst(c[1 .. m], all, a + m)
    BY <1>2, <2>2
  <2>4. CASE m = 0
    <3>1. 1 .. m = {} /\ a + m = a
      BY <1>2, <2>4
    <3>2. c[{}] = issues
      BY <1>10
    <3> QED
      BY <1>12, <2>3, <3>1, <3>2
  <2>5. CASE m # 0
    <3>1. m - 1 \in 0 .. Len(page) /\ m - 1 \notin Bad /\ m - 1 \in Nat /\ m - 1 < Len(page)
      <4>1. m - 1 \in Nat /\ m - 1 < m
        BY <2>3, <2>5
      <4>2. m - 1 \notin Bad
        BY <2>1, <2>2, <4>1
      <4> QED
        BY <1>2, <2>3, <4>1, <4>2
    <3>2. HoldFirst(c[1 .. m - 1], all, a + (m - 1))
      BY <3>1
    <3>3. Max(1 .. m) = m /\ (1 .. m) \ {m} = 1 .. m - 1 /\ 1 .. m # {}
      <4>1. 1 .. m \in SUBSET (1 .. m) /\ m \in 1 .. m
        BY <2>3, <2>5
      <4>2. Max(1 .. m) \in 1 .. m /\ \A y \in 1 .. m : y <= Max(1 .. m)
        <5>1. 1 .. m # {} /\ m \in Nat
          BY <2>3, <4>1
        <5> QED
          BY <4>1, <5>1, Greatest
      <4>3. Max(1 .. m) = m
        BY <2>3, <4>1, <4>2
      <4>4. (1 .. m) \ {m} = 1 .. m - 1
        BY <2>3
      <4>5. 1 .. m # {}
        BY <4>1
      <4> QED
        BY <4>3, <4>4, <4>5
    <3>4. 1 .. m \in SUBSET S
      BY <1>2, <2>3
    <3>5. c[1 .. m] = taken(c[1 .. m - 1], page[m])
      <4>1. c[1 .. m] = taken(c[(1 .. m) \ {Max(1 .. m)}], page[Max(1 .. m)])
        BY <1>10, <3>3, <3>4
      <4> QED
        BY <3>3, <4>1
    <3>6. /\ a + (m - 1) \in Nat /\ a + (m - 1) < Len(all) /\ (a + (m - 1)) + 1 = a + m
          /\ page[m] = all[a + m]
      BY <1>2, <1>11, <2>3, <2>5
    <3>7. HoldFirst(taken(c[1 .. m - 1], all[(a + (m - 1)) + 1]), all, (a + (m - 1)) + 1)
      BY <1>11, <3>2, <3>6, SnapshotTaken
    <3> QED
      BY <2>3, <3>5, <3>6, <3>7
  <2> QED
    BY <2>4, <2>5
<1> QED
  <2>1. Len(page) \in 0 .. Len(page) /\ Len(page) \notin Bad
    BY <1>2, <1>13
  <2>2. HoldFirst(c[1 .. Len(page)], all, a + Len(page))
    BY <2>1
  <2> QED
    BY <1>1, <1>2, <1>11, <2>2 DEF all

\* What a fetch holds is what its pages gave it.
TakenInv == given \in Seq(Snapshots) /\ HoldFirst(fetch.issues, given, Len(given))

LEMMA TakenInit == IssuePaginationInit => TakenInv
<1> SUFFICES ASSUME IssuePaginationInit PROVE TakenInv
  OBVIOUS
<1>1. /\ fetch.issues = <<>> /\ given = <<>> /\ <<>> \in Seq(Snapshots)
      /\ Len(<<>>) = 0 /\ DOMAIN <<>> = {} /\ 1 .. 0 = {}
  BY DEF IssuePaginationInit
<1> QED
  BY <1>1 DEF TakenInv, HoldFirst

LEMMA TakenStep ==
  ASSUME FetchInv, TakenInv, IssuePaginationNext
  PROVE  TakenInv'
<1>1. ASSUME UNCHANGED given, fetch'.issues = fetch.issues PROVE TakenInv'
  BY <1>1 DEF TakenInv
<1>2. ASSUME Fails PROVE TakenInv'
  <2>1. UNCHANGED given /\ fetch'.issues = fetch.issues
    BY <1>2 DEF Fails, FetchInv
  <2> QED
    BY <1>1, <2>1
<1>3. CASE prepare_request
  <2>1. CASE Fails
    BY <1>2, <2>1
  <2>2. CASE ~Fails
    <3>1. /\ fetch' = [fetch EXCEPT !.at = "asked",
                         !.requested_cursors = @ \cup ({fetch.cursor} \ {None})]
          /\ UNCHANGED given
      BY <1>3, <2>2 DEF prepare_request
    <3>2. fetch'.issues = fetch.issues
      BY <3>1 DEF FetchInv
    <3> QED
      BY <1>1, <3>1, <3>2
  <2> QED
    BY <2>1, <2>2
<1>4. CASE AcceptIssuePage
  <2>1. PICK page \in Pages : accept_issue_page(page)
    BY <1>4 DEF AcceptIssuePage
  <2>2. CASE Fails
    BY <1>2, <2>2
  <2>3. CASE ~Fails
    <3>1. /\ fetch' = [fetch EXCEPT
                            !.at = IF page.next_cursor = None THEN "done" ELSE "ready",
                            !.cursor = page.next_cursor,
                            !.issues = FoldLeft(taken, @, page.issues),
                            !.pages_fetched = @ + 1]
          /\ given' = given \o page.issues
      BY <2>1, <2>3 DEF accept_issue_page
    <3>2. fetch'.issues = FoldLeft(taken, fetch.issues, page.issues)
      BY <3>1 DEF FetchInv
    <3>3. page.issues \in Seq(Snapshots)
      <4>1. PICK n \in 0 .. MaxPerPage : page.issues \in [1 .. n -> Snapshots]
        BY DEF Pages
      <4>2. n \in Nat
        BY <4>1, IssuePaginationAssumption
      <4> QED
        BY <4>1, <4>2
    <3>4. HoldFirst(fetch'.issues, given', Len(given'))
      BY <3>1, <3>2, <3>3, PageTaken DEF TakenInv
    <3>5. given' \in Seq(Snapshots)
      BY <3>1, <3>3 DEF TakenInv
    <3> QED
      BY <3>4, <3>5 DEF TakenInv
  <2> QED
    BY <2>2, <2>3
<1>5. CASE FetchPageFails
  BY <1>2, <1>5 DEF FetchPageFails
<1>6. CASE CancelFetch
  BY <1>1, <1>6 DEF CancelFetch
<1> QED
  BY <1>3, <1>4, <1>5, <1>6 DEF IssuePaginationNext

\* The place of the first, and of the last, snapshot of an issue.
LEMMA PlacesOfIssue ==
  ASSUME NEW g \in Seq(Snapshots), NEW k \in 1 .. Len(g)
  PROVE  LET first == SelectInSeq(g, LAMBDA s : s.id = g[k].id)
             last == SelectLastInSeq(g, LAMBDA s : s.id = g[k].id)
         IN  /\ first \in 1 .. Len(g) /\ first <= k /\ g[first].id = g[k].id
             /\ FirstOf(g, k) => first = k
             /\ (\A l \in k + 1 .. Len(g) : g[l].id # g[k].id) => last = k
<1> DEFINE I == {i \in 1 .. Len(g) : g[i].id = g[k].id}
           first == SelectInSeq(g, LAMBDA s : s.id = g[k].id)
           last == SelectLastInSeq(g, LAMBDA s : s.id = g[k].id)
<1>1. k \in I /\ I # {} /\ Len(g) \in Nat /\ I \in SUBSET (1 .. Len(g)) /\ I \in SUBSET Nat
  OBVIOUS
<1>2. first = Min(I) /\ last = Max(I)
  BY <1>1 DEF SelectInSeq, SelectLastInSeq
<1>3. Min(I) \in I /\ \A y \in I : Min(I) <= y
  <2> HIDE DEF I
  <2>1. \E x \in I : \A y \in I : x <= y
    BY <1>1, Least
  <2> QED
    BY <2>1 DEF Min
<1>4. Max(I) \in I /\ \A y \in I : y <= Max(I)
  <2> HIDE DEF I
  <2> QED
    BY <1>1, Greatest
<1> HIDE DEF first, last
<1>5. first \in 1 .. Len(g) /\ first <= k /\ g[first].id = g[k].id
  BY <1>1, <1>2, <1>3
<1>6. FirstOf(g, k) => first = k
  <2> SUFFICES ASSUME FirstOf(g, k), first # k PROVE FALSE
    OBVIOUS
  <2>1. first \in 1 .. k - 1
    BY <1>5
  <2> QED
    BY <1>5, <2>1 DEF FirstOf
<1>7. (\A l \in k + 1 .. Len(g) : g[l].id # g[k].id) => last = k
  <2> SUFFICES ASSUME \A l \in k + 1 .. Len(g) : g[l].id # g[k].id, last # k PROVE FALSE
    OBVIOUS
  <2>1. last \in 1 .. Len(g) /\ k <= last /\ g[last].id = g[k].id
    BY <1>1, <1>2, <1>4
  <2>2. last \in k + 1 .. Len(g)
    BY <2>1
  <2> QED
    BY <2>1, <2>2
<1> QED
  BY <1>5, <1>6, <1>7 DEF first, last

LEMMA TakenAreTheLast == TakenInv => FetchedAreTheLast
<1> SUFFICES ASSUME TakenInv
             PROVE  FetchedAreTheLast
  OBVIOUS
<1> DEFINE ids(s) == [i \in DOMAIN s |-> s[i].id]
           last(i) == given[SelectLastInSeq(given, LAMBDA g : g.id = i)]
           first(i) == SelectInSeq(given, LAMBDA g : g.id = i)
           L == Len(given)
<1>1. /\ given \in Seq(Snapshots) /\ L \in Nat /\ DOMAIN given = 1 .. L
      /\ fetch.issues \in Seq(Snapshots) /\ HoldFirst(fetch.issues, given, L)
      /\ DOMAIN fetch.issues = 1 .. Len(fetch.issues) /\ Len(fetch.issues) \in Nat
  BY DEF TakenInv, HoldFirst
<1>2. ToSet(ids(fetch.issues)) = ToSet(ids(given))
  <2>1. /\ ToSet(ids(fetch.issues)) = {fetch.issues[m].id : m \in DOMAIN fetch.issues}
        /\ ToSet(ids(given)) = {given[k].id : k \in DOMAIN given}
    BY DEF ToSet
  <2>2. \A m \in DOMAIN fetch.issues : \E k \in 1 .. L : fetch.issues[m].id = given[k].id
    BY <1>1 DEF HoldFirst
  <2>3. \A k \in 1 .. L : \E m \in DOMAIN fetch.issues : fetch.issues[m].id = given[k].id
    BY <1>1 DEF HoldFirst
  <2>4. {fetch.issues[m].id : m \in DOMAIN fetch.issues} = {given[k].id : k \in DOMAIN given}
    <3>1. ASSUME NEW m \in DOMAIN fetch.issues
          PROVE  fetch.issues[m].id \in {given[k].id : k \in DOMAIN given}
      <4>1. PICK k \in 1 .. L : fetch.issues[m].id = given[k].id
        BY <2>2
      <4> QED
        BY <1>1, <4>1
    <3>2. ASSUME NEW k \in DOMAIN given
          PROVE  given[k].id \in {fetch.issues[m].id : m \in DOMAIN fetch.issues}
      <4>1. PICK m \in DOMAIN fetch.issues : fetch.issues[m].id = given[k].id
        BY <1>1, <2>3
      <4> QED
        BY <4>1
    <3> QED
      BY <3>1, <3>2
  <2> QED
    BY <2>1, <2>4
<1>3. ASSUME NEW m \in DOMAIN fetch.issues
      PROVE  fetch.issues[m] = last(fetch.issues[m].id)
  <2>1. PICK k \in 1 .. L :
          fetch.issues[m] = given[k] /\ \A l \in k + 1 .. L : given[l].id # given[k].id
    BY <1>1, <1>3 DEF HoldFirst
  <2>2. SelectLastInSeq(given, LAMBDA s : s.id = given[k].id) = k
    BY <1>1, <2>1, PlacesOfIssue
  <2> QED
    BY <2>1, <2>2
<1>4. ASSUME NEW m \in DOMAIN fetch.issues, NEW n \in 1 .. (m - 1)
      PROVE  first(fetch.issues[n].id) < first(fetch.issues[m].id)
  <2>1. n \in DOMAIN fetch.issues /\ n < m
    BY <1>1, <1>4
  <2>2. PICK k \in 1 .. L :
          /\ given[k].id = fetch.issues[m].id /\ FirstOf(given, k)
          /\ \A j \in DOMAIN fetch.issues :
               j < m => \E l \in 1 .. k - 1 : given[l].id = fetch.issues[j].id
    BY <1>1, <1>4 DEF HoldFirst
  <2>3. PICK l \in 1 .. k - 1 : given[l].id = fetch.issues[n].id
    BY <2>1, <2>2
  <2>4. l \in 1 .. L /\ l < k
    BY <1>1, <2>2, <2>3
  <2>5. SelectInSeq(given, LAMBDA s : s.id = given[k].id) = k
    BY <1>1, <2>2, PlacesOfIssue
  <2>6. /\ SelectInSeq(given, LAMBDA s : s.id = given[l].id) <= l
        /\ SelectInSeq(given, LAMBDA s : s.id = given[l].id) \in 1 .. L
    BY <1>1, <2>4, PlacesOfIssue
  <2>7. first(fetch.issues[m].id) = k
    BY <2>2, <2>5
  <2>8. first(fetch.issues[n].id) \in 1 .. L /\ first(fetch.issues[n].id) <= l
    BY <2>3, <2>6
  <2> HIDE DEF first
  <2> QED
    BY <2>4, <2>7, <2>8
<1> QED
  BY <1>2, <1>3, <1>4 DEF FetchedAreTheLast

-----------------------------------------------------------------------------
(* The comments of an issue *)

Questions == Nat \X (CommentCursors \cup {None})

IsReading(r) ==
    /\ r = [at |-> r.at, start_at |-> r.start_at, page_cursor |-> r.page_cursor,
            seen_cursors |-> r.seen_cursors, comments |-> r.comments,
            pages_fetched |-> r.pages_fetched]
    /\ r.start_at \in Nat /\ r.pages_fetched \in Nat
    /\ r.page_cursor \in CommentCursors \cup {None}
    /\ r.page_cursor = None \/ r.page_cursor \in r.seen_cursors

\* While the read goes on, the offset never goes back, the cursors sent at one
\* offset are remembered, and what is asked next has not been asked.
OffsetsAndCursors(r) ==
    /\ IsReading(r)
    /\ \A i \in 1 .. Len(questions) :
          /\ questions[i][1] <= r.start_at
          /\ questions[i][2] = None \/ questions[i][2] \in r.seen_cursors
    /\ r.at \in {"core", "ready"} =>
          /\ Len(questions) = r.pages_fetched
          /\ r.pages_fetched < MaxCommentPages
          /\ \A i \in 1 .. Len(questions) :
                questions[i] # <<r.start_at, r.page_cursor>>
    /\ r.at = "asked" => Len(questions) = r.pages_fetched + 1

ReadingInv ==
    /\ questions \in Seq(Questions)
    /\ Len(questions) <= MaxCommentPages
    /\ IsInjective(questions)
    /\ reading.at \in {"core", "ready", "asked", "done", "failed"}
    /\ reading.at \in {"core", "ready", "asked"} => OffsetsAndCursors(reading)

LEMMA ReadingInit == CommentPaginationInit => ReadingInv
<1> SUFFICES ASSUME CommentPaginationInit PROVE ReadingInv
  OBVIOUS
<1>1. /\ questions = <<>> /\ questions \in Seq(Questions)
      /\ Len(questions) = 0 /\ DOMAIN questions = 1 .. 0
  BY EmptySeq, LenProperties DEF CommentPaginationInit
<1>2. IsInjective(questions)
  BY <1>1 DEF IsInjective
<1> QED
  BY <1>1, <1>2, CommentPaginationAssumption DEF CommentPaginationInit, ReadingInv,
       OffsetsAndCursors, IsReading

\* A page that is accepted fails the read, ends it, or leads to a new question.
Leads(r, next) ==
    \/ next.at \in {"failed", "done"}
    \/ /\ r.pages_fetched < MaxCommentPages
       /\ \/ \E cursor \in CommentCursors \ r.seen_cursors :
                next = [r EXCEPT !.at = "ready", !.page_cursor = cursor,
                                 !.seen_cursors = @ \cup {cursor}]
          \/ \E offset \in Nat :
                /\ offset > r.start_at
                /\ next = [r EXCEPT !.at = "ready", !.start_at = offset,
                                    !.page_cursor = None]

\* The pages Jira may answer with.
LEMMA PageTypes ==
  ASSUME IsReading(reading), NEW page \in HonestPages \cup OtherPages
  PROVE  /\ page.next_start_at \in Nat \cup {None}
         /\ page.next_cursor \in CommentCursors \cup {None}
<1>1. ASSUME NEW s \in Nat, NEW comments, Len(comments) \in Nat, NEW total
      PROVE  /\ map_comment_page(s, comments, total).next_start_at \in Nat \cup {None}
             /\ map_comment_page(s, comments, total).next_cursor = None
  BY <1>1 DEF map_comment_page, Page
<1>2. CASE page \in HonestPages
  <2>1. PICK n \in 0 .. PageSize :
          page = map_comment_page(reading.start_at,
                                  [i \in 1 .. n |-> reading.start_at + i], listing)
    BY <1>2 DEF HonestPages
  <2>2. [i \in 1 .. n |-> reading.start_at + i] \in Seq(Nat)
    <3>1. n \in Nat /\ \A i \in 1 .. n : reading.start_at + i \in Nat
      BY CommentPaginationAssumption DEF IsReading
    <3> QED
      BY <3>1
  <2>3. Len([i \in 1 .. n |-> reading.start_at + i]) \in Nat
    BY <2>2, LenProperties
  <2> QED
    BY <1>1, <2>1, <2>3 DEF IsReading
<1>3. CASE page \in OtherPages
  <2> DEFINE comments == {[i \in 1 .. n |-> 0] : n \in 0 .. (PageSize + 1)}
             totals == {None} \cup 0 .. (MaxComments + 1)
  <2>1. CASE page \in {map_comment_page(s, c, t) :
                         s \in reading.start_at .. (reading.start_at + 1),
                         c \in comments, t \in totals}
    <3>1. PICK s \in reading.start_at .. (reading.start_at + 1), c \in comments,
               t \in totals : page = map_comment_page(s, c, t)
      BY <2>1
    <3>2. PICK n \in 0 .. (PageSize + 1) : c = [i \in 1 .. n |-> 0]
      BY <3>1
    <3>3. c \in Seq(Nat)
      BY <3>2, CommentPaginationAssumption
    <3> QED
      BY <1>1, <3>1, <3>3, LenProperties DEF IsReading
  <2>2. CASE page \in {Page(reading.start_at, c, s, next, t) :
                         c \in comments, s \in {None} \cup 0 .. (MaxComments + 1),
                         next \in CommentCursors \cup {None}, t \in totals}
    <3>1. PICK c \in comments, s \in {None} \cup 0 .. (MaxComments + 1),
               next \in CommentCursors \cup {None}, t \in totals :
            page = Page(reading.start_at, c, s, next, t)
      BY <2>2
    <3> QED
      BY <3>1, CommentPaginationAssumption DEF Page
  <2> QED
    BY <1>3, <2>1, <2>2 DEF OtherPages
<1> QED
  BY <1>2, <1>3

\* Following a cursor or an offset.
LEMMA LimitLeads ==
  ASSUME NEW r, IsReading(r)
  PROVE  \/ continue_or_limit(r).at = "failed"
         \/ /\ r.pages_fetched < MaxCommentPages
            /\ continue_or_limit(r) = [r EXCEPT !.at = "ready"]
<1>1. CASE r.pages_fetched >= MaxCommentPages
  BY <1>1 DEF continue_or_limit, Failed, IsReading
<1>2. CASE ~(r.pages_fetched >= MaxCommentPages)
  BY <1>2, CommentPaginationAssumption DEF continue_or_limit, IsReading
<1> QED
  BY <1>1, <1>2

LEMMA CursorLeads ==
  ASSUME NEW r, IsReading(r), NEW cursor \in CommentCursors
  PROVE  Leads(r, by_cursor(r, cursor))
<1>1. CASE r.page_cursor = cursor \/ cursor \in r.seen_cursors
  BY <1>1 DEF by_cursor, Failed, IsReading, Leads
<1>2. CASE ~(r.page_cursor = cursor \/ cursor \in r.seen_cursors)
  <2> DEFINE q == [r EXCEPT !.page_cursor = cursor, !.seen_cursors = @ \cup {cursor}]
  <2>1. IsReading(q) /\ q.pages_fetched = r.pages_fetched
    <3>1. q = [at |-> r.at, start_at |-> r.start_at, page_cursor |-> cursor,
               seen_cursors |-> r.seen_cursors \cup {cursor},
               comments |-> r.comments, pages_fetched |-> r.pages_fetched]
      <4>1. PICK p : p = [r EXCEPT !.page_cursor = cursor]
        OBVIOUS
      <4>2. p = [at |-> r.at, start_at |-> r.start_at, page_cursor |-> cursor,
                 seen_cursors |-> r.seen_cursors, comments |-> r.comments,
                 pages_fetched |-> r.pages_fetched]
        BY <4>1 DEF IsReading
      <4>3. q = [p EXCEPT !.seen_cursors = @ \cup {cursor}]
        BY <4>1 DEF IsReading
      <4> QED
        BY <4>2, <4>3
    <3> HIDE DEF q
    <3> QED
      BY <3>1 DEF IsReading
  <2>2. by_cursor(r, cursor) = continue_or_limit(q)
    BY <1>2 DEF by_cursor
  <2>3. [q EXCEPT !.at = "ready"] =
          [r EXCEPT !.at = "ready", !.page_cursor = cursor,
                    !.seen_cursors = @ \cup {cursor}]
    BY DEF IsReading
  <2> HIDE DEF q
  <2> QED
    BY <1>2, <2>1, <2>2, <2>3, LimitLeads DEF Leads
<1> QED
  BY <1>1, <1>2

LEMMA OffsetLeads ==
  ASSUME NEW r, IsReading(r), NEW offset \in Nat, NEW total
  PROVE  Leads(r, by_offset(r, offset, total))
<1>1. CASE offset <= r.start_at \/ (total # None /\ offset > total)
  BY <1>1 DEF by_offset, Failed, IsReading, Leads
<1>2. CASE ~(offset <= r.start_at \/ (total # None /\ offset > total))
  <2> DEFINE q == [r EXCEPT !.start_at = offset, !.page_cursor = None]
  <2>1. IsReading(q) /\ q.pages_fetched = r.pages_fetched
    <3>1. q = [at |-> r.at, start_at |-> offset, page_cursor |-> None,
               seen_cursors |-> r.seen_cursors, comments |-> r.comments,
               pages_fetched |-> r.pages_fetched]
      <4>1. PICK p : p = [r EXCEPT !.start_at = offset]
        OBVIOUS
      <4>2. p = [at |-> r.at, start_at |-> offset, page_cursor |-> r.page_cursor,
                 seen_cursors |-> r.seen_cursors, comments |-> r.comments,
                 pages_fetched |-> r.pages_fetched]
        BY <4>1 DEF IsReading
      <4>3. q = [p EXCEPT !.page_cursor = None]
        BY <4>1 DEF IsReading
      <4> QED
        BY <4>2, <4>3
    <3> HIDE DEF q
    <3> QED
      BY <3>1 DEF IsReading
  <2>2. by_offset(r, offset, total) = continue_or_limit(q)
    BY <1>2 DEF by_offset
  <2>3. [q EXCEPT !.at = "ready"] =
          [r EXCEPT !.at = "ready", !.start_at = offset, !.page_cursor = None]
    BY DEF IsReading
  <2>4. offset > r.start_at
    BY <1>2 DEF IsReading
  <2> HIDE DEF q
  <2> QED
    BY <2>1, <2>2, <2>3, <2>4, LimitLeads DEF Leads
<1> QED
  BY <1>1, <1>2

LEMMA ContinuedLeads ==
  ASSUME NEW r, IsReading(r), NEW page,
         page.next_start_at \in Nat \cup {None},
         page.next_cursor \in CommentCursors \cup {None}
  PROVE  Leads(r, continued(r, page))
<1>1. \A at \in {"done", "failed"} : [r EXCEPT !.at = at].at = at
  BY DEF IsReading
<1>2. CASE continued(r, page) = [r EXCEPT !.at = "done"]
  BY <1>1, <1>2 DEF Leads
<1>3. CASE continued(r, page) = Failed(r)
  BY <1>1, <1>3 DEF Leads, Failed
<1>4. CASE /\ page.next_cursor # None
           /\ continued(r, page) = by_cursor(r, page.next_cursor)
  BY <1>4, CursorLeads
<1>5. CASE /\ page.next_start_at # None
           /\ continued(r, page) = by_offset(r, page.next_start_at, page.total)
  BY <1>5, OffsetLeads
<1>6. CASE continued(r, page) = by_offset(r, r.start_at + PageSize, None)
  <2>1. r.start_at + PageSize \in Nat
    BY CommentPaginationAssumption DEF IsReading
  <2> QED
    BY <1>6, <2>1, OffsetLeads
<1> QED
  BY <1>2, <1>3, <1>4, <1>5, <1>6 DEF continued

LEMMA AcceptStep ==
  ASSUME ReadingInv, AcceptComments
  PROVE  ReadingInv'
<1>1. reading.at = "asked" /\ UNCHANGED questions /\ OffsetsAndCursors(reading)
  BY DEF AcceptComments, ReadingInv
<1>2. PICK page \in HonestPages \cup OtherPages :
        reading' = accept_comments_page(page)
  BY DEF AcceptComments
<1> DEFINE r == [reading EXCEPT !.comments = @ \o page.comments,
                                !.pages_fetched = @ + 1]
<1>3. IsReading(r) /\ r.pages_fetched = Len(questions)
      /\ r.start_at = reading.start_at /\ r.seen_cursors = reading.seen_cursors
  <2>1. r = [at |-> reading.at, start_at |-> reading.start_at,
             page_cursor |-> reading.page_cursor,
             seen_cursors |-> reading.seen_cursors,
             comments |-> reading.comments \o page.comments,
             pages_fetched |-> reading.pages_fetched + 1]
    <3>1. PICK p : p = [reading EXCEPT !.comments = @ \o page.comments]
      OBVIOUS
    <3>2. p = [at |-> reading.at, start_at |-> reading.start_at,
               page_cursor |-> reading.page_cursor,
               seen_cursors |-> reading.seen_cursors,
               comments |-> reading.comments \o page.comments,
               pages_fetched |-> reading.pages_fetched]
      BY <1>1, <3>1 DEF OffsetsAndCursors, IsReading
    <3>3. r = [p EXCEPT !.pages_fetched = reading.pages_fetched + 1]
      BY <1>1, <3>1 DEF OffsetsAndCursors, IsReading
    <3> HIDE DEF r
    <3> QED
      BY <3>2, <3>3
  <2> HIDE DEF r
  <2> QED
    BY <1>1, <2>1 DEF OffsetsAndCursors, IsReading
<1>4. reading'.at = "failed" \/ Leads(r, reading')
  <2>1. Leads(r, continued(r, page))
    BY <1>1, <1>3, PageTypes, ContinuedLeads DEF OffsetsAndCursors
  <2>2. Failed(reading).at = "failed"
    BY <1>1 DEF Failed, OffsetsAndCursors, IsReading
  <2> QED
    BY <1>2, <2>1, <2>2 DEF accept_comments_page
<1> HIDE DEF r
<1>5. CASE reading'.at \in {"failed", "done"}
  BY <1>1, <1>5 DEF ReadingInv
<1>6. CASE r.pages_fetched < MaxCommentPages /\
           \E cursor \in CommentCursors \ r.seen_cursors :
              reading' = [r EXCEPT !.at = "ready", !.page_cursor = cursor,
                                   !.seen_cursors = @ \cup {cursor}]
  <2>1. PICK cursor \in CommentCursors \ r.seen_cursors :
          reading' = [r EXCEPT !.at = "ready", !.page_cursor = cursor,
                               !.seen_cursors = @ \cup {cursor}]
    BY <1>6
  <2>2. /\ IsReading(reading') /\ reading'.at = "ready"
        /\ reading'.start_at = reading.start_at
        /\ reading'.pages_fetched = Len(questions)
        /\ reading'.page_cursor = cursor
        /\ reading'.seen_cursors = reading.seen_cursors \cup {cursor}
    BY <1>3, <2>1 DEF IsReading
  <2>3. \A i \in 1 .. Len(questions) :
           questions[i][2] # cursor
    BY <1>1, <1>3, <2>1, CommentPaginationAssumption DEF OffsetsAndCursors
  <2>4. OffsetsAndCursors(reading)'
    BY <1>1, <1>3, <1>6, <2>2, <2>3 DEF OffsetsAndCursors
  <2> QED
    BY <1>1, <2>2, <2>4 DEF ReadingInv
<1>7. CASE r.pages_fetched < MaxCommentPages /\
           \E offset \in Nat :
              /\ offset > r.start_at
              /\ reading' = [r EXCEPT !.at = "ready", !.start_at = offset,
                                      !.page_cursor = None]
  <2>1. PICK offset \in Nat :
          /\ offset > r.start_at
          /\ reading' = [r EXCEPT !.at = "ready", !.start_at = offset,
                                  !.page_cursor = None]
    BY <1>7
  <2>2. /\ IsReading(reading') /\ reading'.at = "ready"
        /\ reading'.start_at = offset
        /\ reading'.pages_fetched = Len(questions)
        /\ reading'.page_cursor = None
        /\ reading'.seen_cursors = reading.seen_cursors
    BY <1>3, <2>1 DEF IsReading
  <2>3. \A i \in 1 .. Len(questions) :
           questions[i][1] < offset /\ questions[i][1] \in Nat
    <3> TAKE i \in 1 .. Len(questions)
    <3>1. questions[i] \in Questions
      BY ElementOfSeq DEF ReadingInv
    <3>2. questions[i][1] \in Nat
      BY <3>1 DEF Questions
    <3>3. questions[i][1] <= reading.start_at /\ reading.start_at \in Nat
      BY <1>1 DEF OffsetsAndCursors, IsReading
    <3> QED
      BY <1>3, <2>1, <3>2, <3>3
  <2>4. OffsetsAndCursors(reading)'
    <3>1. \A i \in 1 .. Len(questions) :
             /\ questions[i][1] <= offset
             /\ questions[i] # <<offset, None>>
             /\ questions[i][2] = None \/ questions[i][2] \in reading.seen_cursors
      BY <1>1, <2>3 DEF OffsetsAndCursors
    <3> QED
      BY <1>1, <1>3, <1>7, <2>2, <3>1 DEF OffsetsAndCursors
  <2> QED
    BY <1>1, <2>2, <2>4 DEF ReadingInv
<1> QED
  BY <1>4, <1>5, <1>6, <1>7 DEF Leads

LEMMA AskStep ==
  ASSUME ReadingInv, FetchComments
  PROVE  ReadingInv'
<1>1. reading.at = "ready" /\ OffsetsAndCursors(reading)
  BY DEF FetchComments, ReadingInv
<1>2. CASE reading_token
  BY <1>1, <1>2 DEF FetchComments, Failed, ReadingInv, OffsetsAndCursors, IsReading
<1>3. CASE ~reading_token
  <2> DEFINE q == <<reading.start_at, reading.page_cursor>>
  <2>1. /\ reading' = [reading EXCEPT !.at = "asked"]
        /\ questions' = Append(questions, q) /\ q \in Questions
    BY <1>1, <1>3 DEF FetchComments, OffsetsAndCursors, IsReading, Questions
  <2>2. /\ IsReading(reading') /\ reading'.at = "asked"
        /\ reading'.start_at = reading.start_at
        /\ reading'.pages_fetched = reading.pages_fetched
        /\ reading'.seen_cursors = reading.seen_cursors
    BY <1>1, <2>1 DEF OffsetsAndCursors, IsReading
  <2>3. /\ questions' \in Seq(Questions) /\ Len(questions) \in Nat
        /\ Len(questions') = Len(questions) + 1
        /\ \A i \in 1 .. Len(questions) : questions'[i] = questions[i]
        /\ questions'[Len(questions) + 1] = q
    BY <2>1, AppendProperties, LenProperties DEF ReadingInv
  <2>4. IsInjective(questions')
    BY <1>1, <2>1, AppendNew DEF ReadingInv, OffsetsAndCursors
  <2>5. \A i \in 1 .. Len(questions') :
           /\ questions'[i][1] <= reading.start_at
           /\ questions'[i][2] = None \/ questions'[i][2] \in reading.seen_cursors
    <3> TAKE i \in 1 .. Len(questions')
    <3>1. CASE i \in 1 .. Len(questions)
      BY <1>1, <2>3, <3>1 DEF OffsetsAndCursors
    <3>2. CASE i = Len(questions) + 1
      BY <1>1, <2>3, <3>2 DEF OffsetsAndCursors, IsReading
    <3> QED
      BY <2>3, <3>1, <3>2
  <2>6. Len(questions') = reading'.pages_fetched + 1
        /\ Len(questions') <= MaxCommentPages
    BY <1>1, <2>2, <2>3, CommentPaginationAssumption DEF OffsetsAndCursors
  <2>7. OffsetsAndCursors(reading)'
    BY <2>2, <2>5, <2>6 DEF OffsetsAndCursors
  <2> QED
    BY <2>2, <2>3, <2>4, <2>6, <2>7 DEF ReadingInv
<1> QED
  BY <1>2, <1>3

LEMMA ReadingStep ==
  ASSUME ReadingInv, CommentPaginationNext
  PROVE  ReadingInv'
<1>1. CASE FetchCore
  <2>1. reading.at = "core" /\ OffsetsAndCursors(reading) /\ UNCHANGED questions
    BY <1>1 DEF FetchCore, ReadingInv
  <2>2. CASE reading' = [reading EXCEPT !.at = "ready"]
    <3>1. IsReading(reading') /\ reading'.at = "ready"
          /\ reading'.start_at = reading.start_at
          /\ reading'.page_cursor = reading.page_cursor
          /\ reading'.pages_fetched = reading.pages_fetched
          /\ reading'.seen_cursors = reading.seen_cursors
      BY <2>1, <2>2 DEF OffsetsAndCursors, IsReading
    <3>2. OffsetsAndCursors(reading)'
      BY <2>1, <3>1 DEF OffsetsAndCursors
    <3> QED
      BY <2>1, <3>1, <3>2 DEF ReadingInv
  <2>3. CASE reading' = Failed(reading)
    BY <2>1, <2>3 DEF Failed, ReadingInv, OffsetsAndCursors, IsReading
  <2> QED
    BY <1>1, <2>2, <2>3 DEF FetchCore
<1>2. CASE FetchComments
  BY <1>2, AskStep
<1>3. CASE AcceptComments
  BY <1>3, AcceptStep
<1>4. CASE ReadFails
  BY <1>4 DEF ReadFails, Failed, ReadingInv, OffsetsAndCursors, IsReading
<1>5. CASE CancelRead
  BY <1>5 DEF CancelRead, ReadingInv, OffsetsAndCursors, IsReading
<1> QED
  BY <1>1, <1>2, <1>3, <1>4, <1>5 DEF CommentPaginationNext

-----------------------------------------------------------------------------
(* A reading that ends well is whole *)

\* The comments of the first n places.
Places(n) == [i \in 1 .. n |-> i]

\* As long as Jira answers from its listing, what was read is its beginning.
WholeInv ==
    /\ listing \in Nat
    /\ honest /\ reading.at \in {"core", "ready", "asked"} =>
          reading.start_at <= listing /\ reading.comments = Places(reading.start_at)
    /\ honest /\ reading.at = "done" => reading.comments = Places(listing)

LEMMA WholeInit == CommentPaginationInit => WholeInv
<1> SUFFICES ASSUME CommentPaginationInit PROVE WholeInv
  OBVIOUS
<1>1. /\ reading.at = "core" /\ reading.start_at = 0 /\ reading.comments = <<>>
      /\ listing \in Nat
  BY CommentPaginationAssumption DEF CommentPaginationInit
<1>2. Places(0) = <<>>
  BY DEF Places
<1> QED
  BY <1>1, <1>2 DEF WholeInv

\* Places that follow are appended.
LEMMA PlacesFollow ==
  ASSUME NEW s \in Nat, NEW n \in Nat
  PROVE  /\ Places(s) \o [i \in 1 .. n |-> s + i] = Places(s + n)
         /\ Len(Places(s) \o [i \in 1 .. n |-> s + i]) = s + n
<1> DEFINE a == Places(s)
           b == [i \in 1 .. n |-> s + i]
<1>1. a \in Seq(Nat) /\ Len(a) = s /\ \A i \in 1 .. s : a[i] = i
  BY DEF Places
<1>2. b \in Seq(Nat) /\ Len(b) = n /\ \A i \in 1 .. n : b[i] = s + i
  OBVIOUS
<1> HIDE DEF a, b
<1>3. /\ a \o b \in Seq(Nat) /\ Len(a \o b) = s + n
      /\ \A i \in 1 .. s + n : (a \o b)[i] = IF i <= s THEN a[i] ELSE b[i - s]
  BY <1>1, <1>2, ConcatProperties
<1>4. \A i \in 1 .. s + n : (a \o b)[i] = i
  <2> TAKE i \in 1 .. s + n
  <2>1. CASE i <= s
    BY <1>1, <1>3, <2>1
  <2>2. CASE ~(i <= s)
    <3>1. i - s \in 1 .. n
      BY <2>2
    <3> QED
      BY <1>2, <1>3, <2>2, <3>1
  <2> QED
    BY <2>1, <2>2
<1>5. a \o b = [i \in 1 .. s + n |-> i]
  <2> DEFINE c == [i \in 1 .. s + n |-> i]
  <2>1. c \in Seq(Nat) /\ Len(c) = s + n /\ \A i \in 1 .. s + n : c[i] = i
    OBVIOUS
  <2> HIDE DEF c
  <2>2. a \o b = c
    BY <1>3, <1>4, <2>1, SeqEqual
  <2> QED
    BY <2>2 DEF c
<1> QED
  BY <1>3, <1>5 DEF a, b, Places

\* A page from the listing leads on, ends the reading at the listing's end, or fails it.
LEMMA HonestPageLeads ==
  ASSUME ReadingInv, WholeInv, honest, reading.at = "asked", NEW page \in HonestPages
  PROVE  LET next == accept_comments_page(page)
         IN  \/ next.at = "failed"
             \/ next.at = "done" /\ next.comments = Places(listing)
             \/ /\ next.at = "ready" /\ next.start_at <= listing
                /\ next.comments = Places(next.start_at)
<1> DEFINE s == reading.start_at
           next == accept_comments_page(page)
           r == [reading EXCEPT !.comments = @ \o page.comments, !.pages_fetched = @ + 1]
<1>1. /\ IsReading(reading) /\ s \in Nat /\ listing \in Nat /\ s <= listing
      /\ reading.comments = Places(s) /\ None \notin Nat
  BY CommentPaginationAssumption DEF ReadingInv, OffsetsAndCursors, WholeInv, IsReading
<1>2. PICK n \in 0 .. PageSize :
        /\ s + n <= listing
        /\ page = map_comment_page(s, [i \in 1 .. n |-> s + i], listing)
  BY DEF HonestPages
<1>3. n \in Nat /\ s + n \in Nat
  BY <1>1, <1>2, CommentPaginationAssumption
<1> DEFINE rest == [i \in 1 .. n |-> s + i]
<1>4. Len(rest) = n /\ (rest = <<>> <=> n = 0)
  <2>1. rest \in Seq(Nat) /\ Len(rest) = n
    BY <1>1, <1>3
  <2> HIDE DEF rest
  <2> QED
    BY <2>1, EmptySeq, LenProperties
<1>5. reading.comments \o rest = Places(s + n) /\ Len(reading.comments \o rest) = s + n
  BY <1>1, <1>3, PlacesFollow
<1> HIDE DEF rest
<1>6. /\ page.comments = rest /\ page.total = listing /\ page.next_cursor = None
      /\ page.next_start_at = IF n # 0 /\ s + n < listing THEN s + n ELSE None
  <2>1. listing # None
    BY <1>1
  <2>2. page = Page(s, rest, IF listing # None /\ rest # <<>> /\ s + Len(rest) < listing
                             THEN s + Len(rest) ELSE None, None, listing)
    BY <1>2 DEF map_comment_page, rest
  <2> QED
    BY <1>4, <2>1, <2>2 DEF Page
<1>7. /\ r = [at |-> reading.at, start_at |-> s, page_cursor |-> reading.page_cursor,
              seen_cursors |-> reading.seen_cursors, comments |-> Places(s + n),
              pages_fetched |-> reading.pages_fetched + 1]
      /\ IsReading(r)
  <2>1. PICK p : p = [reading EXCEPT !.comments = @ \o page.comments]
    OBVIOUS
  <2>2. p = [at |-> reading.at, start_at |-> s, page_cursor |-> reading.page_cursor,
             seen_cursors |-> reading.seen_cursors, comments |-> Places(s + n),
             pages_fetched |-> reading.pages_fetched]
    BY <1>1, <1>5, <1>6, <2>1 DEF IsReading
  <2>3. r = [p EXCEPT !.pages_fetched = reading.pages_fetched + 1]
    BY <1>1, <2>1 DEF IsReading
  <2>4. r = [at |-> reading.at, start_at |-> s, page_cursor |-> reading.page_cursor,
             seen_cursors |-> reading.seen_cursors, comments |-> Places(s + n),
             pages_fetched |-> reading.pages_fetched + 1]
    <3> HIDE DEF r
    <3> QED
      BY <2>2, <2>3
  <2> HIDE DEF r
  <2> QED
    BY <1>1, <2>4 DEF IsReading
<1> HIDE DEF r
<1>8. next = Failed(reading) \/ next = continued(r, page)
  BY DEF accept_comments_page, r
<1>9. Failed(reading).at = "failed" /\ Failed(r).at = "failed"
  BY <1>1, <1>7 DEF Failed, IsReading
<1>10. Len(r.comments) = s + n
  BY <1>5, <1>7
<1>11. CASE s + n = listing
  <2>1. continued(r, page) = [r EXCEPT !.at = "done"]
    BY <1>6, <1>10, <1>11 DEF continued
  <2>2. /\ [r EXCEPT !.at = "done"].at = "done"
        /\ [r EXCEPT !.at = "done"].comments = Places(s + n)
    BY <1>7
  <2> QED
    BY <1>8, <1>9, <1>11, <2>1, <2>2
<1>12. CASE s + n # listing /\ n = 0
  <2>1. continued(r, page) = Failed(r)
    BY <1>1, <1>6, <1>10, <1>12 DEF continued
  <2> QED
    BY <1>8, <1>9, <2>1
<1>13. CASE s + n # listing /\ n # 0
  <2>1. page.next_start_at = s + n /\ s + n # None
    BY <1>1, <1>2, <1>3, <1>6, <1>13
  <2>2. continued(r, page) = by_offset(r, s + n, listing)
    BY <1>6, <1>10, <1>13, <2>1 DEF continued
  <2> DEFINE q == [r EXCEPT !.start_at = s + n, !.page_cursor = None]
  <2>3. q = [at |-> reading.at, start_at |-> s + n, page_cursor |-> None,
             seen_cursors |-> reading.seen_cursors, comments |-> Places(s + n),
             pages_fetched |-> reading.pages_fetched + 1]
    <3>1. PICK p : p = [r EXCEPT !.start_at = s + n]
      OBVIOUS
    <3>2. p = [at |-> reading.at, start_at |-> s + n, page_cursor |-> reading.page_cursor,
               seen_cursors |-> reading.seen_cursors, comments |-> Places(s + n),
               pages_fetched |-> reading.pages_fetched + 1]
      BY <1>7, <3>1
    <3>3. q = [p EXCEPT !.page_cursor = None]
      BY <1>7, <3>1
    <3> HIDE DEF q
    <3> QED
      BY <3>2, <3>3
  <2>4. by_offset(r, s + n, listing) \in {Failed(r), continue_or_limit(q)}
    BY DEF by_offset
  <2> HIDE DEF q
  <2>5. continue_or_limit(q) \in {Failed(q), [q EXCEPT !.at = "ready"]}
    BY DEF continue_or_limit
  <2>6. /\ Failed(q).at = "failed"
        /\ [q EXCEPT !.at = "ready"].at = "ready"
        /\ [q EXCEPT !.at = "ready"].start_at = s + n
        /\ [q EXCEPT !.at = "ready"].comments = Places(s + n)
    BY <2>3 DEF Failed
  <2>7. \/ next.at = "failed"
        \/ /\ next.at = "ready" /\ next.start_at = s + n
           /\ next.comments = Places(s + n)
    <3>1. next \in {Failed(reading), Failed(r), Failed(q), [q EXCEPT !.at = "ready"]}
      BY <1>8, <2>2, <2>4, <2>5
    <3> HIDE DEF next
    <3> QED
      BY <1>9, <2>6, <3>1
  <2> QED
    BY <1>2, <2>7
<1> QED
  BY <1>11, <1>12, <1>13

LEMMA WholeStep ==
  ASSUME ReadingInv, WholeInv, CommentPaginationNext
  PROVE  WholeInv'
<1>1. reading.at \in {"core", "ready", "asked"} => IsReading(reading)
  BY DEF ReadingInv, OffsetsAndCursors
<1>2. CASE FetchCore \/ FetchComments \/ ReadFails
  <2>1. /\ UNCHANGED <<listing, honest>> /\ reading.at \in {"core", "ready", "asked"}
        /\ \E at \in {"ready", "asked", "failed"} : reading' = [reading EXCEPT !.at = at]
    BY <1>2 DEF FetchCore, FetchComments, ReadFails, Failed
  <2>2. /\ reading'.at \in {"ready", "asked", "failed"}
        /\ reading'.start_at = reading.start_at /\ reading'.comments = reading.comments
    BY <1>1, <2>1 DEF IsReading
  <2> QED
    BY <2>1, <2>2 DEF WholeInv
<1>3. CASE AcceptComments
  <2>1. UNCHANGED listing /\ reading.at = "asked"
    BY <1>3 DEF AcceptComments
  <2>2. CASE honest' /\ honest
    <3>1. PICK page \in HonestPages : reading' = accept_comments_page(page)
      BY <1>3, <2>2 DEF AcceptComments
    <3> QED
      BY <2>1, <2>2, <3>1, HonestPageLeads DEF WholeInv
  <2>3. CASE ~(honest' /\ honest)
    <3>1. ~honest'
      BY <1>3, <2>3 DEF AcceptComments
    <3> QED
      BY <2>1, <3>1 DEF WholeInv
  <2> QED
    BY <2>2, <2>3
<1>4. CASE CancelRead
  BY <1>4 DEF CancelRead, WholeInv
<1> QED
  BY <1>2, <1>3, <1>4 DEF CommentPaginationNext

-----------------------------------------------------------------------------
(* Both *)

PagingInv == FetchInv /\ ReadingInv

\* One step per reader.
LEMMA PagingStep ==
  ASSUME PagingInv, [PagingNext]_<<fetchVars, readingVars>>
  PROVE  PagingInv'
<1>1. CASE IssuePaginationNext /\ UNCHANGED readingVars
  <2>1. FetchInv'
    BY <1>1, FetchStep DEF PagingInv
  <2>2. ReadingInv'
    BY <1>1 DEF PagingInv, ReadingInv, readingVars, OffsetsAndCursors, IsReading
  <2> QED
    BY <2>1, <2>2 DEF PagingInv
<1>2. CASE CommentPaginationNext /\ UNCHANGED fetchVars
  <2>1. ReadingInv'
    BY <1>2, ReadingStep DEF PagingInv
  <2>2. FetchInv'
    BY <1>2 DEF PagingInv, FetchInv, fetchVars
  <2> QED
    BY <2>1, <2>2 DEF PagingInv
<1>3. CASE UNCHANGED <<fetchVars, readingVars>>
  BY <1>3 DEF PagingInv, FetchInv, ReadingInv, fetchVars, readingVars,
              OffsetsAndCursors, IsReading
<1> QED
  BY <1>1, <1>2, <1>3 DEF PagingNext

LEMMA PagingStart == PagingInit => PagingInv
  BY FetchInit, ReadingInit DEF PagingInit, PagingInv

\* Whatever Jira answers, blank, repeated or endless, and however often a fetch
\* is cancelled, no page is asked for twice and the number of requests keeps its
\* limit, in the search for issues and in the reading of comments.
THEOREM NoPageTwice == PagingSpec => []RequestsAreNew
<1>1. PagingInv => RequestsAreNew
  BY DEF PagingInv, FetchInv, ReadingInv, RequestsAreNew, IssueRequestsAreNew,
         CommentRequestsAreNew
<1> QED
  BY <1>1, PagingStart, PagingStep, PTL DEF PagingSpec

\* However the snapshots of an issue are spread over the pages, a search that
\* ends has the last of each, once and in the order the issues came first; and a
\* reading that ends has every comment, whatever the sizes of its pages, as long
\* as they came from a listing that did not change.
THEOREM NothingIsCutOff == PagingSpec => []ReadingsAreWhole
<1> DEFINE Inv == PagingInv /\ TakenInv /\ WholeInv
<1>1. PagingInit => Inv
  BY PagingStart, TakenInit, WholeInit DEF PagingInit
<1>2. Inv /\ [PagingNext]_<<fetchVars, readingVars>> => Inv'
  <2> SUFFICES ASSUME Inv, [PagingNext]_<<fetchVars, readingVars>>
               PROVE  Inv'
    OBVIOUS
  <2>1. PagingInv'
    BY PagingStep
  <2>2. TakenInv'
    <3>1. CASE IssuePaginationNext
      BY <3>1, TakenStep DEF PagingInv
    <3>2. CASE UNCHANGED fetchVars
      BY <3>2 DEF TakenInv, fetchVars
    <3> QED
      BY <3>1, <3>2 DEF PagingNext
  <2>3. WholeInv'
    <3>1. CASE CommentPaginationNext
      BY <3>1, WholeStep DEF PagingInv
    <3>2. CASE UNCHANGED readingVars
      BY <3>2 DEF WholeInv, readingVars
    <3> QED
      BY <3>1, <3>2 DEF PagingNext
  <2> QED
    BY <2>1, <2>2, <2>3
<1>3. Inv => ReadingsAreWhole
  BY TakenAreTheLast DEF WholeInv, Places, ReadingsAreWhole, CommentsAreWhole
<1> QED
  BY <1>1, <1>2, <1>3, PTL DEF PagingSpec

-----------------------------------------------------------------------------
(* Documents: induction and what is in a tree *)

\* What holds at the beginning and passes on holds up to n.
LEMMA Climb ==
  ASSUME NEW n \in Nat, NEW T, 0 \in T, \A k \in 0 .. n - 1 : k \in T => k + 1 \in T
  PROVE  \A k \in 0 .. n : k \in T
<1> SUFFICES ASSUME NEW m \in 0 .. n, m \notin T PROVE FALSE
  OBVIOUS
<1> DEFINE U == {k \in 0 .. n : k \notin T}
<1>1. U \in SUBSET Nat /\ U # {}
  OBVIOUS
<1>2. PICK k \in U : \A j \in U : k <= j
  <2> HIDE DEF U
  <2> QED
    BY <1>1, Least
<1>3. k \in 0 .. n /\ k \notin T /\ k # 0
  OBVIOUS
<1>4. k - 1 \in 0 .. n - 1 /\ k - 1 \notin U
  <2>1. k - 1 \in 0 .. n - 1 /\ ~ (k <= k - 1)
    BY <1>3
  <2> HIDE DEF U
  <2> QED
    BY <1>2, <2>1
<1>5. k - 1 \in T /\ (k - 1) + 1 = k
  BY <1>3, <1>4
<1> QED
  BY <1>3, <1>4, <1>5

\* f collects what is in S and its parts, level by level.
Collects(f, n, S) ==
    /\ f[0] = S
    /\ \A k \in 0 .. n - 1 :
          f[k + 1] = f[k] \cup UNION {Elements(b.children) : b \in f[k]}

LEMMA BlocksCollected ==
  ASSUME NEW S, Levels \in Nat
  PROVE  \E f : /\ Collects(f, Levels, S)
                /\ Within(Levels, LAMBDA b : Elements(b.children), S) = f[Levels]
<1> DEFINE More(T) == T \cup UNION {Elements(b.children) : b \in T}
           Is(f, n) == f = [k \in 0 .. n |-> IF k = 0 THEN S ELSE More(f[k - 1])]
           T == {n \in 0 .. Levels : \E f : Is(f, n)}
<1>1. 0 \in T
  <2>1. Is([k \in 0 .. 0 |-> S], 0)
    OBVIOUS
  <2> HIDE DEF Is
  <2> QED
    BY <2>1
<1>2. ASSUME NEW n \in 0 .. Levels - 1, n \in T PROVE n + 1 \in T
  <2>1. PICK f : Is(f, n)
    BY <1>2
  <2> DEFINE g == [k \in 0 .. n + 1 |-> IF k = n + 1 THEN More(f[n]) ELSE f[k]]
  <2> HIDE DEF More
  <2>2. ASSUME NEW k \in 0 .. n + 1
        PROVE  g[k] = IF k = 0 THEN S ELSE More(g[k - 1])
    <3>1. CASE k = 0
      BY <2>1, <3>1
    <3>2. CASE k = n + 1
      BY <3>2
    <3>3. CASE k \in 1 .. n
      <4>1. k # n + 1 /\ k - 1 # n + 1 /\ k - 1 \in 0 .. n /\ k # 0
        BY <3>3
      <4>2. g[k] = f[k] /\ g[k - 1] = f[k - 1]
        BY <4>1
      <4>3. f[k] = More(f[k - 1])
        BY <2>1, <3>3, <4>1
      <4> QED
        BY <4>1, <4>2, <4>3
    <3> QED
      BY <3>1, <3>2, <3>3
  <2>3. Is(g, n + 1)
    <3>1. g = [k \in 0 .. n + 1 |-> g[k]]
      OBVIOUS
    <3> HIDE DEF g
    <3> QED
      BY <2>2, <3>1, Zenon
  <2> HIDE DEF Is, g
  <2> QED
    BY <2>3
<1>3. Levels \in T
  <2> HIDE DEF T
  <2> QED
    BY <1>1, <1>2, Climb
<1> DEFINE u == CHOOSE f : Is(f, Levels)
<1>4. Is(u, Levels)
  BY <1>3
<1>5. Within(Levels, LAMBDA b : Elements(b.children), S) = u[Levels]
  BY DEF Within
<1>6. Collects(u, Levels, S)
  <2> HIDE DEF u
  <2>1. u[0] = S
    BY <1>4
  <2>2. ASSUME NEW k \in 0 .. Levels - 1 PROVE u[k + 1] = More(u[k])
    <3>1. k + 1 \in 0 .. Levels /\ k + 1 # 0 /\ (k + 1) - 1 = k
      OBVIOUS
    <3> QED
      BY <1>4, <3>1
  <2> QED
    BY <2>1, <2>2 DEF Collects
<1> QED
  BY <1>5, <1>6

LEMMA LevelsType == Levels \in Nat
  BY ContentAssumption DEF Levels

\* What is in S at any level.
Reach(S) == Within(Levels, LAMBDA b : Elements(b.children), S)

LEMMA ReachOfParts ==
  ASSUME NEW S, NEW A, NEW B, S \subseteq A \cup B
  PROVE  Reach(S) \subseteq Reach(A) \cup Reach(B)
<1>1. PICK f : Collects(f, Levels, S) /\ Reach(S) = f[Levels]
  BY LevelsType, BlocksCollected DEF Reach
<1>2. PICK g : Collects(g, Levels, A) /\ Reach(A) = g[Levels]
  BY LevelsType, BlocksCollected DEF Reach
<1>3. PICK h : Collects(h, Levels, B) /\ Reach(B) = h[Levels]
  BY LevelsType, BlocksCollected DEF Reach
<1> DEFINE T == {k \in 0 .. Levels : f[k] \subseteq g[k] \cup h[k]}
<1>4. 0 \in T
  BY <1>1, <1>2, <1>3, LevelsType DEF Collects
<1>5. ASSUME NEW k \in 0 .. Levels - 1, k \in T PROVE k + 1 \in T
  <2>1. /\ f[k + 1] = f[k] \cup UNION {Elements(b.children) : b \in f[k]}
        /\ g[k + 1] = g[k] \cup UNION {Elements(b.children) : b \in g[k]}
        /\ h[k + 1] = h[k] \cup UNION {Elements(b.children) : b \in h[k]}
    BY <1>1, <1>2, <1>3 DEF Collects
  <2>2. f[k] \subseteq g[k] \cup h[k]
    BY <1>5
  <2>3. f[k + 1] \subseteq g[k + 1] \cup h[k + 1]
    BY <2>1, <2>2, Zenon
  <2> QED
    BY <2>3, LevelsType
<1>6. Levels \in T
  <2> HIDE DEF T
  <2> QED
    BY <1>4, <1>5, LevelsType, Climb
<1> QED
  BY <1>1, <1>2, <1>3, <1>6

LEMMA ReachOfOne ==
  ASSUME NEW b
  PROVE  Reach({b}) \subseteq {b} \cup Reach(Elements(b.children))
<1> DEFINE C == Elements(b.children)
<1>1. PICK f : Collects(f, Levels, {b}) /\ Reach({b}) = f[Levels]
  BY LevelsType, BlocksCollected DEF Reach
<1>2. PICK g : Collects(g, Levels, C) /\ Reach(C) = g[Levels]
  BY LevelsType, BlocksCollected DEF Reach
<1> DEFINE T == {k \in 0 .. Levels : C \subseteq g[k] /\ f[k] \subseteq {b} \cup g[k]}
<1>3. 0 \in T
  BY <1>1, <1>2, LevelsType DEF Collects
<1>4. ASSUME NEW k \in 0 .. Levels - 1, k \in T PROVE k + 1 \in T
  <2>1. /\ f[k + 1] = f[k] \cup UNION {Elements(x.children) : x \in f[k]}
        /\ g[k + 1] = g[k] \cup UNION {Elements(x.children) : x \in g[k]}
    BY <1>1, <1>2 DEF Collects
  <2>2. C \subseteq g[k] /\ f[k] \subseteq {b} \cup g[k]
    BY <1>4
  <2>3. C \subseteq g[k + 1] /\ f[k + 1] \subseteq {b} \cup g[k + 1]
    BY <2>1, <2>2, Zenon
  <2> QED
    BY <2>3, LevelsType
<1>5. Levels \in T
  <2> HIDE DEF T
  <2> QED
    BY <1>3, <1>4, LevelsType, Climb
<1> QED
  BY <1>1, <1>2, <1>5

LEMMA ReachOfNone == Reach({}) = {}
<1>1. PICK f : Collects(f, Levels, {}) /\ Reach({}) = f[Levels]
  BY LevelsType, BlocksCollected DEF Reach
<1> DEFINE T == {k \in 0 .. Levels : f[k] = {}}
<1>2. 0 \in T
  BY <1>1, LevelsType DEF Collects
<1>3. ASSUME NEW k \in 0 .. Levels - 1, k \in T PROVE k + 1 \in T
  <2>1. f[k + 1] = f[k] \cup UNION {Elements(x.children) : x \in f[k]} /\ f[k] = {}
    BY <1>1, <1>3 DEF Collects
  <2>2. f[k + 1] = {}
    BY <2>1, Zenon
  <2> QED
    BY <2>2, LevelsType
<1>4. Levels \in T
  <2> HIDE DEF T
  <2> QED
    BY <1>2, <1>3, LevelsType, Climb
<1> QED
  BY <1>1, <1>4

-----------------------------------------------------------------------------
(* Documents: what the parser gives *)

\* An image that need not be guessed.
Justified(id) ==
    \/ \E n \in all_nodes :
          /\ IsFileMedia(n)
          /\ n.ref.id = id \/ \E a \in WithId(id) : n.ref.alt = attachments[a].name
    \/ Cardinality(Images) = 1 /\ count_file_media_references = 1

IsList(out)   == \E X : out \in Seq(X)
ImagesOk(out) == \A b \in images_of(all_blocks(out)) : Justified(b.id)
IsBlock(b)    == b = [kind |-> b.kind, size |-> b.size, id |-> b.id,
                      children |-> b.children]
Sound(out)    == /\ IsList(out) /\ ImagesOk(out)
                 /\ \A b \in Elements(out) :
                       IsBlock(b) /\ IsList(b.children) /\ ImagesOk(b.children)
Fine(r)       == r.st \in AdfParserState /\ Sound(r.out)

LEMMA NoneOk == Sound(<<>>)
<1>1. <<>> \in Seq({})
  OBVIOUS
<1>2. Elements(<<>>) = {}
  BY DEF Elements
<1>3. all_blocks(<<>>) = {}
  BY <1>2, ReachOfNone DEF all_blocks, Reach
<1> QED
  BY <1>1, <1>2, <1>3 DEF Sound, IsList, ImagesOk, images_of

LEMMA JoinedOk ==
  ASSUME NEW a, NEW b, IsList(a), IsList(b), ImagesOk(a), ImagesOk(b)
  PROVE  /\ IsList(a \o b) /\ ImagesOk(a \o b)
         /\ Elements(a \o b) \subseteq Elements(a) \cup Elements(b)
<1>1. PICK X, Y : a \in Seq(X) /\ b \in Seq(Y)
  BY DEF IsList
<1>2. a \in Seq(X \cup Y) /\ b \in Seq(X \cup Y)
  BY <1>1
<1>3. a \o b \in Seq(X \cup Y)
  BY <1>2
<1>4. Elements(a \o b) \subseteq Elements(a) \cup Elements(b)
  <2> SUFFICES ASSUME NEW i \in DOMAIN (a \o b)
               PROVE  (a \o b)[i] \in Elements(a) \cup Elements(b)
    BY DEF Elements
  <2>1. /\ i \in 1 .. Len(a) + Len(b) /\ Len(a) \in Nat /\ Len(b) \in Nat
        /\ DOMAIN a = 1 .. Len(a) /\ DOMAIN b = 1 .. Len(b)
    BY <1>2, <1>3
  <2>2. CASE i <= Len(a)
    <3>1. (a \o b)[i] = a[i] /\ i \in DOMAIN a
      BY <1>2, <2>1, <2>2
    <3> QED
      BY <3>1 DEF Elements
  <2>3. CASE i > Len(a)
    <3>1. (a \o b)[i] = b[i - Len(a)] /\ i - Len(a) \in DOMAIN b
      BY <1>2, <2>1, <2>3
    <3> QED
      BY <3>1 DEF Elements
  <2> QED
    BY <2>1, <2>2, <2>3
<1>5. all_blocks(a \o b) \subseteq all_blocks(a) \cup all_blocks(b)
  BY <1>4, ReachOfParts DEF all_blocks, Reach
<1> QED
  BY <1>3, <1>4, <1>5 DEF IsList, ImagesOk, images_of

LEMMA JoinedSound ==
  ASSUME NEW a, NEW b, Sound(a), Sound(b)
  PROVE  Sound(a \o b)
BY JoinedOk DEF Sound

LEMMA OneOk ==
  ASSUME NEW b, IsBlock(b), IsList(b.children), ImagesOk(b.children),
         b.kind = "Image" => Justified(b.id)
  PROVE  Sound(<<b>>)
<1>1. <<b>> \in Seq({b})
  OBVIOUS
<1>2. Elements(<<b>>) = {b}
  BY DEF Elements
<1>3. all_blocks(<<b>>) \subseteq {b} \cup all_blocks(b.children)
  BY <1>2, ReachOfOne DEF all_blocks, Reach
<1>4. IsList(<<b>>) /\ ImagesOk(<<b>>)
  BY <1>1, <1>3 DEF IsList, ImagesOk, images_of
<1> QED
  BY <1>2, <1>4 DEF Sound

LEMMA StatesKept ==
  ASSUME NEW st \in AdfParserState
  PROVE  /\ visited(st) \in AdfParserState
         /\ Cut(st) \in AdfParserState
         /\ [st EXCEPT !.unresolved = TRUE] \in AdfParserState
<1>1. visited(st) \in AdfParserState
  BY DEF visited, AdfParserState
<1>2. Cut(st) \in AdfParserState
  BY DEF Cut, AdfParserState
<1>3. [st EXCEPT !.unresolved = TRUE] \in AdfParserState
  BY DEF AdfParserState
<1> QED
  BY <1>1, <1>2, <1>3

LEMMA GivenFine ==
  ASSUME NEW out, NEW st \in AdfParserState, Sound(out)
  PROVE  Fine(Gives(out, st))
BY DEF Fine, Gives

\* A node whose children are fine is fine, unless it is an image.
LEMMA NodeFine ==
  ASSUME NEW form, NEW children, NEW st \in AdfParserState, Sound(children),
         form # "Image"
  PROVE  Fine(Gives(<<Out(form, children)>>, st))
<1>1. PICK b : b = Out(form, children)
  OBVIOUS
<1>2. b.kind = form /\ b.children = children /\ IsBlock(b)
  BY <1>1 DEF Out, IsBlock
<1>3. Sound(<<b>>)
  BY <1>2, OneOk DEF Sound
<1> QED
  BY <1>1, <1>3, GivenFine

LEMMA WrappedFine ==
  ASSUME NEW r, NEW form, Fine(r), form # "Image"
  PROVE  Fine(Wrapped(form, r))
BY NodeFine DEF Fine, Wrapped

LEMMA LeafFine ==
  ASSUME NEW form, NEW b, NEW st \in AdfParserState, IsBlock(b),
         b.kind = form, b.children = <<>>,
         form # "Image" \/ Justified(b.id)
  PROVE  Fine(Gives(<<b>>, st))
<1>1. Sound(<<b>>)
  BY OneOk, NoneOk DEF Sound
<1> QED
  BY <1>1, GivenFine

LEMMA SignsFine ==
  ASSUME NEW st \in AdfParserState
  PROVE  /\ Fine(Unsupported(st)) /\ Fine(malformed(st)) /\ Fine(Nothing(st))
         /\ Fine(Gives(<<>>, st))
<1>1. Cut(st) \in AdfParserState
  BY StatesKept
<1>2. \A s \in AdfParserState : Fine(Gives(<<Placeholder>>, s))
  BY NodeFine, NoneOk DEF Placeholder
<1>3. \A s \in AdfParserState : Fine(Gives(<<>>, s))
  BY GivenFine, NoneOk
<1> QED
  BY <1>1, <1>2, <1>3 DEF Unsupported, malformed, Nothing

LEMMA LeafIs ==
  ASSUME NEW form, NEW size
  PROVE  /\ Leaf(form, size).kind = form /\ Leaf(form, size).children = <<>>
         /\ IsBlock(Leaf(form, size))
         /\ Leaf(form, size) = [kind |-> form, size |-> size, id |-> None,
                                children |-> <<>>]
BY DEF Leaf, Out, IsBlock

LEMMA PointingIs ==
  ASSUME NEW form, NEW id
  PROVE  /\ Pointing(form, id).kind = form /\ Pointing(form, id).children = <<>>
         /\ Pointing(form, id).id = id /\ IsBlock(Pointing(form, id))
BY DEF Pointing, Out, IsBlock

\* Text is cut at the limit of the document.
LEMMA SaidFine ==
  ASSUME NEW n \in Nat, NEW st \in AdfParserState
  PROVE  /\ Fine(said(n, st))
         /\ \A form : form # "Image" => Fine(Named(form, said(n, st)))
<1> DEFINE room == MaxText - st.text
           take == IF n <= room THEN n ELSE room
           s    == [st EXCEPT !.text = @ + take,
                              !.truncated = @ \/ room = 0 \/ take < n]
<1>1. /\ st.text \in 0 .. MaxText /\ MaxText \in Nat /\ st.nodes \in Nat
      /\ st.truncated \in BOOLEAN /\ st.unresolved \in BOOLEAN
  BY ContentAssumption DEF AdfParserState
<1>2. room \in Nat /\ take \in 0 .. room
  BY <1>1
<1>3. s \in AdfParserState
  <2>1. PICK t, u : t = st.text + take /\ u = (st.truncated \/ room = 0 \/ take < n)
    OBVIOUS
  <2>2. t \in 0 .. MaxText /\ u \in BOOLEAN
    BY <1>1, <1>2, <2>1
  <2>3. s = [st EXCEPT !.text = t, !.truncated = u]
    BY <2>1
  <2> HIDE DEF s, take, room
  <2> QED
    BY <2>2, <2>3 DEF AdfParserState
<1>4. said(n, st) = Gives(<<Leaf("Text", take)>>, s)
  BY DEF said
<1>5. Fine(said(n, st))
  <2> HIDE DEF s, take
  <2>1. PICK b : b = Leaf("Text", take)
    OBVIOUS
  <2>2. b.kind = "Text" /\ b.children = <<>> /\ IsBlock(b)
    BY <2>1, LeafIs
  <2>3. Fine(Gives(<<b>>, s))
    BY <1>3, <2>2, LeafFine
  <2> QED
    BY <1>4, <2>1, <2>3
<1>6. ASSUME NEW form, form # "Image" PROVE Fine(Named(form, said(n, st)))
  <2>1. PICK b : b = [kind |-> form, size |-> take, id |-> None, children |-> <<>>]
    OBVIOUS
  <2>2. Named(form, said(n, st)) = Gives(<<b>>, s)
    <3> HIDE DEF s, take
    <3> QED
      BY <1>4, <2>1, LeafIs DEF Named, Gives
  <2>3. b.kind = form /\ b.children = <<>> /\ IsBlock(b)
    BY <2>1 DEF IsBlock
  <2> HIDE DEF s, take
  <2> QED
    BY <1>3, <1>6, <2>2, <2>3, LeafFine
<1> QED
  BY <1>5, <1>6

-----------------------------------------------------------------------------
(* Documents: how deep a node lies *)

\* f has the nodes of the source by their depth.
Deepens(f) ==
    /\ f[0] = Elements(adf.content)
    /\ \A k \in 0 .. MaxDepth + 1 : f[k + 1] = f[k] \cup UNION {Parts(b) : b \in f[k]}
    /\ all_nodes = f[MaxDepth + 2]

NodeLevels == CHOOSE f : Deepens(f)

LEMMA NodesCollected == Deepens(NodeLevels)
<1> DEFINE M == MaxDepth + 2
           S == Elements(adf.content)
           More(T) == T \cup UNION {Parts(b) : b \in T}
           Is(f, n) == f = [k \in 0 .. n |-> IF k = 0 THEN S ELSE More(f[k - 1])]
           T == {n \in 0 .. M : \E f : Is(f, n)}
<1>0. M \in Nat /\ M = MaxDepth + 2 /\ MaxDepth \in Nat
  BY ContentAssumption
<1>1. 0 \in T
  <2>1. Is([k \in 0 .. 0 |-> S], 0)
    OBVIOUS
  <2> HIDE DEF Is
  <2> QED
    BY <1>0, <2>1
<1>2. ASSUME NEW n \in 0 .. M - 1, n \in T PROVE n + 1 \in T
  <2>1. PICK f : Is(f, n)
    BY <1>2
  <2> DEFINE g == [k \in 0 .. n + 1 |-> IF k = n + 1 THEN More(f[n]) ELSE f[k]]
  <2> HIDE DEF More
  <2>2. ASSUME NEW k \in 0 .. n + 1
        PROVE  g[k] = IF k = 0 THEN S ELSE More(g[k - 1])
    <3>1. CASE k = 0
      BY <2>1, <3>1
    <3>2. CASE k = n + 1
      BY <3>2
    <3>3. CASE k \in 1 .. n
      <4>1. k # n + 1 /\ k - 1 # n + 1 /\ k - 1 \in 0 .. n /\ k # 0
        BY <3>3
      <4>2. g[k] = f[k] /\ g[k - 1] = f[k - 1]
        BY <4>1
      <4>3. f[k] = More(f[k - 1])
        BY <2>1, <3>3, <4>1
      <4> QED
        BY <4>1, <4>2, <4>3
    <3> QED
      BY <3>1, <3>2, <3>3
  <2>3. Is(g, n + 1)
    <3>1. g = [k \in 0 .. n + 1 |-> g[k]]
      OBVIOUS
    <3> HIDE DEF g
    <3> QED
      BY <2>2, <3>1, Zenon
  <2> HIDE DEF Is, g, M
  <2> QED
    BY <1>0, <2>3
<1>3. M \in T
  <2> HIDE DEF T, M
  <2>1. PICK n \in Nat : n = M
    BY <1>0
  <2>2. \A k \in 0 .. n : k \in T
    BY <1>1, <1>2, <2>1, Climb
  <2> QED
    BY <2>1, <2>2
<1> DEFINE u == CHOOSE f : Is(f, M)
<1>4. Is(u, M)
  BY <1>3
<1>5. all_nodes = u[M]
  BY DEF Within, all_nodes
<1>6. Deepens(u)
  <2> HIDE DEF u
  <2>1. u[0] = S
    BY <1>0, <1>4
  <2>2. ASSUME NEW k \in 0 .. MaxDepth + 1 PROVE u[k + 1] = More(u[k])
    <3>1. k + 1 \in 0 .. M /\ k + 1 # 0 /\ (k + 1) - 1 = k
      BY <1>0
    <3> QED
      BY <1>4, <3>1
  <2> QED
    BY <2>1, <2>2, <1>5 DEF Deepens
<1> QED
  BY <1>6, Zenon DEF NodeLevels

\* A node that may be met at depth d, the document's own being met at 1: a node
\* that lies too deep is not looked at.
Known(v, d) == d <= MaxDepth + 2 => v \in NodeLevels[d]

LEMMA KnownDeeper ==
  ASSUME NEW v, NEW d \in Nat, Known(v, d)
  PROVE  Known(v, d + 1) /\ \A w \in Parts(v) : Known(w, d + 1)
<1>1. SUFFICES ASSUME d + 1 <= MaxDepth + 2
               PROVE  v \in NodeLevels[d + 1] /\ Parts(v) \subseteq NodeLevels[d + 1]
  BY DEF Known
<1>2. d \in 0 .. MaxDepth + 1 /\ d <= MaxDepth + 2
  BY <1>1, ContentAssumption
<1>3. NodeLevels[d + 1] = NodeLevels[d] \cup UNION {Parts(b) : b \in NodeLevels[d]}
  BY <1>2, NodesCollected DEF Deepens
<1>4. v \in NodeLevels[d]
  BY <1>2 DEF Known
<1> QED
  BY <1>3, <1>4, Zenon

\* What may be met at a depth is among the nodes of the source.
LEMMA KnownIsThere ==
  ASSUME NEW v, NEW d \in 0 .. MaxDepth + 2, Known(v, d)
  PROVE  v \in all_nodes
<1> DEFINE n == MaxDepth + 2 - d
           T == {k \in 0 .. n : v \in NodeLevels[d + k]}
<1>1. n \in Nat /\ MaxDepth \in Nat
  BY ContentAssumption
<1>2. 0 \in T
  BY <1>1 DEF Known
<1>3. ASSUME NEW k \in 0 .. n - 1, k \in T PROVE k + 1 \in T
  <2>1. d + k \in 0 .. MaxDepth + 1 /\ (d + k) + 1 = d + (k + 1) /\ k + 1 \in 0 .. n
    BY <1>1
  <2>2. NodeLevels[d + k] \subseteq NodeLevels[(d + k) + 1]
    BY <2>1, NodesCollected, Zenon DEF Deepens
  <2> QED
    BY <1>3, <2>1, <2>2
<1>4. n \in T
  <2> HIDE DEF T, n
  <2> QED
    BY <1>1, <1>2, <1>3, Climb
<1>5. d + n = MaxDepth + 2
  BY <1>1
<1> QED
  BY <1>4, <1>5, NodesCollected DEF Deepens

-----------------------------------------------------------------------------
(* Documents: one value after the other *)

\* The results up to each of the values.
Joins(f, steps, values, st) ==
    /\ f[0] = Gives(<<>>, st)
    /\ \A i \in 0 .. Len(values) - 1 :
          f[i + 1] = Gives(f[i].out \o steps[values[i + 1]][f[i].st].out,
                           steps[values[i + 1]][f[i].st].st)

LEMMA Joined ==
  ASSUME NEW steps, NEW values \in Seq(Nodes), NEW st
  PROVE  \E f : /\ Joins(f, steps, values, st)
                /\ InTurn(steps, LAMBDA a, b : a \o b, values, st) = f[Len(values)]
<1> DEFINE M == Len(values)
           More(r, i) == Gives(r.out \o steps[values[i]][r.st].out,
                               steps[values[i]][r.st].st)
           Is(f, n) == f = [k \in 0 .. n |-> IF k = 0 THEN Gives(<<>>, st)
                                             ELSE More(f[k - 1], k)]
           T == {n \in 0 .. M : \E f : Is(f, n)}
<1>0. M \in Nat
  OBVIOUS
<1>1. 0 \in T
  <2>1. Is([k \in 0 .. 0 |-> Gives(<<>>, st)], 0)
    OBVIOUS
  <2> HIDE DEF Is
  <2> QED
    BY <1>0, <2>1
<1>2. ASSUME NEW n \in 0 .. M - 1, n \in T PROVE n + 1 \in T
  <2>1. PICK f : Is(f, n)
    BY <1>2
  <2> DEFINE g == [k \in 0 .. n + 1 |-> IF k = n + 1 THEN More(f[n], n + 1) ELSE f[k]]
  <2> HIDE DEF More
  <2>2. ASSUME NEW k \in 0 .. n + 1
        PROVE  g[k] = IF k = 0 THEN Gives(<<>>, st) ELSE More(g[k - 1], k)
    <3>1. CASE k = 0
      BY <2>1, <3>1
    <3>2. CASE k = n + 1
      BY <3>2
    <3>3. CASE k \in 1 .. n
      <4>1. k # n + 1 /\ k - 1 # n + 1 /\ k - 1 \in 0 .. n /\ k # 0
        BY <3>3
      <4>2. g[k] = f[k] /\ g[k - 1] = f[k - 1]
        BY <4>1
      <4>3. f[k] = More(f[k - 1], k)
        BY <2>1, <3>3, <4>1
      <4> QED
        BY <4>1, <4>2, <4>3
    <3> QED
      BY <3>1, <3>2, <3>3
  <2>3. Is(g, n + 1)
    <3>1. g = [k \in 0 .. n + 1 |-> g[k]]
      OBVIOUS
    <3> HIDE DEF g
    <3> QED
      BY <2>2, <3>1, Zenon
  <2> HIDE DEF Is, g, M
  <2> QED
    BY <1>0, <2>3
<1>3. M \in T
  <2> HIDE DEF T, M
  <2>1. PICK n \in Nat : n = M
    BY <1>0
  <2>2. \A k \in 0 .. n : k \in T
    BY <1>1, <1>2, <2>1, Climb
  <2> QED
    BY <2>1, <2>2
<1> DEFINE u == CHOOSE f : Is(f, M)
<1>4. Is(u, M)
  BY <1>3
<1>5. InTurn(steps, LAMBDA a, b : a \o b, values, st) = u[M]
  BY DEF InTurn
<1>6. Joins(u, steps, values, st)
  <2> HIDE DEF u
  <2>1. u[0] = Gives(<<>>, st)
    BY <1>0, <1>4
  <2>2. ASSUME NEW k \in 0 .. M - 1 PROVE u[k + 1] = More(u[k], k + 1)
    <3>1. k + 1 \in 0 .. M /\ k + 1 # 0 /\ (k + 1) - 1 = k
      BY <1>0
    <3> QED
      BY <1>4, <3>1
  <2> QED
    BY <2>1, <2>2 DEF Joins
<1> QED
  BY <1>5, <1>6

LEMMA EachFine ==
  ASSUME NEW steps, NEW values \in Seq(Nodes), NEW st \in AdfParserState,
         \A i \in 1 .. Len(values) : \A s \in AdfParserState : Fine(steps[values[i]][s])
  PROVE  Fine(InTurn(steps, LAMBDA a, b : a \o b, values, st))
<1>1. PICK f : /\ Joins(f, steps, values, st)
               /\ InTurn(steps, LAMBDA a, b : a \o b, values, st) = f[Len(values)]
  BY Joined
<1>0. PICK n \in Nat : n = Len(values)
  OBVIOUS
<1> DEFINE T == {i \in 0 .. Len(values) : Fine(f[i])}
<1>2. 0 \in T
  <2>1. Fine(f[0])
    BY <1>1, SignsFine DEF Joins
  <2> QED
    BY <1>0, <2>1
<1>3. ASSUME NEW i \in 0 .. Len(values) - 1, i \in T PROVE i + 1 \in T
  <2>1. PICK r : r = steps[values[i + 1]][f[i].st]
    OBVIOUS
  <2>2. i + 1 \in 1 .. Len(values) /\ f[i].st \in AdfParserState /\ Sound(f[i].out)
    BY <1>3 DEF Fine
  <2>3. Fine(r)
    BY <2>1, <2>2
  <2>4. f[i + 1] = Gives(f[i].out \o r.out, r.st)
    BY <1>1, <2>1 DEF Joins
  <2>5. Fine(f[i + 1])
    BY <2>2, <2>3, <2>4, JoinedSound, GivenFine DEF Fine
  <2> QED
    BY <2>2, <2>5
<1>4. \A k \in 0 .. n : k \in T
  <2>1. 0 \in T /\ \A k \in 0 .. n - 1 : k \in T => k + 1 \in T
    BY <1>0, <1>2, <1>3
  <2> HIDE DEF T
  <2> QED
    BY <2>1, Climb
<1>5. n \in 0 .. n
  OBVIOUS
<1> QED
  BY <1>0, <1>1, <1>4, <1>5

LEMMA Included ==
  ASSUME NEW S
  PROVE  S \subseteq Reach(S)
<1>1. PICK f : Collects(f, Levels, S) /\ Reach(S) = f[Levels]
  BY LevelsType, BlocksCollected DEF Reach
<1> DEFINE T == {k \in 0 .. Levels : S \subseteq f[k]}
<1>2. 0 \in T
  BY <1>1, LevelsType DEF Collects
<1>3. ASSUME NEW k \in 0 .. Levels - 1, k \in T PROVE k + 1 \in T
  <2>1. f[k + 1] = f[k] \cup UNION {Elements(x.children) : x \in f[k]} /\ S \subseteq f[k]
    BY <1>1, <1>3 DEF Collects
  <2>2. S \subseteq f[k + 1]
    BY <2>1, Zenon
  <2> QED
    BY <2>2, LevelsType
<1>4. Levels \in T
  <2> HIDE DEF T
  <2> QED
    BY <1>2, <1>3, LevelsType, Climb
<1> QED
  BY <1>1, <1>4

\* A nested task list becomes a part of the item before it, or of one of its own.
LEMMA TaskAdded ==
  ASSUME NEW items, NEW out, Sound(items), Sound(out)
  PROVE  Sound(AddTask(items, out))
<1>1. CASE ~ Nested(out)
  BY <1>1, JoinedSound DEF AddTask
<1>2. CASE Nested(out) /\ items = <<>>
  <2>1. Fine(Gives(<<Out("TaskItem", out)>>, [nodes |-> 0, text |-> 0,
                   truncated |-> FALSE, unresolved |-> FALSE]))
    <3>1. [nodes |-> 0, text |-> 0, truncated |-> FALSE, unresolved |-> FALSE]
             \in AdfParserState
      BY ContentAssumption DEF AdfParserState
    <3> QED
      BY <3>1, NodeFine
  <2> QED
    BY <1>2, <2>1 DEF AddTask, Fine, Gives
<1>3. CASE Nested(out) /\ items # <<>>
  <2>1. PICK X : items \in Seq(X)
    BY DEF Sound, IsList
  <2>2. PICK n : n = Len(items)
    OBVIOUS
  <2>3. n \in DOMAIN items /\ DOMAIN items = 1 .. n /\ n \in Nat
    BY <1>3, <2>1, <2>2
  <2>4. PICK b : b = [items[n] EXCEPT !.children = items[n].children \o out]
    OBVIOUS
  <2>5. PICK new : new = [items EXCEPT ![n].children = @ \o out]
    OBVIOUS
  <2>6. new = [items EXCEPT ![n] = b]
    BY <2>4, <2>5
  <2>7. new \in Seq(X \cup {b}) /\ Elements(new) \subseteq Elements(items) \cup {b}
    <3>1. new \in Seq(X \cup {b})
      BY <2>1, <2>3, <2>6
    <3>2. DOMAIN new = DOMAIN items
          /\ \A i \in DOMAIN new : new[i] = b \/ new[i] = items[i]
      BY <2>6
    <3> QED
      BY <3>1, <3>2 DEF Elements
  <2>8. IsList(items[n].children \o out) /\ ImagesOk(items[n].children \o out)
    <3>1. IsList(items[n].children) /\ ImagesOk(items[n].children)
      BY <2>3 DEF Sound, Elements
    <3> QED
      BY <3>1, JoinedOk DEF Sound
  <2>9. b.kind = items[n].kind /\ b.id = items[n].id
        /\ b.children = items[n].children \o out /\ IsBlock(b)
    <3>1. PICK c : c = items[n].children \o out
      OBVIOUS
    <3>2. IsBlock(items[n])
      BY <2>3 DEF Sound, Elements
    <3>3. b = [kind |-> items[n].kind, size |-> items[n].size, id |-> items[n].id,
               children |-> c]
      BY <2>4, <3>1, <3>2 DEF IsBlock
    <3> QED
      BY <3>1, <3>3 DEF IsBlock
  <2>10. Sound(<<b>>)
    <3>1. items[n] \in all_blocks(items)
      BY <2>3, Included DEF all_blocks, Reach, Elements
    <3>2. b.kind = "Image" => Justified(b.id)
      BY <2>9, <3>1 DEF Sound, ImagesOk, images_of
    <3> QED
      BY <2>8, <2>9, <3>2, OneOk
  <2>11. ImagesOk(new)
    <3>1. Elements(<<b>>) = {b}
      BY DEF Elements
    <3>2. all_blocks(new) \subseteq all_blocks(items) \cup all_blocks(<<b>>)
      BY <2>7, <3>1, ReachOfParts DEF all_blocks, Reach
    <3> QED
      BY <2>10, <3>2 DEF Sound, ImagesOk, images_of
  <2>12. Sound(new)
    BY <2>7, <2>8, <2>9, <2>11 DEF Sound, IsList
  <2> QED
    BY <1>3, <2>2, <2>5, <2>12 DEF AddTask
<1> QED
  BY <1>1, <1>2, <1>3

\* The same for the items of a task list.
Gathers(f, steps, values, st) ==
    /\ f[0] = Gives(<<>>, st)
    /\ \A i \in 0 .. Len(values) - 1 :
          f[i + 1] = Gives(AddTask(f[i].out, steps[values[i + 1]][f[i].st].out),
                           steps[values[i + 1]][f[i].st].st)

LEMMA Gathered ==
  ASSUME NEW steps, NEW values \in Seq(Nodes), NEW st
  PROVE  \E f : /\ Gathers(f, steps, values, st)
                /\ InTurn(steps, AddTask, values, st) = f[Len(values)]
<1> DEFINE M == Len(values)
           More(r, i) == Gives(AddTask(r.out, steps[values[i]][r.st].out),
                               steps[values[i]][r.st].st)
           Is(f, n) == f = [k \in 0 .. n |-> IF k = 0 THEN Gives(<<>>, st)
                                             ELSE More(f[k - 1], k)]
           T == {n \in 0 .. M : \E f : Is(f, n)}
<1>0. M \in Nat
  OBVIOUS
<1>1. 0 \in T
  <2>1. Is([k \in 0 .. 0 |-> Gives(<<>>, st)], 0)
    OBVIOUS
  <2> HIDE DEF Is
  <2> QED
    BY <1>0, <2>1
<1>2. ASSUME NEW n \in 0 .. M - 1, n \in T PROVE n + 1 \in T
  <2>1. PICK f : Is(f, n)
    BY <1>2
  <2> DEFINE g == [k \in 0 .. n + 1 |-> IF k = n + 1 THEN More(f[n], n + 1) ELSE f[k]]
  <2> HIDE DEF More
  <2>2. ASSUME NEW k \in 0 .. n + 1
        PROVE  g[k] = IF k = 0 THEN Gives(<<>>, st) ELSE More(g[k - 1], k)
    <3>1. CASE k = 0
      BY <2>1, <3>1
    <3>2. CASE k = n + 1
      BY <3>2
    <3>3. CASE k \in 1 .. n
      <4>1. k # n + 1 /\ k - 1 # n + 1 /\ k - 1 \in 0 .. n /\ k # 0
        BY <3>3
      <4>2. g[k] = f[k] /\ g[k - 1] = f[k - 1]
        BY <4>1
      <4>3. f[k] = More(f[k - 1], k)
        BY <2>1, <3>3, <4>1
      <4> QED
        BY <4>1, <4>2, <4>3
    <3> QED
      BY <3>1, <3>2, <3>3
  <2>3. Is(g, n + 1)
    <3>1. g = [k \in 0 .. n + 1 |-> g[k]]
      OBVIOUS
    <3> HIDE DEF g
    <3> QED
      BY <2>2, <3>1, Zenon
  <2> HIDE DEF Is, g, M
  <2> QED
    BY <1>0, <2>3
<1>3. M \in T
  <2> HIDE DEF T, M
  <2>1. PICK n \in Nat : n = M
    BY <1>0
  <2>2. \A k \in 0 .. n : k \in T
    BY <1>1, <1>2, <2>1, Climb
  <2> QED
    BY <2>1, <2>2
<1> DEFINE u == CHOOSE f : Is(f, M)
<1>4. Is(u, M)
  BY <1>3
<1>5. InTurn(steps, AddTask, values, st) = u[M]
  BY DEF InTurn
<1>6. Gathers(u, steps, values, st)
  <2> HIDE DEF u
  <2>1. u[0] = Gives(<<>>, st)
    BY <1>0, <1>4
  <2>2. ASSUME NEW k \in 0 .. M - 1 PROVE u[k + 1] = More(u[k], k + 1)
    <3>1. k + 1 \in 0 .. M /\ k + 1 # 0 /\ (k + 1) - 1 = k
      BY <1>0
    <3> QED
      BY <1>4, <3>1
  <2> QED
    BY <2>1, <2>2 DEF Gathers
<1> QED
  BY <1>5, <1>6

LEMMA TaskListFine ==
  ASSUME NEW steps, NEW values \in Seq(Nodes), NEW st \in AdfParserState,
         \A i \in 1 .. Len(values) : \A s \in AdfParserState : Fine(steps[values[i]][s])
  PROVE  Fine(InTurn(steps, AddTask, values, st))
<1>1. PICK f : /\ Gathers(f, steps, values, st)
               /\ InTurn(steps, AddTask, values, st) = f[Len(values)]
  BY Gathered
<1>0. PICK n \in Nat : n = Len(values)
  OBVIOUS
<1> DEFINE T == {i \in 0 .. Len(values) : Fine(f[i])}
<1>2. 0 \in T
  <2>1. Fine(f[0])
    BY <1>1, SignsFine DEF Gathers
  <2> QED
    BY <1>0, <2>1
<1>3. ASSUME NEW i \in 0 .. Len(values) - 1, i \in T PROVE i + 1 \in T
  <2>1. PICK r : r = steps[values[i + 1]][f[i].st]
    OBVIOUS
  <2>2. i + 1 \in 1 .. Len(values) /\ f[i].st \in AdfParserState /\ Sound(f[i].out)
    BY <1>3 DEF Fine
  <2>3. Fine(r)
    BY <2>1, <2>2
  <2>4. f[i + 1] = Gives(AddTask(f[i].out, r.out), r.st)
    BY <1>1, <2>1 DEF Gathers
  <2>5. Fine(f[i + 1])
    BY <2>2, <2>3, <2>4, TaskAdded, GivenFine DEF Fine
  <2> QED
    BY <2>2, <2>5
<1>4. \A k \in 0 .. n : k \in T
  <2>1. 0 \in T /\ \A k \in 0 .. n - 1 : k \in T => k + 1 \in T
    BY <1>0, <1>2, <1>3
  <2> HIDE DEF T
  <2> QED
    BY <2>1, Climb
<1>5. n \in 0 .. n
  OBVIOUS
<1> QED
  BY <1>0, <1>1, <1>4, <1>5

\* The same for values of which the first that cannot be parsed is the last.
Follows(f, steps, values, st) ==
    /\ f[0] = Gives(<<>>, st)
    /\ \A i \in 0 .. Len(values) - 1 :
          f[i + 1] = IF Len(f[i].out) < i THEN f[i]
                     ELSE Gives(f[i].out \o steps[values[i + 1]][f[i].st].out,
                                steps[values[i + 1]][f[i].st].st)

LEMMA Followed ==
  ASSUME NEW steps, NEW values \in Seq(Nodes), NEW st
  PROVE  \E f : /\ Follows(f, steps, values, st)
                /\ UntilStopped(steps, values, st) = f[Len(values)]
<1> DEFINE M == Len(values)
           More(r, i) == IF Len(r.out) < i - 1 THEN r
                         ELSE Gives(r.out \o steps[values[i]][r.st].out,
                                    steps[values[i]][r.st].st)
           Is(f, n) == f = [k \in 0 .. n |-> IF k = 0 THEN Gives(<<>>, st)
                                             ELSE More(f[k - 1], k)]
           T == {n \in 0 .. M : \E f : Is(f, n)}
<1>0. M \in Nat
  OBVIOUS
<1>1. 0 \in T
  <2>1. Is([k \in 0 .. 0 |-> Gives(<<>>, st)], 0)
    OBVIOUS
  <2> HIDE DEF Is
  <2> QED
    BY <1>0, <2>1
<1>2. ASSUME NEW n \in 0 .. M - 1, n \in T PROVE n + 1 \in T
  <2>1. PICK f : Is(f, n)
    BY <1>2
  <2> DEFINE g == [k \in 0 .. n + 1 |-> IF k = n + 1 THEN More(f[n], n + 1) ELSE f[k]]
  <2> HIDE DEF More
  <2>2. ASSUME NEW k \in 0 .. n + 1
        PROVE  g[k] = IF k = 0 THEN Gives(<<>>, st) ELSE More(g[k - 1], k)
    <3>1. CASE k = 0
      BY <2>1, <3>1
    <3>2. CASE k = n + 1
      BY <3>2
    <3>3. CASE k \in 1 .. n
      <4>1. k # n + 1 /\ k - 1 # n + 1 /\ k - 1 \in 0 .. n /\ k # 0
        BY <3>3
      <4>2. g[k] = f[k] /\ g[k - 1] = f[k - 1]
        BY <4>1
      <4>3. f[k] = More(f[k - 1], k)
        BY <2>1, <3>3, <4>1
      <4> QED
        BY <4>1, <4>2, <4>3
    <3> QED
      BY <3>1, <3>2, <3>3
  <2>3. Is(g, n + 1)
    <3>1. g = [k \in 0 .. n + 1 |-> g[k]]
      OBVIOUS
    <3> HIDE DEF g
    <3> QED
      BY <2>2, <3>1, Zenon
  <2> HIDE DEF Is, g, M
  <2> QED
    BY <1>0, <2>3
<1>3. M \in T
  <2> HIDE DEF T, M
  <2>1. PICK n \in Nat : n = M
    BY <1>0
  <2>2. \A k \in 0 .. n : k \in T
    BY <1>1, <1>2, <2>1, Climb
  <2> QED
    BY <2>1, <2>2
<1> DEFINE u == CHOOSE f : Is(f, M)
<1>4. Is(u, M)
  BY <1>3
<1>5. UntilStopped(steps, values, st) = u[M]
  BY DEF UntilStopped
<1>6. Follows(u, steps, values, st)
  <2> HIDE DEF u
  <2>1. u[0] = Gives(<<>>, st)
    BY <1>0, <1>4
  <2>2. ASSUME NEW k \in 0 .. M - 1 PROVE u[k + 1] = More(u[k], k + 1)
    <3>1. k + 1 \in 0 .. M /\ k + 1 # 0 /\ (k + 1) - 1 = k
      BY <1>0
    <3> QED
      BY <1>4, <3>1
  <2> QED
    BY <2>1, <2>2 DEF Follows
<1> QED
  BY <1>5, <1>6

LEMMA UntilStoppedFine ==
  ASSUME NEW steps, NEW values \in Seq(Nodes), NEW st \in AdfParserState,
         \A i \in 1 .. Len(values) : \A s \in AdfParserState : Fine(steps[values[i]][s])
  PROVE  Fine(UntilStopped(steps, values, st))
<1>1. PICK f : /\ Follows(f, steps, values, st)
               /\ UntilStopped(steps, values, st) = f[Len(values)]
  BY Followed
<1>0. PICK n \in Nat : n = Len(values)
  OBVIOUS
<1> DEFINE T == {i \in 0 .. Len(values) : Fine(f[i])}
<1>2. 0 \in T
  <2>1. Fine(f[0])
    BY <1>1, SignsFine DEF Follows
  <2> QED
    BY <1>0, <2>1
<1>3. ASSUME NEW i \in 0 .. Len(values) - 1, i \in T PROVE i + 1 \in T
  <2>1. PICK r : r = steps[values[i + 1]][f[i].st]
    OBVIOUS
  <2>2. i + 1 \in 1 .. Len(values) /\ f[i].st \in AdfParserState /\ Sound(f[i].out)
    BY <1>3 DEF Fine
  <2>3. Fine(r)
    BY <2>1, <2>2
  <2>4. f[i + 1] = f[i] \/ f[i + 1] = Gives(f[i].out \o r.out, r.st)
    BY <1>1, <2>1 DEF Follows
  <2>5. Fine(f[i + 1])
    BY <1>3, <2>2, <2>3, <2>4, JoinedSound, GivenFine DEF Fine
  <2> QED
    BY <2>2, <2>5
<1>4. \A k \in 0 .. n : k \in T
  <2>1. 0 \in T /\ \A k \in 0 .. n - 1 : k \in T => k + 1 \in T
    BY <1>0, <1>2, <1>3
  <2> HIDE DEF T
  <2> QED
    BY <2>1, Climb
<1>5. n \in 0 .. n
  OBVIOUS
<1> QED
  BY <1>0, <1>1, <1>4, <1>5

-----------------------------------------------------------------------------
(* Documents: media *)

\* Values of the source that may be met at depth d.
KnownAll(values, d) ==
    values \in Seq(Nodes) /\ \A i \in 1 .. Len(values) : Known(values[i], d)

LEMMA NodeFacts ==
  ASSUME NEW v \in Nodes
  PROVE  v.text \in Nat /\ (v.content # None => v.content \in Seq(Nodes))
BY ContentAssumption

LEMMA PartsKnown ==
  ASSUME NEW v \in Nodes, NEW d \in Nat, Known(v, d), v.content # None
  PROVE  KnownAll(v.content, d + 1) /\ KnownAll(v.content, d + 2)
<1>1. v.content \in Seq(Nodes)
  BY NodeFacts
<1>2. ASSUME NEW i \in 1 .. Len(v.content)
      PROVE  Known(v.content[i], d + 1) /\ Known(v.content[i], d + 2)
  <2>1. i \in DOMAIN v.content
    BY <1>1
  <2>2. v.content[i] \in Parts(v)
    BY <2>1 DEF Parts, Elements
  <2>3. Known(v.content[i], d + 1)
    BY <2>2, KnownDeeper
  <2>4. d + 1 \in Nat /\ (d + 1) + 1 = d + 2
    OBVIOUS
  <2> QED
    BY <2>3, <2>4, KnownDeeper
<1> QED
  BY <1>1, <1>2 DEF KnownAll

LEMMA AtMostKnown ==
  ASSUME NEW n \in Nat, NEW values, NEW d \in Nat, KnownAll(values, d)
  PROVE  KnownAll(AtMost(n, values), d)
<1>1. values \in Seq(Nodes) /\ Len(values) \in Nat
  BY DEF KnownAll
<1>2. CASE Len(values) <= n
  BY <1>2 DEF AtMost
<1>3. CASE ~ (Len(values) <= n)
  <2>1. 1 \in Int /\ n \in 0 .. Len(values)
    BY <1>1, <1>3
  <2>2. AtMost(n, values) = SubSeq(values, 1, n)
    BY <1>3 DEF AtMost
  <2>3. /\ SubSeq(values, 1, n) \in Seq(Nodes) /\ Len(SubSeq(values, 1, n)) = n
        /\ \A i \in 1 .. n : SubSeq(values, 1, n)[i] = values[i]
    BY <1>1, <2>1
  <2> QED
    BY <1>1, <2>1, <2>2, <2>3 DEF KnownAll
<1> QED
  BY <1>2, <1>3

\* The only attachment of a kind is one of that kind.
LEMMA OnlyIsOne ==
  ASSUME NEW P, attachments \in AttachmentLists, attachments # None,
         P \subseteq DOMAIN attachments, only(P) # None
  PROVE  /\ Cardinality(P) = 1
         /\ \E i \in P : only(P) = attachments[i]
<1>1. attachments \in Seq(Attachments)
  BY ContentAssumption
<1>2. DOMAIN attachments = 1 .. Len(attachments) /\ Len(attachments) \in Nat
  BY <1>1
<1>3. IsFiniteSet(P)
  <2>1. IsFiniteSet(1 .. Len(attachments))
    BY <1>2, FS_Interval
  <2> QED
    BY <1>2, <2>1, FS_Subset
<1>4. Cardinality(P) = 1
  BY DEF only
<1>5. P # {}
  BY <1>4, FS_EmptySet
<1> QED
  BY <1>4, <1>5 DEF only

LEMMA ResolvedIsJustified ==
  ASSUME attachments \in AttachmentLists, attachments # None,
         NEW n \in all_nodes, IsFileMedia(n), resolve_media_image(n.ref) # None
  PROVE  Justified(resolve_media_image(n.ref).id)
<1>1. PICK image : image = resolve_media_image(n.ref)
  OBVIOUS
<1>2. CASE n.ref.id # None /\ WithId(n.ref.id) # {}
  <2>1. image = only(WithId(n.ref.id)) /\ image # None
    BY <1>1, <1>2 DEF resolve_media_image, only_an_image
  <2>2. \E i \in WithId(n.ref.id) : image = attachments[i]
    BY <2>1, OnlyIsOne DEF WithId
  <2>3. image.id = n.ref.id
    BY <2>2 DEF WithId
  <2> QED
    BY <1>1, <2>3 DEF Justified
<1>3. CASE ~ (n.ref.id # None /\ WithId(n.ref.id) # {})
  <2>1. image = alt_or_fallback(n.ref.alt) /\ image # None
    BY <1>1, <1>3 DEF resolve_media_image, only_an_image
  <2>2. CASE n.ref.alt # None /\ WithName(n.ref.alt) # {}
    <3>1. image = only(WithName(n.ref.alt))
      BY <2>1, <2>2 DEF alt_or_fallback
    <3>2. PICK i \in WithName(n.ref.alt) : image = attachments[i]
      BY <2>1, <3>1, OnlyIsOne DEF WithName
    <3>3. i \in WithId(image.id) /\ n.ref.alt = attachments[i].name
      BY <3>2 DEF WithName, WithId
    <3> QED
      BY <1>1, <3>3 DEF Justified
  <2>3. CASE ~ (n.ref.alt # None /\ WithName(n.ref.alt) # {})
    <3>1. count_file_media_references = 1 /\ image = only(Images)
      BY <2>1, <2>3 DEF alt_or_fallback
    <3>2. Cardinality(Images) = 1
      BY <2>1, <3>1, OnlyIsOne DEF Images
    <3> QED
      BY <3>1, <3>2 DEF Justified
  <2> QED
    BY <2>2, <2>3
<1> QED
  BY <1>2, <1>3

LEMMA MediaNodeFine ==
  ASSUME attachments \in AttachmentLists, NEW v \in all_nodes, v.type = "media",
         NEW st \in AdfParserState
  PROVE  Fine(parse_media_node(v, st))
<1>1. CASE attachments = None
  BY <1>1, SignsFine DEF parse_media_node, Shows
<1>2. CASE attachments # None /\ v.ref = None
  BY <1>2, SignsFine DEF parse_media_node, Shows
<1>3. CASE attachments # None /\ v.ref # None /\ v.ref.target # "file"
  BY <1>3, SignsFine DEF parse_media_node, Shows
<1>4. CASE attachments # None /\ v.ref # None /\ v.ref.target = "file"
  <2>1. IsFileMedia(v)
    BY <1>4 DEF IsFileMedia
  <2>2. PICK image : image = resolve_media_image(v.ref)
    OBVIOUS
  <2>3. CASE image = None
    <3>1. parse_media_node(v, st) = Unsupported([st EXCEPT !.unresolved = TRUE])
      BY <1>4, <2>2, <2>3 DEF parse_media_node, Shows
    <3> QED
      BY <3>1, StatesKept, SignsFine
  <2>4. CASE image # None
    <3>1. parse_media_node(v, st) = Gives(<<Pointing("Image", image.id)>>, st)
      BY <1>4, <2>2, <2>4 DEF parse_media_node, Shows
    <3>2. Justified(image.id)
      BY <1>4, <2>1, <2>2, <2>4, ResolvedIsJustified
    <3>3. PICK b : b = Pointing("Image", image.id)
      OBVIOUS
    <3>4. IsBlock(b) /\ b.kind = "Image" /\ b.children = <<>> /\ Justified(b.id)
      BY <3>2, <3>3, PointingIs
    <3>5. Fine(Gives(<<b>>, st))
      BY <3>4, LeafFine
    <3> QED
      BY <3>1, <3>3, <3>5
  <2> QED
    BY <2>3, <2>4
<1> QED
  BY <1>1, <1>2, <1>3, <1>4

LEMMA MediaContainerFine ==
  ASSUME attachments \in AttachmentLists, NEW values, NEW depth \in Nat,
         KnownAll(values, depth + 1), NEW st \in AdfParserState
  PROVE  Fine(parse_media_container(values, depth, st))
<1> DEFINE op(v, s) == IF refused(depth, s) THEN malformed(s)
                       ELSE IF v.type # "media" THEN malformed(visited(s))
                       ELSE parse_media_node(v, visited(s))
           steps == [v \in Nodes |-> [s \in AdfParserState |-> op(v, s)]]
<1>1. CASE values = <<>>
  BY <1>1, SignsFine DEF parse_media_container
<1>2. CASE values # <<>>
  <2>1. parse_media_container(values, depth, st)
          = InTurn(steps, LAMBDA a, b : a \o b, values, st)
    BY <1>2 DEF parse_media_container, Each, EachWith, Steps
  <2>2. ASSUME NEW i \in 1 .. Len(values), NEW s \in AdfParserState
        PROVE  Fine(steps[values[i]][s])
    <3>1. PICK v : v = values[i]
      OBVIOUS
    <3>2. v \in Nodes /\ Known(v, depth + 1)
      BY <3>1 DEF KnownAll
    <3>3. Fine(op(v, s))
      <4>1. visited(s) \in AdfParserState
        BY StatesKept
      <4>2. CASE refused(depth, s)
        BY <4>2, SignsFine
      <4>3. CASE ~ refused(depth, s) /\ v.type # "media"
        BY <4>1, <4>3, SignsFine
      <4>4. CASE ~ refused(depth, s) /\ v.type = "media"
        <5>1. depth + 1 \in 0 .. MaxDepth + 2
          BY <4>4, ContentAssumption DEF refused
        <5>2. v \in all_nodes
          BY <3>2, <5>1, KnownIsThere
        <5> QED
          BY <4>1, <4>4, <5>2, MediaNodeFine
      <4> QED
        BY <4>2, <4>3, <4>4
    <3>4. steps[values[i]][s] = op(v, s)
      BY <3>1, <3>2
    <3> HIDE DEF op, steps
    <3> QED
      BY <3>3, <3>4
  <2>3. values \in Seq(Nodes)
    BY DEF KnownAll
  <2> HIDE DEF steps
  <2> QED
    BY <2>1, <2>2, <2>3, EachFine
<1> QED
  BY <1>1, <1>2

LEMMA CardFine ==
  ASSUME NEW attachment, NEW st \in AdfParserState
  PROVE  Fine(Card(attachment, st))
<1>1. CASE attachment = None
  BY <1>1, SignsFine DEF Card
<1>2. CASE attachment # None
  <2>1. PICK b : b = Pointing("AttachmentCard", attachment.id)
    OBVIOUS
  <2>2. IsBlock(b) /\ b.kind = "AttachmentCard" /\ b.children = <<>>
    BY <2>1, PointingIs
  <2>3. Fine(Gives(<<b>>, st))
    BY <2>2, LeafFine
  <2> QED
    BY <1>2, <2>1, <2>3 DEF Card
<1> QED
  BY <1>1, <1>2

LEMMA PlainLeafFine ==
  ASSUME NEW form, form # "Image", NEW st \in AdfParserState
  PROVE  Fine(Gives(<<Leaf(form, 0)>>, st))
<1>1. PICK b : b = Leaf(form, 0)
  OBVIOUS
<1>2. IsBlock(b) /\ b.kind = form /\ b.children = <<>>
  BY <1>1, LeafIs
<1> QED
  BY <1>1, <1>2, LeafFine

LEMMA InlineCardsFine ==
  ASSUME NEW v, NEW st \in AdfParserState
  PROVE  Fine(parse_media_inline(v, st)) /\ Fine(parse_inline_card(v, st))
<1>1. Fine(parse_media_inline(v, st))
  BY SignsFine, CardFine, Zenon DEF parse_media_inline
<1>2. Fine(parse_inline_card(v, st))
  BY SignsFine, CardFine, PlainLeafFine DEF parse_inline_card
<1> QED
  BY <1>1, <1>2

-----------------------------------------------------------------------------
(* Documents: inlines *)

LEMMA InlineFine ==
  ASSUME NEW v \in Nodes, NEW depth \in Nat, NEW st \in AdfParserState
  PROVE  Fine(parse_inline(v, depth, st))
<1> DEFINE s == visited(st)
<1>1. s \in AdfParserState /\ v.text \in Nat
  BY StatesKept, NodeFacts
<1> HIDE DEF s
<1>2. Fine(parse_text(v, s))
  BY <1>1, SignsFine, SaidFine DEF parse_text
<1>3. Fine(parse_mention(v, s))
  BY <1>1, PlainLeafFine, SaidFine DEF parse_mention
<1>4. Fine(parse_emoji_inline(v, s)) /\ Fine(parse_date_inline(v, s))
  BY <1>1, SignsFine, SaidFine DEF parse_emoji_inline, parse_date_inline
<1>5. Fine(parse_status_inline(v, s))
  BY <1>1, SignsFine, SaidFine DEF parse_status_inline
<1>6. Fine(Gives(<<Leaf("HardBreak", 0)>>, s))
  BY <1>1, PlainLeafFine
<1>7. Fine(parse_media_inline(v, s)) /\ Fine(parse_inline_card(v, s))
  BY <1>1, InlineCardsFine
<1>8. Fine(malformed(s)) /\ Fine(Unsupported(s)) /\ Fine(Nothing(st))
  BY <1>1, SignsFine
<1> QED
  BY <1>2, <1>3, <1>4, <1>5, <1>6, <1>7, <1>8 DEF parse_inline, s

LEMMA InlinesFine ==
  ASSUME NEW values \in Seq(Nodes), NEW depth \in Nat, NEW st \in AdfParserState
  PROVE  Fine(parse_inlines(values, depth, st))
<1> DEFINE steps == [v \in Nodes |-> [s \in AdfParserState |-> parse_inline(v, depth, s)]]
<1>1. parse_inlines(values, depth, st) = InTurn(steps, LAMBDA a, b : a \o b, values, st)
  BY DEF parse_inlines, Each, EachWith, Steps
<1>2. ASSUME NEW i \in 1 .. Len(values), NEW s \in AdfParserState
      PROVE  Fine(steps[values[i]][s])
  BY InlineFine
<1> HIDE DEF steps
<1> QED
  BY <1>1, <1>2, EachFine

LEMMA CodeTextFine ==
  ASSUME NEW values \in Seq(Nodes), NEW depth \in Nat, NEW st \in AdfParserState
  PROVE  Fine(parse_code_text(values, depth, st))
<1> DEFINE op(v, s) == IF refused(depth, s) THEN Nothing(s)
                       ELSE IF v.type # "text" THEN Nothing(visited(s))
                       ELSE IF v.ok THEN said(v.text, visited(s))
                       ELSE Gives(<<>>, visited(s))
           steps == [v \in Nodes |-> [s \in AdfParserState |-> op(v, s)]]
<1>1. parse_code_text(values, depth, st) = InTurn(steps, LAMBDA a, b : a \o b, values, st)
  BY DEF parse_code_text, Each, EachWith, Steps
<1>2. ASSUME NEW v \in Nodes, NEW s \in AdfParserState PROVE Fine(op(v, s))
  <2>1. visited(s) \in AdfParserState /\ v.text \in Nat
    BY StatesKept, NodeFacts
  <2> QED
    BY <2>1, SignsFine, SaidFine
<1>3. ASSUME NEW i \in 1 .. Len(values), NEW s \in AdfParserState
      PROVE  Fine(steps[values[i]][s])
  <2>1. values[i] \in Nodes
    OBVIOUS
  <2> HIDE DEF op
  <2> QED
    BY <1>2, <2>1
<1> HIDE DEF steps
<1> QED
  BY <1>1, <1>3, EachFine

-----------------------------------------------------------------------------
(* Documents: blocks *)

\* What parses deeper blocks does it well.
W(within) ==
    \A v \in Nodes, d \in Nat, s \in AdfParserState :
        Known(v, d) => Fine(within[v][d][s])

LEMMA TextBlockFine ==
  ASSUME NEW v \in Nodes, NEW depth \in Nat, NEW st \in AdfParserState
  PROVE  Fine(parse_text_block(v, depth, st))
<1>1. CASE ~ v.ok
  BY <1>1, SignsFine DEF parse_text_block
<1>2. CASE v.ok /\ v.content = None /\ v.type = "paragraph"
  <2>1. parse_text_block(v, depth, st) = Gives(<<Out("Paragraph", <<>>)>>, st)
    BY <1>2 DEF parse_text_block
  <2> QED
    BY <2>1, NoneOk, NodeFine
<1>3. CASE v.ok /\ v.content = None /\ v.type # "paragraph"
  BY <1>3, SignsFine DEF parse_text_block
<1>4. CASE v.ok /\ v.content # None /\ v.type # "codeBlock"
  <2>1. Fine(parse_inlines(v.content, depth + 1, st))
    BY <1>4, NodeFacts, InlinesFine
  <2>2. \E form : form # "Image" /\ parse_text_block(v, depth, st)
                    = Wrapped(form, parse_inlines(v.content, depth + 1, st))
    <3>1. CASE v.type = "paragraph"
      <4>1. parse_text_block(v, depth, st)
              = Wrapped("Paragraph", parse_inlines(v.content, depth + 1, st))
        BY <1>4, <3>1 DEF parse_text_block
      <4> QED
        BY <4>1
    <3>2. CASE v.type # "paragraph"
      <4>1. parse_text_block(v, depth, st)
              = Wrapped("Heading", parse_inlines(v.content, depth + 1, st))
        BY <1>4, <3>2 DEF parse_text_block
      <4> QED
        BY <4>1
    <3> QED
      BY <3>1, <3>2
  <2> QED
    BY <2>1, <2>2, WrappedFine
<1>5. CASE v.ok /\ v.content # None /\ v.type = "codeBlock"
  <2>1. PICK language : language = IF v.text = 0 THEN Gives(<<>>, st)
                                   ELSE Named("Language", said(v.text, st))
    OBVIOUS
  <2>2. PICK code : code = parse_code_text(v.content, depth + 1, language.st)
    OBVIOUS
  <2>7. PICK label : label = IF language.st.text > st.text THEN language.out ELSE <<>>
    OBVIOUS
  <2>3. parse_text_block(v, depth, st)
          = Gives(<<Out("CodeBlock", label \o code.out)>>, code.st)
    BY <1>5, <2>1, <2>2, <2>7 DEF parse_text_block
  <2>4. Fine(language)
    <3>1. CASE v.text = 0
      BY <2>1, <3>1, SignsFine
    <3>2. CASE v.text # 0
      BY <2>1, <3>2, NodeFacts, SaidFine
    <3> QED
      BY <3>1, <3>2
  <2>5. Sound(label)
    BY <2>7, <2>4, NoneOk DEF Fine
  <2>6. Fine(code)
    BY <1>5, <2>2, <2>4, NodeFacts, CodeTextFine DEF Fine
  <2> QED
    BY <2>3, <2>5, <2>6, JoinedSound, NodeFine DEF Fine
<1> QED
  BY <1>1, <1>2, <1>3, <1>4, <1>5

LEMMA BlocksFine ==
  ASSUME attachments \in AttachmentLists, NEW within, W(within), NEW values,
         NEW depth \in Nat, KnownAll(values, depth), NEW st \in AdfParserState
  PROVE  Fine(parse_blocks(within, values, depth, st))
<1> DEFINE op(v, s) ==
              IF attachments = None \/ v.type \notin MediaContainers
              THEN within[v][depth][s]
              ELSE IF refused(depth, s) THEN malformed(s)
              ELSE IF v.content = None THEN malformed(visited(s))
              ELSE parse_media_container(v.content, depth + 1, visited(s))
           steps == [v \in Nodes |-> [s \in AdfParserState |-> op(v, s)]]
<1>1. parse_blocks(within, values, depth, st)
        = InTurn(steps, LAMBDA a, b : a \o b, values, st)
  BY DEF parse_blocks, Each, EachWith, Steps
<1>2. ASSUME NEW v \in Nodes, Known(v, depth), NEW s \in AdfParserState
      PROVE  Fine(op(v, s))
  <2>1. CASE attachments = None \/ v.type \notin MediaContainers
    BY <1>2, <2>1 DEF W
  <2>2. CASE ~ (attachments = None \/ v.type \notin MediaContainers) /\ v.content # None
    <3>1. visited(s) \in AdfParserState
      BY StatesKept
    <3>2. KnownAll(v.content, depth + 2) /\ (depth + 1) + 1 = depth + 2
      BY <1>2, <2>2, PartsKnown
    <3>3. Fine(parse_media_container(v.content, depth + 1, visited(s)))
      BY <3>1, <3>2, MediaContainerFine
    <3> QED
      BY <2>2, <3>3, SignsFine
  <2>3. CASE ~ (attachments = None \/ v.type \notin MediaContainers) /\ v.content = None
    BY <2>3, StatesKept, SignsFine
  <2> QED
    BY <2>1, <2>2, <2>3
<1>3. values \in Seq(Nodes)
  BY DEF KnownAll
<1>4. ASSUME NEW i \in 1 .. Len(values), NEW s \in AdfParserState
      PROVE  Fine(steps[values[i]][s])
  <2>1. values[i] \in Nodes /\ Known(values[i], depth)
    BY <1>3 DEF KnownAll
  <2> HIDE DEF op
  <2> QED
    BY <1>2, <2>1
<1> HIDE DEF steps
<1> QED
  BY <1>1, <1>3, <1>4, EachFine

LEMMA ListItemsFine ==
  ASSUME attachments \in AttachmentLists, NEW within, W(within), NEW values,
         NEW depth \in Nat, KnownAll(values, depth), NEW st \in AdfParserState
  PROVE  Fine(parse_list_items(within, values, depth, st))
<1> DEFINE item(r) == Wrapped("ListItem", r)
           op(v, s) ==
              IF v.type # "listItem" THEN item(malformed(s))
              ELSE IF refused(depth, s) THEN Nothing(s)
              ELSE IF v.content = None THEN item(malformed(visited(s)))
              ELSE item(parse_blocks(within, v.content, depth + 1, visited(s)))
           steps == [v \in Nodes |-> [s \in AdfParserState |-> op(v, s)]]
<1>1. parse_list_items(within, values, depth, st)
        = InTurn(steps, LAMBDA a, b : a \o b, values, st)
  BY DEF parse_list_items, Each, EachWith, Steps
<1>2. ASSUME NEW v \in Nodes, Known(v, depth), NEW s \in AdfParserState
      PROVE  Fine(op(v, s))
  <2>1. visited(s) \in AdfParserState
    BY StatesKept
  <2>2. Fine(item(malformed(s))) /\ Fine(item(malformed(visited(s)))) /\ Fine(Nothing(s))
    BY <2>1, SignsFine, WrappedFine
  <2>3. CASE v.content # None
    <3>1. Fine(parse_blocks(within, v.content, depth + 1, visited(s)))
      BY <1>2, <2>1, <2>3, PartsKnown, BlocksFine
    <3>2. Fine(item(parse_blocks(within, v.content, depth + 1, visited(s))))
      BY <3>1, WrappedFine
    <3> HIDE DEF item
    <3> QED
      BY <2>2, <3>2
  <2>4. CASE v.content = None
    <3> HIDE DEF item
    <3> QED
      BY <2>2, <2>4
  <2> QED
    BY <2>3, <2>4
<1>3. values \in Seq(Nodes)
  BY DEF KnownAll
<1>4. ASSUME NEW i \in 1 .. Len(values), NEW s \in AdfParserState
      PROVE  Fine(steps[values[i]][s])
  <2>1. values[i] \in Nodes /\ Known(values[i], depth)
    BY <1>3 DEF KnownAll
  <2> HIDE DEF op
  <2> QED
    BY <1>2, <2>1
<1> HIDE DEF steps
<1> QED
  BY <1>1, <1>3, <1>4, EachFine

LEMMA TaskItemFine ==
  ASSUME attachments \in AttachmentLists, NEW within, W(within), NEW v \in Nodes,
         NEW depth \in Nat, NEW st \in AdfParserState,
         v.type = "taskItem" \/ v.content = None \/ KnownAll(v.content, depth)
  PROVE  Fine(parse_task_item(within, v, depth, st))
<1>1. CASE ~ v.ok
  BY <1>1, SignsFine DEF parse_task_item
<1>2. CASE v.ok /\ v.type = "taskItem" /\ v.content = None
  BY <1>2, SignsFine DEF parse_task_item
<1>3. CASE v.ok /\ v.type = "taskItem" /\ v.content # None
  <2>1. Fine(parse_inlines(v.content, depth + 1, st))
    BY <1>3, NodeFacts, InlinesFine
  <2>2. parse_task_item(within, v, depth, st)
          = Wrapped("Paragraph", parse_inlines(v.content, depth + 1, st))
    BY <1>3 DEF parse_task_item
  <2> QED
    BY <2>1, <2>2, WrappedFine
<1>4. CASE v.ok /\ v.type # "taskItem" /\ Empty(v)
  BY <1>4, SignsFine DEF parse_task_item
<1>5. CASE v.ok /\ v.type # "taskItem" /\ ~ Empty(v)
  <2>1. KnownAll(v.content, depth)
    BY <1>5 DEF Empty
  <2>2. parse_task_item(within, v, depth, st) = parse_blocks(within, v.content, depth, st)
    BY <1>5 DEF parse_task_item
  <2> QED
    BY <2>1, <2>2, BlocksFine
<1> QED
  BY <1>1, <1>2, <1>3, <1>4, <1>5

LEMMA TaskListsFine ==
  ASSUME attachments \in AttachmentLists, NEW within, W(within), NEW node \in Nodes,
         NEW depth \in Nat, Known(node, depth), NEW st \in AdfParserState
  PROVE  Fine(parse_task_list(within, node, depth, st))
<1> DEFINE op(v, s) ==
              IF refused(depth + 1, s) THEN Nothing(s) ELSE
              CASE v.type = "taskItem" ->
                      Wrapped("TaskItem", parse_task_item(within, v, depth + 1, visited(s)))
                [] v.type = "blockTaskItem" ->
                      Wrapped("TaskItem", parse_task_item(within, v, depth + 2, visited(s)))
                [] v.type = "taskList" -> within[v][depth + 1][s]
                [] OTHER -> Wrapped("TaskItem", malformed(visited(s)))
           steps == [v \in Nodes |-> [s \in AdfParserState |-> op(v, s)]]
<1>1. CASE ~ node.ok \/ Empty(node)
  BY <1>1, SignsFine DEF parse_task_list
<1>2. CASE ~ (~ node.ok \/ Empty(node))
  <2>1. parse_task_list(within, node, depth, st)
          = Wrapped("TaskList", InTurn(steps, AddTask, node.content, st))
    BY <1>2 DEF parse_task_list, EachWith, Steps
  <2>2. ASSUME NEW v \in Nodes, Known(v, depth + 1), NEW s \in AdfParserState
        PROVE  Fine(op(v, s))
    <3>1. visited(s) \in AdfParserState
      BY StatesKept
    <3>2. Fine(Nothing(s)) /\ Fine(Wrapped("TaskItem", malformed(visited(s))))
      BY <3>1, SignsFine, WrappedFine
    <3>3. v.type = "taskItem" =>
            Fine(Wrapped("TaskItem", parse_task_item(within, v, depth + 1, visited(s))))
      BY <3>1, TaskItemFine, WrappedFine
    <3>4. Fine(Wrapped("TaskItem", parse_task_item(within, v, depth + 2, visited(s))))
      <4>1. v.content = None \/ KnownAll(v.content, depth + 2)
        <5>1. depth + 1 \in Nat /\ (depth + 1) + 1 = depth + 2
          OBVIOUS
        <5> QED
          BY <2>2, <5>1, PartsKnown
      <4>2. depth + 2 \in Nat
        OBVIOUS
      <4>3. Fine(parse_task_item(within, v, depth + 2, visited(s)))
        BY <3>1, <4>1, <4>2, TaskItemFine
      <4> QED
        BY <4>3, WrappedFine
    <3>5. Fine(within[v][depth + 1][s])
      BY <2>2 DEF W
    <3> QED
      BY <3>2, <3>3, <3>4, <3>5
  <2>3. KnownAll(node.content, depth + 1)
    BY <1>2, PartsKnown DEF Empty
  <2>4. node.content \in Seq(Nodes)
    BY <2>3 DEF KnownAll
  <2>5. ASSUME NEW i \in 1 .. Len(node.content), NEW s \in AdfParserState
        PROVE  Fine(steps[node.content[i]][s])
    <3>1. node.content[i] \in Nodes /\ Known(node.content[i], depth + 1)
      BY <2>3, <2>4 DEF KnownAll
    <3> HIDE DEF op
    <3> QED
      BY <2>2, <3>1
  <2>6. Fine(InTurn(steps, AddTask, node.content, st))
    <3> HIDE DEF steps
    <3> QED
      BY <2>4, <2>5, TaskListFine
  <2> HIDE DEF steps
  <2> QED
    BY <2>1, <2>6, WrappedFine
<1> QED
  BY <1>1, <1>2

LEMMA DecisionListFine ==
  ASSUME NEW node \in Nodes, NEW depth \in Nat, NEW st \in AdfParserState
  PROVE  Fine(parse_decision_list(node, depth, st))
<1> DEFINE item(r) == Wrapped("DecisionItem", r)
           op(v, s) ==
              IF refused(depth + 1, s) THEN Nothing(s)
              ELSE IF v.type # "decisionItem" THEN item(malformed(visited(s)))
              ELSE IF ~ v.ok THEN item(malformed(visited(s)))
              ELSE IF v.content = None THEN item(Gives(<<>>, visited(s)))
              ELSE item(parse_inlines(v.content, depth + 2, visited(s)))
           steps == [v \in Nodes |-> [s \in AdfParserState |-> op(v, s)]]
<1>1. CASE ~ node.ok \/ Empty(node)
  BY <1>1, SignsFine DEF parse_decision_list
<1>2. CASE ~ (~ node.ok \/ Empty(node))
  <2>1. parse_decision_list(node, depth, st)
          = Wrapped("DecisionList",
                    InTurn(steps, LAMBDA a, b : a \o b, node.content, st))
    BY <1>2 DEF parse_decision_list, Each, EachWith, Steps
  <2>2. ASSUME NEW v \in Nodes, NEW s \in AdfParserState
        PROVE  Fine(op(v, s))
    <3>1. visited(s) \in AdfParserState
      BY StatesKept
    <3>2. /\ Fine(Nothing(s)) /\ Fine(item(malformed(visited(s))))
          /\ Fine(item(Gives(<<>>, visited(s))))
      BY <3>1, SignsFine, WrappedFine
    <3>3. CASE v.content # None
      <4>1. Fine(parse_inlines(v.content, depth + 2, visited(s)))
        BY <3>1, <3>3, NodeFacts, InlinesFine
      <4>2. Fine(item(parse_inlines(v.content, depth + 2, visited(s))))
        BY <4>1, WrappedFine
      <4> HIDE DEF item
      <4> QED
        BY <3>2, <4>2
    <3>4. CASE v.content = None
      <4> HIDE DEF item
      <4> QED
        BY <3>2, <3>4
    <3> QED
      BY <3>3, <3>4
  <2>3. node.content \in Seq(Nodes)
    BY <1>2, NodeFacts DEF Empty
  <2>4. ASSUME NEW i \in 1 .. Len(node.content), NEW s \in AdfParserState
        PROVE  Fine(steps[node.content[i]][s])
    <3>1. node.content[i] \in Nodes
      BY <2>3
    <3> HIDE DEF op
    <3> QED
      BY <2>2, <3>1
  <2>5. Fine(InTurn(steps, LAMBDA a, b : a \o b, node.content, st))
    <3> HIDE DEF steps
    <3> QED
      BY <2>3, <2>4, EachFine
  <2> HIDE DEF steps
  <2> QED
    BY <2>1, <2>5, WrappedFine
<1> QED
  BY <1>1, <1>2

-----------------------------------------------------------------------------
(* Documents: tables *)

LEMMA TableCellFine ==
  ASSUME NEW within, W(within), NEW node \in Nodes,
         NEW depth \in Nat, Known(node, depth), NEW st \in AdfParserState
  PROVE  Fine(parse_table_cell(within, node, depth, st))
<1> DEFINE steps == [v \in Nodes |-> [s \in AdfParserState |-> within[v][depth + 1][s]]]
<1>1. visited(st) \in AdfParserState
  BY StatesKept
<1>2. PICK r : r = UntilStopped(steps, node.content, visited(st))
  OBVIOUS
<1>3. /\ parse_table_cell(within, node, depth, st) \in
              {Nothing(st), Nothing(visited(st)), Nothing(r.st), Wrapped("Cell", r)}
      /\ Empty(node) => parse_table_cell(within, node, depth, st)
                            \in {Nothing(st), Nothing(visited(st))}
  BY <1>2 DEF parse_table_cell, Whole, EachOrStop, Steps
<1>4. CASE Empty(node)
  BY <1>1, <1>3, <1>4, SignsFine
<1>5. CASE ~ Empty(node)
  <2>1. KnownAll(node.content, depth + 1)
    BY <1>5, PartsKnown DEF Empty
  <2>2. node.content \in Seq(Nodes)
    BY <2>1 DEF KnownAll
  <2>3. ASSUME NEW i \in 1 .. Len(node.content), NEW s \in AdfParserState
        PROVE  Fine(steps[node.content[i]][s])
    <3>1. node.content[i] \in Nodes /\ Known(node.content[i], depth + 1)
      BY <2>1, <2>2 DEF KnownAll
    <3> QED
      BY <3>1 DEF W
  <2>4. Fine(r)
    <3> HIDE DEF steps
    <3> QED
      BY <1>1, <1>2, <2>2, <2>3, UntilStoppedFine
  <2>5. Fine(Wrapped("Cell", r)) /\ Fine(Nothing(r.st))
    BY <2>4, WrappedFine, SignsFine DEF Fine
  <2> QED
    BY <1>1, <1>3, <2>5, SignsFine
<1> QED
  BY <1>4, <1>5

LEMMA TableRowFine ==
  ASSUME NEW within, W(within), NEW node \in Nodes,
         NEW depth \in Nat, Known(node, depth), NEW st \in AdfParserState
  PROVE  Fine(parse_table_row(within, node, depth, st))
<1> DEFINE steps == [v \in Nodes |-> [s \in AdfParserState |->
                        parse_table_cell(within, v, depth + 1, s)]]
           cells == AtMost(MaxTableCells, node.content)
           s0 == visited(st)
           s1 == IF Len(node.content) > MaxTableCells THEN Cut(s0) ELSE s0
<1>1. s0 \in AdfParserState /\ s1 \in AdfParserState
  BY StatesKept
<1>2. PICK r : r = UntilStopped(steps, cells, s1)
  OBVIOUS
<1>3. /\ parse_table_row(within, node, depth, st) \in
              {Nothing(st), Nothing(s0), Gives(<<>>, r.st), Wrapped("Row", r)}
      /\ Empty(node) => parse_table_row(within, node, depth, st)
                            \in {Nothing(st), Nothing(s0)}
  BY <1>2 DEF parse_table_row, Whole, EachOrStop, Steps
<1>4. CASE Empty(node)
  <2> HIDE DEF s0
  <2> QED
    BY <1>1, <1>3, <1>4, SignsFine
<1>5. CASE ~ Empty(node)
  <2>1. KnownAll(node.content, depth + 1)
    BY <1>5, PartsKnown DEF Empty
  <2>2. KnownAll(cells, depth + 1)
    BY <2>1, AtMostKnown, ContentAssumption
  <2> HIDE DEF cells, s0, s1
  <2>3. cells \in Seq(Nodes)
    BY <2>2 DEF KnownAll
  <2>4. ASSUME NEW i \in 1 .. Len(cells), NEW s \in AdfParserState
        PROVE  Fine(steps[cells[i]][s])
    <3>1. cells[i] \in Nodes /\ Known(cells[i], depth + 1)
      BY <2>2, <2>3 DEF KnownAll
    <3> QED
      BY <3>1, TableCellFine
  <2>5. Fine(r)
    <3> HIDE DEF steps
    <3> QED
      BY <1>1, <1>2, <2>3, <2>4, UntilStoppedFine
  <2>6. Fine(Wrapped("Row", r)) /\ Fine(Gives(<<>>, r.st))
    BY <2>5, WrappedFine, SignsFine DEF Fine
  <2> QED
    BY <1>1, <1>3, <2>6, SignsFine
<1> QED
  BY <1>4, <1>5

LEMMA TableFine ==
  ASSUME NEW within, W(within), NEW node \in Nodes,
         NEW depth \in Nat, Known(node, depth), NEW st \in AdfParserState
  PROVE  Fine(parse_table(within, node, depth, st))
<1> DEFINE steps == [v \in Nodes |-> [s \in AdfParserState |->
                        parse_table_row(within, v, depth + 1, s)]]
           rows == AtMost(MaxTableRows, node.content)
           s1 == IF Len(node.content) > MaxTableRows THEN Cut(st) ELSE st
<1>1. s1 \in AdfParserState
  BY StatesKept
<1>2. PICK r : r = UntilStopped(steps, rows, s1)
  OBVIOUS
<1>3. /\ parse_table(within, node, depth, st) \in
              {malformed(st), malformed(r.st), Wrapped("Table", r)}
      /\ Empty(node) => parse_table(within, node, depth, st) = malformed(st)
  BY <1>2 DEF parse_table, Whole, EachOrStop, Steps
<1>4. CASE Empty(node)
  BY <1>3, <1>4, SignsFine
<1>5. CASE ~ Empty(node)
  <2>1. KnownAll(node.content, depth + 1)
    BY <1>5, PartsKnown DEF Empty
  <2>2. KnownAll(rows, depth + 1)
    BY <2>1, AtMostKnown, ContentAssumption
  <2> HIDE DEF rows, s1
  <2>3. rows \in Seq(Nodes)
    BY <2>2 DEF KnownAll
  <2>4. ASSUME NEW i \in 1 .. Len(rows), NEW s \in AdfParserState
        PROVE  Fine(steps[rows[i]][s])
    <3>1. rows[i] \in Nodes /\ Known(rows[i], depth + 1)
      BY <2>2, <2>3 DEF KnownAll
    <3> QED
      BY <3>1, TableRowFine
  <2>5. Fine(r)
    <3> HIDE DEF steps
    <3> QED
      BY <1>1, <1>2, <2>3, <2>4, UntilStoppedFine
  <2>6. Fine(Wrapped("Table", r)) /\ Fine(malformed(r.st))
    BY <2>5, WrappedFine, SignsFine DEF Fine
  <2> QED
    BY <1>3, <2>6, SignsFine
<1> QED
  BY <1>4, <1>5

-----------------------------------------------------------------------------
(* Documents: every block *)

LEMMA ContentBlockFine ==
  ASSUME attachments \in AttachmentLists, NEW within, W(within), NEW node \in Nodes,
         NEW depth \in Nat, Known(node, depth), NEW st \in AdfParserState
  PROVE  Fine(parse_content_block(within, node, depth, st))
<1>1. CASE node.content = None
  BY <1>1, SignsFine DEF parse_content_block
<1>2. CASE node.content # None
  <2>1. KnownAll(node.content, depth + 1) /\ depth + 1 \in Nat
    BY <1>2, PartsKnown
  <2>2. /\ Fine(parse_list_items(within, node.content, depth + 1, st))
        /\ Fine(parse_blocks(within, node.content, depth + 1, st))
    BY <2>1, ListItemsFine, BlocksFine
  <2>3. /\ Fine(malformed(st))
        /\ Fine(Wrapped("BulletList", parse_list_items(within, node.content, depth + 1, st)))
        /\ Fine(Wrapped("OrderedList", parse_list_items(within, node.content, depth + 1, st)))
        /\ Fine(Wrapped("Panel", parse_blocks(within, node.content, depth + 1, st)))
        /\ Fine(Wrapped("BlockQuote", parse_blocks(within, node.content, depth + 1, st)))
    BY <2>2, SignsFine, WrappedFine
  <2> QED
    BY <1>2, <2>3 DEF parse_content_block
<1> QED
  BY <1>1, <1>2

LEMMA ContainerBlockFine ==
  ASSUME attachments \in AttachmentLists, NEW within, W(within), NEW node \in Nodes,
         NEW depth \in Nat, Known(node, depth), NEW st \in AdfParserState
  PROVE  Fine(parse_container_block(within, node, depth, st))
BY TaskListsFine, DecisionListFine, TableFine, ContentBlockFine DEF parse_container_block

LEMMA ExpandFine ==
  ASSUME attachments \in AttachmentLists, NEW within, W(within), NEW node \in Nodes,
         NEW depth \in Nat, Known(node, depth), NEW st \in AdfParserState
  PROVE  Fine(parse_expand_block(within, node, depth, st))
<1>1. PICK title : title = IF node.text = 0 THEN Gives(<<>>, st) ELSE said(node.text, st)
  OBVIOUS
<1>2. Fine(title)
  BY <1>1, NodeFacts, SignsFine, SaidFine
<1>3. PICK body : body = parse_blocks(within, node.content, depth + 1, title.st)
  OBVIOUS
<1>4. CASE ~ node.ok
  BY <1>4, SignsFine DEF parse_expand_block
<1>5. CASE node.ok /\ Empty(node)
  <2>1. parse_expand_block(within, node, depth, st) = malformed(title.st)
    BY <1>1, <1>5 DEF parse_expand_block
  <2> QED
    BY <1>2, <2>1, SignsFine DEF Fine
<1>6. CASE node.ok /\ ~ Empty(node)
  <2>1. parse_expand_block(within, node, depth, st)
          = Gives(<<Out("Expand", title.out \o body.out)>>, body.st)
    BY <1>1, <1>3, <1>6 DEF parse_expand_block
  <2>2. KnownAll(node.content, depth + 1) /\ depth + 1 \in Nat
    BY <1>6, PartsKnown DEF Empty
  <2>3. Fine(body)
    BY <1>2, <1>3, <2>2, BlocksFine DEF Fine
  <2> QED
    BY <1>2, <2>1, <2>3, JoinedSound, NodeFine DEF Fine
<1> QED
  BY <1>4, <1>5, <1>6

LEMMA AsBlockFine ==
  ASSUME NEW r, Fine(r)
  PROVE  Fine(as_block(r))
BY WrappedFine DEF as_block

Embedded == MediaContainers
            \cup {"expand", "nestedExpand", "media", "mediaInline", "rule"}

LEMMA EmbeddedFine ==
  ASSUME attachments \in AttachmentLists, NEW within, W(within),
         NEW node \in Nodes, node \in all_nodes, node.type \in Embedded,
         NEW depth \in Nat, Known(node, depth), NEW st \in AdfParserState
  PROVE  Fine(parse_embedded_block(within, node, depth, st))
<1>1. CASE node.type \in {"expand", "nestedExpand"}
  BY <1>1, ExpandFine DEF parse_embedded_block, MediaContainers
<1>2. CASE node.type = "media"
  BY <1>2, MediaNodeFine DEF parse_embedded_block, MediaContainers
<1>3. CASE node.type \in MediaContainers
  <2>1. CASE node.content = None \/ attachments = None
    BY <1>3, <2>1, SignsFine DEF parse_embedded_block, MediaContainers
  <2>2. CASE ~ (node.content = None \/ attachments = None)
    <3>1. PICK r : r = parse_media_container(node.content, depth, st)
      OBVIOUS
    <3>2. parse_embedded_block(within, node, depth, st) \in {r, Wrapped("BlockQuote", r)}
      BY <1>3, <2>2, <3>1 DEF parse_embedded_block, MediaContainers
    <3>3. Fine(r)
      BY <2>2, <3>1, PartsKnown, MediaContainerFine
    <3> QED
      BY <3>2, <3>3, WrappedFine
  <2> QED
    BY <2>1, <2>2
<1>4. CASE node.type = "mediaInline"
  <2>1. Fine(as_block(parse_media_inline(node, st)))
    BY InlineCardsFine, AsBlockFine
  <2> QED
    BY <1>4, <2>1 DEF parse_embedded_block, MediaContainers
<1>5. CASE node.type = "rule"
  <2>1. Fine(Gives(<<Out("Rule", <<>>)>>, st)) /\ Fine(malformed(st))
    BY NoneOk, NodeFine, SignsFine
  <2> QED
    BY <1>5, <2>1 DEF parse_embedded_block, MediaContainers
<1> QED
  BY <1>1, <1>2, <1>3, <1>4, <1>5 DEF Embedded

LEMMA CardOrStatusFine ==
  ASSUME NEW node \in Nodes, NEW st \in AdfParserState
  PROVE  Fine(parse_card_or_status_block(node, st))
<1>1. Fine(parse_status_inline(node, st))
  BY NodeFacts, SignsFine, SaidFine DEF parse_status_inline
<1>2. Fine(Wrapped("Paragraph", parse_status_inline(node, st)))
  BY <1>1, WrappedFine
<1>3. Fine(as_block(parse_inline_card(node, st)))
  BY InlineCardsFine, AsBlockFine
<1> QED
  BY <1>2, <1>3 DEF parse_card_or_status_block

LEMMA BlockFine ==
  ASSUME attachments \in AttachmentLists, NEW within, W(within), NEW node \in Nodes,
         NEW depth \in Nat, Known(node, depth), NEW st \in AdfParserState
  PROVE  Fine(parse_block(within, node, depth, st))
<1>1. CASE refused(depth, st)
  BY <1>1, SignsFine DEF parse_block
<1>2. CASE ~ refused(depth, st)
  <2>1. PICK s : s = visited(st)
    OBVIOUS
  <2>2. s \in AdfParserState
    BY <2>1, StatesKept
  <2>3. depth \in 0 .. MaxDepth + 2
    BY <1>2, ContentAssumption DEF refused
  <2>4. node \in all_nodes
    BY <2>3, KnownIsThere
  <2>5. Fine(malformed(s)) /\ Fine(Unsupported(s))
    BY <2>2, SignsFine
  <2>6. Fine(parse_text_block(node, depth, s))
    BY <2>2, TextBlockFine
  <2>7. Fine(parse_container_block(within, node, depth, s))
    BY <2>2, ContainerBlockFine
  <2>8. node.type \in Embedded => Fine(parse_embedded_block(within, node, depth, s))
    BY <2>2, <2>4, EmbeddedFine
  <2>9. Fine(parse_card_or_status_block(node, s))
    BY <2>2, CardOrStatusFine
  <2> QED
    BY <1>2, <2>1, <2>5, <2>6, <2>7, <2>8, <2>9 DEF parse_block, Embedded
<1> QED
  BY <1>1, <1>2

\* f parses blocks that nest more and more deeply.
ParsesDeeper(f) ==
    \A k \in 0 .. MaxDepth : \A v \in Nodes, d \in Nat, s \in AdfParserState :
        f[k][v][d][s] = IF k = 0 THEN Nothing(s) ELSE parse_block(f[k - 1], v, d, s)

LEMMA ParsingDeepens == ParsesDeeper(parsing)
<1> DEFINE M == MaxDepth
           Level(k, w) ==
              [v \in Nodes |-> [d \in Nat |-> [s \in AdfParserState |->
                  IF k = 0 THEN Nothing(s) ELSE parse_block(w, v, d, s)]]]
           Is(f, n) == f = [k \in 0 .. n |-> Level(k, f[k - 1])]
           T == {n \in 0 .. M : \E f : Is(f, n)}
<1>0. M \in Nat
  BY ContentAssumption
<1>1. 0 \in T
  <2>1. ASSUME NEW w, NEW x PROVE Level(0, w) = Level(0, x)
    OBVIOUS
  <2> DEFINE g == [k \in 0 .. 0 |-> Level(0, 0)]
  <2>2. Is(g, 0)
    <3> HIDE DEF Level
    <3>1. \A k \in 0 .. 0 : k = 0 /\ g[k] = Level(k, g[k - 1])
      BY <2>1
    <3> QED
      BY <3>1
  <2> HIDE DEF Is, g
  <2> QED
    BY <1>0, <2>2
<1>2. ASSUME NEW n \in 0 .. M - 1, n \in T PROVE n + 1 \in T
  <2>1. PICK f : Is(f, n)
    BY <1>2
  <2> DEFINE g == [k \in 0 .. n + 1 |-> IF k = n + 1 THEN Level(n + 1, f[n]) ELSE f[k]]
  <2>2. ASSUME NEW w, NEW x PROVE Level(0, w) = Level(0, x)
    OBVIOUS
  <2> HIDE DEF Level
  <2>3. ASSUME NEW k \in 0 .. n + 1 PROVE g[k] = Level(k, g[k - 1])
    <3>1. CASE k = 0
      <4>1. g[k] = Level(0, f[0 - 1])
        BY <2>1, <3>1
      <4> QED
        BY <2>2, <3>1, <4>1
    <3>2. CASE k = n + 1
      BY <3>2
    <3>3. CASE k \in 1 .. n
      <4>1. k # n + 1 /\ k - 1 # n + 1 /\ k - 1 \in 0 .. n
        BY <3>3
      <4>2. g[k] = f[k] /\ g[k - 1] = f[k - 1]
        BY <4>1
      <4>3. f[k] = Level(k, f[k - 1])
        BY <2>1, <3>3, <4>1
      <4> QED
        BY <4>2, <4>3
    <3> QED
      BY <3>1, <3>2, <3>3
  <2>4. Is(g, n + 1)
    <3>1. g = [k \in 0 .. n + 1 |-> g[k]]
      OBVIOUS
    <3> HIDE DEF g
    <3> QED
      BY <2>3, <3>1, Zenon
  <2> HIDE DEF Is, g, M
  <2> QED
    BY <1>0, <2>4
<1>3. M \in T
  <2> HIDE DEF T, M
  <2>1. PICK n \in Nat : n = M
    BY <1>0
  <2>2. \A k \in 0 .. n : k \in T
    BY <1>1, <1>2, <2>1, Climb
  <2> QED
    BY <2>1, <2>2
<1> DEFINE u == CHOOSE f : Is(f, M)
<1>4. Is(u, M)
  BY <1>3
<1>5. parsing = u
  BY DEF parsing
<1>6. ASSUME NEW k \in 0 .. M, NEW v \in Nodes, NEW d \in Nat, NEW s \in AdfParserState
      PROVE  u[k][v][d][s] = IF k = 0 THEN Nothing(s) ELSE parse_block(u[k - 1], v, d, s)
  <2>1. u[k] = Level(k, u[k - 1])
    <3> HIDE DEF u, Level
    <3> QED
      BY <1>4
  <2> HIDE DEF u
  <2> QED
    BY <2>1
<1> QED
  <2> HIDE DEF u
  <2> QED
    BY <1>5, <1>6 DEF ParsesDeeper

LEMMA ParsingWorks == attachments \in AttachmentLists => W(parsing[MaxDepth])
<1> SUFFICES ASSUME attachments \in AttachmentLists PROVE W(parsing[MaxDepth])
  OBVIOUS
<1> DEFINE T == {k \in 0 .. MaxDepth : W(parsing[k])}
<1>0. PICK n \in Nat : n = MaxDepth
  BY ContentAssumption
<1>1. 0 \in T
  <2>1. W(parsing[0])
    BY <1>0, ParsingDeepens, SignsFine DEF W, ParsesDeeper
  <2> QED
    BY <1>0, <2>1
<1>2. ASSUME NEW k \in 0 .. n - 1, k \in T PROVE k + 1 \in T
  <2>1. k + 1 \in 0 .. MaxDepth /\ (k + 1) - 1 = k /\ k + 1 # 0
    BY <1>0
  <2>2. W(parsing[k])
    BY <1>2
  <2>3. ASSUME NEW v \in Nodes, NEW d \in Nat, NEW s \in AdfParserState, Known(v, d)
        PROVE  Fine(parsing[k + 1][v][d][s])
    <3>1. parsing[k + 1][v][d][s] = parse_block(parsing[k], v, d, s)
      BY <2>1, ParsingDeepens DEF ParsesDeeper
    <3> QED
      BY <2>2, <2>3, <3>1, BlockFine
  <2> QED
    BY <2>1, <2>3 DEF W
<1>3. \A k \in 0 .. n : k \in T
  <2> HIDE DEF T
  <2> QED
    BY <1>1, <1>2, Climb
<1> QED
  BY <1>0, <1>3

\* What is parsed of the whole document is in order.
LEMMA DocumentFine ==
  ASSUME attachments \in AttachmentLists, adf \in Documents
  PROVE  Sound(parse_adf.blocks)
<1> DEFINE st == [nodes |-> 0, text |-> 0, truncated |-> FALSE, unresolved |-> FALSE]
<1>1. st \in AdfParserState
  BY ContentAssumption DEF AdfParserState
<1>2. adf.content \in Seq(Nodes)
  BY ContentAssumption
<1>3. ASSUME NEW i \in 1 .. Len(adf.content) PROVE Known(adf.content[i], 1)
  <2>1. adf.content[i] \in NodeLevels[0]
    BY <1>2, NodesCollected DEF Deepens, Elements
  <2>2. Known(adf.content[i], 0) /\ 0 + 1 = 1
    BY <2>1 DEF Known
  <2> QED
    BY <2>2, KnownDeeper
<1>4. KnownAll(adf.content, 1)
  BY <1>2, <1>3 DEF KnownAll
<1> HIDE DEF st
<1>5. Fine(parse_blocks(parsing[MaxDepth], adf.content, 1, st))
  BY <1>1, <1>4, ParsingWorks, BlocksFine
<1>6. parse_adf.blocks = parse_blocks(parsing[MaxDepth], adf.content, 1, st).out
  BY DEF parse_adf, Document, st
<1> QED
  BY <1>5, <1>6 DEF Fine

-----------------------------------------------------------------------------
(* Documents: the gallery *)

\* An image attachment that is not shown, listed for the first time at i.
Candidate(i, shown) ==
    /\ attachments[i].image /\ attachments[i].id \notin shown
    /\ \A j \in 1 .. (i - 1) : attachments[j].id # attachments[i].id

\* f lists the candidates in turn.
ListsInTurn(f, shown) ==
    /\ f[0] = <<>>
    /\ \A k \in 0 .. Len(attachments) - 1 :
          f[k + 1] = IF Candidate(k + 1, shown) THEN Append(f[k], attachments[k + 1].id)
                     ELSE f[k]

LEMMA CandidatesListed ==
  ASSUME NEW blocks, Len(attachments) \in Nat
  PROVE  \E f : /\ ListsInTurn(f, collect_resolved_image_ids(blocks))
                /\ collect_fallback_images(blocks)
                     = AtMost(MaxFallback, f[Len(attachments)])
<1> DEFINE M == Len(attachments)
           shown == collect_resolved_image_ids(blocks)
           More(r, i) == IF Candidate(i, shown) THEN Append(r, attachments[i].id) ELSE r
           Is(f, n) == f = [k \in 0 .. n |-> IF k = 0 THEN <<>> ELSE More(f[k - 1], k)]
           T == {n \in 0 .. M : \E f : Is(f, n)}
<1>0. M \in Nat
  OBVIOUS
<1>1. 0 \in T
  <2>1. Is([k \in 0 .. 0 |-> <<>>], 0)
    OBVIOUS
  <2> HIDE DEF Is
  <2> QED
    BY <1>0, <2>1
<1>2. ASSUME NEW n \in 0 .. M - 1, n \in T PROVE n + 1 \in T
  <2>1. PICK f : Is(f, n)
    BY <1>2
  <2> DEFINE g == [k \in 0 .. n + 1 |-> IF k = n + 1 THEN More(f[n], n + 1) ELSE f[k]]
  <2> HIDE DEF More
  <2>2. ASSUME NEW k \in 0 .. n + 1
        PROVE  g[k] = IF k = 0 THEN <<>> ELSE More(g[k - 1], k)
    <3>1. CASE k = 0
      BY <2>1, <3>1
    <3>2. CASE k = n + 1
      BY <3>2
    <3>3. CASE k \in 1 .. n
      <4>1. k # n + 1 /\ k - 1 # n + 1 /\ k - 1 \in 0 .. n /\ k # 0
        BY <3>3
      <4>2. g[k] = f[k] /\ g[k - 1] = f[k - 1]
        BY <4>1
      <4>3. f[k] = More(f[k - 1], k)
        BY <2>1, <3>3, <4>1
      <4> QED
        BY <4>1, <4>2, <4>3
    <3> QED
      BY <3>1, <3>2, <3>3
  <2>3. Is(g, n + 1)
    <3>1. g = [k \in 0 .. n + 1 |-> g[k]]
      OBVIOUS
    <3> HIDE DEF g
    <3> QED
      BY <2>2, <3>1, Zenon
  <2> HIDE DEF Is, g, M
  <2> QED
    BY <1>0, <2>3
<1>3. M \in T
  <2> HIDE DEF T, M
  <2>1. PICK n \in Nat : n = M
    BY <1>0
  <2>2. \A k \in 0 .. n : k \in T
    BY <1>1, <1>2, <2>1, Climb
  <2> QED
    BY <2>1, <2>2
<1> DEFINE u == CHOOSE f : Is(f, M)
<1>4. Is(u, M)
  BY <1>3
<1>5. collect_fallback_images(blocks) = AtMost(MaxFallback, u[M])
  BY DEF collect_fallback_images, Candidate
<1>6. ListsInTurn(u, shown)
  <2> HIDE DEF u
  <2>1. u[0] = <<>>
    BY <1>0, <1>4
  <2>2. ASSUME NEW k \in 0 .. M - 1 PROVE u[k + 1] = More(u[k], k + 1)
    <3>1. k + 1 \in 0 .. M /\ k + 1 # 0 /\ (k + 1) - 1 = k
      BY <1>0
    <3> QED
      BY <1>4, <3>1
  <2> QED
    BY <2>1, <2>2 DEF ListsInTurn
<1> QED
  BY <1>5, <1>6

\* No value twice.
Different(s) == \A p, q \in DOMAIN s : s[p] = s[q] => p = q

LEMMA AsManyAsPlaces ==
  ASSUME NEW X, NEW s \in Seq(X), Different(s)
  PROVE  Cardinality(Elements(s)) = Len(s)
<1>1. DOMAIN s = 1 .. Len(s) /\ Len(s) \in Nat
  OBVIOUS
<1>2. PICK f : f = [i \in 1 .. Len(s) |-> s[i]]
  OBVIOUS
<1>3. f \in Bijection(1 .. Len(s), Elements(s))
  <2>1. f \in [1 .. Len(s) -> Elements(s)]
    BY <1>1, <1>2 DEF Elements
  <2>2. \A p, q \in 1 .. Len(s) : f[p] = f[q] => p = q
    BY <1>1, <1>2 DEF Different
  <2>3. \A t \in Elements(s) : \E p \in 1 .. Len(s) : f[p] = t
    BY <1>1, <1>2 DEF Elements
  <2> QED
    BY <2>1, <2>2, <2>3 DEF Bijection, Injection, Surjection, IsInjective
<1> QED
  BY <1>1, <1>3, FS_CountingElements DEF ExistsBijection

Ids == {a.id : a \in Attachments}

\* The candidates among the first k attachments, each once.
Listed(s, k, shown) ==
    /\ s \in Seq(Ids) /\ Different(s)
    /\ \A p \in DOMAIN s :
          \E i \in 1 .. k : Candidate(i, shown) /\ s[p] = attachments[i].id
    /\ \A i \in 1 .. k : Candidate(i, shown) => \E p \in DOMAIN s : s[p] = attachments[i].id

LEMMA OneMoreListed ==
  ASSUME attachments \in Seq(Attachments), NEW shown, NEW k \in Nat,
         k + 1 \in DOMAIN attachments, NEW s, Listed(s, k, shown)
  PROVE  /\ Candidate(k + 1, shown)
               => Listed(Append(s, attachments[k + 1].id), k + 1, shown)
         /\ ~ Candidate(k + 1, shown) => Listed(s, k + 1, shown)
<1>1. \A i \in 1 .. k + 1 : i \in 1 .. k \/ i = k + 1
  OBVIOUS
<1>2. 1 .. k \subseteq 1 .. k + 1 /\ k + 1 \in 1 .. k + 1
  OBVIOUS
<1>3. ASSUME ~ Candidate(k + 1, shown) PROVE Listed(s, k + 1, shown)
  <2>1. \A p \in DOMAIN s :
           \E i \in 1 .. k + 1 : Candidate(i, shown) /\ s[p] = attachments[i].id
    BY <1>2, Zenon DEF Listed
  <2>2. \A i \in 1 .. k + 1 :
           Candidate(i, shown) => \E p \in DOMAIN s : s[p] = attachments[i].id
    BY <1>1, <1>3, Zenon DEF Listed
  <2> QED
    BY <2>1, <2>2 DEF Listed
<1>4. ASSUME Candidate(k + 1, shown)
      PROVE  Listed(Append(s, attachments[k + 1].id), k + 1, shown)
  <2>1. PICK x : x = attachments[k + 1].id
    OBVIOUS
  <2>2. x \in Ids
    BY <2>1 DEF Ids
  <2>3. PICK t : t = Append(s, x)
    OBVIOUS
  <2>4. s \in Seq(Ids) /\ Len(s) \in Nat /\ DOMAIN s = 1 .. Len(s)
    BY DEF Listed
  <2>5. /\ t \in Seq(Ids) /\ DOMAIN t = 1 .. Len(s) + 1
        /\ t[Len(s) + 1] = x /\ \A p \in DOMAIN s : t[p] = s[p]
    BY <2>2, <2>3, <2>4
  <2>6. /\ \A p \in DOMAIN t : p \in DOMAIN s \/ p = Len(s) + 1
        /\ DOMAIN s \subseteq DOMAIN t /\ Len(s) + 1 \in DOMAIN t
    BY <2>4, <2>5
  <2>7. \A p \in DOMAIN s : s[p] # x
    <3>1. \A i \in 1 .. k : attachments[i].id # x
      <4>1. (k + 1) - 1 = k
        OBVIOUS
      <4> QED
        BY <1>4, <2>1, <4>1 DEF Candidate
    <3> QED
      BY <3>1 DEF Listed
  <2>8. Different(t)
    <3> SUFFICES ASSUME NEW p \in DOMAIN t, NEW q \in DOMAIN t, t[p] = t[q]
                 PROVE  p = q
      BY DEF Different
    <3> QED
      BY <2>5, <2>6, <2>7, Zenon DEF Listed, Different
  <2>9. \A p \in DOMAIN t :
           \E i \in 1 .. k + 1 : Candidate(i, shown) /\ t[p] = attachments[i].id
    <3>1. ASSUME NEW p \in DOMAIN s
          PROVE  \E i \in 1 .. k + 1 : Candidate(i, shown) /\ t[p] = attachments[i].id
      <4>1. PICK i \in 1 .. k : Candidate(i, shown) /\ s[p] = attachments[i].id
        BY DEF Listed
      <4>2. i \in 1 .. k + 1 /\ t[p] = s[p]
        BY <2>5
      <4> QED
        BY <4>1, <4>2, Zenon
    <3>2. t[Len(s) + 1] = attachments[k + 1].id
      BY <2>1, <2>5
    <3> QED
      BY <1>2, <1>4, <2>6, <3>1, <3>2, Zenon
  <2>10. \A i \in 1 .. k + 1 :
           Candidate(i, shown) => \E p \in DOMAIN t : t[p] = attachments[i].id
    BY <1>1, <2>1, <2>5, <2>6, Zenon DEF Listed
  <2> QED
    BY <2>1, <2>3, <2>5, <2>8, <2>9, <2>10 DEF Listed
<1> QED
  BY <1>3, <1>4

LEMMA AllListed ==
  ASSUME attachments \in Seq(Attachments), NEW shown, NEW f, ListsInTurn(f, shown)
  PROVE  Listed(f[Len(attachments)], Len(attachments), shown)
<1>0. PICK n \in Nat : n = Len(attachments) /\ DOMAIN attachments = 1 .. n
  OBVIOUS
<1> DEFINE T == {k \in 0 .. n : Listed(f[k], k, shown)}
<1>1. 0 \in T
  <2>1. f[0] = <<>> /\ DOMAIN <<>> = {} /\ 1 .. 0 = {}
    BY DEF ListsInTurn
  <2>2. <<>> \in Seq(Ids)
    OBVIOUS
  <2>3. Listed(f[0], 0, shown)
    BY <2>1, <2>2 DEF Listed, Different
  <2> QED
    BY <1>0, <2>3
<1>2. ASSUME NEW k \in 0 .. n - 1, k \in T PROVE k + 1 \in T
  <2>1. k \in Nat /\ k + 1 \in 0 .. n /\ k + 1 \in DOMAIN attachments
    BY <1>0
  <2>2. f[k + 1] = IF Candidate(k + 1, shown) THEN Append(f[k], attachments[k + 1].id)
                   ELSE f[k]
    BY <1>0 DEF ListsInTurn
  <2>3. Listed(f[k], k, shown)
    BY <1>2
  <2>4. Listed(f[k + 1], k + 1, shown)
    BY <2>1, <2>2, <2>3, OneMoreListed
  <2> QED
    BY <2>1, <2>4
<1>3. \A k \in 0 .. n : k \in T
  <2> HIDE DEF T
  <2> QED
    BY <1>1, <1>2, Climb
<1>4. n \in T
  BY <1>0, <1>3
<1> QED
  BY <1>0, <1>4

LEMMA CutIsPart ==
  ASSUME NEW X, NEW s \in Seq(X), NEW n \in Nat, Different(s)
  PROVE  /\ AtMost(n, s) \in Seq(X) /\ Different(AtMost(n, s)) /\ Len(AtMost(n, s)) <= n
         /\ Elements(AtMost(n, s)) \subseteq Elements(s)
         /\ Len(AtMost(n, s)) < n => AtMost(n, s) = s
<1>1. CASE Len(s) <= n
  BY <1>1 DEF AtMost
<1>2. CASE ~ (Len(s) <= n)
  <2>1. n \in 0 .. Len(s) /\ Len(s) \in Nat
    BY <1>2
  <2>2. PICK t : t = AtMost(n, s)
    OBVIOUS
  <2>3. t = SubSeq(s, 1, n)
    BY <1>2, <2>2 DEF AtMost
  <2>4. /\ t \in Seq(X) /\ Len(t) = n /\ DOMAIN t = 1 .. n
        /\ \A i \in 1 .. n : t[i] = s[i]
    BY <2>1, <2>3
  <2>5. 1 .. n \subseteq DOMAIN s
    BY <2>1
  <2>6. Different(t)
    BY <2>4, <2>5 DEF Different
  <2>7. Elements(t) \subseteq Elements(s)
    BY <2>4, <2>5 DEF Elements
  <2> QED
    BY <2>2, <2>4, <2>6, <2>7
<1> QED
  BY <1>1, <1>2

LEMMA GalleryListed ==
  ASSUME attachments \in AttachmentLists, attachments # None, NEW blocks,
         NEW g, g = collect_fallback_images(blocks)
  PROVE  /\ Cardinality(Elements(g)) = Len(g) /\ Len(g) <= MaxFallback
         /\ Elements(g) \cap collect_resolved_image_ids(blocks) = {}
         /\ Len(g) < MaxFallback =>
               {attachments[i].id : i \in Images}
                  \subseteq Elements(g) \cup collect_resolved_image_ids(blocks)
<1>0. attachments \in Seq(Attachments) /\ attachments \in AttachmentLists \ {None}
  BY ContentAssumption
<1>1. PICK n \in Nat : n = Len(attachments) /\ DOMAIN attachments = 1 .. n
  BY <1>0
<1>2. PICK shown : shown = collect_resolved_image_ids(blocks)
  OBVIOUS
<1>3. PICK f : ListsInTurn(f, shown) /\ g = AtMost(MaxFallback, f[n])
  BY <1>1, <1>2, CandidatesListed
<1>4. Listed(f[n], n, shown)
  BY <1>0, <1>1, <1>3, AllListed
<1>5. PICK s : s = f[n]
  OBVIOUS
<1>6. /\ g \in Seq(Ids) /\ Different(g) /\ Len(g) <= MaxFallback
      /\ Elements(g) \subseteq Elements(s) /\ (Len(g) < MaxFallback => g = s)
  <2>1. s \in Seq(Ids) /\ Different(s) /\ MaxFallback \in Nat
    BY <1>4, <1>5, ContentAssumption DEF Listed
  <2> QED
    BY <1>3, <1>5, <2>1, CutIsPart
<1>7. Cardinality(Elements(g)) = Len(g)
  BY <1>6, AsManyAsPlaces
<1>8. Elements(s) \cap shown = {}
  BY <1>4, <1>5 DEF Listed, Elements, Candidate
<1>9. ASSUME NEW i \in Images, attachments[i].id \notin shown
      PROVE  attachments[i].id \in Elements(s)
  <2> DEFINE U == {j \in 1 .. n : attachments[j].id = attachments[i].id}
  <2>1. i \in U /\ U \in SUBSET Nat /\ U # {} /\ attachments[i].image
    BY <1>1 DEF Images
  <2>2. PICK j \in U : \A k \in U : j <= k
    <3> HIDE DEF U
    <3> QED
      BY <2>1, Least
  <2>3. j \in 1 .. n /\ attachments[j].id = attachments[i].id
    OBVIOUS
  <2>4. attachments[j].image = attachments[i].image
    <3>1. \A a, b \in DOMAIN attachments :
             attachments[a].id = attachments[b].id
                => attachments[a].image = attachments[b].image
      <4>1. PICK l \in AttachmentLists \ {None} : l = attachments
        BY <1>0
      <4>2. \A a, b \in DOMAIN l : l[a].id = l[b].id => l[a].image = l[b].image
        BY ContentAssumption, Zenon
      <4> QED
        BY <4>1, <4>2
    <3>2. i \in DOMAIN attachments /\ j \in DOMAIN attachments
      BY <1>1, <2>3 DEF Images
    <3> HIDE DEF U
    <3> QED
      BY <2>3, <3>1, <3>2, Zenon
  <2>5. ASSUME NEW k \in 1 .. (j - 1) PROVE attachments[k].id # attachments[j].id
    <3>1. k \in 1 .. n /\ ~ (j <= k)
      BY <2>3
    <3>2. k \notin U
      BY <2>2, <3>1
    <3> QED
      BY <2>3, <3>1, <3>2
  <2>6. Candidate(j, shown)
    BY <1>9, <2>1, <2>3, <2>4, <2>5 DEF Candidate
  <2>7. \E p \in DOMAIN s : s[p] = attachments[j].id
    BY <1>4, <1>5, <2>3, <2>6 DEF Listed
  <2> QED
    BY <2>3, <2>7 DEF Elements
<1> QED
  BY <1>2, <1>6, <1>7, <1>8, <1>9

-----------------------------------------------------------------------------
(* Documents: what the parse gives is accounted for *)

\* A parsed document is in order, and its gallery, if it has one, is of its blocks.
ParsedDocument(r) ==
    /\ Sound(r.blocks)
    /\ r.fallback_images \in {<<>>, collect_fallback_images(r.blocks)}

LEMMA DocumentParsed ==
  ASSUME attachments \in AttachmentLists, adf \in Documents
  PROVE  ParsedDocument(parse_adf)
<1>1. Sound(parse_adf.blocks)
  BY DocumentFine
<1>2. parse_adf.fallback_images \in {<<>>, collect_fallback_images(parse_adf.blocks)}
  BY DEF parse_adf, Document
<1> QED
  BY <1>1, <1>2 DEF ParsedDocument

LEMMA NoGallery ==
  Cardinality(Elements(<<>>)) = Len(<<>>) /\ Elements(<<>>) = {} /\ Len(<<>>) = 0
<1>1. Elements(<<>>) = {} /\ Len(<<>>) = 0
  BY DEF Elements
<1> QED
  BY <1>1, FS_EmptySet

LEMMA ParsedIsAccounted ==
  ASSUME attachments \in AttachmentLists, rich # None => ParsedDocument(rich)
  PROVE  ImagesAreAccounted
<1>1. ASSUME rich # None, attachments # None
      PROVE  LET gallery == rich.fallback_images
                 ids     == Elements(gallery)
                 inside  == all_blocks(rich.blocks)
             IN  /\ Cardinality(ids) = Len(gallery) /\ Len(gallery) <= MaxFallback
                 /\ ids \cap {b.id : b \in images_of(inside)} = {}
                 /\ gallery # <<>> /\ Len(gallery) < MaxFallback =>
                       {attachments[i].id : i \in Images}
                          \subseteq ids \cup {b.id : b \in inside}
  <2>1. PICK g : g = rich.fallback_images
    OBVIOUS
  <2>2. CASE g = <<>>
    BY <2>1, <2>2, NoGallery, ContentAssumption
  <2>3. CASE g = collect_fallback_images(rich.blocks)
    <3>1. PICK shown : shown = {b.id : b \in images_of(all_blocks(rich.blocks))}
      OBVIOUS
    <3>2. shown = collect_resolved_image_ids(rich.blocks)
      BY <3>1 DEF collect_resolved_image_ids
    <3>3. shown \subseteq {b.id : b \in all_blocks(rich.blocks)}
      BY <3>1 DEF images_of
    <3>4. /\ Cardinality(Elements(g)) = Len(g) /\ Len(g) <= MaxFallback
          /\ Elements(g) \cap shown = {}
          /\ Len(g) < MaxFallback =>
               {attachments[i].id : i \in Images} \subseteq Elements(g) \cup shown
      BY <1>1, <2>3, <3>2, GalleryListed
    <3> QED
      BY <2>1, <3>1, <3>3, <3>4, Zenon
  <2> QED
    BY <1>1, <2>1, <2>2, <2>3 DEF ParsedDocument
<1>2. GalleryComplements
  BY <1>1, Zenon DEF GalleryComplements
<1>3. MediaIsNotGuessed
  <2> SUFFICES ASSUME rich # None, NEW image \in images_of(all_blocks(rich.blocks))
               PROVE  \/ \E n \in all_nodes : IsFileMedia(n) /\ NamedBy(n, image)
                      \/ Cardinality(Images) = 1 /\ count_file_media_references = 1
    BY DEF MediaIsNotGuessed
  <2>1. Justified(image.id)
    BY DEF ParsedDocument, Sound, ImagesOk
  <2> QED
    BY <2>1, Zenon DEF Justified, NamedBy
<1> QED
  BY <1>2, <1>3 DEF ImagesAreAccounted

LEMMA SameSource ==
  ASSUME adf' = adf, attachments' = attachments
  PROVE  /\ all_nodes' = all_nodes /\ Images' = Images
         /\ count_file_media_references' = count_file_media_references
         /\ \A id : WithId(id)' = WithId(id)
<1>1. all_nodes' = all_nodes
  BY DEF all_nodes
<1>2. count_file_media_references' = count_file_media_references
  BY DEF count_file_media_references
<1>3. Images' = Images
  BY DEF Images
<1>4. \A id : WithId(id)' = WithId(id)
  BY DEF WithId
<1> QED
  BY <1>1, <1>2, <1>3, <1>4

LEMMA StillParsed ==
  ASSUME adf' = adf, attachments' = attachments, NEW r, ParsedDocument(r), rich' = r
  PROVE  ParsedDocument(rich)'
<1>1. Sound(rich.blocks)'
  BY SameSource DEF ParsedDocument, Sound, ImagesOk, Justified
<1>2. (rich.fallback_images \in {<<>>, collect_fallback_images(rich.blocks)})'
  <2>1. collect_fallback_images(rich.blocks)' = collect_fallback_images(r.blocks)
    BY DEF collect_fallback_images
  <2> QED
    BY <2>1 DEF ParsedDocument
<1> QED
  BY <1>1, <1>2 DEF ParsedDocument

\* The source of the document stays, and what was parsed of it is in order.
ContentInv ==
    /\ adf \in Documents /\ attachments \in AttachmentLists
    /\ rich # None => ParsedDocument(rich)

\* Whatever the document and the attachments of the issue, an image that is shown
\* is the one that a media node names or the only one there is, and the gallery has
\* the image attachments that are not shown, each once, up to its limit (adf.rs,
\* alt_or_fallback and collect_fallback_images).
THEOREM ImagesAccounted == ContentSpec => []ImagesAreAccounted
<1>1. ContentInit => ContentInv
  BY DEF ContentInit, ContentInv
<1>2. ContentInv /\ [ContentNext]_contentVars => ContentInv'
  <2> SUFFICES ASSUME ContentInv, [ContentNext]_contentVars PROVE ContentInv'
    OBVIOUS
  <2>1. ASSUME UNCHANGED <<adf, attachments, rich>> PROVE ContentInv'
    <3>1. rich # None => ParsedDocument(rich)'
      <4> SUFFICES ASSUME rich # None PROVE ParsedDocument(rich)'
        OBVIOUS
      <4>1. PICK r : r = rich
        OBVIOUS
      <4>2. ParsedDocument(r)
        BY <4>1 DEF ContentInv
      <4>3. adf' = adf /\ attachments' = attachments /\ rich' = r
        BY <2>1, <4>1
      <4> QED
        BY <4>2, <4>3, StillParsed
    <3> QED
      BY <2>1, <3>1 DEF ContentInv
  <2>2. CASE Parse
    <3>1. PICK r : r = parse_adf
      OBVIOUS
    <3>2. ParsedDocument(r)
      BY <3>1, DocumentParsed DEF ContentInv
    <3>3. adf' = adf /\ attachments' = attachments /\ rich' = r
      BY <2>2, <3>1 DEF Parse
    <3>4. ParsedDocument(rich)'
      BY <3>2, <3>3, StillParsed
    <3> QED
      BY <3>3, <3>4 DEF ContentInv
  <2>3. CASE Project
    BY <2>1, <2>3 DEF Project
  <2>4. CASE Render
    BY <2>1, <2>4 DEF Render
  <2>5. CASE UNCHANGED contentVars
    BY <2>1, <2>5 DEF contentVars
  <2> QED
    BY <2>2, <2>3, <2>4, <2>5 DEF ContentNext
<1>3. ContentInv => ImagesAreAccounted
  BY ParsedIsAccounted DEF ContentInv
<1> QED
  BY <1>1, <1>2, <1>3, PTL DEF ContentSpec
=============================================================================
