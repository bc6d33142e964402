--------------------------- MODULE Dashboard_proofs ---------------------------
(***************************************************************************)
(* Proofs about the dashboard for every set of issues, controls and order  *)
(* of clicks, timers and completions: one operation at a time holds the    *)
(* busy flag and its own answer gives it back, no flow is about another    *)
(* issue than the selected one, and no outcome of a confirmed write is     *)
(* lost.                                                                   *)
(***************************************************************************)
EXTENDS Dashboard, FiniteSetTheorems, WellFoundedInduction, TLAPS

-----------------------------------------------------------------------------
(* Fresh generations *)

LEMMA Least ==
  ASSUME NEW T \in SUBSET Nat, T # {}
  PROVE  \E x \in T : \A y \in T : x <= y
<1>1. IsWellFoundedOn(OpToRel(<, Nat), Nat)
  BY NatLessThanWellFounded, Zenon
<1>2. PICK x \in T : \A y \in T : ~ (<<y, x>> \in OpToRel(<, Nat))
  BY <1>1, WFMin, Zenon
<1>3. \A y \in T : ~ (y < x)
  BY <1>2, Zenon DEF OpToRel
<1> QED
  BY <1>3

\* Among one more numbers than there are in use, the least free one exists.
LEMMA FreshIsNew ==
  ASSUME NEW used, IsFiniteSet(used)
  PROVE  Fresh(used) \in Nat /\ Fresh(used) \notin used
<1> DEFINE n == Cardinality(used)
           free == (1 .. n + 1) \ used
<1>1. n \in Nat
  BY FS_CardinalityType
<1>2. IsFiniteSet(1 .. n + 1) /\ Cardinality(1 .. n + 1) = n + 1
  BY <1>1, FS_Interval
<1>3. free # {}
  <2> SUFFICES ASSUME 1 .. n + 1 \subseteq used PROVE FALSE
    OBVIOUS
  <2>1. Cardinality(1 .. n + 1) <= n
    <3> HIDE DEF n
    <3>1. Cardinality(1 .. n + 1) <= Cardinality(used)
      BY FS_Subset
    <3> QED
      BY <3>1 DEF n
  <2> QED
    BY <1>1, <1>2, <2>1
<1>4. free \in SUBSET Nat
  BY <1>1
<1>5. PICK x \in free : \A y \in free : x <= y
  <2> HIDE DEF free
  <2> QED
    BY <1>3, <1>4, Least
<1>6. x \in 1 .. n + 1 /\ x \notin used /\ \A h \in 1 .. x - 1 : h \in used
  BY <1>1, <1>5
<1>7. Fresh(used) = CHOOSE g \in 1 .. n + 1 : g \notin used /\ \A h \in 1 .. g - 1 : h \in used
  BY DEF Fresh
<1>8. Fresh(used) \in 1 .. n + 1 /\ Fresh(used) \notin used
  BY <1>6, <1>7
<1> QED
  BY <1>1, <1>8

-----------------------------------------------------------------------------
(* The inductive invariant, of a struct u and the history U *)

Posts == [state : {"none", "sent", "done"}, issue : Issues \cup {None},
          generation : Nat]
Reads == [issue : Issues, generation : Nat]

\* Who holds the busy flag: one job, one edit or the watch change.
OneHolder(u) ==
    IF u.busy
    THEN \/ \E job \in Jobs : u.jobs = {job} /\ u.edit_writes = {} /\ u.watch_write = None
         \/ \E w : u.jobs = {} /\ u.edit_writes = {w} /\ u.watch_write = None
         \/ u.jobs = {} /\ u.edit_writes = {} /\ u.watch_write # None
    ELSE u.jobs = {} /\ u.edit_writes = {} /\ u.watch_write = None

\* Writes are only sent by a dashboard with a workspace.
WritesHaveWorkspace(u) ==
    u.edit_writes # {} \/ u.watch_write # None => u.workspace

\* An edit in flight is the flow's own or among its invalidated ones, and last
\* names it; the flow's own is not the one whose assignees are being read, and
\* no list of transitions is open over it.
EditHeld(u) ==
    /\ u.edit.kind # "Idle" => u.edit.issue # None
    /\ u.edit.kind = "Submitting" =>
          /\ Edit!identity(u.edit) \in u.edit_writes
          /\ u.edit.last = Edit!identity(u.edit)
          /\ u.edit_load # None => u.edit.generation # u.edit_load.generation
          /\ ~u.popover
    /\ u.edit.kind # "Submitting" =>
          \A w \in u.edit_writes : w \in u.edit.invalidated /\ u.edit.last \in {None, w}

\* A watch change in flight is the flow's own.
WatchHeld(u) ==
    /\ u.watch_write # None <=> u.watch.kind = "Submitting"
    /\ u.watch_write # None => u.watch_write = Watch!identity(u.watch)

\* The workspace is open or will be.
Alive(u) == u.workspace \/ "startup" \in u.jobs

Concerned(u) ==
    Alive(u) => /\ u.edit.issue \in {None, u.selected}
                /\ u.watch.issue \in {None, u.selected}

Drafted(u) == u.comment.kind # "Idle" => u.draft

Apart(u) == ~(u.post.state = "sent" /\ u.watch_write # None)

Reconciled(u, U) ==
    u.watch.kind \in {"Ready", "Confirming", "Submitting"} => u.watch.issue \notin U

Sound(u, U) ==
    /\ u \in Uis
    /\ OneHolder(u) /\ WritesHaveWorkspace(u)
    /\ EditHeld(u) /\ WatchHeld(u)
    /\ Drafted(u) /\ Apart(u) /\ Reconciled(u, U)

Good(u, U) == Sound(u, U) /\ Concerned(u)

DashInv == Good(ui, unsettled) /\ unsettled \subseteq Issues

LEMMA InitOk == Init => DashInv
  BY DEF Init, DashInv, Good, Sound, Uis, OneHolder, WritesHaveWorkspace, EditHeld, WatchHeld,
         Alive, Concerned, Drafted, Apart, Reconciled, Jobs, Lookups, NoLookup, Lookup,
         NoPost, Post, Comment!Idle, Comment!Flow, Comment!Kinds, Edit!new, Edit!Flow,
         Edit!Kinds, Edit!Operations, Edit!Identity, Watch!new, Watch!Flow, Watch!Kinds,
         Watch!Identity

-----------------------------------------------------------------------------
(* What a step may leave alone *)

\* What holds the flag stays as it is.
Steady(u, v) ==
    /\ v.workspace = u.workspace /\ v.busy = u.busy /\ v.jobs = u.jobs
    /\ v.edit_writes = u.edit_writes /\ v.watch_write = u.watch_write

SameComment(u, v) == v.comment = u.comment /\ v.draft = u.draft /\ v.post = u.post
SameEdit(u, v) == v.edit = u.edit /\ v.edit_load = u.edit_load /\ (v.popover => u.popover)
SameWatch(u, v) == v.watch = u.watch

SameFlows(u, v) ==
    /\ v.selected = u.selected
    /\ SameComment(u, v) /\ SameEdit(u, v) /\ SameWatch(u, v)

LEMMA HolderBeside ==
  ASSUME NEW u, NEW v, Steady(u, v), OneHolder(u), WritesHaveWorkspace(u)
  PROVE  OneHolder(v) /\ WritesHaveWorkspace(v)
<1>1. OneHolder(v)
  BY DEF Steady, OneHolder
<1>2. WritesHaveWorkspace(v)
  BY DEF Steady, WritesHaveWorkspace
<1> QED
  BY <1>1, <1>2

LEMMA EditBeside ==
  ASSUME NEW u, NEW v, Steady(u, v), SameEdit(u, v), EditHeld(u)
  PROVE  EditHeld(v)
BY DEF Steady, SameEdit, EditHeld, Edit!identity

LEMMA WatchBeside ==
  ASSUME NEW u, NEW v, NEW U, Steady(u, v), SameWatch(u, v), WatchHeld(u), Reconciled(u, U)
  PROVE  WatchHeld(v) /\ Reconciled(v, U)
<1>1. WatchHeld(v)
  BY DEF Steady, SameWatch, WatchHeld, Watch!identity
<1>2. Reconciled(v, U)
  BY DEF SameWatch, Reconciled
<1> QED
  BY <1>1, <1>2

LEMMA CommentBeside ==
  ASSUME NEW u, NEW v, Steady(u, v), SameComment(u, v), Drafted(u), Apart(u)
  PROVE  Drafted(v) /\ Apart(v)
BY DEF Steady, SameComment, Drafted, Apart

LEMMA SoundBeside ==
  ASSUME NEW u, NEW v, NEW U, Sound(u, U), v \in Uis, Steady(u, v),
         SameComment(u, v), SameEdit(u, v), SameWatch(u, v)
  PROVE  Sound(v, U)
BY HolderBeside, EditBeside, WatchBeside, CommentBeside DEF Sound

LEMMA SameFlowsAreGood ==
  ASSUME NEW u, NEW v, NEW U, Good(u, U), v \in Uis, Steady(u, v), SameFlows(u, v)
  PROVE  Good(v, U)
<1>1. SameComment(u, v) /\ SameEdit(u, v) /\ SameWatch(u, v) /\ v.selected = u.selected
  BY DEF SameFlows
<1>2. Sound(v, U)
  BY <1>1, SoundBeside DEF Good
<1>3. Concerned(v)
  BY <1>1 DEF Good, Concerned, Alive, Steady, SameEdit, SameWatch
<1> QED
  BY <1>2, <1>3 DEF Good

LEMMA CommentSound ==
  ASSUME NEW u, NEW v, NEW U, Sound(u, U), v \in Uis, Steady(u, v),
         SameEdit(u, v), SameWatch(u, v), Drafted(v), Apart(v)
  PROVE  Sound(v, U)
BY HolderBeside, EditBeside, WatchBeside DEF Sound

LEMMA EditSound ==
  ASSUME NEW u, NEW v, NEW U, Sound(u, U), v \in Uis, Steady(u, v),
         SameComment(u, v), SameWatch(u, v), EditHeld(v)
  PROVE  Sound(v, U)
BY HolderBeside, WatchBeside, CommentBeside DEF Sound

LEMMA WatchSound ==
  ASSUME NEW u, NEW v, NEW U, NEW W, Sound(u, U), v \in Uis, Steady(u, v),
         SameComment(u, v), SameEdit(u, v), WatchHeld(v), Reconciled(v, W)
  PROVE  Sound(v, W)
<1>1. Drafted(v)
  BY DEF Sound, SameComment, Drafted
<1>2. Apart(v)
  BY DEF Sound, SameComment, Apart, Steady
<1> QED
  BY <1>1, <1>2, HolderBeside, EditBeside DEF Sound

\* Whatever was invalidated or is about the selected issue stays so.
LEMMA ConcernKept ==
  ASSUME NEW u, NEW v, NEW U, NEW W, Good(u, U), Sound(v, W), Steady(u, v),
         v.selected = u.selected,
         v.edit.issue \in {None, u.edit.issue, u.selected},
         v.watch.issue \in {None, u.watch.issue, u.selected}
  PROVE  Good(v, W)
  BY DEF Good, Steady, Alive, Concerned

-----------------------------------------------------------------------------
(* Invalidation *)

LEMMA CommentIdle == Comment!Idle \in Comment!Flow(Issues) /\ Comment!Idle.kind = "Idle"
  BY DEF Comment!Idle, Comment!Flow, Comment!Kinds

LEMMA TypeComment ==
  ASSUME NEW u \in Uis, NEW c \in Comment!Flow(Issues), NEW d \in BOOLEAN,
         NEW p \in [state : {"none", "sent", "done"}, issue : Issues \cup {None},
                    generation : Nat]
  PROVE  [u EXCEPT !.draft = d, !.comment = c, !.post = p] \in Uis
  BY ZenonT(60) DEF Uis

LEMMA InvalidateCommentSound ==
  ASSUME NEW u, NEW U, Sound(u, U)
  PROVE  LET v == invalidate_comment_selection(u)
         IN  Sound(v, U) /\ Steady(u, v) /\ v.selected = u.selected
             /\ SameEdit(u, v) /\ SameWatch(u, v)
<1> SUFFICES ASSUME NEW v, v = invalidate_comment_selection(u)
             PROVE  Sound(v, U) /\ Steady(u, v) /\ v.selected = u.selected
                    /\ SameEdit(u, v) /\ SameWatch(u, v)
  OBVIOUS
<1>1. u \in Uis
  BY DEF Sound
<1>2. PICK c \in Comment!Flow(Issues) : c = Comment!Idle /\ c.kind = "Idle"
  BY CommentIdle, Zenon
<1>3. NoPost \in Posts /\ NoPost.state = "none" /\ u.post \in Posts
  BY <1>1 DEF NoPost, Post, Posts, Uis
<1>4. PICK p \in Posts : /\ p = IF Comment!cancels_pre_dispatch(u.comment) THEN NoPost ELSE u.post
                         /\ p \in {NoPost, u.post}
  BY <1>3
<1>5. v = [u EXCEPT !.draft = FALSE, !.post = p, !.comment = c]
  BY <1>2, <1>4 DEF invalidate_comment_selection
<1>6. v \in Uis
  <2>1. PICK d \in BOOLEAN : d = FALSE
    OBVIOUS
  <2>2. [u EXCEPT !.draft = d, !.comment = c, !.post = p] \in Uis
    BY <1>1, TypeComment DEF Posts
  <2> QED
    BY <1>5, <2>1, <2>2
<1>7. /\ v.comment = c /\ v.post = p
      /\ Steady(u, v) /\ v.selected = u.selected /\ SameEdit(u, v) /\ SameWatch(u, v)
  BY <1>1, <1>5 DEF Uis, Steady, SameEdit, SameWatch
<1>8. Drafted(v) /\ Apart(v)
  BY <1>2, <1>3, <1>4, <1>7 DEF Drafted, Apart, Sound, Steady
<1> QED
  BY <1>6, <1>7, <1>8, CommentSound

LEMMA EditGenerationsAreFinite ==
  ASSUME NEW u, NEW U, Sound(u, U)
  PROVE  IsFiniteSet(edit_generations(u))
<1>1. \E g : {w.generation : w \in u.edit_writes} \in {{}, {g}}
  <2>1. u.edit_writes = {} \/ \E w : u.edit_writes = {w}
    BY DEF Sound, OneHolder
  <2>2. CASE u.edit_writes = {}
    BY <2>2
  <2>3. CASE \E w : u.edit_writes = {w}
    <3>1. PICK w : u.edit_writes = {w}
      BY <2>3
    <3>2. {x.generation : x \in u.edit_writes} = {w.generation}
      BY <3>1
    <3> QED
      BY <3>2
  <2> QED
    BY <2>1, <2>2, <2>3
<1>2. IsFiniteSet({w.generation : w \in u.edit_writes})
  <2>1. PICK g : {w.generation : w \in u.edit_writes} \in {{}, {g}}
    BY <1>1
  <2>2. IsFiniteSet({}) /\ IsFiniteSet({g})
    BY FS_EmptySet, FS_Singleton, Zenon
  <2> QED
    BY <2>1, <2>2
<1>3. IsFiniteSet(IF u.edit_load = None THEN {} ELSE {u.edit_load.generation})
  BY FS_EmptySet, FS_Singleton, Zenon
<1> QED
  BY <1>2, <1>3, FS_Union DEF edit_generations

LEMMA FreshEdit ==
  ASSUME NEW u, NEW U, Sound(u, U)
  PROVE  /\ Fresh(edit_generations(u)) \in Nat
         /\ u.edit_load # None => u.edit_load.generation # Fresh(edit_generations(u))
<1>1. Fresh(edit_generations(u)) \in Nat /\ Fresh(edit_generations(u)) \notin edit_generations(u)
  BY EditGenerationsAreFinite, FreshIsNew
<1>2. u.edit_load # None => u.edit_load.generation \in edit_generations(u)
  BY DEF edit_generations
<1> QED
  BY <1>1, <1>2

LEMMA EditAt ==
  ASSUME NEW f \in Edit!Flow(Issues), NEW k \in Edit!Kinds, NEW i \in Issues \cup {None}
  PROVE  /\ Edit!At(f, k, i) \in Edit!Flow(Issues)
         /\ Edit!At(f, k, i).kind = k /\ Edit!At(f, k, i).issue = i
         /\ Edit!At(f, k, i).generation = f.generation
         /\ Edit!At(f, k, i).invalidated = f.invalidated
         /\ Edit!At(f, k, i).last = f.last
<1>1. [f EXCEPT !.kind = k, !.issue = i, !.operation = "Assignee", !.unknown = FALSE]
          \in Edit!Flow(Issues)
  BY DEF Edit!Flow, Edit!Operations
<1> QED
  BY <1>1 DEF Edit!Flow, Edit!At

LEMMA EditBumped ==
  ASSUME NEW f \in Edit!Flow(Issues), NEW g \in Nat, NEW h, h = Edit!Bumped(f, g)
  PROVE  /\ h \in Edit!Flow(Issues)
         /\ h.kind = f.kind /\ h.issue = f.issue /\ h.operation = f.operation
         /\ h.generation = g /\ h.invalidated = f.invalidated /\ h.last = f.last
<1>1. [f EXCEPT !.generation = g] \in Edit!Flow(Issues)
  BY DEF Edit!Flow
<1> QED
  BY <1>1 DEF Edit!Flow, Edit!Bumped

LEMMA EditKindsHold ==
  /\ "Idle" \in Edit!Kinds /\ "LoadingAssignees" \in Edit!Kinds
  /\ "AssigneeChooser" \in Edit!Kinds /\ "ConfirmingAssignee" \in Edit!Kinds
  /\ "ConfirmingTransition" \in Edit!Kinds /\ "Submitting" \in Edit!Kinds
  /\ "Error" \in Edit!Kinds
  BY DEF Edit!Kinds

\* A flow that is submitting moves its write to the invalidated ones.
LEMMA EditInvalidated ==
  ASSUME NEW f \in Edit!Flow(Issues), NEW g \in Nat,
         f.kind = "Submitting" => Edit!identity(f) \in Edit!Identity(Issues),
         NEW h, h = Edit!invalidate_selection(f, g)
  PROVE  /\ h \in Edit!Flow(Issues) /\ h.kind = "Idle" /\ h.issue = None /\ h.last = f.last
         /\ f.kind = "Submitting" => Edit!identity(f) \in h.invalidated
         /\ f.invalidated \subseteq h.invalidated
<1>1. PICK a : a = Edit!At(f, "Idle", None)
  OBVIOUS
<1>2. /\ a \in Edit!Flow(Issues) /\ a.kind = "Idle" /\ a.issue = None /\ a.last = f.last
      /\ a.invalidated = f.invalidated
  <2>1. "Idle" \in Edit!Kinds /\ None \in Issues \cup {None}
    BY EditKindsHold
  <2> QED
    BY <1>1, <2>1, EditAt
<1>3. PICK b : b = Edit!Bumped(a, g)
  OBVIOUS
<1>4. /\ b \in Edit!Flow(Issues) /\ b.kind = "Idle" /\ b.issue = None /\ b.last = f.last
      /\ b.invalidated = f.invalidated
  BY <1>2, <1>3, EditBumped
<1>5. PICK w \in SUBSET Edit!Identity(Issues) :
        /\ w = IF Edit!is_submitting(f) THEN b.invalidated \cup {Edit!identity(f)}
               ELSE b.invalidated
        /\ f.kind = "Submitting" => Edit!identity(f) \in w
        /\ f.invalidated \subseteq w
  <2>1. b.invalidated \in SUBSET Edit!Identity(Issues)
    BY <1>4 DEF Edit!Flow
  <2>2. CASE f.kind = "Submitting"
    <3>1. b.invalidated \cup {Edit!identity(f)} \in SUBSET Edit!Identity(Issues)
      BY <2>1, <2>2
    <3> QED
      BY <1>4, <2>2, <3>1 DEF Edit!is_submitting
  <2>3. CASE f.kind # "Submitting"
    BY <1>4, <2>1, <2>3 DEF Edit!is_submitting
  <2> QED
    BY <2>2, <2>3
<1>6. h = [b EXCEPT !.invalidated = w]
  BY <1>1, <1>3, <1>5 DEF Edit!invalidate_selection
<1>7. [b EXCEPT !.invalidated = w] \in Edit!Flow(Issues)
  BY <1>4 DEF Edit!Flow
<1> QED
  BY <1>4, <1>5, <1>6, <1>7 DEF Edit!Flow

LEMMA InvalidateEditSound ==
  ASSUME NEW u, NEW U, Sound(u, U)
  PROVE  LET v == invalidate_issue_edit_selection(u)
         IN  /\ Sound(v, U) /\ Steady(u, v) /\ v.selected = u.selected
             /\ SameComment(u, v) /\ SameWatch(u, v)
             /\ v.edit.kind = "Idle" /\ v.edit.issue = None
<1> SUFFICES ASSUME NEW v, v = invalidate_issue_edit_selection(u)
             PROVE  /\ Sound(v, U) /\ Steady(u, v) /\ v.selected = u.selected
                    /\ SameComment(u, v) /\ SameWatch(u, v)
                    /\ v.edit.kind = "Idle" /\ v.edit.issue = None
  OBVIOUS
<1>1. u \in Uis /\ EditHeld(u)
  BY DEF Sound
<1>2. u.edit \in Edit!Flow(Issues) /\ u.edit_load \in Reads \cup {None}
      /\ u.edit_writes \subseteq Edit!Identity(Issues)
  BY <1>1 DEF Uis, Reads
<1>3. u.edit.kind = "Submitting" => Edit!identity(u.edit) \in Edit!Identity(Issues)
  BY <1>1, <1>2 DEF EditHeld
<1>4. PICK g \in Nat : g = Fresh(edit_generations(u))
  BY FreshEdit
<1>5. PICK f : f = Edit!invalidate_selection(u.edit, g)
  OBVIOUS
<1>6. /\ f \in Edit!Flow(Issues) /\ f.kind = "Idle" /\ f.issue = None
      /\ f.last = u.edit.last
      /\ u.edit.kind = "Submitting" => Edit!identity(u.edit) \in f.invalidated
      /\ u.edit.invalidated \subseteq f.invalidated
  BY <1>2, <1>3, <1>5, EditInvalidated
<1>7. PICK l \in Reads \cup {None} :
        l = IF Edit!is_submitting(u.edit) THEN u.edit_load ELSE None
  BY <1>2
<1>8. v = [u EXCEPT !.edit = f, !.edit_load = l]
  BY <1>4, <1>5, <1>7 DEF invalidate_issue_edit_selection
<1>9. [u EXCEPT !.edit = f, !.edit_load = l] \in Uis
  <2>1. f \in Edit!Flow(Issues) /\ l \in Reads \cup {None}
    BY <1>6, <1>7
  <2> QED
    BY <1>1, <2>1, ZenonT(60) DEF Uis, Reads
<1>10. /\ v.edit = f /\ v.edit_load = l
       /\ Steady(u, v) /\ v.selected = u.selected /\ SameComment(u, v) /\ SameWatch(u, v)
  BY <1>1, <1>8 DEF Uis, Steady, SameComment, SameWatch
<1>11. \A w \in u.edit_writes : w \in f.invalidated /\ f.last \in {None, w}
  <2>1. CASE u.edit.kind = "Submitting"
    <3>1. u.edit_writes = {Edit!identity(u.edit)}
      BY <2>1, <1>1 DEF EditHeld, Sound, OneHolder
    <3> QED
      BY <2>1, <3>1, <1>1, <1>6 DEF EditHeld
  <2>2. CASE u.edit.kind # "Submitting"
    BY <2>2, <1>1, <1>6 DEF EditHeld
  <2> QED
    BY <2>1, <2>2
<1>12. EditHeld(v)
  BY <1>6, <1>10, <1>11 DEF EditHeld, Steady
<1>13. v \in Uis
  BY <1>8, <1>9
<1> QED
  BY <1>6, <1>10, <1>12, <1>13, EditSound

LEMMA WatchAt ==
  ASSUME NEW f \in Watch!Flow(Issues), NEW k \in Watch!Kinds, NEW i \in Issues \cup {None},
         NEW g \in Nat
  PROVE  /\ Watch!At(f, k, i, g) \in Watch!Flow(Issues)
         /\ Watch!At(f, k, i, g).kind = k /\ Watch!At(f, k, i, g).issue = i
         /\ Watch!At(f, k, i, g).generation = g
         /\ Watch!At(f, k, i, g).invalidated = f.invalidated
<1>1. [f EXCEPT !.kind = k, !.issue = i, !.generation = g, !.unknown = FALSE]
          \in Watch!Flow(Issues)
  BY DEF Watch!Flow
<1> QED
  BY <1>1 DEF Watch!Flow, Watch!At

LEMMA WatchKindsHold ==
  /\ "Idle" \in Watch!Kinds /\ "Loading" \in Watch!Kinds /\ "Ready" \in Watch!Kinds
  /\ "Confirming" \in Watch!Kinds /\ "Submitting" \in Watch!Kinds /\ "Error" \in Watch!Kinds
  BY DEF Watch!Kinds

LEMMA WatchInvalidated ==
  ASSUME NEW f \in Watch!Flow(Issues), f.kind # "Submitting"
  PROVE  LET h == Watch!invalidate_selection(f)
         IN  h \in Watch!Flow(Issues) /\ h.kind = "Idle" /\ h.issue = None
<1>1. PICK a : a = Watch!At(f, "Idle", None, 0)
  OBVIOUS
<1>2. a \in Watch!Flow(Issues) /\ a.kind = "Idle" /\ a.issue = None
  <2>1. "Idle" \in Watch!Kinds /\ None \in Issues \cup {None} /\ 0 \in Nat
    BY WatchKindsHold
  <2> QED
    BY <1>1, <2>1, WatchAt
<1>3. Watch!invalidate_selection(f) = [a EXCEPT !.invalidated = a.invalidated]
  BY <1>1 DEF Watch!invalidate_selection, Watch!is_submitting
<1>4. a.invalidated \in SUBSET Watch!Identity(Issues)
  BY <1>2 DEF Watch!Flow
<1>5. [a EXCEPT !.invalidated = a.invalidated] \in Watch!Flow(Issues)
  BY <1>2, <1>4 DEF Watch!Flow
<1> QED
  BY <1>2, <1>3, <1>5 DEF Watch!Flow

LEMMA InvalidateWatchSound ==
  ASSUME NEW u, NEW U, Sound(u, U), u.watch.kind # "Submitting"
  PROVE  LET v == invalidate_watch_selection(u)
         IN  /\ Sound(v, U) /\ Steady(u, v) /\ v.selected = u.selected
             /\ SameComment(u, v) /\ SameEdit(u, v)
             /\ v.watch.kind = "Idle" /\ v.watch.issue = None
<1> SUFFICES ASSUME NEW v, v = invalidate_watch_selection(u)
             PROVE  /\ Sound(v, U) /\ Steady(u, v) /\ v.selected = u.selected
                    /\ SameComment(u, v) /\ SameEdit(u, v)
                    /\ v.watch.kind = "Idle" /\ v.watch.issue = None
  OBVIOUS
<1>1. u \in Uis /\ u.watch \in Watch!Flow(Issues) /\ u.watch_write = None
  BY DEF Sound, Uis, WatchHeld
<1>2. PICK f : f = Watch!invalidate_selection(u.watch)
  OBVIOUS
<1>3. f \in Watch!Flow(Issues) /\ f.kind = "Idle" /\ f.issue = None
  BY <1>1, <1>2, WatchInvalidated
<1>4. v = [u EXCEPT !.watch = f, !.watch_read = None, !.watch_confirm_after_read = FALSE]
  BY <1>2 DEF invalidate_watch_selection, Watch!is_submitting
<1>5. [u EXCEPT !.watch = f, !.watch_read = None, !.watch_confirm_after_read = FALSE] \in Uis
  BY <1>1, <1>3, ZenonT(60) DEF Uis
<1>6. /\ v.watch = f
      /\ Steady(u, v) /\ v.selected = u.selected /\ SameComment(u, v) /\ SameEdit(u, v)
  BY <1>1, <1>4 DEF Uis, Steady, SameComment, SameEdit
<1>7. WatchHeld(v) /\ Reconciled(v, U)
  BY <1>1, <1>3, <1>6 DEF WatchHeld, Reconciled, Steady
<1> QED
  BY <1>3, <1>4, <1>5, <1>6, <1>7, WatchSound

LEMMA InvalidateComment ==
  ASSUME NEW u, NEW U, Good(u, U)
  PROVE  LET v == invalidate_comment_selection(u)
         IN  Good(v, U) /\ Steady(u, v) /\ v.selected = u.selected
             /\ SameEdit(u, v) /\ SameWatch(u, v)
<1>1. PICK v : v = invalidate_comment_selection(u)
  OBVIOUS
<1>2. /\ Sound(v, U) /\ Steady(u, v) /\ v.selected = u.selected
      /\ SameEdit(u, v) /\ SameWatch(u, v)
  BY <1>1, InvalidateCommentSound DEF Good
<1> QED
  BY <1>1, <1>2, ConcernKept DEF SameEdit, SameWatch

LEMMA InvalidateEdit ==
  ASSUME NEW u, NEW U, Good(u, U)
  PROVE  LET v == invalidate_issue_edit_selection(u)
         IN  /\ Good(v, U) /\ Steady(u, v) /\ v.selected = u.selected
             /\ SameComment(u, v) /\ SameWatch(u, v) /\ v.edit.issue = None
<1>1. PICK v : v = invalidate_issue_edit_selection(u)
  OBVIOUS
<1>2. /\ Sound(v, U) /\ Steady(u, v) /\ v.selected = u.selected
      /\ SameComment(u, v) /\ SameWatch(u, v) /\ v.edit.issue = None
  BY <1>1, InvalidateEditSound DEF Good
<1> QED
  BY <1>1, <1>2, ConcernKept DEF SameWatch

LEMMA InvalidateWatch ==
  ASSUME NEW u, NEW U, Good(u, U), u.watch.kind # "Submitting"
  PROVE  LET v == invalidate_watch_selection(u)
         IN  /\ Good(v, U) /\ Steady(u, v) /\ v.selected = u.selected
             /\ SameComment(u, v) /\ SameEdit(u, v) /\ v.watch.issue = None
<1>1. PICK v : v = invalidate_watch_selection(u)
  OBVIOUS
<1>2. /\ Sound(v, U) /\ Steady(u, v) /\ v.selected = u.selected
      /\ SameComment(u, v) /\ SameEdit(u, v) /\ v.watch.issue = None
  BY <1>1, InvalidateWatchSound DEF Good
<1> QED
  BY <1>1, <1>2, ConcernKept DEF SameEdit

-----------------------------------------------------------------------------
(* What changes nothing but the pane *)

\* u and v differ in fields that the flows do not look at.
Beside(u, v) == v \in Uis /\ Steady(u, v) /\ SameFlows(u, v)

LEMMA BesideIsGood ==
  ASSUME NEW u, NEW U, Good(u, U), NEW v, Beside(u, v)
  PROVE  Good(v, U)
  BY SameFlowsAreGood DEF Beside

LEMMA NoLookupIsTyped == NoLookup \in Lookups
  BY DEF NoLookup, Lookup, Lookups

LEMMA ClearLookup ==
  ASSUME NEW u \in Uis
  PROVE  Beside(u, clear_remote_lookup(u))
<1>1. PICK v : v = clear_remote_lookup(u)
  OBVIOUS
<1>2. PICK l \in Lookups : l = NoLookup
  BY NoLookupIsTyped
<1>3. v = [u EXCEPT !.lookup = l, !.popover = FALSE]
  BY <1>1, <1>2 DEF clear_remote_lookup
<1>4. [u EXCEPT !.lookup = l, !.popover = FALSE] \in Uis
  BY ZenonT(60) DEF Uis
<1>5. Steady(u, v) /\ SameFlows(u, v)
  BY <1>3 DEF Uis, Steady, SameFlows, SameComment, SameEdit, SameWatch
<1> QED
  BY <1>1, <1>3, <1>4, <1>5 DEF Beside

LEMMA InvalidateTransition ==
  ASSUME NEW u \in Uis
  PROVE  /\ Beside(u, invalidate_status_transition(u))
         /\ invalidate_status_transition(u).workspace = u.workspace
<1>1. PICK v : v = invalidate_status_transition(u)
  OBVIOUS
<1>2. v = [u EXCEPT !.popover = FALSE, !.transitions = "idle"]
  BY <1>1 DEF invalidate_status_transition
<1>3. [u EXCEPT !.popover = FALSE, !.transitions = "idle"] \in Uis
  BY ZenonT(60) DEF Uis
<1>4. Steady(u, v) /\ SameFlows(u, v)
  BY <1>2 DEF Uis, Steady, SameFlows, SameComment, SameEdit, SameWatch
<1> QED
  BY <1>1, <1>2, <1>3, <1>4 DEF Beside, Steady

LEMMA ReloadTransitions ==
  ASSUME NEW u \in Uis
  PROVE  Beside(u, reload_status_transitions(u))
<1>1. PICK i : i = invalidate_status_transition(u)
  OBVIOUS
<1>2. Beside(u, i)
  BY <1>1, InvalidateTransition
<1>3. PICK v : v = [i EXCEPT !.transitions = "loading"]
  OBVIOUS
<1>4. i \in Uis
  BY <1>2 DEF Beside
<1>5. [i EXCEPT !.transitions = "loading"] \in Uis
  BY <1>4 DEF Uis
<1>6. Steady(i, v) /\ SameFlows(i, v)
  BY <1>3, <1>4 DEF Uis, Steady, SameFlows, SameComment, SameEdit, SameWatch
<1>7. Beside(u, v)
  BY <1>2, <1>3, <1>5, <1>6
     DEF Beside, Steady, SameFlows, SameComment, SameEdit, SameWatch
<1>8. reload_status_transitions(u) \in {i, v}
  BY <1>1, <1>3 DEF reload_status_transitions
<1> QED
  BY <1>2, <1>7, <1>8

-----------------------------------------------------------------------------
(* Selecting *)

LEMMA NothingWatched ==
  ASSUME NEW u, NEW U, Good(u, U), u.watch.kind # "Submitting",
         NEW r \in Reads \cup {None}
  PROVE  LET d == [u EXCEPT !.watch_read = r]
         IN  /\ d \in Uis /\ Steady(u, d) /\ SameFlows(u, d)
             /\ Fresh(watch_generations(d)) \in Nat
<1>1. u \in Uis /\ u.watch_write = None
  BY DEF Good, Sound, WatchHeld
<1>2. PICK d : d = [u EXCEPT !.watch_read = r]
  OBVIOUS
<1>3. [u EXCEPT !.watch_read = r] \in Uis
  <2>1. r \in [issue : Issues, generation : Nat] \cup {None}
    BY DEF Reads
  <2> QED
    BY <1>1, <2>1 DEF Uis
<1>4. d.watch_read = r /\ Steady(u, d) /\ SameFlows(u, d)
  BY <1>1, <1>2 DEF Uis, Steady, SameFlows, SameComment, SameEdit, SameWatch
<1>5. watch_generations(d) \in {{}, {r.generation}}
  BY <1>1, <1>4 DEF watch_generations, Steady
<1>6. IsFiniteSet(watch_generations(d))
  <2>1. IsFiniteSet({}) /\ IsFiniteSet({r.generation})
    BY FS_EmptySet, FS_Singleton, Zenon
  <2> QED
    BY <1>5, <2>1
<1>7. Fresh(watch_generations(d)) \in Nat
  BY <1>6, FreshIsNew
<1> QED
  BY <1>2, <1>3, <1>4, <1>7

LEMMA LoadWatch ==
  ASSUME NEW u, NEW U, Good(u, U), NEW issue \in Issues
  PROVE  LET v == load_issue_watch_state(u, issue)
         IN  Good(v, U) /\ Steady(u, v) /\ v.selected = u.selected
<1>1. u \in Uis /\ None \in Reads \cup {None}
  BY DEF Good, Sound
<1>2. CASE u.selected # issue \/ Watch!is_submitting(u.watch)
  BY <1>2, Zenon DEF load_issue_watch_state, Steady
<1>3. CASE ~ (u.selected # issue \/ Watch!is_submitting(u.watch))
  <2>1. u.selected = issue /\ u.watch.kind # "Submitting" /\ ~Watch!is_submitting(u.watch)
    BY <1>3 DEF Watch!is_submitting
  <2>2. PICK d : d = [u EXCEPT !.watch_read = None]
    OBVIOUS
  <2>3. /\ d \in Uis /\ Steady(u, d) /\ SameFlows(u, d)
        /\ Fresh(watch_generations(d)) \in Nat
    BY <1>1, <2>1, <2>2, NothingWatched
  <2>4. Good(d, U) /\ d.selected = issue /\ d.watch = u.watch
    BY <2>1, <2>3, SameFlowsAreGood DEF SameFlows, SameWatch
  <2>5. CASE ~u.workspace
    <3>1. load_issue_watch_state(u, issue) = d
      BY <2>1, <2>2, <2>5 DEF load_issue_watch_state
    <3> QED
      BY <2>1, <2>3, <2>4, <3>1
  <2>6. CASE u.workspace
    <3>1. PICK g \in Nat : g = Fresh(watch_generations(d))
      BY <2>3
    <3>2. PICK f : f = Watch!begin_read(d.watch, issue, g)
      OBVIOUS
    <3>3. f = Watch!At(d.watch, "Loading", issue, g)
      BY <2>1, <2>4, <3>2 DEF Watch!begin_read
    <3>4. d.watch \in Watch!Flow(Issues) /\ "Loading" \in Watch!Kinds
          /\ issue \in Issues \cup {None}
      BY <2>3, WatchKindsHold DEF Uis
    <3>5. f \in Watch!Flow(Issues) /\ f.kind = "Loading" /\ f.issue = issue
      BY <3>3, <3>4, WatchAt
    <3>6. PICK r \in Reads : r = Read(issue, g)
      BY DEF Reads, Read
    <3>7. PICK v : v = [d EXCEPT !.watch = f, !.watch_read = r]
      OBVIOUS
    <3>8. load_issue_watch_state(u, issue) = v
      BY <2>1, <2>2, <2>6, <3>1, <3>2, <3>6, <3>7 DEF load_issue_watch_state
    <3>9. [d EXCEPT !.watch = f, !.watch_read = r] \in Uis
      <4>1. r \in [issue : Issues, generation : Nat] \cup {None}
        BY DEF Reads
      <4> QED
        BY <2>3, <3>5, <4>1, ZenonT(60) DEF Uis
    <3>10. /\ v.watch = f /\ Steady(d, v) /\ v.selected = d.selected
           /\ SameComment(d, v) /\ SameEdit(d, v)
      BY <2>3, <3>7 DEF Uis, Steady, SameComment, SameEdit
    <3>11. WatchHeld(v) /\ Reconciled(v, U)
      BY <2>1, <2>4, <3>5, <3>10 DEF Good, Sound, WatchHeld, Reconciled, Steady
    <3>12. Good(v, U)
      <4>1. Sound(v, U)
        BY <2>4, <3>7, <3>9, <3>10, <3>11, WatchSound DEF Good
      <4> QED
        BY <2>4, <3>5, <3>10, <4>1, ConcernKept DEF SameEdit
    <3> QED
      BY <2>1, <2>3, <2>4, <3>8, <3>10, <3>12 DEF Steady
  <2> QED
    BY <2>5, <2>6
<1> QED
  BY <1>2, <1>3

LEMMA SelectedGood ==
  ASSUME NEW u, NEW U, Good(u, U), NEW v \in Uis, Steady(u, v),
         SameComment(u, v), SameEdit(u, v), SameWatch(u, v),
         \/ v.selected = u.selected
         \/ u.edit.issue = None /\ u.watch.issue = None
  PROVE  Good(v, U)
<1>1. Sound(v, U)
  BY SoundBeside DEF Good
<1>2. Concerned(v)
  BY DEF Good, Concerned, Alive, Steady, SameEdit, SameWatch
<1> QED
  BY <1>1, <1>2 DEF Good

\* An operator keeps the invariant and who holds the flag.
Keeps(u, v, U) == Good(v, U) /\ Steady(u, v)

LEMMA KeepsTwice ==
  ASSUME NEW U, NEW u, NEW v, NEW w, Keeps(u, v, U), Keeps(v, w, U)
  PROVE  Keeps(u, w, U)
  BY DEF Keeps, Steady

LEMMA KeepsNothing ==
  ASSUME NEW U, NEW u, Good(u, U)
  PROVE  Keeps(u, u, U)
  BY DEF Keeps, Steady

LEMMA BesideKeeps ==
  ASSUME NEW U, NEW u, Good(u, U), NEW v, Beside(u, v)
  PROVE  Keeps(u, v, U) /\ v.selected = u.selected
  BY BesideIsGood DEF Keeps, Beside, SameFlows

LEMMA BesideDetail ==
  ASSUME NEW u \in Uis, NEW d \in {"empty", "pending", "loaded", "error"}
  PROVE  Beside(u, [u EXCEPT !.detail = d])
<1>1. PICK v : v = [u EXCEPT !.detail = d]
  OBVIOUS
<1>2. [u EXCEPT !.detail = d] \in Uis
  BY ZenonT(60) DEF Uis
<1>3. Steady(u, v) /\ SameFlows(u, v)
  BY <1>1 DEF Uis, Steady, SameFlows, SameComment, SameEdit, SameWatch
<1> QED
  BY <1>1, <1>2, <1>3 DEF Beside

LEMMA BesideLookup ==
  ASSUME NEW u \in Uis, NEW x \in Lookups
  PROVE  Beside(u, [u EXCEPT !.lookup = x])
<1>1. PICK v : v = [u EXCEPT !.lookup = x]
  OBVIOUS
<1>2. [u EXCEPT !.lookup = x] \in Uis
  BY DEF Uis
<1>3. Steady(u, v) /\ SameFlows(u, v)
  BY <1>1 DEF Uis, Steady, SameFlows, SameComment, SameEdit, SameWatch
<1> QED
  BY <1>1, <1>2, <1>3 DEF Beside

LEMMA BesideDomain ==
  ASSUME NEW u \in Uis, NEW x \in SUBSET Issues
  PROVE  Beside(u, [u EXCEPT !.domain = x])
<1>1. PICK v : v = [u EXCEPT !.domain = x]
  OBVIOUS
<1>2. [u EXCEPT !.domain = x] \in Uis
  BY DEF Uis
<1>3. Steady(u, v) /\ SameFlows(u, v)
  BY <1>1 DEF Uis, Steady, SameFlows, SameComment, SameEdit, SameWatch
<1> QED
  BY <1>1, <1>2, <1>3 DEF Beside

LEMMA BesideTeam ==
  ASSUME NEW u \in Uis, NEW x \in SUBSET Issues
  PROVE  Beside(u, [u EXCEPT !.team = x])
<1>1. PICK v : v = [u EXCEPT !.team = x]
  OBVIOUS
<1>2. [u EXCEPT !.team = x] \in Uis
  BY DEF Uis
<1>3. Steady(u, v) /\ SameFlows(u, v)
  BY <1>1 DEF Uis, Steady, SameFlows, SameComment, SameEdit, SameWatch
<1> QED
  BY <1>1, <1>2, <1>3 DEF Beside

LEMMA BesideQuery ==
  ASSUME NEW u \in Uis, NEW x \in Issues \cup {None}
  PROVE  Beside(u, [u EXCEPT !.query = x])
<1>1. PICK v : v = [u EXCEPT !.query = x]
  OBVIOUS
<1>2. [u EXCEPT !.query = x] \in Uis
  BY DEF Uis
<1>3. Steady(u, v) /\ SameFlows(u, v)
  BY <1>1 DEF Uis, Steady, SameFlows, SameComment, SameEdit, SameWatch
<1> QED
  BY <1>1, <1>2, <1>3 DEF Beside

LEMMA BesidePolling ==
  ASSUME NEW u \in Uis, NEW x \in {"off", "waiting", "refreshing", "paused"}
  PROVE  Beside(u, [u EXCEPT !.polling = x])
<1>1. PICK v : v = [u EXCEPT !.polling = x]
  OBVIOUS
<1>2. [u EXCEPT !.polling = x] \in Uis
  BY DEF Uis
<1>3. Steady(u, v) /\ SameFlows(u, v)
  BY <1>1 DEF Uis, Steady, SameFlows, SameComment, SameEdit, SameWatch
<1> QED
  BY <1>1, <1>2, <1>3 DEF Beside

LEMMA BesideTransitions ==
  ASSUME NEW u \in Uis, NEW x \in {"idle", "loading", "ready", "error"}
  PROVE  Beside(u, [u EXCEPT !.transitions = x])
<1>1. PICK v : v = [u EXCEPT !.transitions = x]
  OBVIOUS
<1>2. [u EXCEPT !.transitions = x] \in Uis
  BY DEF Uis
<1>3. Steady(u, v) /\ SameFlows(u, v)
  BY <1>1 DEF Uis, Steady, SameFlows, SameComment, SameEdit, SameWatch
<1> QED
  BY <1>1, <1>2, <1>3 DEF Beside

LEMMA BesideConfirm ==
  ASSUME NEW u \in Uis, NEW x \in BOOLEAN
  PROVE  Beside(u, [u EXCEPT !.watch_confirm_after_read = x])
<1>1. PICK v : v = [u EXCEPT !.watch_confirm_after_read = x]
  OBVIOUS
<1>2. [u EXCEPT !.watch_confirm_after_read = x] \in Uis
  BY DEF Uis
<1>3. Steady(u, v) /\ SameFlows(u, v)
  BY <1>1 DEF Uis, Steady, SameFlows, SameComment, SameEdit, SameWatch
<1> QED
  BY <1>1, <1>2, <1>3 DEF Beside

LEMMA BesideCore ==
  ASSUME NEW u \in Uis, NEW i \in Issues \cup {None}
  PROVE  Beside(u, [u EXCEPT !.core = i])
<1>1. PICK v : v = [u EXCEPT !.core = i]
  OBVIOUS
<1>2. [u EXCEPT !.core = i] \in Uis
  BY ZenonT(60) DEF Uis
<1>3. Steady(u, v) /\ SameFlows(u, v)
  BY <1>1 DEF Uis, Steady, SameFlows, SameComment, SameEdit, SameWatch
<1> QED
  BY <1>1, <1>2, <1>3 DEF Beside

LEMMA SelectedKeeps ==
  ASSUME NEW U, NEW u, Good(u, U), NEW i \in Issues \cup {None},
         i = u.selected \/ (u.edit.issue = None /\ u.watch.issue = None)
  PROVE  Keeps(u, [u EXCEPT !.selected = i], U)
<1>1. PICK v : v = [u EXCEPT !.selected = i]
  OBVIOUS
<1>2. u \in Uis
  BY DEF Good, Sound
<1>3. [u EXCEPT !.selected = i] \in Uis
  BY <1>2, ZenonT(60) DEF Uis
<1>4. /\ v.selected = i /\ Steady(u, v)
      /\ SameComment(u, v) /\ SameEdit(u, v) /\ SameWatch(u, v)
  BY <1>1, <1>2 DEF Uis, Steady, SameComment, SameEdit, SameWatch
<1>5. Good(v, U)
  BY <1>1, <1>3, <1>4, SelectedGood
<1> QED
  BY <1>1, <1>4, <1>5 DEF Keeps

\* What belonged to the issue selected so far is invalidated, then another one
\* may be selected; a watch change under way refuses that.
LEMMA SelectIssue ==
  ASSUME NEW U, NEW u, Good(u, U), NEW issue \in Issues, NEW force
  PROVE  Keeps(u, select_issue(u, issue, force), U)
<1>1. PICK a : a = invalidate_comment_selection(u)
  OBVIOUS
<1>2. Keeps(u, a, U) /\ a.selected = u.selected /\ a.watch = u.watch
  BY <1>1, InvalidateComment DEF Keeps, SameWatch
<1>3. PICK c : c = invalidate_issue_edit_selection(a)
  OBVIOUS
<1>4. /\ Keeps(u, c, U) /\ c.selected = u.selected /\ c.watch = u.watch
      /\ c.edit.issue = None
  BY <1>2, <1>3, InvalidateEdit, KeepsTwice DEF Keeps, SameWatch
<1>5. PICK p : p = IF u.selected # issue
                   THEN [invalidate_watch_selection(c) EXCEPT !.core = None] ELSE c
  OBVIOUS
<1>6. CASE u.selected # issue /\ writes_confirmed(u)
  <2>1. select_issue(u, issue, force) = u
    BY <1>6, Zenon DEF select_issue
  <2> QED
    BY <2>1, KeepsNothing
<1>7. CASE ~(u.selected # issue /\ writes_confirmed(u))
  <2>1. PICK s : s = [p EXCEPT !.selected = issue]
    OBVIOUS
  <2>2. Keeps(u, s, U)
    <3>1. CASE u.selected = issue
      <4>1. p = c
        BY <1>5, <3>1
      <4>2. Keeps(c, s, U)
        BY <1>4, <2>1, <3>1, <4>1, SelectedKeeps DEF Keeps
      <4> QED
        BY <1>4, <4>2, KeepsTwice
    <3>2. CASE u.selected # issue
      <4>1. c.watch.kind # "Submitting"
        BY <1>4, <1>7, <3>2 DEF writes_confirmed, Watch!is_submitting
      <4>2. PICK w : w = invalidate_watch_selection(c)
        OBVIOUS
      <4>3. Keeps(c, w, U) /\ w.edit.issue = None /\ w.watch.issue = None
        BY <1>4, <4>1, <4>2, InvalidateWatch DEF Keeps, SameEdit
      <4>4. p = [w EXCEPT !.core = None] /\ w \in Uis
        BY <1>5, <3>2, <4>2, <4>3 DEF Keeps, Good, Sound
      <4>5. Beside(w, p)
        BY <4>4, BesideCore
      <4>6. Keeps(w, p, U) /\ p.edit.issue = None /\ p.watch.issue = None
        BY <4>3, <4>5, BesideKeeps DEF Keeps, Beside, SameFlows, SameEdit, SameWatch
      <4>7. Keeps(p, s, U)
        BY <2>1, <4>6, SelectedKeeps DEF Keeps
      <4> QED
        BY <1>4, <4>3, <4>6, <4>7, KeepsTwice
    <3> QED
      BY <3>1, <3>2
  <2>3. PICK d : d = invalidate_status_transition(s)
    OBVIOUS
  <2>4. Keeps(u, d, U)
    <3>1. s \in Uis
      BY <2>2 DEF Keeps, Good, Sound
    <3>2. Beside(s, d)
      BY <2>3, <3>1, InvalidateTransition
    <3> QED
      BY <2>2, <3>2, BesideKeeps, KeepsTwice DEF Keeps
  <2>5. PICK w : w = IF known(d, issue) THEN load_issue_watch_state(d, issue) ELSE d
    OBVIOUS
  <2>6. Keeps(u, w, U)
    <3>1. Keeps(d, load_issue_watch_state(d, issue), U)
      BY <2>4, LoadWatch DEF Keeps
    <3>2. Keeps(d, w, U)
      BY <2>4, <2>5, <3>1, KeepsNothing DEF Keeps
    <3> QED
      BY <2>4, <3>2, KeepsTwice
  <2>7. Keeps(u, [reload_status_transitions(w) EXCEPT !.detail = "pending"], U)
    <3>1. PICK t : t = reload_status_transitions(w)
      OBVIOUS
    <3>2. Keeps(w, t, U)
      BY <2>6, <3>1, ReloadTransitions, BesideKeeps DEF Keeps, Good, Sound
    <3>3. t \in Uis
      BY <3>2 DEF Keeps, Good, Sound
    <3>4. Keeps(t, [t EXCEPT !.detail = "pending"], U)
      BY <3>2, <3>3, BesideDetail, BesideKeeps DEF Keeps
    <3> QED
      BY <2>6, <3>1, <3>2, <3>4, KeepsTwice
  <2>8. Keeps(u, [w EXCEPT !.detail = "empty"], U)
    <3>1. w \in Uis
      BY <2>6 DEF Keeps, Good, Sound
    <3>2. Keeps(w, [w EXCEPT !.detail = "empty"], U)
      BY <2>6, <3>1, BesideDetail, BesideKeeps DEF Keeps
    <3> QED
      BY <2>6, <3>2, KeepsTwice
  <2>9. \/ select_issue(u, issue, force) = u
        \/ select_issue(u, issue, force)
               = [reload_status_transitions(w) EXCEPT !.detail = "pending"]
        \/ select_issue(u, issue, force) = [w EXCEPT !.detail = "empty"]
    BY <1>1, <1>3, <1>5, <2>1, <2>3, <2>5, Zenon DEF select_issue
  <2> QED
    BY <2>7, <2>8, <2>9, KeepsNothing
<1> QED
  BY <1>6, <1>7

LEMMA ReloadDetail ==
  ASSUME NEW U, NEW u, Good(u, U)
  PROVE  Keeps(u, reload_selected_detail(u), U)
<1>1. u.selected \in Issues \cup {None}
  BY DEF Good, Sound, Uis
<1>2. CASE u.selected = None
  BY <1>2, KeepsNothing DEF reload_selected_detail
<1>3. CASE u.selected # None
  <2>1. u.selected \in Issues
    BY <1>1, <1>3
  <2>2. Keeps(u, select_issue(u, u.selected, TRUE), U)
    BY <2>1, SelectIssue
  <2> QED
    BY <1>3, <2>2, Zenon DEF reload_selected_detail
<1> QED
  BY <1>2, <1>3

LEMMA ClearSelection ==
  ASSUME NEW U, NEW u, Good(u, U)
  PROVE  Keeps(u, clear_selection_for_team_scope(u), U)
<1>1. PICK l : l = clear_remote_lookup(u)
  OBVIOUS
<1>2. Keeps(u, l, U) /\ l.watch = u.watch
  BY <1>1, ClearLookup, BesideKeeps DEF Good, Sound, Beside, SameFlows, SameWatch
<1>3. PICK n : n = [l EXCEPT !.selected = None, !.core = None, !.detail = "empty"]
  OBVIOUS
<1>4. CASE writes_confirmed(u)
  BY <1>4, KeepsNothing, Zenon DEF clear_selection_for_team_scope
<1>5. CASE ~writes_confirmed(u)
  <2>1. PICK a : a = invalidate_comment_selection(n)
    OBVIOUS
  <2>2. PICK b : b = invalidate_issue_edit_selection(a)
    OBVIOUS
  <2>3. PICK c : c = invalidate_watch_selection(b)
    OBVIOUS
  <2>4. clear_selection_for_team_scope(u) = c
    BY <1>1, <1>3, <1>5, <2>1, <2>2, <2>3, Zenon DEF clear_selection_for_team_scope
  <2>5. l \in Uis
    BY <1>2 DEF Keeps, Good, Sound
  <2>6. /\ Steady(l, n) /\ SameComment(l, n) /\ SameEdit(l, n) /\ SameWatch(l, n)
    BY <1>3, <2>5 DEF Uis, Steady, SameComment, SameEdit, SameWatch
  <2>7. n \in Uis
    <3>1. [l EXCEPT !.selected = None, !.core = None, !.detail = "empty"] \in Uis
      BY <2>5, ZenonT(60) DEF Uis
    <3> QED
      BY <1>3, <3>1
  <2>8. Sound(n, U)
    BY <1>2, <2>6, <2>7, SoundBeside DEF Keeps, Good
  <2>9. Sound(a, U) /\ Steady(n, a) /\ SameWatch(n, a)
    BY <2>1, <2>8, InvalidateCommentSound
  <2>10. Sound(b, U) /\ Steady(a, b) /\ SameWatch(a, b) /\ b.edit.issue = None
    BY <2>2, <2>9, InvalidateEditSound
  <2>11. b.watch.kind # "Submitting"
    BY <1>2, <1>5, <2>6, <2>9, <2>10 DEF SameWatch, writes_confirmed, Watch!is_submitting
  <2>12. /\ Sound(c, U) /\ Steady(b, c) /\ c.edit.issue = None /\ c.watch.issue = None
    BY <2>3, <2>10, <2>11, InvalidateWatchSound DEF SameEdit
  <2>13. Good(c, U)
    BY <2>12 DEF Good, Concerned
  <2>14. Steady(u, c)
    BY <1>2, <2>6, <2>9, <2>10, <2>12 DEF Keeps, Steady
  <2> QED
    BY <2>4, <2>13, <2>14 DEF Keeps
<1> QED
  BY <1>4, <1>5

LEMMA SearchKey ==
  ASSUME NEW U, NEW u, Good(u, U), NEW issue \in Issues
  PROVE  Keeps(u, search_jira_for_key(u, issue), U)
<1>1. u \in Uis
  BY DEF Good, Sound
<1>2. PICK a : a = invalidate_comment_selection(u)
  OBVIOUS
<1>3. Keeps(u, a, U) /\ a \in Uis
  BY <1>2, InvalidateComment DEF Keeps, Good, Sound
<1>4. PICK l : l = clear_remote_lookup(u)
  OBVIOUS
<1>5. Keeps(u, l, U)
  BY <1>1, <1>4, ClearLookup, BesideKeeps
<1>6. Keeps(u, select_issue(l, issue, TRUE), U)
  BY <1>5, SelectIssue, KeepsTwice DEF Keeps
<1>7. \A x \in Lookups : Keeps(u, [a EXCEPT !.lookup = x], U)
  BY <1>3, BesideLookup, BesideKeeps, KeepsTwice DEF Keeps
<1>8. Lookup("loading", issue) \in Lookups /\ Lookup("error", None) \in Lookups
  BY DEF Lookup, Lookups
<1>9. \/ search_jira_for_key(u, issue) = u
      \/ search_jira_for_key(u, issue) = select_issue(l, issue, TRUE)
      \/ search_jira_for_key(u, issue) = [a EXCEPT !.lookup = Lookup("loading", issue)]
      \/ search_jira_for_key(u, issue) = [a EXCEPT !.lookup = Lookup("error", None)]
  BY <1>2, <1>4, Zenon DEF search_jira_for_key
<1> QED
  BY <1>6, <1>7, <1>8, <1>9, KeepsNothing

LEMMA SearchJiraKeeps ==
  ASSUME NEW U, NEW u, Good(u, U)
  PROVE  Keeps(u, search_jira(u), U)
<1>1. u \in Uis /\ u.query \in Issues \cup {None}
  BY DEF Good, Sound, Uis
<1>2. Keeps(u, clear_remote_lookup(u), U)
  BY <1>1, ClearLookup, BesideKeeps
<1>3. u.query # None => Keeps(u, search_jira_for_key(u, u.query), U)
  BY <1>1, SearchKey
<1> QED
  BY <1>2, <1>3, KeepsNothing DEF search_jira

LEMMA RebuildViews ==
  ASSUME NEW U, NEW u, Good(u, U), NEW first \in Issues \cup {None}, NEW again
  PROVE  Keeps(u, rebuild_issue_views(u, first, again), U)
<1>1. first # None => Keeps(u, select_issue(u, first, TRUE), U)
  BY SelectIssue
<1>2. Keeps(u, reload_selected_detail(u), U)
  BY ReloadDetail
<1> QED
  BY <1>1, <1>2, KeepsNothing DEF rebuild_issue_views

LEMMA ApplyCached ==
  ASSUME NEW U, NEW u, Good(u, U), NEW issues \in SUBSET Issues,
         NEW first \in Issues \cup {None}
  PROVE  Keeps(u, apply_cached(u, issues, first), U)
<1>1. PICK d : d = [u EXCEPT !.domain = issues]
  OBVIOUS
<1>2. Keeps(u, d, U)
  BY <1>1, BesideDomain, BesideKeeps DEF Good, Sound
<1>3. PICK r : r = rebuild_issue_views(d, first, TRUE)
  OBVIOUS
<1>4. Keeps(u, r, U)
  BY <1>2, <1>3, RebuildViews, KeepsTwice DEF Keeps
<1>5. Keeps(r, reload_status_transitions(r), U)
  BY <1>4, ReloadTransitions, BesideKeeps DEF Keeps, Good, Sound
<1>6. apply_cached(u, issues, first) \in {r, reload_status_transitions(r)}
  BY <1>1, <1>3 DEF apply_cached
<1> QED
  BY <1>4, <1>5, <1>6, KeepsTwice

LEMMA StartPolling ==
  ASSUME NEW U, NEW u, Good(u, U)
  PROVE  Keeps(u, start_automatic_polling(u), U)
<1>1. Keeps(u, [u EXCEPT !.polling = "waiting"], U)
  BY BesidePolling, BesideKeeps DEF Good, Sound
<1> QED
  BY <1>1, KeepsNothing DEF start_automatic_polling

-----------------------------------------------------------------------------
(* Operations that hold the busy flag *)

LEMMA TypeWorkspace ==
  ASSUME NEW u \in Uis, NEW b \in BOOLEAN
  PROVE  [u EXCEPT !.workspace = b] \in Uis
  BY DEF Uis

LEMMA TypeEdit ==
  ASSUME NEW u \in Uis, NEW f \in Edit!Flow(Issues)
  PROVE  [u EXCEPT !.edit = f] \in Uis
  BY DEF Uis

LEMMA TypeHolder ==
  ASSUME NEW u \in Uis, NEW b \in BOOLEAN, NEW j \in SUBSET Jobs
  PROVE  [u EXCEPT !.busy = b, !.jobs = j] \in Uis
  BY ZenonT(60) DEF Uis

\* v has another holder than u, and the flows of u.
LEMMA HolderGood ==
  ASSUME NEW u, NEW v, NEW U, Good(u, U), v \in Uis, SameFlows(u, v),
         v.edit_writes = u.edit_writes, v.watch_write = u.watch_write,
         OneHolder(v), WritesHaveWorkspace(v), Alive(v) => Alive(u)
  PROVE  Good(v, U)
  BY DEF Good, Sound, SameFlows, SameComment, SameEdit, SameWatch, EditHeld, WatchHeld,
         Concerned, Drafted, Apart, Reconciled, Edit!identity, Watch!identity

LEMMA JobAlone ==
  ASSUME NEW u, NEW U, Good(u, U), NEW job \in u.jobs
  PROVE  /\ u.busy /\ u.jobs = {job} /\ job \in Jobs
         /\ u.edit_writes = {} /\ u.watch_write = None
<1>1. u \in Uis /\ u.jobs \subseteq Jobs
  BY DEF Good, Sound, Uis
<1>2. u.busy
  BY DEF Good, Sound, OneHolder
<1>3. PICK j \in Jobs : u.jobs = {j} /\ u.edit_writes = {} /\ u.watch_write = None
  BY <1>2 DEF Good, Sound, OneHolder
<1> QED
  BY <1>2, <1>3

LEMMA EndJob ==
  ASSUME DashInv, NEW job \in ui.jobs
  PROVE  /\ Good(Ended(job), unsettled)
         /\ Ended(job).jobs = {} /\ ~Ended(job).busy
         /\ Ended(job).edit_writes = {} /\ Ended(job).watch_write = None
         /\ Ended(job).workspace = ui.workspace
<1>1. /\ ui \in Uis /\ Good(ui, unsettled)
      /\ ui.busy /\ ui.jobs = {job} /\ ui.edit_writes = {} /\ ui.watch_write = None
  BY JobAlone DEF DashInv, Good, Sound
<1>2. PICK v : v = Ended(job)
  OBVIOUS
<1>3. PICK j \in SUBSET Jobs : j = ui.jobs \ {job} /\ j = {}
  BY <1>1
<1>4. v = [ui EXCEPT !.busy = FALSE, !.jobs = j]
  BY <1>2, <1>3 DEF Ended
<1>5. [ui EXCEPT !.busy = FALSE, !.jobs = j] \in Uis
  BY <1>1, TypeHolder
<1>6. /\ v.busy = FALSE /\ v.jobs = j /\ v.workspace = ui.workspace
      /\ v.edit_writes = ui.edit_writes /\ v.watch_write = ui.watch_write
      /\ SameFlows(ui, v)
  BY <1>1, <1>4 DEF Uis, SameFlows, SameComment, SameEdit, SameWatch
<1>7. OneHolder(v) /\ WritesHaveWorkspace(v) /\ (Alive(v) => Alive(ui))
  BY <1>1, <1>3, <1>6 DEF OneHolder, WritesHaveWorkspace, Alive
<1>8. Good(v, unsettled)
  BY <1>1, <1>4, <1>5, <1>6, <1>7, HolderGood
<1> QED
  BY <1>1, <1>2, <1>3, <1>6, <1>8

LEMMA TakeFlag ==
  ASSUME NEW u, NEW U, Good(u, U), ~u.busy, NEW job \in Jobs, job # "startup"
  PROVE  Good([u EXCEPT !.busy = TRUE, !.jobs = @ \cup {job}], U)
<1>1. /\ u \in Uis /\ u.jobs = {} /\ u.edit_writes = {} /\ u.watch_write = None
  BY DEF Good, Sound, OneHolder
<1>2. PICK j \in SUBSET Jobs : j = u.jobs \cup {job} /\ j = {job}
  BY <1>1
<1>3. PICK v : v = [u EXCEPT !.busy = TRUE, !.jobs = j]
  OBVIOUS
<1>4. [u EXCEPT !.busy = TRUE, !.jobs = j] \in Uis
  BY <1>1, TypeHolder
<1>5. /\ v.busy = TRUE /\ v.jobs = j /\ v.workspace = u.workspace
      /\ v.edit_writes = u.edit_writes /\ v.watch_write = u.watch_write
      /\ SameFlows(u, v)
  BY <1>1, <1>3 DEF Uis, SameFlows, SameComment, SameEdit, SameWatch
<1>6. OneHolder(v) /\ WritesHaveWorkspace(v) /\ (Alive(v) => Alive(u))
  BY <1>1, <1>2, <1>5 DEF OneHolder, WritesHaveWorkspace, Alive
<1>7. Good(v, U)
  BY <1>3, <1>4, <1>5, <1>6, HolderGood
<1> QED
  BY <1>2, <1>3, <1>7

LEMMA JobsHold ==
  /\ "startup" \in Jobs /\ "refresh" \in Jobs /\ "poll" \in Jobs
  /\ "mark" \in Jobs /\ "team" \in Jobs /\ "settings" \in Jobs
  BY DEF Jobs

\* A step whose next struct is known to be good.
LEMMA SetsInv ==
  ASSUME DashInv, NEW next, Sets(next), Good(next, unsettled)
  PROVE  DashInv'
  BY DEF DashInv, Sets

\* A step that leaves what holds the flag alone.
KeepsFlag == DashInv' /\ Steady(ui, ui')

LEMMA SetsKeeps ==
  ASSUME DashInv, NEW next, Sets(next), Keeps(ui, next, unsettled)
  PROVE  KeepsFlag
  BY DEF DashInv, Sets, Keeps, KeepsFlag

\* A good struct with nothing under way that holds the flag, a step to one.
Free(u, U) == Good(u, U) /\ ~u.busy
FreesFlag == DashInv' /\ ~ui'.busy

LEMMA FreeKept ==
  ASSUME NEW U, NEW u, NEW v, Free(u, U), Keeps(u, v, U)
  PROVE  Free(v, U)
  BY DEF Free, Keeps, Steady

LEMMA SetsFree ==
  ASSUME DashInv, NEW next, Sets(next), Free(next, unsettled)
  PROVE  FreesFlag
  BY DEF DashInv, Sets, Free, FreesFlag

LEMMA BeginStep ==
  ASSUME DashInv, NEW job \in Jobs, job # "startup", ~ui.busy, Sets(Takes(job))
  PROVE  DashInv'
<1>1. Good(Takes(job), unsettled)
  BY TakeFlag DEF DashInv, Takes
<1> QED
  BY <1>1, SetsInv

LEMMA RefreshBegun ==
  ASSUME NEW u, NEW U, Good(u, U)
  PROVE  Good(refresh_begun(u), U)
<1>1. CASE u.busy \/ Edit!is_submitting(u.edit) \/ ~u.workspace
  BY <1>1, Zenon DEF refresh_begun
<1>2. CASE ~(u.busy \/ Edit!is_submitting(u.edit) \/ ~u.workspace)
  <2>1. Good([u EXCEPT !.busy = TRUE, !.jobs = @ \cup {"refresh"}], U)
    BY <1>2, TakeFlag, JobsHold
  <2> QED
    BY <1>2, <2>1, Zenon DEF refresh_begun
<1> QED
  BY <1>1, <1>2

LEMMA BeginSteps ==
  ASSUME DashInv, BeginRefresh \/ BeginMarkRead \/ BeginTeam \/ BeginSaveSettings
  PROVE  DashInv'
<1>1. CASE BeginRefresh
  BY <1>1, RefreshBegun, SetsInv DEF BeginRefresh, DashInv
<1>2. CASE BeginMarkRead
  BY <1>2, BeginStep, JobsHold DEF BeginMarkRead
<1>3. CASE BeginTeam
  BY <1>3, BeginStep, JobsHold DEF BeginTeam
<1>4. CASE BeginSaveSettings
  BY <1>4, BeginStep, JobsHold DEF BeginSaveSettings
<1> QED
  BY <1>1, <1>2, <1>3, <1>4

\* A good struct whose first issue, cache and team come from a synchronization.
LEMMA BesideAfter ==
  ASSUME NEW U, NEW u, NEW v, Keeps(u, v, U), NEW w, Beside(v, w)
  PROVE  Keeps(u, w, U)
  BY BesideKeeps, KeepsTwice DEF Keeps

LEMMA KeepsTeam ==
  ASSUME NEW U, NEW u, NEW v, Keeps(u, v, U), NEW team \in SUBSET Issues
  PROVE  Keeps(u, [v EXCEPT !.team = team], U)
  BY BesideTeam, BesideAfter DEF Keeps, Good, Sound

LEMMA BeginPoll == ASSUME DashInv, Poll PROVE DashInv'
<1>1. Good(ui, unsettled) /\ ui \in Uis /\ ~ui.busy
  BY DEF DashInv, Good, Sound, Poll
<1>2. PICK t : t = Takes("poll")
  OBVIOUS
<1>3. Good(t, unsettled)
  BY <1>1, <1>2, TakeFlag, JobsHold DEF Takes
<1>4. Good([t EXCEPT !.polling = "refreshing"], unsettled)
  BY <1>3, BesidePolling, BesideKeeps DEF Keeps, Good, Sound
<1> QED
  BY <1>2, <1>4, SetsInv DEF Poll

LEMMA AnyTeam ==
  ASSUME DashInv, NEW team \in (SUBSET TeamScope) \cup {ui.team}
  PROVE  team \in SUBSET Issues
<1>1. ui.team \in SUBSET Issues
  BY DEF DashInv, Good, Sound, Uis
<1>2. CASE team \in SUBSET TeamScope
  BY <1>2, DashboardAssumption
<1>3. CASE team = ui.team
  BY <1>1, <1>3
<1> QED
  BY <1>2, <1>3

LEMMA StartupStep == ASSUME DashInv, FinishStartup PROVE FreesFlag
<1>1. "startup" \in ui.jobs
  BY DEF FinishStartup
<1>2. PICK e : e = Ended("startup")
  OBVIOUS
<1>3. /\ Good(e, unsettled) /\ e.jobs = {} /\ ~e.busy /\ e.edit_writes = {}
      /\ e.watch_write = None /\ e \in Uis
  BY <1>1, <1>2, EndJob DEF Good, Sound
<1>4. CASE Sets(Ended("startup"))
  BY <1>2, <1>3, <1>4, SetsFree DEF Free
<1>5. ASSUME NEW issues \in SUBSET Scope, NEW team \in SUBSET TeamScope,
             NEW first \in issues \cup {None},
             LET opened  == [Ended("startup") EXCEPT !.workspace = TRUE]
                 applied == apply_cached(opened, issues, first)
                 watched == IF applied.selected = None THEN applied
                            ELSE load_issue_watch_state(applied, applied.selected)
             IN  Sets(start_automatic_polling([watched EXCEPT !.team = team]))
      PROVE  FreesFlag
  <2>1. PICK o : o = [e EXCEPT !.workspace = TRUE]
    OBVIOUS
  <2>2. Free(o, unsettled)
    <3>1. [e EXCEPT !.workspace = TRUE] \in Uis
      BY <1>3, TypeWorkspace
    <3>2. /\ o.busy = e.busy /\ o.jobs = e.jobs
          /\ o.edit_writes = e.edit_writes /\ o.watch_write = e.watch_write
          /\ SameFlows(e, o)
      BY <1>3, <2>1 DEF Uis, SameFlows, SameComment, SameEdit, SameWatch
    <3>3. OneHolder(o) /\ WritesHaveWorkspace(o)
      BY <1>3, <3>2 DEF OneHolder, WritesHaveWorkspace
    <3>4. Sound(o, unsettled)
      BY <1>3, <2>1, <3>1, <3>2, <3>3
         DEF Good, Sound, SameFlows, SameComment, SameEdit, SameWatch, EditHeld, WatchHeld,
             Drafted, Apart, Reconciled, Edit!identity, Watch!identity
    <3>5. Alive(ui) /\ Concerned(ui) /\ SameFlows(ui, e)
      <4>1. ui \in Uis /\ Concerned(ui)
        BY DEF DashInv, Good, Sound
      <4> QED
        BY <1>1, <1>2, <4>1
           DEF Alive, Ended, Uis, SameFlows, SameComment, SameEdit, SameWatch
    <3>6. Concerned(o)
      BY <3>2, <3>5 DEF Concerned, SameFlows, SameEdit, SameWatch
    <3> QED
      BY <1>3, <3>2, <3>4, <3>6 DEF Good, Free
  <2>3. PICK a : a = apply_cached(o, issues, first)
    OBVIOUS
  <2>4. issues \in SUBSET Issues /\ team \in SUBSET Issues /\ first \in Issues \cup {None}
    BY DashboardAssumption
  <2>5. Keeps(o, a, unsettled)
    BY <2>2, <2>3, <2>4, ApplyCached DEF Free
  <2>6. PICK w : w = IF a.selected = None THEN a ELSE load_issue_watch_state(a, a.selected)
    OBVIOUS
  <2>7. Keeps(o, w, unsettled)
    <3>1. a.selected \in Issues \cup {None}
      BY <2>5 DEF Keeps, Good, Sound, Uis
    <3>2. CASE a.selected = None
      BY <2>5, <2>6, <3>2
    <3>3. CASE a.selected # None
      <4>1. Keeps(a, load_issue_watch_state(a, a.selected), unsettled)
        BY <2>5, <3>1, <3>3, LoadWatch DEF Keeps
      <4> QED
        BY <2>5, <2>6, <3>3, <4>1, KeepsTwice
    <3> QED
      BY <3>2, <3>3
  <2>8. PICK t : t = [w EXCEPT !.team = team]
    OBVIOUS
  <2>9. Keeps(o, t, unsettled)
    BY <2>4, <2>7, <2>8, KeepsTeam
  <2>10. Keeps(o, start_automatic_polling(t), unsettled)
    BY <2>9, StartPolling, KeepsTwice DEF Keeps
  <2>11. Sets(start_automatic_polling(t))
    BY <1>2, <1>5, <2>1, <2>3, <2>6, <2>8
  <2> QED
    BY <2>2, <2>10, <2>11, FreeKept, SetsFree
<1> QED
  BY <1>4, <1>5 DEF FinishStartup

LEMMA RefreshSettled ==
  ASSUME NEW U, NEW u, Good(u, U)
  PROVE  Keeps(u, [u EXCEPT !.edit = Edit!refresh_succeeded(@)], U)
<1>1. u \in Uis /\ u.edit \in Edit!Flow(Issues)
  BY DEF Good, Sound, Uis
<1>2. PICK f : f = Edit!refresh_succeeded(u.edit)
  OBVIOUS
<1>3. PICK v : v = [u EXCEPT !.edit = f]
  OBVIOUS
<1>4. v = [u EXCEPT !.edit = Edit!refresh_succeeded(@)]
  BY <1>2, <1>3
<1>5. CASE ~Edit!is_unknown(u.edit)
  <2>1. f = u.edit
    BY <1>2, <1>5, Zenon DEF Edit!refresh_succeeded
  <2>2. v = u
    BY <1>1, <1>3, <2>1 DEF Uis
  <2> QED
    BY <1>4, <2>2, KeepsNothing
<1>6. CASE Edit!is_unknown(u.edit)
  <2>1. f = Edit!At(u.edit, "Idle", None) /\ u.edit.kind = "Error"
    BY <1>2, <1>6 DEF Edit!refresh_succeeded, Edit!is_unknown
  <2>2. "Idle" \in Edit!Kinds /\ None \in Issues \cup {None}
    BY EditKindsHold
  <2>3. /\ f \in Edit!Flow(Issues) /\ f.kind = "Idle" /\ f.issue = None
        /\ f.invalidated = u.edit.invalidated /\ f.last = u.edit.last
    BY <1>1, <2>1, <2>2, EditAt
  <2>4. [u EXCEPT !.edit = f] \in Uis
    BY <1>1, <2>3, TypeEdit
  <2>5. /\ v.edit = f /\ v.selected = u.selected /\ Steady(u, v)
        /\ SameComment(u, v) /\ SameWatch(u, v)
    BY <1>1, <1>3 DEF Uis, Steady, SameComment, SameWatch
  <2>6. EditHeld(v)
    BY <2>1, <2>3, <2>5 DEF Good, Sound, EditHeld, Steady
  <2>7. Sound(v, U)
    BY <1>3, <2>4, <2>5, <2>6, EditSound DEF Good
  <2>8. Good(v, U)
    BY <2>3, <2>5, <2>7, ConcernKept DEF SameWatch
  <2> QED
    BY <1>4, <2>5, <2>8 DEF Keeps
<1> QED
  BY <1>5, <1>6

LEMMA RefreshStep == ASSUME DashInv, FinishRefresh PROVE FreesFlag
<1>1. "refresh" \in ui.jobs
  BY DEF FinishRefresh
<1>2. PICK e : e = Ended("refresh")
  OBVIOUS
<1>3. Free(e, unsettled) /\ Good(e, unsettled) /\ e \in Uis
  BY <1>1, <1>2, EndJob DEF Free, Good, Sound
<1>4. PICK team \in (SUBSET TeamScope) \cup {ui.team} :
        \/ Sets([Ended("refresh") EXCEPT !.team = team])
        \/ \E issues \in SUBSET Scope : \E first \in issues \cup {None} :
             LET applied == [apply_cached(Ended("refresh"), issues, first)
                                EXCEPT !.team = team]
                 settled == [applied EXCEPT !.edit = Edit!refresh_succeeded(@)]
             IN  Sets(start_automatic_polling(settled))
  BY DEF FinishRefresh
<1>5. team \in SUBSET Issues
  BY <1>4, AnyTeam
<1>6. CASE Sets([Ended("refresh") EXCEPT !.team = team])
  <2>1. Keeps(e, [e EXCEPT !.team = team], unsettled)
    BY <1>3, <1>5, KeepsNothing, KeepsTeam
  <2> QED
    BY <1>2, <1>3, <1>6, <2>1, FreeKept, SetsFree
<1>7. ASSUME NEW issues \in SUBSET Scope, NEW first \in issues \cup {None},
             LET applied == [apply_cached(Ended("refresh"), issues, first)
                                EXCEPT !.team = team]
                 settled == [applied EXCEPT !.edit = Edit!refresh_succeeded(@)]
             IN  Sets(start_automatic_polling(settled))
      PROVE  FreesFlag
  <2>1. issues \in SUBSET Issues /\ first \in Issues \cup {None}
    BY DashboardAssumption
  <2>2. PICK a : a = apply_cached(e, issues, first)
    OBVIOUS
  <2>3. Keeps(e, a, unsettled)
    BY <1>3, <2>1, <2>2, ApplyCached
  <2>4. PICK t : t = [a EXCEPT !.team = team]
    OBVIOUS
  <2>5. Keeps(e, t, unsettled)
    BY <1>5, <2>3, <2>4, KeepsTeam
  <2>6. PICK s : s = [t EXCEPT !.edit = Edit!refresh_succeeded(@)]
    OBVIOUS
  <2>7. Keeps(e, s, unsettled)
    BY <2>5, <2>6, RefreshSettled, KeepsTwice DEF Keeps
  <2>8. Keeps(e, start_automatic_polling(s), unsettled)
    BY <2>7, StartPolling, KeepsTwice DEF Keeps
  <2>9. Sets(start_automatic_polling(s))
    BY <1>2, <1>7, <2>2, <2>4, <2>6
  <2> QED
    BY <1>3, <2>8, <2>9, FreeKept, SetsFree
<1> QED
  BY <1>4, <1>6, <1>7

LEMMA PollStep == ASSUME DashInv, FinishPoll PROVE FreesFlag
<1>1. "poll" \in ui.jobs
  BY DEF FinishPoll
<1>2. PICK e : e = Ended("poll")
  OBVIOUS
<1>3. Free(e, unsettled) /\ Good(e, unsettled) /\ e \in Uis
  BY <1>1, <1>2, EndJob DEF Free, Good, Sound
<1>4. \A p \in {"waiting", "paused"} : Keeps(e, [e EXCEPT !.polling = p], unsettled)
  BY <1>3, BesidePolling, BesideKeeps
<1>5. ASSUME NEW p \in {"waiting", "paused"}, Sets([Ended("poll") EXCEPT !.polling = p])
      PROVE  FreesFlag
  BY <1>2, <1>3, <1>4, <1>5, FreeKept, SetsFree
<1>6. ASSUME NEW issues \in SUBSET Scope, NEW team \in (SUBSET TeamScope) \cup {ui.team},
             NEW first \in issues \cup {None},
             Sets([apply_cached([Ended("poll") EXCEPT !.polling = "waiting"],
                                issues, first) EXCEPT !.team = team])
      PROVE  FreesFlag
  <2>1. issues \in SUBSET Issues /\ first \in Issues \cup {None}
    BY DashboardAssumption
  <2>2. PICK w : w = [e EXCEPT !.polling = "waiting"]
    OBVIOUS
  <2>3. Keeps(e, w, unsettled)
    BY <1>4, <2>2
  <2>4. PICK a : a = apply_cached(w, issues, first)
    OBVIOUS
  <2>5. Keeps(e, a, unsettled)
    BY <2>1, <2>3, <2>4, ApplyCached, KeepsTwice DEF Keeps
  <2>6. team \in SUBSET Issues
    BY AnyTeam
  <2>7. Keeps(e, [a EXCEPT !.team = team], unsettled)
    BY <2>5, <2>6, KeepsTeam
  <2>8. Sets([a EXCEPT !.team = team])
    BY <1>2, <1>6, <2>2, <2>4
  <2> QED
    BY <1>3, <2>7, <2>8, FreeKept, SetsFree
<1> QED
  BY <1>5, <1>6 DEF FinishPoll

LEMMA MarkStep == ASSUME DashInv, FinishMarkRead PROVE FreesFlag
<1>1. "mark" \in ui.jobs
  BY DEF FinishMarkRead
<1>2. PICK e : e = Ended("mark")
  OBVIOUS
<1>3. Free(e, unsettled) /\ Good(e, unsettled)
  BY <1>1, <1>2, EndJob DEF Free
<1>4. ui.domain \in SUBSET Issues
  BY DEF DashInv, Good, Sound, Uis
<1>5. \A first \in ui.domain \cup {None} :
        Free(apply_cached(e, ui.domain, first), unsettled)
  BY <1>3, <1>4, ApplyCached, FreeKept
<1> QED
  BY <1>2, <1>3, <1>5, SetsFree DEF FinishMarkRead

LEMMA TeamStep == ASSUME DashInv, FinishTeam PROVE FreesFlag
<1>1. "team" \in ui.jobs
  BY DEF FinishTeam
<1>2. PICK e : e = Ended("team")
  OBVIOUS
<1>3. Free(e, unsettled) /\ Good(e, unsettled)
  BY <1>1, <1>2, EndJob DEF Free
<1>4. \A team \in (SUBSET TeamScope) \cup {ui.team} :
        Free([e EXCEPT !.team = team], unsettled)
  BY <1>3, AnyTeam, KeepsNothing, KeepsTeam, FreeKept
<1> QED
  BY <1>2, <1>4, SetsFree DEF FinishTeam

LEMMA TypeGivenUp ==
  ASSUME NEW u \in Uis
  PROVE  given_up(u) \in Uis
<1>1. PICK a : a = [u EXCEPT !.workspace = FALSE]
  OBVIOUS
<1>2. a \in Uis
  BY <1>1, TypeWorkspace
<1>3. PICK b : b = [a EXCEPT !.polling = "off"]
  OBVIOUS
<1>4. b \in Uis
  BY <1>2, <1>3, BesidePolling DEF Beside
<1>5. PICK c : c = [b EXCEPT !.domain = {}]
  OBVIOUS
<1>6. c \in Uis
  BY <1>4, <1>5, BesideDomain DEF Beside
<1>7. [c EXCEPT !.selected = None] \in Uis
  BY <1>6, ZenonT(60) DEF Uis
<1>8. given_up(u) = [c EXCEPT !.selected = None]
  BY <1>1, <1>3, <1>5 DEF given_up
<1> QED
  BY <1>7, <1>8

\* Nothing is under way when the workspace is given up, so that no flow needs
\* to be about the selection.
LEMMA SettingsStep == ASSUME DashInv, FinishSaveSettings PROVE FreesFlag
<1>1. "settings" \in ui.jobs
  BY DEF FinishSaveSettings
<1>2. PICK e : e = Ended("settings")
  OBVIOUS
<1>3. /\ Free(e, unsettled) /\ Good(e, unsettled) /\ e \in Uis
      /\ e.jobs = {} /\ ~e.busy /\ e.edit_writes = {} /\ e.watch_write = None
  BY <1>1, <1>2, EndJob DEF Free, Good, Sound
<1>4. Free(given_up(e), unsettled)
  <2>1. PICK v : v = given_up(e)
    OBVIOUS
  <2>2. v \in Uis
    BY <1>3, <2>1, TypeGivenUp
  <2>3. /\ v.workspace = FALSE /\ v.jobs = e.jobs /\ v.busy = e.busy
        /\ v.edit_writes = e.edit_writes /\ v.watch_write = e.watch_write
        /\ SameComment(e, v) /\ SameEdit(e, v) /\ SameWatch(e, v)
    BY <1>3, <2>1 DEF given_up, Uis, SameComment, SameEdit, SameWatch
  <2>4. Sound(v, unsettled)
    BY <1>3, <2>2, <2>3
       DEF Good, Sound, SameComment, SameEdit, SameWatch, OneHolder, WritesHaveWorkspace,
           EditHeld, WatchHeld, Drafted, Apart, Reconciled, Edit!identity, Watch!identity
  <2>5. Concerned(v)
    BY <1>3, <2>3 DEF Concerned, Alive
  <2> QED
    BY <1>3, <2>1, <2>3, <2>4, <2>5 DEF Good, Free
<1>5. \A issues \in SUBSET Scope : \A first \in issues \cup {None} :
        Free(start_automatic_polling(apply_cached(e, issues, first)), unsettled)
  <2> SUFFICES ASSUME NEW issues \in SUBSET Scope, NEW first \in issues \cup {None}
               PROVE  Free(start_automatic_polling(apply_cached(e, issues, first)), unsettled)
    OBVIOUS
  <2>1. issues \in SUBSET Issues /\ first \in Issues \cup {None}
    BY DashboardAssumption
  <2>2. Free(apply_cached(e, issues, first), unsettled)
    BY <1>3, <2>1, ApplyCached, FreeKept
  <2> QED
    BY <2>2, StartPolling, FreeKept DEF Free
<1> QED
  BY <1>2, <1>3, <1>4, <1>5, SetsFree DEF FinishSaveSettings

-----------------------------------------------------------------------------
(* Choosing what to look at *)

LEMMA UiTyped ==
  ASSUME DashInv
  PROVE  /\ Good(ui, unsettled) /\ ui \in Uis
         /\ ui.domain \subseteq Issues /\ ui.team \subseteq Issues
         /\ ui.selected \in Issues \cup {None} /\ ui.query \in Issues \cup {None}
         /\ ui.lookup \in Lookups
  BY DEF DashInv, Good, Sound, Uis

LEMMA Cleared ==
  ASSUME DashInv
  PROVE  Keeps(ui, clear_remote_lookup(ui), unsettled)
  BY UiTyped, ClearLookup, BesideKeeps

LEMMA SelectAfterClear ==
  ASSUME DashInv, NEW issue \in Issues, NEW force
  PROVE  Keeps(ui, select_issue(clear_remote_lookup(ui), issue, force), unsettled)
  BY Cleared, SelectIssue, KeepsTwice DEF Keeps

LEMMA DisplayedIsAnIssue ==
  ASSUME DashInv
  PROVE  displayed(ui) \in Issues \cup {None}
  BY UiTyped DEF displayed, Lookups

LEMMA ChoosingSteps ==
  ASSUME DashInv,
         SelectRow \/ OpenUpdate \/ SelectTeamRow \/ EnterTeam \/ ClearTeamRow \/ OpenInIssues
  PROVE  KeepsFlag
<1>1. CASE SelectRow
  BY <1>1, UiTyped, SelectAfterClear, SetsKeeps DEF SelectRow
<1>2. CASE OpenUpdate
  BY <1>2, DashboardAssumption, SelectAfterClear, SetsKeeps DEF OpenUpdate
<1>3. CASE SelectTeamRow
  <2>1. PICK issue \in ui.team : Sets(select_issue(ui, issue, TRUE))
    BY <1>3 DEF SelectTeamRow
  <2>2. Keeps(ui, select_issue(ui, issue, TRUE), unsettled)
    BY UiTyped, SelectIssue
  <2> QED
    BY <2>1, <2>2, SetsKeeps
<1>4. CASE EnterTeam \/ ClearTeamRow
  <2>1. Keeps(ui, clear_selection_for_team_scope(ui), unsettled)
    BY UiTyped, ClearSelection
  <2> QED
    BY <1>4, <2>1, SetsKeeps DEF EnterTeam, ClearTeamRow
<1>5. CASE OpenInIssues
  <2>1. displayed(ui) \in Issues
    BY <1>5, DisplayedIsAnIssue DEF OpenInIssues
  <2>2. Keeps(ui, select_issue(ui, displayed(ui), FALSE), unsettled)
    BY <2>1, UiTyped, SelectIssue
  <2> QED
    BY <1>5, <2>2, SetsKeeps DEF OpenInIssues
<1> QED
  BY <1>1, <1>2, <1>3, <1>4, <1>5

LEMMA Typed ==
  ASSUME DashInv, NEW query \in Issues \cup {None}, NEW first \in ui.domain \cup {None}
  PROVE  Keeps(ui, rebuild_issue_views(
                       [invalidate_comment_selection(clear_remote_lookup(ui))
                           EXCEPT !.query = query], first, FALSE), unsettled)
<1>1. PICK i : i = invalidate_comment_selection(clear_remote_lookup(ui))
  OBVIOUS
<1>2. Keeps(ui, i, unsettled) /\ i \in Uis
  BY <1>1, Cleared, InvalidateComment, KeepsTwice DEF Keeps, Good, Sound
<1>3. PICK q : q = [i EXCEPT !.query = query]
  OBVIOUS
<1>4. Keeps(ui, q, unsettled)
  BY <1>2, <1>3, BesideQuery, BesideAfter
<1>5. first \in Issues \cup {None}
  BY UiTyped
<1>6. Keeps(q, rebuild_issue_views(q, first, FALSE), unsettled)
  BY <1>4, <1>5, RebuildViews DEF Keeps
<1> QED
  BY <1>1, <1>3, <1>4, <1>6, KeepsTwice

LEMMA SearchSteps ==
  ASSUME DashInv,
         SetSearchQuery \/ SetStatusFilter \/ ClearIssueFilters \/ SearchJira \/ OpenRelated
  PROVE  KeepsFlag
<1>1. CASE SetSearchQuery
  BY <1>1, Typed, SetsKeeps DEF SetSearchQuery
<1>2. CASE SetStatusFilter
  <2>1. \A first \in ui.domain : Keeps(ui, rebuild_issue_views(ui, first, FALSE), unsettled)
    BY UiTyped, RebuildViews
  <2> QED
    BY <1>2, <2>1, SetsKeeps DEF SetStatusFilter
<1>3. CASE ClearIssueFilters
  BY <1>3, Typed, SetsKeeps DEF ClearIssueFilters
<1>4. CASE SearchJira
  BY <1>4, UiTyped, SearchJiraKeeps, SetsKeeps DEF SearchJira
<1>5. CASE OpenRelated
  BY <1>5, UiTyped, SearchKey, SetsKeeps DEF OpenRelated
<1> QED
  BY <1>1, <1>2, <1>3, <1>4, <1>5

LEMMA BesideStep ==
  ASSUME DashInv, NEW v, Beside(ui, v), Sets(v)
  PROVE  KeepsFlag
  BY UiTyped, BesideKeeps, SetsKeeps

LEMMA ReadSteps ==
  ASSUME DashInv, FinishLookup \/ FinishDetail \/ FinishTransitions
  PROVE  KeepsFlag
<1>1. CASE FinishLookup
  <2>1. PICK kind \in {"loaded", "error"} :
          Sets([ui EXCEPT !.lookup = Lookup(kind, IF kind = "loaded" THEN @.issue ELSE None)])
    BY <1>1 DEF FinishLookup
  <2>2. PICK l \in Lookups :
          l = Lookup(kind, IF kind = "loaded" THEN ui.lookup.issue ELSE None)
    BY UiTyped DEF Lookup, Lookups
  <2>3. Beside(ui, [ui EXCEPT !.lookup = l])
    BY UiTyped, BesideLookup
  <2> QED
    BY <2>1, <2>2, <2>3, BesideStep
<1>2. CASE FinishDetail
  <2>1. CASE Sets([ui EXCEPT !.detail = "error"])
    BY <2>1, UiTyped, BesideDetail, BesideStep
  <2>2. CASE Sets([ui EXCEPT !.detail = "loaded", !.core = ui.selected])
    <3>1. PICK d : d = [ui EXCEPT !.detail = "loaded"]
      OBVIOUS
    <3>2. Keeps(ui, d, unsettled) /\ d \in Uis
      BY <3>1, UiTyped, BesideDetail, BesideKeeps DEF Beside
    <3>3. Keeps(ui, [d EXCEPT !.core = ui.selected], unsettled)
      BY <3>2, UiTyped, BesideCore, BesideAfter
    <3>4. [d EXCEPT !.core = ui.selected] = [ui EXCEPT !.detail = "loaded", !.core = ui.selected]
      BY <3>1
    <3> QED
      BY <2>2, <3>3, <3>4, SetsKeeps
  <2> QED
    BY <1>2, <2>1, <2>2 DEF FinishDetail
<1>3. CASE FinishTransitions
  BY <1>3, UiTyped, BesideTransitions, BesideStep DEF FinishTransitions
<1> QED
  BY <1>1, <1>2, <1>3

-----------------------------------------------------------------------------
(* Comments *)

\* What the composer may become: with a draft unless it is idle, and with a
\* request only when no watch change is under way.
LEMMA Composed ==
  ASSUME NEW u, NEW U, Good(u, U),
         NEW c \in Comment!Flow(Issues), NEW d \in BOOLEAN, NEW p \in Posts,
         c.kind # "Idle" => d,
         p.state = "sent" => u.watch.kind # "Submitting" \/ u.post.state = "sent"
  PROVE  Keeps(u, [u EXCEPT !.draft = d, !.comment = c, !.post = p], U)
<1>1. u \in Uis
  BY DEF Good, Sound
<1>2. PICK v : v = [u EXCEPT !.draft = d, !.comment = c, !.post = p]
  OBVIOUS
<1>3. v \in Uis
  <2>1. [u EXCEPT !.draft = d, !.comment = c, !.post = p] \in Uis
    BY <1>1, TypeComment DEF Posts
  <2> QED
    BY <1>2, <2>1
<1>4. /\ v.comment = c /\ v.draft = d /\ v.post = p /\ v.selected = u.selected
      /\ Steady(u, v) /\ SameEdit(u, v) /\ SameWatch(u, v)
  BY <1>1, <1>2 DEF Uis, Steady, SameEdit, SameWatch
<1>5. Drafted(v) /\ Apart(v)
  BY <1>4 DEF Good, Sound, Drafted, Apart, WatchHeld, Steady
<1>6. Sound(v, U)
  BY <1>3, <1>4, <1>5, CommentSound DEF Good
<1> QED
  BY <1>2, <1>4, <1>6, ConcernKept DEF SameEdit, SameWatch, Keeps

LEMMA ComposerTyped ==
  ASSUME DashInv
  PROVE  /\ ui.comment \in Comment!Flow(Issues) /\ ui.draft \in BOOLEAN
         /\ ui.post \in Posts
         /\ ui.comment.kind # "Idle" => ui.draft
         /\ ui.post.state = "sent" => ui.watch.kind # "Submitting"
  BY DEF DashInv, Good, Sound, Uis, Posts, Drafted, Apart, WatchHeld

LEMMA CommentFlows ==
  ASSUME NEW issue \in Issues \cup {None}
  PROVE  /\ Comment!Confirming(issue) \in Comment!Flow(Issues)
         /\ \A g \in Nat : Comment!Posting(issue, g) \in Comment!Flow(Issues)
         /\ \A b \in BOOLEAN : Comment!Error(issue, b) \in Comment!Flow(Issues)
  BY DEF Comment!Confirming, Comment!Posting, Comment!Error, Comment!Idle,
         Comment!Flow, Comment!Kinds

LEMMA CommentTarget ==
  ASSUME DashInv
  PROVE  comment_target_issue(ui) \in Issues \cup {None}
  BY UiTyped DEF comment_target_issue, Lookups

LEMMA DraftSteps ==
  ASSUME DashInv, EditDraft \/ BeginCommentConfirmation \/ CancelCommentConfirmation
  PROVE  KeepsFlag
<1>1. Good(ui, unsettled) /\ ui \in Uis
  BY UiTyped
<1>2. CASE EditDraft
  <2>1. PICK c \in Comment!Flow(Issues) : c = Comment!clear_error_on_edit(ui.comment)
    BY ComposerTyped, CommentIdle DEF Comment!clear_error_on_edit
  <2>2. PICK d \in BOOLEAN : d = TRUE
    OBVIOUS
  <2>3. Keeps(ui, [ui EXCEPT !.draft = d, !.comment = c, !.post = ui.post], unsettled)
    BY <1>1, <2>1, <2>2, ComposerTyped, Composed
  <2>4. [ui EXCEPT !.draft = d, !.comment = c, !.post = ui.post]
          = [ui EXCEPT !.draft = TRUE, !.comment = Comment!clear_error_on_edit(@)]
    BY <1>1, <2>1, <2>2 DEF Uis
  <2> QED
    BY <1>2, <2>3, <2>4, SetsKeeps DEF EditDraft
<1>3. ASSUME NEW c \in Comment!Flow(Issues), c.kind # "Idle" => ui.draft,
             Sets([ui EXCEPT !.comment = c])
      PROVE  KeepsFlag
  <2>1. Keeps(ui, [ui EXCEPT !.draft = ui.draft, !.comment = c, !.post = ui.post], unsettled)
    BY <1>1, <1>3, ComposerTyped, Composed
  <2>2. [ui EXCEPT !.draft = ui.draft, !.comment = c, !.post = ui.post]
          = [ui EXCEPT !.comment = c]
    BY <1>1 DEF Uis
  <2> QED
    BY <1>3, <2>1, <2>2, SetsKeeps
<1>4. CASE BeginCommentConfirmation
  <2>1. PICK valid \in BOOLEAN :
          Sets([ui EXCEPT !.comment = Comment!begin_confirmation(
                              @, comment_target_issue(ui), valid)])
    BY <1>4 DEF BeginCommentConfirmation
  <2>2. PICK c \in Comment!Flow(Issues) :
          c = Comment!begin_confirmation(ui.comment, comment_target_issue(ui), valid)
    BY ComposerTyped, CommentTarget, CommentFlows DEF Comment!begin_confirmation
  <2> QED
    BY <1>3, <1>4, <2>1, <2>2 DEF BeginCommentConfirmation
<1>5. CASE CancelCommentConfirmation
  BY <1>3, <1>5, CommentIdle DEF CancelCommentConfirmation
<1> QED
  BY <1>2, <1>4, <1>5

LEMMA PostStep == ASSUME DashInv, PostComment PROVE KeepsFlag
<1>1. Good(ui, unsettled) /\ ui \in Uis
  BY UiTyped
<1>2. PICK target \in Issues \cup {None} : target = comment_target_issue(ui)
  BY CommentTarget
<1>3. PICK g \in Nat :
        g = Fresh(IF ui.post.state = "sent" THEN {ui.post.generation} ELSE {})
  <2>1. IsFiniteSet({ui.post.generation}) /\ IsFiniteSet({})
    BY FS_EmptySet, FS_Singleton, Zenon
  <2>2. IsFiniteSet(IF ui.post.state = "sent" THEN {ui.post.generation} ELSE {})
    BY <2>1
  <2> QED
    BY <2>2, FreshIsNew
<1>4. /\ ui.comment.kind = "Confirming" /\ ui.comment.issue = target
      /\ ui.watch.kind # "Submitting"
  BY <1>2 DEF PostComment, Comment!has_confirmation_for, writes_confirmed, Watch!is_submitting
<1>5. ui.draft
  BY <1>4, ComposerTyped
<1>6. CASE ui.workspace
  <2>1. PICK c \in Comment!Flow(Issues) : c = Comment!consume_submission(ui.comment, g)
    BY <1>4, CommentFlows DEF Comment!consume_submission
  <2>2. PICK p \in Posts : p = Post("sent", target, g)
    BY DEF Post, Posts
  <2>3. Keeps(ui, [ui EXCEPT !.draft = ui.draft, !.comment = c, !.post = p], unsettled)
    BY <1>1, <1>4, <1>5, ComposerTyped, Composed
  <2>4. [ui EXCEPT !.draft = ui.draft, !.comment = c, !.post = p]
          = [ui EXCEPT !.comment = c, !.post = p]
    BY <1>1 DEF Uis
  <2>5. Sets([ui EXCEPT !.comment = c, !.post = p])
    BY <1>2, <1>3, <1>6, <2>1, <2>2 DEF PostComment
  <2> QED
    BY <2>3, <2>4, <2>5, SetsKeeps
<1>7. CASE ~ui.workspace
  <2>1. PICK c \in Comment!Flow(Issues) : c = Comment!Error(target, FALSE)
    BY CommentFlows
  <2>2. Keeps(ui, [ui EXCEPT !.draft = ui.draft, !.comment = c, !.post = ui.post], unsettled)
    BY <1>1, <1>5, ComposerTyped, Composed
  <2>3. [ui EXCEPT !.draft = ui.draft, !.comment = c, !.post = ui.post]
          = [ui EXCEPT !.comment = c]
    BY <1>1 DEF Uis
  <2>4. Sets([ui EXCEPT !.comment = c])
    BY <1>2, <1>7, <2>1 DEF PostComment
  <2> QED
    BY <2>2, <2>3, <2>4, SetsKeeps
<1> QED
  BY <1>6, <1>7

LEMMA FinishCommentStep ==
  ASSUME DashInv, NEW outcome \in Outcomes, FinishComment(outcome)
  PROVE  KeepsFlag
<1>1. Good(ui, unsettled) /\ ui \in Uis
  BY UiTyped
<1>2. PICK c \in Comment!Flow(Issues) :
        /\ c = Comment!finish_submission(ui.comment, outcome)
        /\ outcome = "ok" => c.kind = "Idle"
  <2>1. ui.comment.issue \in Issues \cup {None}
    BY ComposerTyped DEF Comment!Flow
  <2> QED
    BY <2>1, CommentIdle, CommentFlows DEF Comment!finish_submission
<1>3. PICK p \in Posts : p = NoPost /\ p.state = "none"
  <2>1. NoPost \in Posts /\ NoPost.state = "none"
    BY DEF NoPost, Post, Posts
  <2> QED
    BY <2>1
<1>4. PICK done : done = [ui EXCEPT !.post = p, !.comment = c]
  OBVIOUS
<1>5. PICK clear : clear = [done EXCEPT !.draft = FALSE]
  OBVIOUS
<1>6. CASE ~Comment!is_current(ui.comment, ui.post, shown_for_comment(ui))
  <2>1. PICK q \in Posts : q = [ui.post EXCEPT !.state = "done"] /\ q.state = "done"
    <3>1. ui.post \in Posts
      BY ComposerTyped
    <3>2. /\ [ui.post EXCEPT !.state = "done"] \in Posts
          /\ [ui.post EXCEPT !.state = "done"].state = "done"
      BY <3>1 DEF Posts
    <3> QED
      BY <3>2
  <2>2. Keeps(ui, [ui EXCEPT !.draft = ui.draft, !.comment = ui.comment, !.post = q], unsettled)
    BY <1>1, <2>1, ComposerTyped, Composed
  <2>3. [ui EXCEPT !.draft = ui.draft, !.comment = ui.comment, !.post = q]
          = [ui EXCEPT !.post.state = "done"]
    BY <1>1, <2>1 DEF Uis
  <2>4. Sets([ui EXCEPT !.post.state = "done"])
    BY <1>6, Zenon DEF FinishComment
  <2> QED
    BY <2>2, <2>3, <2>4, SetsKeeps
<1>7. CASE /\ Comment!is_current(ui.comment, ui.post, shown_for_comment(ui))
           /\ outcome # "ok"
  <2>1. ui.draft
    BY <1>7, ComposerTyped DEF Comment!is_current
  <2>2. Keeps(ui, [ui EXCEPT !.draft = ui.draft, !.comment = c, !.post = p], unsettled)
    BY <1>1, <1>3, <2>1, ComposerTyped, Composed
  <2>3. [ui EXCEPT !.draft = ui.draft, !.comment = c, !.post = p] = done
    BY <1>1, <1>4 DEF Uis
  <2>4. Sets(done)
    BY <1>2, <1>3, <1>4, <1>7, Zenon DEF FinishComment
  <2> QED
    BY <2>2, <2>3, <2>4, SetsKeeps
<1>8. CASE /\ Comment!is_current(ui.comment, ui.post, shown_for_comment(ui))
           /\ outcome = "ok"
  <2>1. PICK d \in BOOLEAN : d = FALSE
    OBVIOUS
  <2>2. Keeps(ui, [ui EXCEPT !.draft = d, !.comment = c, !.post = p], unsettled)
    BY <1>1, <1>2, <1>3, <1>8, Composed
  <2>3. [ui EXCEPT !.draft = d, !.comment = c, !.post = p] = clear
    BY <1>1, <1>4, <1>5, <2>1 DEF Uis
  <2>4. Keeps(ui, search_jira(clear), unsettled)
        /\ Keeps(ui, reload_selected_detail(clear), unsettled)
    BY <2>2, <2>3, SearchJiraKeeps, ReloadDetail, KeepsTwice DEF Keeps
  <2>5. Sets(search_jira(clear)) \/ Sets(reload_selected_detail(clear))
    BY <1>2, <1>3, <1>4, <1>5, <1>8, Zenon DEF FinishComment
  <2> QED
    BY <2>4, <2>5, SetsKeeps
<1> QED
  BY <1>6, <1>7, <1>8

LEMMA RefreshCommentsStep == ASSUME DashInv, RefreshComments PROVE KeepsFlag
<1>1. Good(ui, unsettled) /\ ui \in Uis
  BY UiTyped
<1>2. PICK c \in Comment!Flow(Issues) :
        c = Comment!refreshed(ui.comment) /\ (c.kind # "Idle" => ui.draft)
  BY ComposerTyped, CommentIdle DEF Comment!refreshed
<1>3. PICK r : r = [ui EXCEPT !.comment = c]
  OBVIOUS
<1>4. Keeps(ui, [ui EXCEPT !.draft = ui.draft, !.comment = c, !.post = ui.post], unsettled)
  BY <1>1, <1>2, ComposerTyped, Composed
<1>5. [ui EXCEPT !.draft = ui.draft, !.comment = c, !.post = ui.post] = r
  BY <1>1, <1>3 DEF Uis
<1>6. Keeps(ui, search_jira(r), unsettled) /\ Keeps(ui, reload_selected_detail(r), unsettled)
  BY <1>4, <1>5, SearchJiraKeeps, ReloadDetail, KeepsTwice DEF Keeps
<1>7. Sets(search_jira(r)) \/ Sets(reload_selected_detail(r))
  BY <1>2, <1>3, Zenon DEF RefreshComments
<1> QED
  BY <1>6, <1>7, SetsKeeps

-----------------------------------------------------------------------------
(* Assignee and status *)

LEMMA TypeEditing ==
  ASSUME NEW u \in Uis, NEW f \in Edit!Flow(Issues), NEW b \in BOOLEAN,
         NEW l \in [issue : Issues, generation : Nat] \cup {None}
  PROVE  [u EXCEPT !.edit = f, !.edit_load = l, !.popover = b] \in Uis
  BY ZenonT(60) DEF Uis

\* What the flow may become as long as nothing is being written.
LEMMA Edited ==
  ASSUME NEW u, NEW U, Good(u, U), u.edit.kind # "Submitting",
         NEW f \in Edit!Flow(Issues), NEW l \in Reads \cup {None}, NEW b \in BOOLEAN,
         f.kind # "Submitting", f.kind # "Idle" => f.issue # None,
         f.issue \in {None, u.edit.issue, u.selected},
         f.invalidated = u.edit.invalidated, f.last = u.edit.last
  PROVE  Good([u EXCEPT !.edit = f, !.edit_load = l, !.popover = b], U)
<1>1. u \in Uis
  BY DEF Good, Sound
<1>2. PICK v : v = [u EXCEPT !.edit = f, !.edit_load = l, !.popover = b]
  OBVIOUS
<1>3. v \in Uis
  <2>1. [u EXCEPT !.edit = f, !.edit_load = l, !.popover = b] \in Uis
    BY <1>1, TypeEditing DEF Reads
  <2> QED
    BY <1>2, <2>1
<1>4. /\ v.edit = f /\ v.selected = u.selected
      /\ Steady(u, v) /\ SameComment(u, v) /\ SameWatch(u, v)
  BY <1>1, <1>2 DEF Uis, Steady, SameComment, SameWatch
<1>5. EditHeld(v)
  BY <1>4 DEF Good, Sound, EditHeld, Steady
<1>6. Sound(v, U)
  BY <1>3, <1>4, <1>5, EditSound DEF Good
<1> QED
  BY <1>2, <1>4, <1>6, ConcernKept DEF SameWatch

LEMMA EditTyped ==
  ASSUME NEW u, NEW U, Good(u, U)
  PROVE  /\ u \in Uis /\ u.edit \in Edit!Flow(Issues) /\ u.edit.issue \in Issues \cup {None}
         /\ u.edit_load \in Reads \cup {None} /\ u.popover \in BOOLEAN
         /\ u.selected \in Issues \cup {None}
         /\ u.edit.kind # "Idle" => u.edit.issue # None
         /\ u.edit.kind = "Submitting" => ~u.popover
  BY DEF Good, Sound, Uis, EditHeld, Edit!Flow, Reads

\* The read of the assignees is given up.
LEMMA LoadDropped ==
  ASSUME NEW u, NEW U, Good(u, U), u.edit.kind # "Submitting"
  PROVE  LET d == [u EXCEPT !.edit_load = None]
         IN  Good(d, U) /\ d.edit = u.edit /\ Fresh(edit_generations(d)) \in Nat
<1>1. /\ u \in Uis /\ u.edit \in Edit!Flow(Issues) /\ u.popover \in BOOLEAN
      /\ u.edit.kind # "Idle" => u.edit.issue # None
  BY EditTyped
<1>2. PICK d : d = [u EXCEPT !.edit_load = None]
  OBVIOUS
<1>3. d = [u EXCEPT !.edit = u.edit, !.edit_load = None, !.popover = u.popover]
  BY <1>1, <1>2 DEF Uis
<1>4. Good([u EXCEPT !.edit = u.edit, !.edit_load = None, !.popover = u.popover], U)
  BY <1>1, Edited
<1>5. Good(d, U) /\ d.edit = u.edit
  BY <1>1, <1>2, <1>3, <1>4 DEF Uis
<1>6. Fresh(edit_generations(d)) \in Nat
  BY <1>5, FreshEdit DEF Good
<1> QED
  BY <1>2, <1>5, <1>6

\* A flow at another kind, with a new generation.
LEMMA EditAtBumped ==
  ASSUME NEW f \in Edit!Flow(Issues), NEW k \in Edit!Kinds, NEW i \in Issues \cup {None},
         NEW g \in Nat
  PROVE  /\ Edit!Bumped(Edit!At(f, k, i), g) \in Edit!Flow(Issues)
         /\ Edit!Bumped(Edit!At(f, k, i), g).kind = k
         /\ Edit!Bumped(Edit!At(f, k, i), g).issue = i
         /\ Edit!Bumped(Edit!At(f, k, i), g).invalidated = f.invalidated
         /\ Edit!Bumped(Edit!At(f, k, i), g).last = f.last
<1>1. PICK a : a = Edit!At(f, k, i)
  OBVIOUS
<1>2. /\ a \in Edit!Flow(Issues) /\ a.kind = k /\ a.issue = i
      /\ a.invalidated = f.invalidated /\ a.last = f.last
  BY <1>1, EditAt
<1>3. PICK h : h = Edit!Bumped(a, g)
  OBVIOUS
<1>4. /\ h \in Edit!Flow(Issues) /\ h.kind = k /\ h.issue = i
      /\ h.invalidated = f.invalidated /\ h.last = f.last
  BY <1>2, <1>3, EditBumped
<1> QED
  BY <1>1, <1>3, <1>4

LEMMA AssigneeSearch ==
  ASSUME NEW u, NEW U, Good(u, U), u.edit.kind # "Submitting",
         NEW issue \in Issues, issue \in {u.edit.issue, u.selected}
  PROVE  Good(start_assignee_search(u, issue), U)
<1>1. PICK d : d = [u EXCEPT !.edit_load = None]
  OBVIOUS
<1>2. Good(d, U) /\ d.edit = u.edit /\ Fresh(edit_generations(d)) \in Nat
  BY <1>1, LoadDropped
<1>3. PICK g \in Nat : g = Fresh(edit_generations(d))
  BY <1>2
<1>4. PICK f : f = Edit!begin_assignee_loading(d.edit, issue, g)
  OBVIOUS
<1>5. /\ u \in Uis /\ u.edit \in Edit!Flow(Issues) /\ u.popover \in BOOLEAN
  BY EditTyped
<1>6. /\ f \in Edit!Flow(Issues) /\ f.kind = "LoadingAssignees" /\ f.issue = issue
      /\ f.invalidated = u.edit.invalidated /\ f.last = u.edit.last
  <2>1. "LoadingAssignees" \in Edit!Kinds /\ issue \in Issues \cup {None}
    BY EditKindsHold
  <2> QED
    BY <1>2, <1>4, <1>5, <2>1, EditAtBumped DEF Edit!begin_assignee_loading
<1>7. PICK r \in Reads : r = Read(issue, g)
  BY DEF Read, Reads
<1>8. issue # None
  BY DashboardAssumption
<1>9. Good([u EXCEPT !.edit = f, !.edit_load = r, !.popover = u.popover], U)
  BY <1>5, <1>6, <1>8, Edited
<1>10. start_assignee_search(u, issue) = [d EXCEPT !.edit = f, !.edit_load = r]
  BY <1>1, <1>3, <1>4, <1>7 DEF start_assignee_search
<1>11. [d EXCEPT !.edit = f, !.edit_load = r]
         = [u EXCEPT !.edit = f, !.edit_load = r, !.popover = u.popover]
  BY <1>1, <1>5 DEF Uis
<1> QED
  BY <1>9, <1>10, <1>11

LEMMA SearchAssigneeSteps ==
  ASSUME DashInv, BeginAssigneeChooser \/ SearchAssignees
  PROVE  DashInv'
<1>1. Good(ui, unsettled)
  BY UiTyped
<1>2. CASE BeginAssigneeChooser
  <2>1. ui.selected \in Issues /\ ui.edit.kind # "Submitting"
    BY <1>2, UiTyped DEF BeginAssigneeChooser, edit_controls_shown
  <2>2. Good(start_assignee_search(ui, ui.selected), unsettled)
    BY <1>1, <2>1, AssigneeSearch
  <2> QED
    BY <1>2, <2>2, SetsInv DEF BeginAssigneeChooser
<1>3. CASE SearchAssignees
  <2>1. ui.edit.issue \in Issues /\ ui.edit.kind # "Submitting"
    BY <1>1, <1>3, EditTyped DEF SearchAssignees
  <2>2. Good(start_assignee_search(ui, ui.edit.issue), unsettled)
    BY <1>1, <2>1, AssigneeSearch
  <2> QED
    BY <1>3, <2>2, SetsInv DEF SearchAssignees
<1> QED
  BY <1>2, <1>3

\* The generation of the read tells that the flow did not move on to a write.
LEMMA FinishAssigneesStep == ASSUME DashInv, FinishAssigneeLoading PROVE DashInv'
<1>1. /\ Good(ui, unsettled) /\ ui \in Uis /\ ui.edit \in Edit!Flow(Issues)
      /\ ui.edit_load \in Reads /\ ui.popover \in BOOLEAN
  BY UiTyped, EditTyped DEF FinishAssigneeLoading
<1>2. PICK ok \in BOOLEAN :
        Sets(IF Edit!target_is_current(ui.edit, ui.edit_load, ui.selected)
             THEN [ui EXCEPT !.edit = Edit!finish_assignee_loading(@, ui.edit_load, ok),
                             !.edit_load = None]
             ELSE [ui EXCEPT !.edit_load = None])
  BY DEF FinishAssigneeLoading
<1>3. CASE Edit!target_is_current(ui.edit, ui.edit_load, ui.selected)
  <2>1. ui.selected = ui.edit_load.issue /\ ui.edit.generation = ui.edit_load.generation
    BY <1>3 DEF Edit!target_is_current
  <2>2. ui.edit_load.issue \in Issues /\ ui.edit_load # None
    BY <1>1, DashboardAssumption DEF Reads, FinishAssigneeLoading
  <2>3. ui.edit.kind # "Submitting"
    BY <1>1, <2>1, <2>2 DEF Good, Sound, EditHeld
  <2>4. PICK k \in Edit!Kinds : /\ k = IF ok THEN "AssigneeChooser" ELSE "Error"
                                /\ k # "Submitting"
    BY EditKindsHold
  <2>5. PICK i \in Issues \cup {None} : i = ui.edit_load.issue /\ i # None
    BY <2>2, DashboardAssumption
  <2>6. PICK f : f = Edit!At(ui.edit, k, i)
    OBVIOUS
  <2>7. /\ f \in Edit!Flow(Issues) /\ f.kind = k /\ f.issue = i
        /\ f.invalidated = ui.edit.invalidated /\ f.last = ui.edit.last
    BY <1>1, <2>6, EditAt
  <2>8. f = Edit!finish_assignee_loading(ui.edit, ui.edit_load, ok)
    BY <2>4, <2>5, <2>6 DEF Edit!finish_assignee_loading
  <2>9. Good([ui EXCEPT !.edit = f, !.edit_load = None, !.popover = ui.popover], unsettled)
    BY <1>1, <2>1, <2>3, <2>4, <2>5, <2>7, Edited
  <2>10. [ui EXCEPT !.edit = f, !.edit_load = None, !.popover = ui.popover]
           = [ui EXCEPT !.edit = f, !.edit_load = None]
    BY <1>1 DEF Uis
  <2>11. Sets([ui EXCEPT !.edit = f, !.edit_load = None])
    BY <1>2, <1>3, <2>8
  <2> QED
    BY <2>9, <2>10, <2>11, SetsInv
<1>4. CASE ~Edit!target_is_current(ui.edit, ui.edit_load, ui.selected)
  <2>1. PICK d : d = [ui EXCEPT !.edit_load = None]
    OBVIOUS
  <2>2. d \in Uis
    <3>1. [ui EXCEPT !.edit_load = None] \in Uis
      BY <1>1 DEF Uis
    <3> QED
      BY <2>1, <3>1
  <2>3. /\ d.edit = ui.edit /\ d.edit_load = None /\ d.popover = ui.popover
        /\ d.selected = ui.selected
        /\ Steady(ui, d) /\ SameComment(ui, d) /\ SameWatch(ui, d)
    BY <1>1, <2>1 DEF Uis, Steady, SameComment, SameWatch
  <2>4. EditHeld(d)
    BY <1>1, <2>3 DEF Good, Sound, EditHeld, Steady
  <2>5. Sound(d, unsettled)
    BY <1>1, <2>2, <2>3, <2>4, EditSound DEF Good
  <2>6. Good(d, unsettled)
    BY <1>1, <2>3, <2>5, ConcernKept DEF SameWatch
  <2> QED
    BY <1>2, <1>4, <2>1, <2>6, SetsInv
<1> QED
  BY <1>3, <1>4

LEMMA ChooseAssigneeStep == ASSUME DashInv, ChooseAssignee PROVE DashInv'
<1>1. /\ Good(ui, unsettled) /\ ui \in Uis /\ ui.edit \in Edit!Flow(Issues)
      /\ ui.edit.issue \in Issues \cup {None} /\ ui.popover \in BOOLEAN
      /\ ui.edit.kind = "AssigneeChooser" /\ ui.edit.issue # None
  BY UiTyped, EditTyped DEF ChooseAssignee
<1>2. PICK g \in Nat : g = Fresh(edit_generations([ui EXCEPT !.edit_load = None]))
  BY <1>1, LoadDropped
<1>3. PICK f : f = Edit!choose_assignee(ui.edit, g)
  OBVIOUS
<1>4. /\ f \in Edit!Flow(Issues) /\ f.kind = "ConfirmingAssignee" /\ f.issue = ui.edit.issue
      /\ f.invalidated = ui.edit.invalidated /\ f.last = ui.edit.last
  BY <1>1, <1>3, EditKindsHold, EditAtBumped DEF Edit!choose_assignee
<1>5. Good([ui EXCEPT !.edit = f, !.edit_load = None, !.popover = ui.popover], unsettled)
  BY <1>1, <1>4, Edited
<1>6. [ui EXCEPT !.edit = f, !.edit_load = None, !.popover = ui.popover]
        = [ui EXCEPT !.edit = f, !.edit_load = None]
  BY <1>1 DEF Uis
<1>7. Sets([ui EXCEPT !.edit = f, !.edit_load = None])
  BY <1>2, <1>3 DEF ChooseAssignee
<1> QED
  BY <1>5, <1>6, <1>7, SetsInv

LEMMA PopoverSteps ==
  ASSUME DashInv, OpenStatusPopover \/ CloseStatusPopover
  PROVE  DashInv'
<1>1. /\ Good(ui, unsettled) /\ ui \in Uis /\ ui.edit \in Edit!Flow(Issues)
      /\ ui.edit.kind # "Submitting" /\ ui.edit_load \in Reads \cup {None}
      /\ ui.edit.kind # "Idle" => ui.edit.issue # None
  BY UiTyped, EditTyped DEF OpenStatusPopover, CloseStatusPopover, status_control_is_editable
<1>2. \A b \in BOOLEAN : Good([ui EXCEPT !.popover = b], unsettled)
  <2> SUFFICES ASSUME NEW b \in BOOLEAN PROVE Good([ui EXCEPT !.popover = b], unsettled)
    OBVIOUS
  <2>1. Good([ui EXCEPT !.edit = ui.edit, !.edit_load = ui.edit_load, !.popover = b], unsettled)
    BY <1>1, Edited
  <2>2. [ui EXCEPT !.edit = ui.edit, !.edit_load = ui.edit_load, !.popover = b]
          = [ui EXCEPT !.popover = b]
    BY <1>1 DEF Uis
  <2> QED
    BY <2>1, <2>2
<1>3. Sets([ui EXCEPT !.popover = TRUE]) \/ Sets([ui EXCEPT !.popover = FALSE])
  BY DEF OpenStatusPopover, CloseStatusPopover
<1> QED
  BY <1>2, <1>3, SetsInv

\* The list of transitions is never open over a write.
LEMMA ChooseTransitionStep == ASSUME DashInv, ChooseTransition PROVE DashInv'
<1>1. /\ Good(ui, unsettled) /\ ui \in Uis /\ ui.edit \in Edit!Flow(Issues)
      /\ ui.edit.kind # "Submitting" /\ ui.edit_load \in Reads \cup {None}
      /\ ui.selected \in Issues \cup {None} /\ ui.selected # None
  BY UiTyped, EditTyped DEF ChooseTransition, known
<1>2. PICK g \in Nat : g = Fresh(edit_generations(ui))
  BY <1>1, FreshEdit DEF Good
<1>3. PICK f : f = Edit!begin_transition_confirmation(ui.edit, ui.selected, g)
  OBVIOUS
<1>4. /\ f \in Edit!Flow(Issues) /\ f.kind = "ConfirmingTransition" /\ f.issue = ui.selected
      /\ f.invalidated = ui.edit.invalidated /\ f.last = ui.edit.last
  BY <1>1, <1>3, EditKindsHold, EditAtBumped DEF Edit!begin_transition_confirmation
<1>5. Good([ui EXCEPT !.edit = f, !.edit_load = ui.edit_load, !.popover = FALSE], unsettled)
  BY <1>1, <1>4, Edited
<1>6. [ui EXCEPT !.edit = f, !.edit_load = ui.edit_load, !.popover = FALSE]
        = [ui EXCEPT !.popover = FALSE, !.edit = f]
  BY <1>1 DEF Uis
<1>7. Sets([ui EXCEPT !.popover = FALSE, !.edit = f])
  BY <1>2, <1>3 DEF ChooseTransition
<1> QED
  BY <1>5, <1>6, <1>7, SetsInv

LEMMA CancelEditStep == ASSUME DashInv, CancelIssueEdit PROVE DashInv'
<1>1. /\ Good(ui, unsettled) /\ ui \in Uis /\ ui.edit \in Edit!Flow(Issues)
      /\ ui.edit.kind # "Submitting" /\ ui.popover \in BOOLEAN
  BY UiTyped, EditTyped DEF CancelIssueEdit, Edit!Confirmations
<1>2. PICK d : d = [ui EXCEPT !.edit_load = None]
  OBVIOUS
<1>3. d.edit = ui.edit /\ Fresh(edit_generations(d)) \in Nat
  BY <1>1, <1>2, LoadDropped
<1>4. PICK g \in Nat : g = Fresh(edit_generations(d))
  BY <1>3
<1>5. PICK a : a = Edit!Bumped(Edit!At(ui.edit, "Idle", None), g)
  OBVIOUS
<1>6. /\ a \in Edit!Flow(Issues) /\ a.kind = "Idle" /\ a.issue = None
      /\ a.invalidated = ui.edit.invalidated /\ a.last = ui.edit.last
  <2>1. "Idle" \in Edit!Kinds /\ None \in Issues \cup {None}
    BY EditKindsHold
  <2> QED
    BY <1>1, <1>5, <2>1, EditAtBumped
<1>7. Edit!invalidate_selection(ui.edit, g) = a
  <2>1. Edit!invalidate_selection(ui.edit, g) = [a EXCEPT !.invalidated = a.invalidated]
    BY <1>1, <1>5 DEF Edit!invalidate_selection, Edit!is_submitting
  <2> QED
    BY <1>6, <2>1 DEF Edit!Flow
<1>8. Good([ui EXCEPT !.edit = a, !.edit_load = None, !.popover = ui.popover], unsettled)
  BY <1>1, <1>6, Edited
<1>9. [ui EXCEPT !.edit = a, !.edit_load = None, !.popover = ui.popover]
        = [d EXCEPT !.edit = a]
  BY <1>1, <1>2 DEF Uis
<1>10. Sets([d EXCEPT !.edit = Edit!invalidate_selection(@, g)])
  BY <1>2, <1>4 DEF CancelIssueEdit
<1>11. Sets([d EXCEPT !.edit = a])
  BY <1>3, <1>7, <1>10
<1> QED
  BY <1>8, <1>9, <1>11, SetsInv

LEMMA TransitionListSteps ==
  ASSUME DashInv, ChooseTransitionAgain \/ RetryTransitions
  PROVE  KeepsFlag
  BY UiTyped, ReloadTransitions, BesideStep DEF ChooseTransitionAgain, RetryTransitions

LEMMA TypeWriting ==
  ASSUME NEW u \in Uis, NEW f \in Edit!Flow(Issues), NEW b \in BOOLEAN,
         NEW w \in SUBSET Edit!Identity(Issues)
  PROVE  [u EXCEPT !.edit = f, !.busy = b, !.edit_writes = w] \in Uis
  BY DEF Uis

LEMMA EditSubmitted ==
  ASSUME NEW f \in Edit!Flow(Issues), f.issue \in Issues, NEW g \in Nat
  PROVE  /\ Edit!consume_submission(f, g) \in Edit!Flow(Issues)
         /\ Edit!consume_submission(f, g).kind = "Submitting"
         /\ Edit!consume_submission(f, g).issue = f.issue
         /\ Edit!consume_submission(f, g).generation = g
         /\ Edit!identity(Edit!consume_submission(f, g)) \in Edit!Identity(Issues)
         /\ Edit!consume_submission(f, g).last
              = Edit!identity(Edit!consume_submission(f, g))
<1>1. PICK b : b = Edit!Bumped(Edit!At(f, "Submitting", f.issue), g)
  OBVIOUS
<1>2. b \in Edit!Flow(Issues) /\ b.kind = "Submitting" /\ b.issue = f.issue
      /\ b.generation = g
  <2>1. "Submitting" \in Edit!Kinds /\ f.issue \in Issues \cup {None}
    BY EditKindsHold
  <2>2. PICK a : a = Edit!At(f, "Submitting", f.issue)
    OBVIOUS
  <2>3. a \in Edit!Flow(Issues) /\ a.kind = "Submitting" /\ a.issue = f.issue
    BY <2>1, <2>2, EditAt
  <2> QED
    BY <1>1, <2>2, <2>3, EditBumped
<1>3. PICK o \in Edit!Operations :
        o = IF f.kind = "ConfirmingAssignee" THEN "Assignee" ELSE "Transition"
  BY DEF Edit!Operations
<1>4. PICK n : n = [b EXCEPT !.operation = o]
  OBVIOUS
<1>5. /\ n \in Edit!Flow(Issues) /\ n.kind = "Submitting" /\ n.issue = f.issue
      /\ n.generation = g /\ n.operation = o
  <2>1. [b EXCEPT !.operation = o] \in Edit!Flow(Issues)
    BY <1>2 DEF Edit!Flow
  <2> QED
    BY <1>2, <1>4, <2>1 DEF Edit!Flow
<1>6. PICK i : i = Edit!identity(n)
  OBVIOUS
<1>7. i \in Edit!Identity(Issues)
  BY <1>5, <1>6 DEF Edit!identity, Edit!Identity
<1>8. PICK h : h = [n EXCEPT !.last = i]
  OBVIOUS
<1>9. /\ h \in Edit!Flow(Issues) /\ h.kind = n.kind /\ h.issue = n.issue
      /\ h.generation = n.generation /\ h.operation = n.operation /\ h.last = i
  <2>1. [n EXCEPT !.last = i] \in Edit!Flow(Issues)
    BY <1>5, <1>7 DEF Edit!Flow
  <2> QED
    BY <1>5, <1>8, <2>1 DEF Edit!Flow
<1>10. Edit!identity(h) = i
  BY <1>6, <1>9 DEF Edit!identity
<1>11. Edit!consume_submission(f, g) = h
  BY <1>1, <1>3, <1>4, <1>6, <1>8 DEF Edit!consume_submission
<1> QED
  BY <1>5, <1>7, <1>9, <1>10, <1>11

\* Nothing else is under way when a write is sent.
LEMMA SubmitEditStep == ASSUME DashInv, ~ui.popover, SubmitEdit PROVE DashInv'
<1>1. /\ Good(ui, unsettled) /\ ui \in Uis /\ ui.edit \in Edit!Flow(Issues)
      /\ ui.edit.issue \in Issues
      /\ ui.workspace /\ ~ui.busy
  BY UiTyped, EditTyped DEF SubmitEdit, Edit!Confirmations, edit_controls_shown
<1>2. ui.jobs = {} /\ ui.edit_writes = {} /\ ui.watch_write = None
  BY <1>1 DEF Good, Sound, OneHolder
<1>3. PICK g \in Nat : /\ g = Fresh(edit_generations(ui))
                       /\ ui.edit_load # None => ui.edit_load.generation # g
  BY <1>1, FreshEdit DEF Good
<1>4. PICK f : f = Edit!consume_submission(ui.edit, g)
  OBVIOUS
<1>5. /\ f \in Edit!Flow(Issues) /\ f.kind = "Submitting" /\ f.issue = ui.edit.issue
      /\ f.generation = g /\ Edit!identity(f) \in Edit!Identity(Issues)
      /\ f.last = Edit!identity(f)
  BY <1>1, <1>4, EditSubmitted
<1>6. PICK w \in SUBSET Edit!Identity(Issues) :
        w = ui.edit_writes \cup {Edit!identity(f)} /\ w = {Edit!identity(f)}
  BY <1>2, <1>5
<1>7. PICK v : v = [ui EXCEPT !.edit = f, !.busy = TRUE, !.edit_writes = w]
  OBVIOUS
<1>8. v \in Uis
  BY <1>1, <1>5, <1>7, TypeWriting
<1>9. /\ v.edit = f /\ v.busy = TRUE /\ v.edit_writes = w
      /\ v.workspace = ui.workspace /\ v.jobs = ui.jobs /\ v.watch_write = ui.watch_write
      /\ v.edit_load = ui.edit_load /\ v.popover = ui.popover /\ v.selected = ui.selected
      /\ SameComment(ui, v) /\ SameWatch(ui, v)
  BY <1>1, <1>7 DEF Uis, SameComment, SameWatch
<1>10. OneHolder(v) /\ WritesHaveWorkspace(v)
  BY <1>1, <1>2, <1>6, <1>9 DEF OneHolder, WritesHaveWorkspace
<1>11. EditHeld(v)
  BY <1>1, <1>3, <1>5, <1>6, <1>9, DashboardAssumption DEF EditHeld
<1>12. Sound(v, unsettled)
  BY <1>1, <1>8, <1>9, <1>10, <1>11
     DEF Good, Sound, SameComment, SameWatch, WatchHeld, Drafted, Apart, Reconciled,
         Watch!identity
<1>13. Concerned(v)
  BY <1>1, <1>5, <1>9 DEF Good, Concerned, Alive, SameWatch
<1>14. Sets(v)
  BY <1>3, <1>4, <1>6, <1>7 DEF SubmitEdit
<1> QED
  BY <1>12, <1>13, <1>14, SetsInv DEF Good

\* The flow owns the write it is submitting, and any other one is among the
\* invalidated ones, the last it sent: both give the flag back.
LEMMA EditReleases ==
  ASSUME NEW u, NEW U, Good(u, U), NEW write \in u.edit_writes
  PROVE  /\ Edit!releases_busy(u.edit, write, u.selected)
         /\ u.edit.kind = "Submitting" <=> Edit!owns_write(u.edit, write, u.selected)
         /\ u.edit.kind = "Submitting" => u.selected = write.issue
<1>1. u.edit_writes = {write} /\ u.workspace
  BY DEF Good, Sound, OneHolder, WritesHaveWorkspace
<1>2. CASE u.edit.kind = "Submitting"
  <2>1. Edit!identity(u.edit) = write
    BY <1>1, <1>2 DEF Good, Sound, EditHeld
  <2>2. u.edit.issue = u.selected
    BY <1>1, <1>2 DEF Good, Sound, EditHeld, Concerned, Alive
  <2>3. u.selected = write.issue
    BY <2>1, <2>2 DEF Edit!identity
  <2> QED
    BY <1>2, <2>1, <2>3 DEF Edit!releases_busy, Edit!owns_write, Edit!is_submitting
<1>3. CASE u.edit.kind # "Submitting"
  <2>1. write \in u.edit.invalidated /\ u.edit.last \in {None, write}
    BY <1>1, <1>3 DEF Good, Sound, EditHeld
  <2> QED
    BY <1>3, <2>1 DEF Edit!releases_busy, Edit!owns_write, Edit!is_submitting
<1> QED
  BY <1>2, <1>3

LEMMA EditError ==
  ASSUME NEW f \in Edit!Flow(Issues), NEW issue \in Issues \cup {None}
  PROVE  /\ Edit!At(f, "Error", issue) \in Edit!Flow(Issues)
         /\ Edit!At(f, "Error", issue).kind = "Error"
         /\ Edit!At(f, "Error", issue).issue = issue
<1>1. "Error" \in Edit!Kinds
  BY EditKindsHold
<1> QED
  BY <1>1, EditAt

LEMMA EditFinished ==
  ASSUME NEW f \in Edit!Flow(Issues), NEW write \in Edit!Identity(Issues), NEW selected,
         NEW outcome \in Outcomes
  PROVE  LET h == Edit!finish_write(f, write, selected, outcome)
         IN  /\ h \in Edit!Flow(Issues)
             /\ Edit!owns_write(f, write, selected) =>
                   h.kind # "Submitting" /\ (h.kind # "Idle" => h.issue = write.issue)
                   /\ h.issue \in {None, write.issue}
             /\ ~Edit!owns_write(f, write, selected) => h.kind = f.kind /\ h.issue = f.issue
<1>1. CASE Edit!owns_write(f, write, selected) /\ outcome = "ok"
  <2>1. Edit!finish_write(f, write, selected, outcome) = Edit!At(f, "Idle", None)
    BY <1>1 DEF Edit!finish_write
  <2>2. "Idle" \in Edit!Kinds /\ None \in Issues \cup {None}
    BY EditKindsHold
  <2> QED
    BY <1>1, <2>1, <2>2, EditAt
<1>2. CASE Edit!owns_write(f, write, selected) /\ outcome # "ok"
  <2>1. write.issue \in Issues \cup {None} /\ write.operation \in Edit!Operations
    BY DEF Edit!Identity
  <2>2. PICK a : a = Edit!At(f, "Error", write.issue)
    OBVIOUS
  <2>3. a \in Edit!Flow(Issues) /\ a.kind = "Error" /\ a.issue = write.issue
    BY <2>1, <2>2, EditError
  <2>4. PICK b \in BOOLEAN : b = (outcome = "unknown")
    OBVIOUS
  <2>5. Edit!finish_write(f, write, selected, outcome)
          = [a EXCEPT !.operation = write.operation, !.unknown = b]
    BY <1>2, <2>2, <2>4 DEF Edit!finish_write
  <2>6. [a EXCEPT !.operation = write.operation, !.unknown = b] \in Edit!Flow(Issues)
    BY <2>1, <2>3 DEF Edit!Flow
  <2>7. /\ [a EXCEPT !.operation = write.operation, !.unknown = b].kind = "Error"
        /\ [a EXCEPT !.operation = write.operation, !.unknown = b].issue = write.issue
    BY <2>3 DEF Edit!Flow
  <2> QED
    BY <1>2, <2>5, <2>6, <2>7
<1>3. CASE ~Edit!owns_write(f, write, selected)
  <2>1. PICK i \in SUBSET Edit!Identity(Issues) : i = f.invalidated \ {write}
    BY DEF Edit!Flow
  <2>2. Edit!finish_write(f, write, selected, outcome) = [f EXCEPT !.invalidated = i]
    BY <1>3, <2>1 DEF Edit!finish_write
  <2>3. [f EXCEPT !.invalidated = i] \in Edit!Flow(Issues)
    BY DEF Edit!Flow
  <2>4. [f EXCEPT !.invalidated = i].kind = f.kind /\ [f EXCEPT !.invalidated = i].issue = f.issue
    BY DEF Edit!Flow
  <2> QED
    BY <1>3, <2>2, <2>3, <2>4
<1> QED
  BY <1>1, <1>2, <1>3

LEMMA FinishEditStep ==
  ASSUME DashInv, NEW write \in ui.edit_writes, NEW outcome \in Outcomes,
         FinishEdit(write, outcome)
  PROVE  DashInv'
<1>1. /\ Good(ui, unsettled) /\ ui \in Uis /\ ui.edit \in Edit!Flow(Issues)
  BY UiTyped, EditTyped
<1>2. /\ ui.busy /\ ui.jobs = {} /\ ui.edit_writes = {write} /\ ui.watch_write = None
      /\ ui.workspace
  BY <1>1 DEF Good, Sound, OneHolder, WritesHaveWorkspace
<1>3. write \in Edit!Identity(Issues)
  BY <1>1 DEF Uis
<1>4. /\ Edit!releases_busy(ui.edit, write, ui.selected)
      /\ ui.edit.kind = "Submitting" <=> Edit!owns_write(ui.edit, write, ui.selected)
      /\ ui.edit.kind = "Submitting" => ui.selected = write.issue
  BY <1>1, EditReleases
<1>5. PICK f : f = Edit!finish_write(ui.edit, write, ui.selected, outcome)
  OBVIOUS
<1>6. /\ f \in Edit!Flow(Issues)
      /\ Edit!owns_write(ui.edit, write, ui.selected) =>
            f.kind # "Submitting" /\ (f.kind # "Idle" => f.issue = write.issue)
            /\ f.issue \in {None, write.issue}
      /\ ~Edit!owns_write(ui.edit, write, ui.selected) =>
            f.kind = ui.edit.kind /\ f.issue = ui.edit.issue
  BY <1>1, <1>3, <1>5, EditFinished
<1>7. PICK b \in BOOLEAN :
        /\ b = (ui.busy /\ ~Edit!releases_busy(ui.edit, write, ui.selected))
        /\ b = FALSE
  BY <1>4
<1>8. PICK w \in SUBSET Edit!Identity(Issues) : w = ui.edit_writes \ {write} /\ w = {}
  BY <1>2
<1>9. PICK v : v = [ui EXCEPT !.edit = f, !.busy = b, !.edit_writes = w]
  OBVIOUS
<1>10. v \in Uis
  BY <1>1, <1>6, <1>9, TypeWriting
<1>11. /\ v.edit = f /\ v.busy = FALSE /\ v.edit_writes = {}
       /\ v.workspace = ui.workspace /\ v.jobs = ui.jobs /\ v.watch_write = ui.watch_write
       /\ v.selected = ui.selected
       /\ SameComment(ui, v) /\ SameWatch(ui, v)
  BY <1>1, <1>7, <1>8, <1>9 DEF Uis, SameComment, SameWatch
<1>12. f.kind # "Submitting" /\ (f.kind # "Idle" => f.issue # None)
  <2>1. write.issue # None
    BY <1>3, DashboardAssumption DEF Edit!Identity
  <2> QED
    BY <1>1, <1>4, <1>6, <2>1 DEF Good, Sound, EditHeld
<1>13. OneHolder(v) /\ WritesHaveWorkspace(v) /\ EditHeld(v)
  BY <1>2, <1>11, <1>12 DEF OneHolder, WritesHaveWorkspace, EditHeld
<1>14. Sound(v, unsettled)
  BY <1>1, <1>10, <1>11, <1>13
     DEF Good, Sound, SameComment, SameWatch, WatchHeld, Drafted, Apart, Reconciled,
         Watch!identity
<1>15. Concerned(v)
  BY <1>1, <1>4, <1>6, <1>11 DEF Good, Concerned, Alive, SameWatch
<1>16. Good(v, unsettled) /\ Good(refresh_begun(v), unsettled)
  BY <1>14, <1>15, RefreshBegun DEF Good
<1>17. v = [ui EXCEPT
              !.edit_writes = @ \ {write},
              !.busy = @ /\ ~Edit!releases_busy(ui.edit, write, ui.selected),
              !.edit = Edit!finish_write(@, write, ui.selected, outcome)]
  BY <1>5, <1>7, <1>8, <1>9
<1>18. Sets(v) \/ Sets(refresh_begun(v))
  BY <1>17, Zenon DEF FinishEdit
<1> QED
  BY <1>16, <1>18, SetsInv

-----------------------------------------------------------------------------
(* Watching *)

LEMMA TypeWatching ==
  ASSUME NEW u \in Uis, NEW f \in Watch!Flow(Issues), NEW b \in BOOLEAN,
         NEW r \in [issue : Issues, generation : Nat] \cup {None}
  PROVE  [u EXCEPT !.watch = f, !.watch_read = r, !.watch_confirm_after_read = b] \in Uis
  BY ZenonT(60) DEF Uis

LEMMA WatchIdle ==
  ASSUME NEW f \in Watch!Flow(Issues)
  PROVE  /\ Watch!At(f, "Idle", None, 0) \in Watch!Flow(Issues)
         /\ Watch!At(f, "Idle", None, 0).kind = "Idle"
         /\ Watch!At(f, "Idle", None, 0).issue = None
<1>1. "Idle" \in Watch!Kinds /\ None \in Issues \cup {None} /\ 0 \in Nat
  BY WatchKindsHold
<1> QED
  BY <1>1, WatchAt

\* What the flow may become as long as no watch change is under way, W being
\* the issues whose last change has no known outcome.
LEMMA Watched ==
  ASSUME NEW u, NEW U, Good(u, U), u.watch.kind # "Submitting", NEW W,
         NEW f \in Watch!Flow(Issues), NEW r \in Reads \cup {None}, NEW b \in BOOLEAN,
         f.kind # "Submitting", f.issue \in {None, u.watch.issue, u.selected},
         f.kind \in {"Ready", "Confirming"} => f.issue \notin W
  PROVE  LET v == [u EXCEPT !.watch = f, !.watch_read = r, !.watch_confirm_after_read = b]
         IN  Good(v, W)
<1>1. u \in Uis
  BY DEF Good, Sound
<1>2. PICK v : v = [u EXCEPT !.watch = f, !.watch_read = r, !.watch_confirm_after_read = b]
  OBVIOUS
<1>3. v \in Uis
  <2>1. [u EXCEPT !.watch = f, !.watch_read = r, !.watch_confirm_after_read = b] \in Uis
    BY <1>1, TypeWatching DEF Reads
  <2> QED
    BY <1>2, <2>1
<1>4. /\ v.watch = f /\ v.selected = u.selected
      /\ Steady(u, v) /\ SameComment(u, v) /\ SameEdit(u, v)
  BY <1>1, <1>2 DEF Uis, Steady, SameComment, SameEdit
<1>5. WatchHeld(v) /\ Reconciled(v, W)
  BY <1>4 DEF Good, Sound, WatchHeld, Reconciled, Steady
<1>6. Sound(v, W)
  BY <1>3, <1>4, <1>5, WatchSound DEF Good
<1>7. Good(v, W)
  BY <1>4, <1>6, ConcernKept DEF SameEdit
<1> QED
  BY <1>2, <1>7

LEMMA WatchTyped ==
  ASSUME NEW u, NEW U, Good(u, U)
  PROVE  /\ u \in Uis /\ u.watch \in Watch!Flow(Issues)
         /\ u.watch.issue \in Issues \cup {None}
         /\ u.watch_read \in Reads \cup {None} /\ u.watch_confirm_after_read \in BOOLEAN
         /\ u.selected \in Issues \cup {None}
  BY DEF Good, Sound, Uis, Watch!Flow, Reads

\* A change of the flow alone.
LEMMA WatchedOnly ==
  ASSUME NEW u, NEW U, Good(u, U), u.watch.kind # "Submitting",
         NEW f \in Watch!Flow(Issues),
         f.kind # "Submitting", f.issue \in {None, u.watch.issue, u.selected},
         f.kind \in {"Ready", "Confirming"} => f.issue \notin U
  PROVE  Good([u EXCEPT !.watch = f], U)
<1>1. /\ u \in Uis /\ u.watch_read \in Reads \cup {None}
      /\ u.watch_confirm_after_read \in BOOLEAN
  BY WatchTyped
<1>2. Good([u EXCEPT !.watch = f, !.watch_read = u.watch_read,
                     !.watch_confirm_after_read = u.watch_confirm_after_read], U)
  BY <1>1, Watched
<1>3. [u EXCEPT !.watch = f, !.watch_read = u.watch_read,
                !.watch_confirm_after_read = u.watch_confirm_after_read]
        = [u EXCEPT !.watch = f]
  BY <1>1 DEF Uis
<1> QED
  BY <1>2, <1>3

LEMMA WatchConfirmation ==
  ASSUME NEW u, NEW U, Good(u, U)
  PROVE  Good(begin_issue_watch_confirmation(u), U)
<1>1. CASE u.busy \/ u.watch.kind # "Ready" \/ u.watch.issue # u.selected
  BY <1>1, Zenon DEF begin_issue_watch_confirmation
<1>2. CASE ~(u.busy \/ u.watch.kind # "Ready" \/ u.watch.issue # u.selected)
  <2>1. u.watch \in Watch!Flow(Issues) /\ u.watch.issue \in Issues \cup {None}
    BY WatchTyped
  <2>2. u.watch.kind = "Ready" /\ u.watch.issue \notin U
    BY <1>2 DEF Good, Sound, Reconciled
  <2>3. PICK a : a = Watch!At(u.watch, "Confirming", u.watch.issue, 0)
    OBVIOUS
  <2>4. a \in Watch!Flow(Issues) /\ a.kind = "Confirming" /\ a.issue = u.watch.issue
    BY <2>1, <2>3, WatchKindsHold, WatchAt
  <2>5. Watch!begin_confirmation(u.watch) \in {a, u.watch}
    BY <2>3 DEF Watch!begin_confirmation
  <2>6. Good([u EXCEPT !.watch = a], U) /\ Good([u EXCEPT !.watch = u.watch], U)
    BY <2>1, <2>2, <2>4, WatchedOnly
  <2>7. begin_issue_watch_confirmation(u) = [u EXCEPT !.watch = Watch!begin_confirmation(@)]
    BY <1>2, Zenon DEF begin_issue_watch_confirmation
  <2> QED
    BY <2>5, <2>6, <2>7
<1> QED
  BY <1>1, <1>2

LEMMA WatchAgain ==
  ASSUME DashInv, ui.selected # None, NEW b \in BOOLEAN
  PROVE  Good(load_issue_watch_state([ui EXCEPT !.watch_confirm_after_read = b],
                                     ui.selected), unsettled)
<1>1. Good(ui, unsettled) /\ ui \in Uis /\ ui.selected \in Issues
  BY UiTyped
<1>2. Good([ui EXCEPT !.watch_confirm_after_read = b], unsettled)
  BY <1>1, BesideConfirm, BesideKeeps DEF Keeps
<1> QED
  BY <1>1, <1>2, LoadWatch

LEMMA WatchSteps ==
  ASSUME DashInv, BeginWatch \/ CancelWatch \/ RefreshWatch
  PROVE  DashInv'
<1>1. Good(ui, unsettled)
  BY UiTyped
<1>2. CASE BeginWatch
  <2>1. ui.selected # None
    BY <1>2 DEF BeginWatch, watch_control_shown
  <2>2. /\ Good(begin_issue_watch_confirmation(ui), unsettled)
        /\ Good(load_issue_watch_state([ui EXCEPT !.watch_confirm_after_read = TRUE],
                                       ui.selected), unsettled)
    BY <1>1, <2>1, WatchConfirmation, WatchAgain
  <2>3. \/ Sets(begin_issue_watch_confirmation(ui))
        \/ Sets(load_issue_watch_state([ui EXCEPT !.watch_confirm_after_read = TRUE],
                                       ui.selected))
    BY <1>2, Zenon DEF BeginWatch
  <2> QED
    BY <2>2, <2>3, SetsInv
<1>3. CASE CancelWatch
  <2>1. ui.watch \in Watch!Flow(Issues) /\ ui.watch.issue \in Issues \cup {None}
    BY <1>1, WatchTyped
  <2>2. CASE ui.watch.kind = "Confirming"
    <3>1. PICK a : a = Watch!At(ui.watch, "Ready", ui.watch.issue, 0)
      OBVIOUS
    <3>2. a \in Watch!Flow(Issues) /\ a.kind = "Ready" /\ a.issue = ui.watch.issue
      BY <2>1, <3>1, WatchKindsHold, WatchAt
    <3>3. ui.watch.issue \notin unsettled
      BY <1>1, <2>2 DEF Good, Sound, Reconciled
    <3>4. Good([ui EXCEPT !.watch = a], unsettled)
      BY <1>1, <2>2, <3>2, <3>3, WatchedOnly
    <3>5. Watch!cancel_confirmation(ui.watch) = a
      BY <2>2, <3>1 DEF Watch!cancel_confirmation
    <3> QED
      BY <1>3, <3>4, <3>5, SetsInv DEF CancelWatch
  <2>3. CASE ui.watch.kind = "Error"
    <3>1. PICK a : a = Watch!At(ui.watch, "Idle", None, 0)
      OBVIOUS
    <3>2. a \in Watch!Flow(Issues) /\ a.kind = "Idle" /\ a.issue = None
      BY <2>1, <3>1, WatchIdle
    <3>3. Good([ui EXCEPT !.watch = a], unsettled)
      BY <1>1, <2>3, <3>2, WatchedOnly
    <3>4. Watch!cancel_confirmation(ui.watch) = a
      BY <2>3, <3>1 DEF Watch!cancel_confirmation
    <3> QED
      BY <1>3, <3>3, <3>4, SetsInv DEF CancelWatch
  <2> QED
    BY <1>3, <2>2, <2>3 DEF CancelWatch
<1>4. CASE RefreshWatch
  <2>1. ui.selected # None
    BY <1>4 DEF RefreshWatch, watch_control_shown
  <2>2. Good(load_issue_watch_state([ui EXCEPT !.watch_confirm_after_read = FALSE],
                                    ui.selected), unsettled)
    BY <2>1, WatchAgain
  <2> QED
    BY <1>4, <2>2, SetsInv DEF RefreshWatch
<1> QED
  BY <1>2, <1>3, <1>4

LEMMA WatchRead ==
  ASSUME NEW f \in Watch!Flow(Issues), f.issue \in Issues \cup {None}, NEW ok \in BOOLEAN
  PROVE  /\ Watch!finish_read(f, ok) \in Watch!Flow(Issues)
         /\ Watch!finish_read(f, ok).kind = IF ok THEN "Ready" ELSE "Error"
         /\ Watch!finish_read(f, ok).issue = f.issue
<1>1. PICK k \in Watch!Kinds : k = IF ok THEN "Ready" ELSE "Error"
  BY WatchKindsHold
<1>2. PICK a : a = Watch!At(f, k, f.issue, 0)
  OBVIOUS
<1>3. a \in Watch!Flow(Issues) /\ a.kind = k /\ a.issue = f.issue
  BY <1>2, WatchAt
<1>4. f.reconciliation_pending \in BOOLEAN
  BY DEF Watch!Flow
<1>5. Watch!finish_read(f, ok) = IF ok THEN [a EXCEPT !.reconciliation_pending = FALSE]
                                 ELSE [a EXCEPT !.unknown = f.reconciliation_pending]
  BY <1>1, <1>2 DEF Watch!finish_read
<1>6. /\ [a EXCEPT !.reconciliation_pending = FALSE] \in Watch!Flow(Issues)
      /\ [a EXCEPT !.unknown = f.reconciliation_pending] \in Watch!Flow(Issues)
  BY <1>3, <1>4 DEF Watch!Flow
<1>7. /\ [a EXCEPT !.reconciliation_pending = FALSE].kind = k
      /\ [a EXCEPT !.reconciliation_pending = FALSE].issue = f.issue
      /\ [a EXCEPT !.unknown = f.reconciliation_pending].kind = k
      /\ [a EXCEPT !.unknown = f.reconciliation_pending].issue = f.issue
  BY <1>3 DEF Watch!Flow
<1> QED
  BY <1>1, <1>5, <1>6, <1>7

LEMMA BesideWatchRead ==
  ASSUME NEW u \in Uis
  PROVE  Beside(u, [u EXCEPT !.watch_read = None])
<1>1. PICK v : v = [u EXCEPT !.watch_read = None]
  OBVIOUS
<1>2. [u EXCEPT !.watch_read = None] \in Uis
  BY DEF Uis
<1>3. Steady(u, v) /\ SameFlows(u, v)
  BY <1>1 DEF Uis, Steady, SameFlows, SameComment, SameEdit, SameWatch
<1> QED
  BY <1>1, <1>2, <1>3 DEF Beside

\* An answer about the selected issue reconciles it.
LEMMA FinishWatchReadStep == ASSUME DashInv, FinishWatchRead PROVE DashInv'
<1>1. /\ Good(ui, unsettled) /\ ui \in Uis /\ ui.watch \in Watch!Flow(Issues)
      /\ ui.watch.issue \in Issues \cup {None}
      /\ ui.watch_confirm_after_read \in BOOLEAN
      /\ unsettled \subseteq Issues
  BY UiTyped, WatchTyped DEF DashInv
<1>2. CASE ~Watch!owns_read(ui.watch, ui.watch_read, ui.selected)
  <2>1. Sets([ui EXCEPT !.watch_read = None])
    BY <1>2 DEF FinishWatchRead
  <2> QED
    BY <1>1, <2>1, BesideWatchRead, BesideStep DEF KeepsFlag
<1>3. CASE Watch!owns_read(ui.watch, ui.watch_read, ui.selected)
  <2>1. PICK ok \in BOOLEAN :
          LET read == [ui EXCEPT !.watch = Watch!finish_read(@, ok), !.watch_read = None]
          IN  /\ ui' = IF ok /\ read.watch_confirm_after_read
                       THEN begin_issue_watch_confirmation(
                                [read EXCEPT !.watch_confirm_after_read = FALSE])
                       ELSE read
              /\ unsettled' = IF ok THEN unsettled \ {ui.watch_read.issue} ELSE unsettled
    BY <1>3 DEF FinishWatchRead
  <2>2. ui.watch.kind = "Loading" /\ ui.watch.issue = ui.watch_read.issue
    BY <1>3 DEF Watch!owns_read
  <2>3. PICK W : W = IF ok THEN unsettled \ {ui.watch_read.issue} ELSE unsettled
    OBVIOUS
  <2>4. PICK f : f = Watch!finish_read(ui.watch, ok)
    OBVIOUS
  <2>5. /\ f \in Watch!Flow(Issues) /\ f.kind = IF ok THEN "Ready" ELSE "Error"
        /\ f.issue = ui.watch.issue
    BY <1>1, <2>4, WatchRead
  <2>6. f.kind \in {"Ready", "Confirming"} => f.issue \notin W
    BY <2>2, <2>3, <2>5
  <2>7. PICK r : r = [ui EXCEPT !.watch = f, !.watch_read = None]
    OBVIOUS
  <2>8. Good(r, W)
    <3>1. Good([ui EXCEPT !.watch = f, !.watch_read = None,
                          !.watch_confirm_after_read = ui.watch_confirm_after_read], W)
      BY <1>1, <2>2, <2>5, <2>6, Watched
    <3>2. r = [ui EXCEPT !.watch = f, !.watch_read = None,
                         !.watch_confirm_after_read = ui.watch_confirm_after_read]
      BY <1>1, <2>7 DEF Uis
    <3> QED
      BY <3>1, <3>2
  <2>9. Good([r EXCEPT !.watch_confirm_after_read = FALSE], W)
    BY <2>8, BesideConfirm, BesideKeeps DEF Keeps, Good, Sound
  <2>10. Good(begin_issue_watch_confirmation(
                  [r EXCEPT !.watch_confirm_after_read = FALSE]), W)
    BY <2>9, WatchConfirmation
  <2>11. /\ ui' \in {r, begin_issue_watch_confirmation(
                            [r EXCEPT !.watch_confirm_after_read = FALSE])}
         /\ unsettled' = W
    BY <2>1, <2>3, <2>4, <2>7
  <2>12. W \subseteq Issues
    BY <1>1, <2>3
  <2> QED
    BY <2>8, <2>10, <2>11, <2>12 DEF DashInv
<1> QED
  BY <1>2, <1>3

LEMMA TypeWatchWrite ==
  ASSUME NEW u \in Uis, NEW f \in Watch!Flow(Issues), NEW b \in BOOLEAN,
         NEW w \in Watch!Identity(Issues) \cup {None}
  PROVE  [u EXCEPT !.watch = f, !.busy = b, !.watch_write = w] \in Uis
  BY ZenonT(30) DEF Uis

LEMMA WatchSubmitted ==
  ASSUME NEW f \in Watch!Flow(Issues), f.issue \in Issues, NEW g \in Nat
  PROVE  /\ Watch!consume_submission(f, g) \in Watch!Flow(Issues)
         /\ Watch!consume_submission(f, g).kind = "Submitting"
         /\ Watch!consume_submission(f, g).issue = f.issue
         /\ Watch!identity(Watch!consume_submission(f, g)) \in Watch!Identity(Issues)
<1>1. PICK a : a = Watch!At(f, "Submitting", f.issue, g)
  OBVIOUS
<1>2. a \in Watch!Flow(Issues) /\ a.kind = "Submitting" /\ a.issue = f.issue
      /\ a.generation = g
  <2>1. "Submitting" \in Watch!Kinds /\ f.issue \in Issues \cup {None}
    BY WatchKindsHold
  <2> QED
    BY <1>1, <2>1, WatchAt
<1>3. PICK i : i = Watch!identity(a)
  OBVIOUS
<1>4. i \in Watch!Identity(Issues)
  BY <1>2, <1>3 DEF Watch!identity, Watch!Identity
<1>5. PICK h : h = [a EXCEPT !.last = i]
  OBVIOUS
<1>6. h \in Watch!Flow(Issues) /\ h.kind = a.kind /\ h.issue = a.issue
      /\ h.generation = a.generation
  <2>1. [a EXCEPT !.last = i] \in Watch!Flow(Issues)
    BY <1>2, <1>4 DEF Watch!Flow
  <2> QED
    BY <1>2, <1>5, <2>1 DEF Watch!Flow
<1>7. Watch!identity(h) = i
  BY <1>3, <1>6 DEF Watch!identity
<1>8. Watch!consume_submission(f, g) = h
  BY <1>1, <1>3, <1>5 DEF Watch!consume_submission
<1> QED
  BY <1>2, <1>4, <1>6, <1>7, <1>8

LEMMA SubmitWatchStep == ASSUME DashInv, SubmitWatch PROVE DashInv'
<1>1. /\ Good(ui, unsettled) /\ ui \in Uis /\ ui.watch \in Watch!Flow(Issues)
      /\ ui.watch.kind = "Confirming" /\ ui.watch.issue = ui.selected
      /\ ui.watch.issue \in Issues /\ ui.watch_read \in Reads \cup {None}
      /\ ui.workspace /\ ~ui.busy /\ ui.post.state = "none"
  BY UiTyped, WatchTyped DEF SubmitWatch, watch_control_shown
<1>2. ui.jobs = {} /\ ui.edit_writes = {} /\ ui.watch_write = None
  BY <1>1 DEF Good, Sound, OneHolder
<1>3. PICK g \in Nat : g = Fresh(watch_generations(ui))
  <2>1. watch_generations(ui) \in {{}, {ui.watch_read.generation}}
    BY <1>2 DEF watch_generations
  <2>2. IsFiniteSet({}) /\ IsFiniteSet({ui.watch_read.generation})
    BY FS_EmptySet, FS_Singleton, Zenon
  <2>3. IsFiniteSet(watch_generations(ui))
    BY <2>1, <2>2
  <2> QED
    BY <2>3, FreshIsNew
<1>4. PICK f : f = Watch!consume_submission(ui.watch, g)
  OBVIOUS
<1>5. /\ f \in Watch!Flow(Issues) /\ f.kind = "Submitting" /\ f.issue = ui.watch.issue
      /\ Watch!identity(f) \in Watch!Identity(Issues)
  BY <1>1, <1>4, WatchSubmitted
<1>6. PICK w \in Watch!Identity(Issues) : w = Watch!identity(f)
  BY <1>5
<1>7. w # None
  BY DashboardAssumption DEF Watch!Identity
<1>8. PICK v : v = [ui EXCEPT !.watch = f, !.busy = TRUE, !.watch_write = w]
  OBVIOUS
<1>9. v \in Uis
  BY <1>1, <1>5, <1>8, TypeWatchWrite
<1>10. /\ v.watch = f /\ v.busy = TRUE /\ v.watch_write = w
       /\ v.workspace = ui.workspace /\ v.jobs = ui.jobs /\ v.edit_writes = ui.edit_writes
       /\ v.selected = ui.selected /\ SameComment(ui, v) /\ SameEdit(ui, v)
  BY <1>1, <1>8 DEF Uis, SameComment, SameEdit
<1>11. OneHolder(v) /\ WritesHaveWorkspace(v)
  BY <1>1, <1>2, <1>7, <1>10 DEF OneHolder, WritesHaveWorkspace
<1>12. WatchHeld(v) /\ Reconciled(v, unsettled) /\ Apart(v) /\ Drafted(v)
  BY <1>1, <1>5, <1>6, <1>7, <1>10
     DEF Good, Sound, WatchHeld, Reconciled, Apart, Drafted, SameComment
<1>13. EditHeld(v)
  BY <1>1, <1>10 DEF Good, Sound, EditHeld, SameEdit, Edit!identity
<1>14. Concerned(v)
  BY <1>1, <1>5, <1>10 DEF Good, Concerned, Alive, SameEdit
<1>15. Sets(v)
  BY <1>3, <1>4, <1>6, <1>8 DEF SubmitWatch
<1> QED
  BY <1>9, <1>11, <1>12, <1>13, <1>14, <1>15, SetsInv DEF Good, Sound

\* The selection cannot move away from a watch change under way.
LEMMA WatchReleases ==
  ASSUME NEW u, NEW U, Good(u, U), u.watch_write # None
  PROVE  /\ Watch!owns_write(u.watch, u.watch_write, u.selected)
         /\ Watch!releases_busy(u.watch, u.watch_write, u.selected)
         /\ u.watch_write.issue = u.watch.issue /\ u.watch.issue = u.selected
<1>1. u.watch.kind = "Submitting" /\ u.watch_write = Watch!identity(u.watch) /\ u.workspace
  BY DEF Good, Sound, WatchHeld, WritesHaveWorkspace
<1>2. u.watch_write.issue \in Issues
  BY DEF Good, Sound, Uis, Watch!Identity
<1>3. u.watch_write.issue = u.watch.issue
  BY <1>1 DEF Watch!identity
<1>4. u.watch.issue # None
  BY <1>2, <1>3, DashboardAssumption
<1>5. u.watch.issue = u.selected
  BY <1>1, <1>4 DEF Good, Concerned, Alive
<1> QED
  BY <1>1, <1>3, <1>5 DEF Watch!owns_write, Watch!releases_busy, Watch!is_submitting

LEMMA WatchFinished ==
  ASSUME NEW f \in Watch!Flow(Issues), NEW write \in Watch!Identity(Issues), NEW selected,
         NEW outcome \in Outcomes, Watch!owns_write(f, write, selected)
  PROVE  LET h == Watch!finish_write(f, write, selected, outcome)
         IN  /\ h \in Watch!Flow(Issues) /\ h.issue = write.issue
             /\ h.kind = IF outcome = "ok" THEN "Ready" ELSE "Error"
<1>1. write.issue \in Issues \cup {None}
  BY DEF Watch!Identity
<1>2. PICK k \in Watch!Kinds : k = IF outcome = "ok" THEN "Ready" ELSE "Error"
  BY WatchKindsHold
<1>3. PICK a : a = Watch!At(f, k, write.issue, 0)
  OBVIOUS
<1>4. a \in Watch!Flow(Issues) /\ a.kind = k /\ a.issue = write.issue
  BY <1>1, <1>3, WatchAt
<1>5. PICK b \in BOOLEAN : b = (outcome = "unknown")
  OBVIOUS
<1>6. Watch!finish_write(f, write, selected, outcome)
        = IF outcome = "ok" THEN [a EXCEPT !.reconciliation_pending = FALSE]
          ELSE [a EXCEPT !.unknown = b, !.reconciliation_pending = b]
  BY <1>2, <1>3, <1>5 DEF Watch!finish_write
<1>7. /\ [a EXCEPT !.reconciliation_pending = FALSE] \in Watch!Flow(Issues)
      /\ [a EXCEPT !.unknown = b, !.reconciliation_pending = b] \in Watch!Flow(Issues)
  BY <1>4 DEF Watch!Flow
<1>8. /\ [a EXCEPT !.reconciliation_pending = FALSE].kind = k
      /\ [a EXCEPT !.reconciliation_pending = FALSE].issue = write.issue
      /\ [a EXCEPT !.unknown = b, !.reconciliation_pending = b].kind = k
      /\ [a EXCEPT !.unknown = b, !.reconciliation_pending = b].issue = write.issue
  BY <1>4 DEF Watch!Flow
<1> QED
  BY <1>2, <1>6, <1>7, <1>8

LEMMA FinishWatchStep ==
  ASSUME DashInv, NEW outcome \in Outcomes, FinishWatch(outcome)
  PROVE  DashInv'
<1>1. /\ Good(ui, unsettled) /\ ui \in Uis /\ ui.watch \in Watch!Flow(Issues)
      /\ ui.watch_write # None /\ unsettled \subseteq Issues
  BY UiTyped, WatchTyped DEF FinishWatch, DashInv
<1>2. PICK write \in Watch!Identity(Issues) : write = ui.watch_write
  BY <1>1 DEF Uis
<1>3. /\ Watch!owns_write(ui.watch, write, ui.selected)
      /\ Watch!releases_busy(ui.watch, write, ui.selected)
      /\ write.issue = ui.watch.issue /\ ui.watch.issue = ui.selected
  BY <1>1, <1>2, WatchReleases
<1>4. /\ ui.busy /\ ui.jobs = {} /\ ui.edit_writes = {} /\ ui.workspace
  BY <1>1 DEF Good, Sound, OneHolder, WritesHaveWorkspace
<1>5. PICK f : f = Watch!finish_write(ui.watch, write, ui.selected, outcome)
  OBVIOUS
<1>6. /\ f \in Watch!Flow(Issues) /\ f.issue = write.issue
      /\ f.kind = IF outcome = "ok" THEN "Ready" ELSE "Error"
  BY <1>1, <1>3, <1>5, WatchFinished
<1>7. PICK b \in BOOLEAN :
        /\ b = (ui.busy /\ ~Watch!releases_busy(ui.watch, write, ui.selected))
        /\ b = FALSE
  BY <1>3
<1>8. PICK v : v = [ui EXCEPT !.watch = f, !.busy = b, !.watch_write = None]
  OBVIOUS
<1>9. v \in Uis
  <2>1. None \in Watch!Identity(Issues) \cup {None}
    OBVIOUS
  <2> QED
    BY <1>1, <1>6, <1>8, <2>1, TypeWatchWrite
<1>10. /\ v.watch = f /\ v.busy = FALSE /\ v.watch_write = None
       /\ v.workspace = ui.workspace /\ v.jobs = ui.jobs /\ v.edit_writes = ui.edit_writes
       /\ v.selected = ui.selected /\ SameComment(ui, v) /\ SameEdit(ui, v)
  BY <1>1, <1>7, <1>8 DEF Uis, SameComment, SameEdit
<1>11. PICK W : W = IF outcome = "unknown" THEN unsettled \cup {write.issue} ELSE unsettled
  OBVIOUS
<1>12. Reconciled(v, W)
  <2>1. ui.watch.issue \notin unsettled
    BY <1>1, <1>3 DEF Good, Sound, Reconciled, Watch!owns_write, Watch!is_submitting
  <2> QED
    BY <1>3, <1>6, <1>10, <1>11, <2>1 DEF Reconciled
<1>13. OneHolder(v) /\ WritesHaveWorkspace(v)
  BY <1>4, <1>10 DEF OneHolder, WritesHaveWorkspace
<1>14. WatchHeld(v) /\ Apart(v) /\ Drafted(v)
  BY <1>1, <1>6, <1>10 DEF Good, Sound, WatchHeld, Apart, Drafted, SameComment
<1>15. EditHeld(v)
  BY <1>1, <1>10 DEF Good, Sound, EditHeld, SameEdit, Edit!identity
<1>16. Concerned(v)
  BY <1>1, <1>3, <1>4, <1>6, <1>10 DEF Good, Concerned, Alive, SameEdit
<1>17. W \subseteq Issues
  BY <1>1, <1>2, <1>11 DEF Watch!Identity
<1>18. ui' = v /\ unsettled' = W
  BY <1>2, <1>5, <1>7, <1>8, <1>11 DEF FinishWatch
<1> QED
  BY <1>9, <1>12, <1>13, <1>14, <1>15, <1>16, <1>17, <1>18 DEF DashInv, Good, Sound

-----------------------------------------------------------------------------
(* The theorems *)

LEMMA ClickStep == ASSUME DashInv, ~ui.popover, Click PROVE DashInv'
<1>1. CASE BeginRefresh \/ BeginMarkRead \/ BeginTeam \/ BeginSaveSettings
  BY <1>1, BeginSteps
<1>2. CASE \/ SelectRow \/ OpenUpdate \/ SelectTeamRow \/ EnterTeam \/ ClearTeamRow
           \/ OpenInIssues
  BY <1>2, ChoosingSteps DEF KeepsFlag
<1>3. CASE \/ SetSearchQuery \/ SetStatusFilter \/ ClearIssueFilters \/ SearchJira
           \/ OpenRelated
  BY <1>3, SearchSteps DEF KeepsFlag
<1>4. CASE EditDraft \/ BeginCommentConfirmation \/ CancelCommentConfirmation
  BY <1>4, DraftSteps DEF KeepsFlag
<1>5. CASE PostComment \/ RefreshComments
  BY <1>5, PostStep, RefreshCommentsStep DEF KeepsFlag
<1>6. CASE BeginAssigneeChooser \/ SearchAssignees
  BY <1>6, SearchAssigneeSteps
<1>7. CASE ChooseAssignee \/ CancelIssueEdit
  BY <1>7, ChooseAssigneeStep, CancelEditStep
<1>8. CASE OpenStatusPopover
  BY <1>8, PopoverSteps
<1>9. CASE ChooseTransitionAgain \/ RetryTransitions
  BY <1>9, TransitionListSteps DEF KeepsFlag
<1>10. CASE SubmitEdit
  BY <1>10, SubmitEditStep
<1>11. CASE BeginWatch \/ CancelWatch \/ RefreshWatch
  BY <1>11, WatchSteps
<1>12. CASE SubmitWatch
  BY <1>12, SubmitWatchStep
<1> QED
  BY <1>1, <1>2, <1>3, <1>4, <1>5, <1>6, <1>7, <1>8, <1>9, <1>10, <1>11, <1>12, Zenon
     DEF Click

LEMMA Step == ASSUME DashInv, [Next]_vars PROVE DashInv'
<1>1. CASE ~ui.popover /\ Click
  BY <1>1, ClickStep
<1>2. CASE ChooseTransition \/ CloseStatusPopover
  BY <1>2, ChooseTransitionStep, PopoverSteps
<1>3. CASE Poll
  BY <1>3, BeginPoll
<1>4. CASE FinishJob
  BY <1>4, StartupStep, RefreshStep, PollStep, MarkStep, TeamStep, SettingsStep
     DEF FinishJob, FreesFlag
<1>5. CASE FinishRead
  BY <1>5, ReadSteps, FinishAssigneesStep, FinishWatchReadStep DEF FinishRead, KeepsFlag
<1>6. CASE FinishAnyComment
  BY <1>6, FinishCommentStep DEF FinishAnyComment, KeepsFlag
<1>7. CASE FinishAnyEdit
  BY <1>7, FinishEditStep DEF FinishAnyEdit
<1>8. CASE FinishAnyWatch
  BY <1>8, FinishWatchStep DEF FinishAnyWatch
<1>9. CASE UNCHANGED vars
  BY <1>9 DEF vars, DashInv
<1> QED
  BY <1>1, <1>2, <1>3, <1>4, <1>5, <1>6, <1>7, <1>8, <1>9 DEF Next

LEMMA Invariance == Spec => []DashInv
<1>1. DashInv /\ [Next]_vars => DashInv'
  BY Step
<1> QED
  BY <1>1, InitOk, PTL DEF Spec

(* The struct, its tasks and the history keep their type. *)
THEOREM TypeCorrect == Spec => []TypeOK
<1>1. DashInv => TypeOK
  BY DEF DashInv, Good, Sound, TypeOK
<1> QED
  BY <1>1, Invariance, PTL

(* At any time at most one job, edit or watch change is under way, and     *)
(* operation_in_progress is set exactly while one is: every handler that   *)
(* takes the flag is refused while it is set, and every completion, also   *)
(* of a write whose flow was invalidated meanwhile, gives it back.         *)
THEOREM OneHolderOfBusy == Spec => []BusyHasOneHolder
<1>1. ASSUME DashInv PROVE BusyHasOneHolder
  <2>1. Cardinality({}) = 0 /\ \A x : Cardinality({x}) = 1
    BY FS_EmptySet, FS_Singleton, Zenon
  <2>2. OneHolder(ui)
    BY <1>1 DEF DashInv, Good, Sound
  <2>3. CASE ~ui.busy
    BY <2>1, <2>2, <2>3 DEF OneHolder, BusyHasOneHolder
  <2>4. CASE ui.busy
    <3>1. CASE \E job \in Jobs : ui.jobs = {job} /\ ui.edit_writes = {} /\ ui.watch_write = None
      <4>1. Cardinality(ui.jobs) = 1 /\ Cardinality(ui.edit_writes) = 0
        BY <2>1, <3>1
      <4> QED
        BY <2>4, <3>1, <4>1 DEF BusyHasOneHolder
    <3>2. CASE \E w : ui.jobs = {} /\ ui.edit_writes = {w} /\ ui.watch_write = None
      <4>1. Cardinality(ui.jobs) = 0 /\ Cardinality(ui.edit_writes) = 1
        BY <2>1, <3>2
      <4> QED
        BY <2>4, <3>2, <4>1 DEF BusyHasOneHolder
    <3>3. CASE ui.jobs = {} /\ ui.edit_writes = {} /\ ui.watch_write # None
      <4>1. Cardinality(ui.jobs) = 0 /\ Cardinality(ui.edit_writes) = 0
        BY <2>1, <3>3
      <4> QED
        BY <2>4, <3>3, <4>1 DEF BusyHasOneHolder
    <3> QED
      BY <2>2, <2>4, <3>1, <3>2, <3>3 DEF OneHolder
  <2> QED
    BY <2>3, <2>4
<1> QED
  BY <1>1, Invariance, PTL

(* While the workspace is open, whatever is being chosen, confirmed or     *)
(* written is about the selected issue, over every way of selecting.       *)
THEOREM FlowsAreOfTheSelection == Spec => []FlowsConcernSelection
<1>1. DashInv => FlowsConcernSelection
  BY DEF DashInv, Good, Concerned, Alive, FlowsConcernSelection
<1> QED
  BY <1>1, Invariance, PTL

(* A watch change that was sent still belongs to its flow, and its issue   *)
(* to the screen, when its answer arrives.                                 *)
THEOREM WatchOutcomes == Spec => []WatchOutcomeIsShown
<1>1. DashInv => WatchOutcomeIsShown
  BY WatchReleases DEF DashInv, WatchOutcomeIsShown
<1> QED
  BY <1>1, Invariance, PTL

(* No change is offered, confirmed or sent for an issue whose last watch   *)
(* change has an unknown outcome, before it was read again.                *)
THEOREM WatchReconciles == Spec => []WatchChangeIsReconciled
<1>1. DashInv => WatchChangeIsReconciled
  BY DEF DashInv, Good, Sound, Reconciled, WatchChangeIsReconciled
<1> QED
  BY <1>1, Invariance, PTL

(* A comment and a watch change are never under way together.              *)
THEOREM CommentApartFromWatch == Spec => []CommentAndWatchDoNotOverlap
<1>1. DashInv => CommentAndWatchDoNotOverlap
  BY DEF DashInv, Good, Sound, Apart, CommentAndWatchDoNotOverlap
<1> QED
  BY <1>1, Invariance, PTL

(* A comment beyond the draft still has its draft, whatever invalidates it. *)
THEOREM DraftKept == Spec => []SubmissionKeepsDraft
<1>1. DashInv => SubmissionKeepsDraft
  BY DEF DashInv, Good, Sound, Drafted, SubmissionKeepsDraft
<1> QED
  BY <1>1, Invariance, PTL

-----------------------------------------------------------------------------
(* How the flag changes hands *)

\* The completions of what may hold the flag.
Completion == FinishJob \/ FinishAnyEdit \/ FinishAnyWatch

\* What is under way with the flag.
Holders(u) == <<u.jobs, u.edit_writes, u.watch_write>>

\* An applied edit starts a refresh, which takes over the flag.
HandedOn == ui.edit_writes # {} /\ Holders(ui') = <<{"refresh"}, {}, None>>

\* A completion finds the flag set and gives it back or hands it on, and until
\* then nothing takes the flag, or what holds it, away.
FlagChangesHands ==
    /\ Completion => ui.busy /\ (~ui'.busy \/ HandedOn)
    /\ ui.busy /\ ~Completion => ui'.busy /\ Holders(ui') = Holders(ui)

\* While the flag is set, what holds it has an answer to come.
HolderIsUnderWay ==
    ui.busy => \/ ui.jobs # {} \/ ui.edit_writes # {} \/ ui.watch_write # None

\* Steps that write no field of what holds the flag.
LEMMA SteadySteps ==
  ASSUME DashInv,
         \/ ChooseTransition \/ CloseStatusPopover \/ CancelWatch
         \/ FinishAssigneeLoading
  PROVE  Steady(ui, ui')
<1>1. ui \in Uis
  BY UiTyped
<1>2. CASE ChooseTransition
  BY <1>1, <1>2 DEF ChooseTransition, Sets, Uis, Steady
<1>3. CASE CloseStatusPopover
  BY <1>1, <1>3 DEF CloseStatusPopover, Sets, Uis, Steady
<1>4. CASE CancelWatch
  BY <1>1, <1>4 DEF CancelWatch, Sets, Uis, Steady
<1>5. CASE FinishAssigneeLoading
  <2>1. PICK e : \/ ui' = [ui EXCEPT !.edit = e, !.edit_load = None]
                 \/ ui' = [ui EXCEPT !.edit_load = None]
    <3>1. PICK ok \in BOOLEAN :
             \/ ui' = [ui EXCEPT !.edit = Edit!finish_assignee_loading(
                                              ui.edit, ui.edit_load, ok),
                                !.edit_load = None]
             \/ ui' = [ui EXCEPT !.edit_load = None]
      BY <1>5, Zenon DEF FinishAssigneeLoading, Sets
    <3> QED
      BY <3>1, Zenon
  <2>2. CASE ui' = [ui EXCEPT !.edit = e, !.edit_load = None]
    BY <1>1, <2>2 DEF Uis, Steady
  <2>3. CASE ui' = [ui EXCEPT !.edit_load = None]
    BY <1>1, <2>3 DEF Uis, Steady
  <2> QED
    BY <2>1, <2>2, <2>3
<1> QED
  BY <1>2, <1>3, <1>4, <1>5

\* The read of a watch state, and the confirmation that waited for it.
LEMMA WatchReadIsSteady ==
  ASSUME DashInv, FinishWatchRead
  PROVE  Steady(ui, ui')
<1>1. ui \in Uis
  BY UiTyped
<1>2. \A u : u \in Uis => Steady(u, begin_issue_watch_confirmation(u))
  BY DEF begin_issue_watch_confirmation, Uis, Steady
<1>3. CASE ~Watch!owns_read(ui.watch, ui.watch_read, ui.selected)
  <2>1. ui' = [ui EXCEPT !.watch_read = None]
    BY <1>3 DEF FinishWatchRead, Sets
  <2> QED
    BY <1>1, <2>1 DEF Uis, Steady
<1>4. CASE Watch!owns_read(ui.watch, ui.watch_read, ui.selected)
  <2>1. PICK ok \in BOOLEAN :
          LET read == [ui EXCEPT !.watch = Watch!finish_read(@, ok), !.watch_read = None]
          IN  ui' = IF ok /\ read.watch_confirm_after_read
                    THEN begin_issue_watch_confirmation(
                             [read EXCEPT !.watch_confirm_after_read = FALSE])
                    ELSE read
    BY <1>4 DEF FinishWatchRead
  <2>2. ui.watch \in Watch!Flow(Issues) /\ ui.watch.issue \in Issues \cup {None}
    BY UiTyped, WatchTyped
  <2>3. PICK f \in Watch!Flow(Issues) : f = Watch!finish_read(ui.watch, ok)
    BY <2>2, WatchRead
  <2>4. PICK r : r = [ui EXCEPT !.watch = f, !.watch_read = None]
    OBVIOUS
  <2>5. r \in Uis /\ Steady(ui, r)
    <3>1. [ui EXCEPT !.watch = f, !.watch_read = None] \in Uis
      BY <1>1 DEF Uis
    <3> QED
      BY <1>1, <2>4, <3>1 DEF Uis, Steady
  <2>6. PICK c : c = [r EXCEPT !.watch_confirm_after_read = FALSE]
    OBVIOUS
  <2>7. c \in Uis /\ Steady(r, c)
    BY <2>5, <2>6, BesideConfirm DEF Beside
  <2>8. ui' \in {r, begin_issue_watch_confirmation(c)}
    BY <2>1, <2>3, <2>4, <2>6
  <2>9. Steady(c, begin_issue_watch_confirmation(c))
    BY <1>2, <2>7
  <2> QED
    BY <2>5, <2>7, <2>8, <2>9 DEF Steady
<1> QED
  BY <1>3, <1>4

LEMMA WatchReloadIsSteady == ASSUME DashInv, RefreshWatch PROVE Steady(ui, ui')
<1>1. Good(ui, unsettled) /\ ui \in Uis /\ ui.selected \in Issues
  BY UiTyped DEF RefreshWatch, watch_control_shown
<1>2. PICK c : c = [ui EXCEPT !.watch_confirm_after_read = FALSE]
  OBVIOUS
<1>3. Keeps(ui, c, unsettled)
  BY <1>1, <1>2, BesideConfirm, BesideKeeps
<1>4. Keeps(ui, load_issue_watch_state(c, ui.selected), unsettled)
  BY <1>1, <1>3, LoadWatch, KeepsTwice DEF Keeps
<1> QED
  BY <1>2, <1>4, SetsKeeps DEF RefreshWatch, KeepsFlag

\* Every control that takes the flag, or writes an edit or a watch change, is
\* refused while it is set.
LEMMA BusyClick == ASSUME DashInv, ui.busy, Click PROVE Steady(ui, ui')
<1>1. CASE BeginRefresh
  <2>1. refresh_begun(ui) = ui
    BY Zenon DEF refresh_begun
  <2> QED
    BY <1>1, <2>1 DEF BeginRefresh, Sets, Steady
<1>2. CASE BeginMarkRead \/ BeginTeam \/ BeginSaveSettings
  BY <1>2 DEF BeginMarkRead, BeginTeam, BeginSaveSettings
<1>3. CASE \/ SelectRow \/ OpenUpdate \/ SelectTeamRow \/ EnterTeam \/ ClearTeamRow
           \/ OpenInIssues
  BY <1>3, ChoosingSteps DEF KeepsFlag
<1>4. CASE \/ SetSearchQuery \/ SetStatusFilter \/ ClearIssueFilters \/ SearchJira
           \/ OpenRelated
  BY <1>4, SearchSteps DEF KeepsFlag
<1>5. CASE EditDraft \/ BeginCommentConfirmation \/ CancelCommentConfirmation
  BY <1>5, DraftSteps DEF KeepsFlag
<1>6. CASE PostComment \/ RefreshComments
  BY <1>6, PostStep, RefreshCommentsStep DEF KeepsFlag
<1>7. CASE \/ BeginAssigneeChooser \/ SearchAssignees \/ ChooseAssignee \/ CancelIssueEdit
           \/ ChooseTransitionAgain \/ SubmitEdit
  BY <1>7 DEF BeginAssigneeChooser, SearchAssignees, ChooseAssignee, CancelIssueEdit,
              ChooseTransitionAgain, SubmitEdit
<1>8. CASE OpenStatusPopover
  BY <1>8 DEF OpenStatusPopover, status_control_is_editable
<1>9. CASE RetryTransitions
  BY <1>9, TransitionListSteps DEF KeepsFlag
<1>10. CASE BeginWatch \/ SubmitWatch
  BY <1>10 DEF BeginWatch, SubmitWatch
<1>11. CASE CancelWatch
  BY <1>11, SteadySteps
<1>12. CASE RefreshWatch
  BY <1>12, WatchReloadIsSteady
<1> QED
  BY <1>1, <1>2, <1>3, <1>4, <1>5, <1>6, <1>7, <1>8, <1>9, <1>10, <1>11, <1>12, Zenon
     DEF Click

LEMMA BusyStep ==
  ASSUME DashInv, [Next]_vars, ui.busy, ~Completion
  PROVE  Steady(ui, ui')
<1>1. CASE Click
  BY <1>1, BusyClick
<1>2. CASE ChooseTransition \/ CloseStatusPopover
  BY <1>2, SteadySteps
<1>3. CASE Poll
  BY <1>3 DEF Poll
<1>4. CASE FinishRead
  BY <1>4, ReadSteps, SteadySteps, WatchReadIsSteady DEF FinishRead, KeepsFlag
<1>5. CASE FinishAnyComment
  BY <1>5, FinishCommentStep DEF FinishAnyComment, KeepsFlag
<1>6. CASE UNCHANGED vars
  BY <1>6 DEF vars, Steady
<1> QED
  BY <1>1, <1>2, <1>3, <1>4, <1>5, <1>6, Zenon DEF Next, Completion

\* Whatever a job's completion applies to the struct, the flag stays free.
LEMMA JobReleases == ASSUME DashInv, FinishJob PROVE ui.busy /\ ~ui'.busy
<1>1. ui.busy
  <2>1. ui.jobs # {}
    BY DEF FinishJob, FinishStartup, FinishRefresh, FinishPoll, FinishMarkRead, FinishTeam,
           FinishSaveSettings
  <2>2. PICK job : job \in ui.jobs
    BY <2>1
  <2> QED
    BY <2>2, UiTyped, JobAlone
<1>2. ~ui'.busy
  BY StartupStep, RefreshStep, PollStep, MarkStep, TeamStep, SettingsStep
     DEF FinishJob, FreesFlag
<1> QED
  BY <1>1, <1>2

\* The completion of an edit gives the flag back, also when the edit's flow was
\* invalidated; the refresh that an applied one starts takes it at once.
LEMMA EditHandsOn ==
  ASSUME DashInv, FinishAnyEdit
  PROVE  ui.busy /\ (~ui'.busy \/ HandedOn)
<1>1. PICK write \in ui.edit_writes, outcome \in Outcomes : FinishEdit(write, outcome)
  BY DEF FinishAnyEdit
<1>2. Good(ui, unsettled) /\ ui \in Uis
  BY UiTyped
<1>3. /\ ui.busy /\ ui.jobs = {} /\ ui.edit_writes = {write} /\ ui.watch_write = None
  BY <1>2 DEF Good, Sound, OneHolder
<1>4. PICK b \in BOOLEAN :
        /\ b = (ui.busy /\ ~Edit!releases_busy(ui.edit, write, ui.selected))
        /\ b = FALSE
  BY <1>2, EditReleases
<1>5. PICK f : f = Edit!finish_write(ui.edit, write, ui.selected, outcome)
  OBVIOUS
<1>6. PICK v : v = [ui EXCEPT !.edit_writes = @ \ {write}, !.busy = b, !.edit = f]
  OBVIOUS
<1>7. /\ v.busy = FALSE /\ v.jobs = {} /\ v.edit_writes = {} /\ v.watch_write = None
  BY <1>2, <1>3, <1>4, <1>6 DEF Uis
<1>8. ui' = v \/ ui' = refresh_begun(v)
  <2>1. v = [ui EXCEPT
               !.edit_writes = @ \ {write},
               !.busy = @ /\ ~Edit!releases_busy(ui.edit, write, ui.selected),
               !.edit = Edit!finish_write(@, write, ui.selected, outcome)]
    BY <1>4, <1>5, <1>6
  <2> QED
    BY <1>1, <2>1, Zenon DEF FinishEdit, Sets
<1>9. ui' = v \/ ui' = [v EXCEPT !.busy = TRUE, !.jobs = @ \cup {"refresh"}]
  BY <1>8, Zenon DEF refresh_begun
<1>10. CASE ui' = v
  BY <1>3, <1>7, <1>10
<1>11. CASE ui' = [v EXCEPT !.busy = TRUE, !.jobs = @ \cup {"refresh"}]
  <2>1. ui'.jobs = {"refresh"} /\ ui'.edit_writes = {} /\ ui'.watch_write = None
    BY <1>2, <1>6, <1>7, <1>11 DEF Uis
  <2> QED
    BY <1>3, <2>1 DEF HandedOn, Holders
<1> QED
  BY <1>9, <1>10, <1>11

LEMMA WatchHandsBack == ASSUME DashInv, FinishAnyWatch PROVE ui.busy /\ ~ui'.busy
<1>1. PICK outcome \in Outcomes : FinishWatch(outcome)
  BY DEF FinishAnyWatch
<1>2. Good(ui, unsettled) /\ ui \in Uis /\ ui.watch_write # None
  BY <1>1, UiTyped DEF FinishWatch
<1>3. ui.busy
  BY <1>2 DEF Good, Sound, OneHolder
<1>4. ui'.busy = (ui.busy /\ ~Watch!releases_busy(ui.watch, ui.watch_write, ui.selected))
  BY <1>1, <1>2 DEF FinishWatch, Uis
<1> QED
  BY <1>2, <1>3, <1>4, WatchReleases

(* operation_in_progress is not lost while it is set: what holds it has an *)
(* answer to come, and whatever is selected, typed, confirmed, cancelled   *)
(* or answered meanwhile, only that answer takes the flag.  It gives the   *)
(* flag back, whatever happened to the flow it belongs to; only an edit    *)
(* that was applied hands it on, to the refresh it starts, and that one    *)
(* gives it back.  Every busy period so ends after at most two answers.    *)
THEOREM BusyChangesHands == Spec => []HolderIsUnderWay /\ [][FlagChangesHands]_vars
<1>1. DashInv => HolderIsUnderWay
  BY DEF DashInv, Good, Sound, OneHolder, HolderIsUnderWay
<1>2. ASSUME DashInv, [Next]_vars PROVE [FlagChangesHands]_vars
  <2>1. Completion => ui.busy /\ (~ui'.busy \/ HandedOn)
    BY <1>2, JobReleases, EditHandsOn, WatchHandsBack DEF Completion
  <2>2. ui.busy /\ ~Completion => ui'.busy /\ Holders(ui') = Holders(ui)
    BY <1>2, BusyStep DEF Steady, Holders
  <2> QED
    BY <2>1, <2>2 DEF FlagChangesHands
<1> QED
  BY <1>1, <1>2, Invariance, PTL DEF Spec
=============================================================================
