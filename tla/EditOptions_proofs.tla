-------------------------- MODULE EditOptions_proofs --------------------------
(***************************************************************************)
(* Proof about the cached choices of the edit controls, for any lifetime,  *)
(* any number of reads, changes and failures, and a clock that goes any    *)
(* way.  Two things keep choices from before a change away: the order in   *)
(* which the worker serves its queue, while it never fails, and the guard, *)
(* while no change is reported between the fetch and the showing of older  *)
(* choices.  The invariant states both.                                    *)
(***************************************************************************)
EXTENDS EditOptions, SequenceTheorems, TLAPS

-----------------------------------------------------------------------------
(* The invariant *)

\* The types of the state.
Options == [of : Nat, fetched_at : Nat]
Phases == {"idle", "looking", "looked", "fetching", "fetched", "storing", "stored", "shown",
           "failed"}
Reads == [phase : Phases, id : Nat, started : Nat, options : Options \cup {None}, after : Nat]
Looks == [what : {"look"}, control : Controls, id : Nat]
Fetches == [what : {"fetch"}, control : Controls, id : Nat]
Stores == [what : {"store"}, control : Controls, id : Nat, row : Options]
Requests == Looks \cup Stores \cup [what : {"invalidate"}]
Posts == Fetches \cup [what : {"change"}]
Wakes == Looks \cup Fetches \cup Stores \cup [what : {"applied", "failed"}]

OptTypes ==
    /\ status \in Nat /\ clock \in Nat /\ applied \in Nat /\ reads \in Nat /\ faults \in Nat
    /\ guard \in BOOLEAN /\ raced \in BOOLEAN
    /\ row \in [Controls -> Options \cup {None}]
    /\ read \in [Controls -> Reads]
    /\ \A k \in Controls : read[k].phase \in {"fetched", "storing", "stored"} =>
          read[k].options \in Options
    /\ db \in Seq(Requests) /\ http \in Seq(Posts) /\ woken \in Seq(Wakes)
    /\ change \in {"none", "chosen", "sent"}

shown == read["transitions"]

\* A change is on its way to Jira, or its outcome on its way back, while it is sent.
Changes == {n \in DOMAIN http : http[n].what = "change"}
Answers == {n \in DOMAIN woken : woken[n].what \in {"applied", "failed"}}
OneChange ==
    /\ \A m, n \in Changes : m = n
    /\ \A m, n \in Answers : m = n
    /\ Changes = {} \/ Answers = {}
    /\ change # "sent" => Changes = {} /\ Answers = {}

\* What is older than a change that was applied.
Old(options, floor) == options # None /\ options.of < floor
OldStore(request, floor) ==
    /\ request.what = "store" /\ request.control = "transitions"
    /\ Old(request.row, floor)

\* Where the worker serves the n-th request, it holds nothing that is old.
HoldsNew(queue, held, n, floor) ==
    /\ Old(held, floor) => \E j \in 1..n-1 : queue[j].what = "invalidate"
    /\ \A m \in 1..n-1 : OldStore(queue[m], floor) =>
         \E j \in m+1..n-1 : queue[j].what = "invalidate"

OfRead(request, what, id) ==
    request.what = what /\ request.control = "transitions" /\ request.id = id

\* The ids of requests are those of reads; a store is a late request.
Numbered ==
    /\ \A k \in Controls : read[k].id <= reads
    /\ \A n \in DOMAIN db : db[n].what # "invalidate" => db[n].id <= reads
    /\ shown.phase \in {"looking", "looked", "fetching", "fetched"} =>
         \A n \in DOMAIN db : ~OfRead(db[n], "store", shown.id)

\* What a read holds is at least as new as the change before it.
ReadsAreNew ==
    /\ applied <= status /\ shown.after <= applied
    /\ shown.phase \in {"fetched", "storing", "stored"} =>
         shown.options.of >= shown.after

\* While nothing failed, the order of the queues keeps what is old away.
QueueIsNew == HoldsNew(db, row["transitions"], Len(db) + 1, applied)
LookIsNew ==
    shown.phase = "looking" =>
      \A n \in DOMAIN db : OfRead(db[n], "look", shown.id) =>
         HoldsNew(db, row["transitions"], n, shown.after)
LookedIsNew == shown.phase = "looked" => ~Old(shown.options, shown.after)
FetchedIsNew ==
    shown.phase = "fetched" =>
      \A n \in DOMAIN woken : OfRead(woken[n], "fetch", shown.id) =>
         /\ shown.options.of >= applied
         /\ (\E m \in 1..n-1 : woken[m].what = "applied") => shown.options.of >= status
Ordered == QueueIsNew /\ LookIsNew /\ LookedIsNew /\ FetchedIsNew

\* While no change overtook a read, the guard does.
AllNew ==
    /\ ~Old(row["transitions"], applied)
    /\ \A n \in DOMAIN db : ~OldStore(db[n], applied)
Guarded ==
    /\ ~guard => AllNew /\ LookedIsNew
    /\ shown.phase \in {"fetched", "storing", "stored"} => shown.options.of >= applied
    /\ shown.phase = "storing" =>
         \A n \in DOMAIN db : OfRead(db[n], "store", shown.id) =>
            \A m \in DOMAIN db : m >= n => ~OldStore(db[m], applied)
    /\ shown.phase = "stored" => AllNew

OptInv ==
    /\ OptTypes /\ OneChange /\ Numbered /\ ReadsAreNew
    /\ faults = 0 => Ordered
    /\ ~raced => Guarded
    /\ OptionsFollowTransitionUnlessRaced

-----------------------------------------------------------------------------
(* Queues *)

\* A request that is added changes nothing for those before it.
LEMMA HoldsAppend ==
  ASSUME NEW X, NEW q \in Seq(X), NEW x, NEW n \in 1 .. Len(q) + 1, NEW h, NEW f,
         HoldsNew(q, h, n, f)
  PROVE  HoldsNew(Append(q, x), h, n, f)
<1>1. \A j \in 1 .. n - 1 : Append(q, x)[j] = q[j]
  OBVIOUS
<1>2. n \in Nat
  OBVIOUS
<1> DEFINE p == Append(q, x)
<1> HIDE DEF p
<1>3. HoldsNew(p, h, n, f)
  BY <1>1, <1>2 DEF HoldsNew, p
<1> QED
  BY <1>3 DEF p

\* A request that stores nothing old leaves nothing old behind,
LEMMA HoldsAfter ==
  ASSUME NEW X, NEW q \in Seq(X), NEW x, NEW h, NEW f, HoldsNew(q, h, Len(q) + 1, f),
         ~OldStore(x, f)
  PROVE  HoldsNew(Append(q, x), h, Len(Append(q, x)) + 1, f)
<1> DEFINE p == Append(q, x)
<1>1. Len(q) \in Nat /\ Len(p) = Len(q) + 1
  OBVIOUS
<1>2. (\A j \in 1 .. Len(q) : p[j] = q[j]) /\ p[Len(q) + 1] = x
  OBVIOUS
<1> HIDE DEF p
<1>3. HoldsNew(p, h, Len(p) + 1, f)
  BY <1>1, <1>2 DEF HoldsNew
<1> QED
  BY <1>3 DEF p

\* and an invalidation takes away whatever is.
LEMMA HoldsInvalidated ==
  ASSUME NEW X, NEW q \in Seq(X), NEW x, NEW h, NEW f, x.what = "invalidate"
  PROVE  HoldsNew(Append(q, x), h, Len(Append(q, x)) + 1, f)
<1> DEFINE p == Append(q, x)
<1>1. Len(q) \in Nat /\ Len(p) = Len(q) + 1
  OBVIOUS
<1>2. p[Len(q) + 1] = x
  OBVIOUS
<1> HIDE DEF p
<1>3. HoldsNew(p, h, Len(p) + 1, f)
  BY <1>1, <1>2 DEF HoldsNew, OldStore
<1> QED
  BY <1>3 DEF p

\* What a queue is without its head.
LEMMA TailIs ==
  ASSUME NEW X, NEW q \in Seq(X), q # <<>>
  PROVE  /\ Tail(q) \in Seq(X) /\ Len(q) \in Nat /\ Len(Tail(q)) = Len(q) - 1
         /\ DOMAIN Tail(q) = 1 .. Len(q) - 1 /\ DOMAIN q = 1 .. Len(q)
         /\ Len(q) >= 1 /\ Head(q) = q[1] /\ Head(q) \in X
         /\ \A n \in 1 .. Len(q) - 1 : Tail(q)[n] = q[n + 1]
         /\ \A n \in DOMAIN Tail(q) : n + 1 \in DOMAIN q
BY HeadTailProperties

\* What the worker holds of the transitions once it has served a request.
HeldAfter(request, held) ==
    IF request.what = "invalidate" THEN None
    ELSE IF request.what = "store" /\ request.control = "transitions" THEN request.row ELSE held

\* Serving a request keeps the order of what is behind it.
LEMMA HoldsServed ==
  ASSUME NEW X, NEW q \in Seq(X), q # <<>>, NEW n \in 1 .. Len(q), NEW h, NEW f,
         HoldsNew(q, h, n + 1, f)
  PROVE  HoldsNew(Tail(q), HeldAfter(Head(q), h), n, f)
<1> DEFINE p == Tail(q)
           g == HeldAfter(Head(q), h)
<1>1. /\ Len(q) \in Nat /\ \A j \in 1 .. Len(q) - 1 : p[j] = q[j + 1]
      /\ Head(q) = q[1]
  BY TailIs
<1> HIDE DEF p
<1>2. \A m \in 1 .. n - 1 : OldStore(p[m], f) => \E j \in m + 1 .. n - 1 : p[j].what = "invalidate"
  <2> SUFFICES ASSUME NEW m \in 1 .. n - 1, OldStore(p[m], f)
               PROVE  \E j \in m + 1 .. n - 1 : p[j].what = "invalidate"
    OBVIOUS
  <2>1. m + 1 \in 1 .. (n + 1) - 1 /\ p[m] = q[m + 1]
    BY <1>1
  <2>2. PICK j \in (m + 1) + 1 .. (n + 1) - 1 : q[j].what = "invalidate"
    BY <2>1 DEF HoldsNew
  <2>3. j - 1 \in m + 1 .. n - 1 /\ p[j - 1] = q[j]
    BY <1>1, <2>2
  <2> QED
    BY <2>2, <2>3
<1>3. ASSUME NEW j \in 2 .. n, q[j].what = "invalidate"
      PROVE  \E i \in 1 .. n - 1 : p[i].what = "invalidate"
  <2>1. j - 1 \in 1 .. n - 1 /\ p[j - 1] = q[j]
    BY <1>1
  <2> QED
    BY <1>3, <2>1
<1>4. Old(g, f) => \E j \in 1 .. n - 1 : p[j].what = "invalidate"
  <2>1. CASE Head(q).what = "invalidate"
    BY <2>1 DEF HeldAfter, Old
  <2>2. CASE Head(q).what = "store" /\ Head(q).control = "transitions"
    <3>1. g = q[1].row
      BY <1>1, <2>2 DEF HeldAfter
    <3>2. Old(g, f) => \E j \in 1 + 1 .. (n + 1) - 1 : q[j].what = "invalidate"
      <4>1. 1 \in 1 .. (n + 1) - 1
        OBVIOUS
      <4> QED
        BY <1>1, <2>2, <3>1, <4>1 DEF HoldsNew, OldStore
    <3> QED
      BY <1>3, <3>2
  <2>3. CASE /\ Head(q).what # "invalidate"
             /\ ~ (Head(q).what = "store" /\ Head(q).control = "transitions")
    <3>1. g = h
      BY <2>3 DEF HeldAfter
    <3>2. Old(g, f) => \E j \in 1 .. (n + 1) - 1 : q[j].what = "invalidate"
      BY <3>1 DEF HoldsNew
    <3>3. \A j \in 1 .. (n + 1) - 1 : q[j].what = "invalidate" => j \in 2 .. n
      BY <1>1, <2>3
    <3> QED
      BY <1>3, <3>2, <3>3
  <2> QED
    BY <2>1, <2>2, <2>3
<1>5. HoldsNew(p, g, n, f)
  BY <1>2, <1>4 DEF HoldsNew
<1> QED
  BY <1>5 DEF p

\* What a queue is with one more entry.
LEMMA AppendIs ==
  ASSUME NEW X, NEW q \in Seq(X), NEW x \in X
  PROVE  /\ Append(q, x) \in Seq(X) /\ Len(Append(q, x)) = Len(q) + 1 /\ Len(q) \in Nat
         /\ DOMAIN q = 1 .. Len(q) /\ DOMAIN Append(q, x) = 1 .. Len(q) + 1
         /\ \A n \in 1 .. Len(q) : Append(q, x)[n] = q[n]
         /\ Append(q, x)[Len(q) + 1] = x
         /\ \A n \in DOMAIN Append(q, x) : n \in DOMAIN q \/ n = Len(q) + 1
OBVIOUS

\* The two controls.
LEMMA Control == "transitions" \in Controls /\ "assignees" \in Controls
BY DEF Controls

\* A read that goes on keeps what it is about.
LEMMA AtIs ==
  ASSUME OptTypes, NEW k \in Controls, NEW phase \in Phases, At(k, phase)
  PROVE  /\ read' \in [Controls -> Reads] /\ read'[k].phase = phase
         /\ read'[k].id = read[k].id /\ read'[k].options = read[k].options
         /\ read'[k].after = read[k].after
         /\ \A j \in Controls : j # k => read'[j] = read[j]
BY DEF OptTypes, At, Reads

\* A control other than the transitions does not concern what is shown of them.
LEMMA OtherControl ==
  ASSUME OptTypes, NEW k \in Controls, k # "transitions",
         \A j \in Controls : j # k => read'[j] = read[j]
  PROVE  shown' = shown
BY Control DEF shown

\* The order of the queue of the worker, when a request that stores nothing is added.
LEMMA AsksTheWorker ==
  ASSUME OptTypes, NEW request \in Requests, db' = Append(db, request),
         row' = row, applied' = applied, ~OldStore(request, applied), QueueIsNew
  PROVE  QueueIsNew'
BY HoldsAfter DEF OptTypes, QueueIsNew

\* So does a read that waits for the worker.
LEMMA LooksStay ==
  ASSUME OptTypes, NEW request \in Requests, db' = Append(db, request),
         row' = row, shown'.id = shown.id, shown'.after = shown.after,
         shown'.phase = "looking" => shown.phase = "looking", request.what # "look", LookIsNew
  PROVE  LookIsNew'
<1> SUFFICES ASSUME shown'.phase = "looking", NEW n \in DOMAIN db',
                    OfRead(db'[n], "look", shown'.id)
             PROVE  HoldsNew(db', row'["transitions"], n, shown'.after)
  BY DEF LookIsNew
<1>1. db \in Seq(Requests)
  BY DEF OptTypes
<1>2. n \in DOMAIN db /\ db'[n] = db[n] /\ n \in 1 .. Len(db) + 1
  BY <1>1, AppendIs DEF OfRead
<1>3. HoldsNew(db, row["transitions"], n, shown.after)
  BY <1>2 DEF LookIsNew
<1>4. HoldsNew(Append(db, request), row["transitions"], n, shown.after)
  BY <1>1, <1>2, <1>3, HoldsAppend
<1> QED
  BY <1>4

\* A read that begins asks behind everything that is queued.
LEMMA BeginReadStep ==
  ASSUME OptInv, NEW k \in Controls, BeginRead(k)
  PROVE  OptInv'
<1> DEFINE new == Read("looking", reads + 1, clock, None, applied)
           request == [what |-> "look", control |-> k, id |-> reads + 1]
<1>1. /\ read' = [read EXCEPT ![k] = new] /\ db' = Append(db, request) /\ reads' = reads + 1
      /\ UNCHANGED <<status, clock, row, guard, http, woken, change, applied, raced, faults>>
  BY DEF BeginRead
<1>2. OptTypes
  BY DEF OptInv
<1>3. /\ new \in Reads /\ new.phase = "looking" /\ new.id = reads + 1 /\ new.after = applied
  BY <1>2 DEF OptTypes, Read, Reads, Phases
<1>4. request \in Requests /\ request.what = "look" /\ request.id = reads + 1
  BY <1>2 DEF OptTypes, Requests, Looks
<1> HIDE DEF new, request
<1>5. /\ db \in Seq(Requests) /\ db' \in Seq(Requests) /\ Len(db) \in Nat
      /\ DOMAIN db = 1 .. Len(db) /\ DOMAIN db' = 1 .. Len(db) + 1
      /\ db'[Len(db) + 1] = request /\ \A n \in 1 .. Len(db) : db'[n] = db[n]
      /\ \A n \in DOMAIN db' : n \in DOMAIN db \/ n = Len(db) + 1
  BY <1>1, <1>2, <1>4, AppendIs DEF OptTypes
<1>6. /\ read' \in [Controls -> Reads] /\ read'[k] = new
      /\ \A j \in Controls : j # k => read'[j] = read[j]
      /\ reads \in Nat /\ reads' \in Nat
  BY <1>1, <1>2, <1>3 DEF OptTypes
<1>7. OptTypes'
  BY <1>1, <1>2, <1>3, <1>5, <1>6 DEF OptTypes
<1>8. OneChange'
  BY <1>1 DEF OptInv, OneChange, Changes, Answers
<1>9. \A n \in DOMAIN db : db[n].what # "invalidate" => db[n].id \in Nat
  BY <1>5 DEF Requests, Looks, Stores
<1>10. \A j \in Controls : read[j].id \in Nat
  BY <1>2 DEF OptTypes, Reads
<1>11. Numbered'
  <2>1. \A j \in Controls : read'[j].id <= reads'
    BY <1>1, <1>3, <1>6, <1>10 DEF OptInv, Numbered
  <2>2. \A n \in DOMAIN db' : db'[n].what # "invalidate" => db'[n].id <= reads'
    BY <1>1, <1>4, <1>5, <1>6, <1>9 DEF OptInv, Numbered
  <2>3. CASE k = "transitions"
    <3>1. \A n \in DOMAIN db' : ~OfRead(db'[n], "store", reads + 1)
      BY <1>4, <1>5, <1>6, <1>9 DEF OptInv, Numbered, OfRead
    <3> QED
      BY <1>3, <1>6, <2>1, <2>2, <2>3, <3>1 DEF Numbered, shown
  <2>4. CASE k # "transitions"
    <3>1. shown' = shown
      BY <1>2, <1>6, <2>4, OtherControl
    <3>2. \A n \in DOMAIN db' :
             OfRead(db'[n], "store", shown.id) => n \in DOMAIN db /\ db'[n] = db[n]
      BY <1>4, <1>5 DEF OfRead
    <3> QED
      BY <2>1, <2>2, <3>1, <3>2 DEF OptInv, Numbered
  <2> QED
    BY <2>3, <2>4
<1>12. ~OldStore(request, applied)
  BY <1>4 DEF OldStore
<1>13. CASE k = "transitions"
  <2>1. shown' = new
    BY <1>6, <1>13 DEF shown
  <2>2. ReadsAreNew'
    BY <1>1, <1>2, <1>3, <2>1 DEF OptInv, ReadsAreNew, OptTypes
  <2>3. faults' = 0 => Ordered'
    <3> SUFFICES ASSUME faults' = 0 PROVE Ordered'
      OBVIOUS
    <3>1. QueueIsNew
      BY <1>1 DEF OptInv, Ordered
    <3>2. QueueIsNew'
      BY <1>1, <1>2, <1>4, <1>12, <3>1, AsksTheWorker
    <3>3. LookIsNew'
      <4>1. \A n \in DOMAIN db' : OfRead(db'[n], "look", reads + 1) => n = Len(db) + 1
        BY <1>5, <1>6, <1>9 DEF OptInv, Numbered, OfRead
      <4>2. HoldsNew(db, row["transitions"], Len(db) + 1, applied)
        BY <3>1 DEF QueueIsNew
      <4>3. HoldsNew(db', row["transitions"], Len(db) + 1, applied)
        BY <1>1, <1>5, <4>2, HoldsAppend
      <4> QED
        BY <1>1, <1>3, <2>1, <4>1, <4>3 DEF LookIsNew
    <3>4. LookedIsNew' /\ FetchedIsNew'
      BY <1>3, <2>1 DEF LookedIsNew, FetchedIsNew
    <3> QED
      BY <3>2, <3>3, <3>4 DEF Ordered
  <2>4. ~raced' => Guarded'
    <3>1. ~guard' /\ ~raced' => AllNew'
      BY <1>1, <1>5, <1>12 DEF OptInv, Guarded, AllNew
    <3> QED
      BY <1>3, <2>1, <3>1 DEF Guarded, LookedIsNew
  <2>5. OptionsFollowTransitionUnlessRaced'
    BY <1>3, <1>6, <1>13 DEF OptionsFollowTransitionUnlessRaced, OptionsFollowTransition
  <2> QED
    BY <1>7, <1>8, <1>11, <2>2, <2>3, <2>4, <2>5 DEF OptInv
<1>14. CASE k # "transitions"
  <2>1. shown' = shown
    BY <1>2, <1>6, <1>14, OtherControl
  <2>2. ReadsAreNew'
    BY <1>1, <2>1 DEF OptInv, ReadsAreNew
  <2>3. faults' = 0 => Ordered'
    <3> SUFFICES ASSUME faults' = 0 PROVE Ordered'
      OBVIOUS
    <3>1. QueueIsNew /\ LookIsNew /\ LookedIsNew /\ FetchedIsNew
      BY <1>1 DEF OptInv, Ordered
    <3>2. QueueIsNew'
      BY <1>1, <1>2, <1>4, <1>12, <3>1, AsksTheWorker
    <3>3. LookIsNew'
      <4> SUFFICES ASSUME shown'.phase = "looking", NEW n \in DOMAIN db',
                          OfRead(db'[n], "look", shown'.id)
                   PROVE  HoldsNew(db', row'["transitions"], n, shown'.after)
        BY DEF LookIsNew
      <4>1. n \in DOMAIN db /\ db'[n] = db[n]
        <5>1. request.control = k
          BY DEF request
        <5> QED
          BY <1>5, <1>14, <5>1 DEF OfRead
      <4>2. HoldsNew(db, row["transitions"], n, shown.after)
        BY <2>1, <3>1, <4>1 DEF LookIsNew
      <4>3. n \in 1 .. Len(db) + 1
        BY <1>5, <4>1
      <4> QED
        BY <1>1, <1>5, <2>1, <4>2, <4>3, HoldsAppend
    <3>4. LookedIsNew' /\ FetchedIsNew'
      BY <1>1, <2>1, <3>1 DEF LookedIsNew, FetchedIsNew
    <3> QED
      BY <3>2, <3>3, <3>4 DEF Ordered
  <2>4. ~raced' => Guarded'
    <3> SUFFICES ASSUME ~raced' PROVE Guarded'
      OBVIOUS
    <3>1. Guarded
      BY <1>1 DEF OptInv
    <3>2. AllNew => AllNew'
      BY <1>1, <1>5, <1>12 DEF AllNew
    <3>3. \A n \in DOMAIN db' : ~OldStore(db'[n], applied) \/ (n \in DOMAIN db /\ db'[n] = db[n])
      BY <1>5, <1>12
    <3>4. \A n \in DOMAIN db' :
             OfRead(db'[n], "store", shown.id) => n \in DOMAIN db /\ db'[n] = db[n]
      BY <1>4, <1>5 DEF OfRead
    <3> QED
      BY <1>1, <2>1, <3>1, <3>2, <3>3, <3>4 DEF Guarded, LookedIsNew
  <2>5. OptionsFollowTransitionUnlessRaced'
    BY <1>1, <2>1 DEF OptInv, OptionsFollowTransitionUnlessRaced, OptionsFollowTransition, shown
  <2> QED
    BY <1>7, <1>8, <1>11, <2>2, <2>3, <2>4, <2>5 DEF OptInv
<1> QED
  BY <1>13, <1>14

-----------------------------------------------------------------------------
(* Steps *)

\* A step that leaves the transitions, the cache and its queue alone.
LEMMA Still ==
  ASSUME OptInv, OptTypes', OneChange', UNCHANGED <<db, row, guard, applied, raced, faults, reads>>,
         shown' = shown, \A j \in Controls : read'[j].id = read[j].id,
         status <= status', FetchedIsNew => FetchedIsNew'
  PROVE  OptInv'
<1>1. Numbered' /\ ReadsAreNew'
  <2>1. status \in Nat /\ status' \in Nat /\ applied \in Nat
    BY DEF OptInv, OptTypes
  <2> QED
    BY <2>1 DEF OptInv, Numbered, ReadsAreNew
<1>2. faults' = 0 => Ordered'
  BY DEF OptInv, Ordered, QueueIsNew, LookIsNew, LookedIsNew
<1>3. ~raced' => Guarded'
  BY DEF OptInv, Guarded, AllNew, LookedIsNew
<1>4. OptionsFollowTransitionUnlessRaced'
  BY DEF OptInv, OptionsFollowTransitionUnlessRaced, OptionsFollowTransition, shown
<1> QED
  BY <1>1, <1>2, <1>3, <1>4 DEF OptInv

\* A read of the transitions that ends, or goes on to fetch them.
LEMMA Calm ==
  ASSUME OptInv, OptTypes', OneChange', UNCHANGED <<db, row, guard, applied, raced, faults, reads>>,
         \A j \in Controls : read'[j].id = read[j].id, shown'.after = shown.after,
         status' = status,
         \/ shown'.phase \in {"idle", "failed"}
         \/ shown'.phase = "fetching" /\ shown.phase = "looked"
  PROVE  OptInv'
<1>0. shown'.id = shown.id
  BY Control DEF shown
<1>1. Numbered' /\ ReadsAreNew'
  BY <1>0 DEF OptInv, Numbered, ReadsAreNew
<1>2. faults' = 0 => Ordered'
  BY DEF OptInv, Ordered, QueueIsNew, LookIsNew, LookedIsNew, FetchedIsNew
<1>3. ~raced' => Guarded'
  BY DEF OptInv, Guarded, AllNew, LookedIsNew
<1>4. OptionsFollowTransitionUnlessRaced'
  BY DEF OptInv, OptionsFollowTransitionUnlessRaced, OptionsFollowTransition, shown
<1> QED
  BY <1>1, <1>2, <1>3, <1>4 DEF OptInv

\* A step that does not touch the change under way.
LEMMA ChangesAlone ==
  ASSUME OneChange, UNCHANGED <<http, woken, change>>
  PROVE  OneChange'
BY DEF OneChange, Changes, Answers

\* What is queued at the gateway besides a change.
LEMMA OtherPost ==
  ASSUME OptTypes, OneChange, NEW post \in Posts, post.what # "change",
         http' = Append(http, post), woken' = woken, change' = change
  PROVE  OneChange'
<1>1. Changes' = Changes
  BY AppendIs DEF OptTypes, Changes
<1> QED
  BY <1>1 DEF OneChange, Answers

\* What is woken besides the outcome of a change.
LEMMA OtherWake ==
  ASSUME OptTypes, OneChange, NEW wake \in Wakes, wake.what \notin {"applied", "failed"},
         woken' = Append(woken, wake), http' = http, change' = change
  PROVE  OneChange'
<1>1. Answers' = Answers
  BY AppendIs DEF OptTypes, Answers
<1> QED
  BY <1>1 DEF OneChange, Changes

\* A task that is woken behind others does not change their order.
LEMMA WokenBehind ==
  ASSUME OptTypes, NEW wake \in Wakes, ~OfRead(wake, "fetch", shown.id),
         woken' = Append(woken, wake), shown' = shown, status' = status, applied' = applied,
         FetchedIsNew
  PROVE  FetchedIsNew'
<1> SUFFICES ASSUME shown.phase = "fetched", NEW n \in DOMAIN woken',
                    OfRead(woken'[n], "fetch", shown.id)
             PROVE  /\ shown.options.of >= applied
                    /\ (\E m \in 1 .. n - 1 : woken'[m].what = "applied") =>
                         shown.options.of >= status
  BY DEF FetchedIsNew
<1>1. n \in DOMAIN woken /\ woken'[n] = woken[n] /\ DOMAIN woken = 1 .. Len(woken)
  BY AppendIs DEF OptTypes
<1>2. \A m \in 1 .. n - 1 : woken'[m] = woken[m]
  BY <1>1, AppendIs DEF OptTypes
<1> QED
  BY <1>1, <1>2 DEF FetchedIsNew

\* A read that is dropped shows nothing.
LEMMA DropStep == ASSUME OptInv, NEW k \in Controls, DropRead(k) PROVE OptInv'
<1>1. /\ At(k, "idle")
      /\ UNCHANGED <<status, clock, row, guard, db, http, woken, change, applied, raced, reads,
                     faults>>
  BY DEF DropRead
<1>2. OptTypes /\ "idle" \in Phases
  BY DEF OptInv, Phases
<1>3. /\ read' \in [Controls -> Reads] /\ read'[k].phase = "idle"
      /\ read'[k].id = read[k].id /\ read'[k].options = read[k].options
      /\ read'[k].after = read[k].after
      /\ \A j \in Controls : j # k => read'[j] = read[j]
  BY <1>1, <1>2, AtIs
<1>4. OptTypes' /\ OneChange'
  BY <1>1, <1>2, <1>3, ChangesAlone DEF OptTypes, OptInv
<1>5. \A j \in Controls : read'[j].id = read[j].id
  BY <1>3
<1>6. status <= status'
  BY <1>1, <1>2 DEF OptTypes
<1>7. CASE k = "transitions"
  <2>1. shown'.phase = "idle" /\ shown'.after = shown.after
    BY <1>3, <1>7 DEF shown
  <2> QED
    BY <1>1, <1>4, <1>5, <2>1, Calm
<1>8. CASE k # "transitions"
  <2>1. shown' = shown
    BY <1>2, <1>3, <1>8, OtherControl
  <2>2. FetchedIsNew => FetchedIsNew'
    BY <1>1, <2>1 DEF FetchedIsNew
  <2> QED
    BY <1>1, <1>4, <1>5, <1>6, <2>1, <2>2, Still
<1> QED
  BY <1>7, <1>8

\* A step that changes nothing of the reads, the queues and the cache.
LEMMA Aside ==
  ASSUME OptInv, OptTypes', OneChange',
         UNCHANGED <<db, row, guard, applied, raced, faults, reads, read, woken, status>>
  PROVE  OptInv'
<1>1. shown' = shown /\ status <= status'
  BY DEF shown, OptInv, OptTypes
<1>2. FetchedIsNew => FetchedIsNew'
  BY <1>1 DEF FetchedIsNew
<1> QED
  BY <1>1, <1>2, Still

\* Choosing and confirming touch the change alone.
LEMMA ChooseStep == ASSUME OptInv, Choose PROVE OptInv'
<1>1. /\ change = "none" /\ change' = "chosen"
      /\ UNCHANGED <<status, clock, row, guard, db, http, woken, read, applied, raced, reads,
                     faults>>
  BY DEF Choose
<1>2. OptTypes'
  BY <1>1 DEF OptInv, OptTypes
<1>3. OneChange'
  BY <1>1 DEF OptInv, OneChange, Changes, Answers
<1> QED
  BY <1>1, <1>2, <1>3, Aside

\* The clock decides freshness alone.
LEMMA ClockStep == ASSUME OptInv, ClockMoves PROVE OptInv'
<1>1. /\ clock' \in 0 .. MaxTime
      /\ UNCHANGED <<status, row, guard, db, http, woken, read, change, applied, raced, reads,
                     faults>>
  BY DEF ClockMoves
<1>2. OptTypes'
  BY <1>1, EditOptionsAssumption DEF OptInv, OptTypes
<1>3. OneChange'
  BY <1>1, ChangesAlone DEF OptInv
<1> QED
  BY <1>1, <1>2, <1>3, Aside

\* A change is sent where none is under way.
LEMMA ConfirmStep == ASSUME OptInv, Confirm PROVE OptInv'
<1> DEFINE post == [what |-> "change"]
<1>1. /\ change = "chosen" /\ change' = "sent" /\ http' = Append(http, post)
      /\ UNCHANGED <<status, clock, row, guard, db, woken, read, applied, raced, reads, faults>>
  BY DEF Confirm
<1>2. post \in Posts /\ http \in Seq(Posts)
  BY DEF Posts, OptInv, OptTypes
<1>3. /\ http' \in Seq(Posts) /\ DOMAIN http = 1 .. Len(http)
      /\ \A n \in DOMAIN http' : n \in DOMAIN http \/ n = Len(http) + 1
      /\ \A n \in DOMAIN http : http'[n] = http[n]
  BY <1>1, <1>2, AppendIs
<1>4. OptTypes'
  BY <1>1, <1>3 DEF OptInv, OptTypes
<1>5. Changes = {} /\ Answers = {}
  BY <1>1 DEF OptInv, OneChange
<1>6. Changes' \subseteq {Len(http) + 1} /\ Answers' = {}
  BY <1>1, <1>3, <1>5 DEF Changes, Answers
<1>7. OneChange'
  BY <1>1, <1>6 DEF OneChange
<1> QED
  BY <1>1, <1>4, <1>7, Aside
\* The gateway has carried out or refused a change.
LEMMA ChangeServed ==
  ASSUME OptInv, http # <<>>, http' = Tail(http), Head(http).what = "change",
         NEW outcome \in {"applied", "failed"}, woken' = Append(woken, [what |-> outcome]),
         status' \in {status, status + 1},
         UNCHANGED <<clock, row, guard, db, change, applied, raced, reads, faults, read>>
  PROVE  OptInv'
<1> DEFINE wake == [what |-> outcome]
<1>1. OptTypes /\ http \in Seq(Posts) /\ woken \in Seq(Wakes) /\ wake \in Wakes
  BY DEF OptInv, OptTypes, Wakes
<1>2. /\ http' \in Seq(Posts) /\ DOMAIN http = 1 .. Len(http) /\ Head(http) = http[1]
      /\ \A n \in DOMAIN http' : n + 1 \in DOMAIN http /\ http'[n] = http[n + 1]
      /\ DOMAIN http' = 1 .. Len(http) - 1 /\ Len(http) \in Nat /\ Len(http) >= 1
  BY <1>1, TailIs
<1>3. /\ woken' \in Seq(Wakes) /\ DOMAIN woken = 1 .. Len(woken)
      /\ \A n \in DOMAIN woken' : n \in DOMAIN woken \/ n = Len(woken) + 1
      /\ \A n \in DOMAIN woken : woken'[n] = woken[n]
      /\ woken'[Len(woken) + 1] = wake
  BY <1>1, AppendIs
<1>4. status \in Nat /\ status' \in Nat /\ status <= status'
  BY <1>1 DEF OptTypes
<1>5. OptTypes'
  BY <1>1, <1>2, <1>3, <1>4 DEF OptTypes
<1>6. 1 \in Changes /\ change = "sent" /\ Answers = {}
  BY <1>2 DEF OptInv, OneChange, Changes
<1>7. Changes' = {}
  <2>1. ASSUME NEW n \in Changes' PROVE FALSE
    <3>1. n \in DOMAIN http' /\ n + 1 \in Changes
      BY <1>2 DEF Changes
    <3>2. n + 1 = 1 /\ n \in 1 .. Len(http) - 1
      BY <1>2, <1>6, <3>1 DEF OptInv, OneChange
    <3> QED
      BY <3>2
  <2> QED
    BY <2>1
<1>8. Answers' \subseteq {Len(woken) + 1}
  BY <1>3, <1>6 DEF Answers
<1>9. OneChange'
  BY <1>6, <1>7, <1>8 DEF OneChange
<1>10. shown' = shown
  BY DEF shown
<1>11. FetchedIsNew => FetchedIsNew'
  <2> SUFFICES ASSUME FetchedIsNew, shown.phase = "fetched", NEW n \in DOMAIN woken',
                      OfRead(woken'[n], "fetch", shown.id)
               PROVE  /\ shown.options.of >= applied
                      /\ ~ \E m \in 1 .. n - 1 : woken'[m].what = "applied"
    BY <1>10 DEF FetchedIsNew
  <2>1. n \in DOMAIN woken /\ woken'[n] = woken[n]
    BY <1>3 DEF OfRead
  <2>2. \A m \in 1 .. n - 1 : m \in DOMAIN woken /\ woken'[m] = woken[m]
    BY <1>3, <2>1
  <2>3. shown.options.of >= applied
    BY <2>1 DEF FetchedIsNew
  <2>4. \A m \in DOMAIN woken : woken[m].what # "applied"
    BY <1>6 DEF Answers
  <2> QED
    BY <2>2, <2>3, <2>4
<1> QED
  BY <1>4, <1>5, <1>9, <1>10, <1>11, Still

\* What the read of a control is once Jira has answered it.
Fetched(q) ==
    [read[q.control] EXCEPT
        !.phase = "fetched",
        !.options = [of |-> status, fetched_at |-> read[q.control].started]]

\* Its fields.
LEMMA FetchedIs ==
  ASSUME OptTypes, NEW q, q.control \in Controls
  PROVE  /\ Fetched(q) \in Reads /\ Fetched(q).phase = "fetched"
         /\ Fetched(q).options \in Options /\ Fetched(q).options.of = status
         /\ Fetched(q).id = read[q.control].id /\ Fetched(q).after = read[q.control].after
<1> DEFINE old == read[q.control]
           options == [of |-> status, fetched_at |-> old.started]
<1>1. old \in Reads /\ status \in Nat
  BY DEF OptTypes
<1> HIDE DEF old
<1>2. options \in Options /\ options.of = status
  BY <1>1 DEF Options, Reads
<1>3. Fetched(q) = [old EXCEPT !.phase = "fetched", !.options = options]
  BY DEF Fetched, old
<1> HIDE DEF options
<1> QED
  BY <1>1, <1>2, <1>3 DEF Reads, Phases, old

\* A request has left the queue of the gateway.
LEMMA PostServed ==
  ASSUME OptTypes, OneChange, http # <<>>, http' = Tail(http), Head(http).what # "change",
         change' = change, Answers' = Answers
  PROVE  http' \in Seq(Posts) /\ OneChange'
<1>1. /\ http' \in Seq(Posts) /\ DOMAIN http = 1 .. Len(http)
      /\ \A n \in DOMAIN http' : n + 1 \in DOMAIN http /\ http'[n] = http[n + 1]
      /\ DOMAIN http' = 1 .. Len(http) - 1 /\ Len(http) \in Nat
  BY TailIs DEF OptTypes
<1>2. \A n \in Changes' : n + 1 \in Changes /\ n \in Nat
  BY <1>1 DEF Changes
<1> QED
  BY <1>1, <1>2 DEF OneChange

\* What Jira answers is as new as its state.
LEMMA FetchServed ==
  ASSUME OptInv, http # <<>>, http' = Tail(http), NEW q, q = Head(http), q.what = "fetch",
         read[q.control].id = q.id, read[q.control].phase = "fetching",
         read' = [read EXCEPT ![q.control] = Fetched(q)],
         woken' = Append(woken, q),
         UNCHANGED <<status, clock, row, guard, db, change, applied, raced, reads, faults>>
  PROVE  OptInv'
<1> DEFINE k == q.control
           old == read[k]
           new == Fetched(q)
           options == new.options
<1>1. OptTypes /\ http \in Seq(Posts) /\ woken \in Seq(Wakes)
  BY DEF OptInv, OptTypes
<1>2. q \in Fetches
  <2>1. q \in Posts
    BY <1>1, TailIs
  <2> QED
    BY <2>1 DEF Posts
<1>3. k \in Controls /\ q \in Wakes /\ q.id \in Nat
  BY <1>2 DEF Fetches, Wakes
<1>4. old \in Reads /\ read \in [Controls -> Reads] /\ status \in Nat
  BY <1>1, <1>3 DEF OptTypes
<1>5. /\ new \in Reads /\ new.phase = "fetched" /\ new.options = options
      /\ new.id = old.id /\ new.after = old.after
      /\ options \in Options /\ options.of = status
  BY <1>1, <1>3, FetchedIs
<1>6. options \in Options /\ options.of = status
  BY <1>5
<1> HIDE DEF k, old, options, new
<1>7. /\ new \in Reads /\ new.phase = "fetched" /\ new.options = options
      /\ new.id = old.id /\ new.after = old.after
  BY <1>5
<1>8. /\ read' \in [Controls -> Reads] /\ read'[k] = new
      /\ \A j \in Controls : j # k => read'[j] = read[j]
  BY <1>3, <1>4, <1>7 DEF k, new
<1>9. /\ woken' \in Seq(Wakes) /\ DOMAIN woken = 1 .. Len(woken)
      /\ \A n \in DOMAIN woken' : n \in DOMAIN woken \/ n = Len(woken) + 1
  BY <1>1, <1>3, AppendIs
<1>10. Answers' = Answers
  BY <1>1, <1>2, <1>3, AppendIs DEF Answers, Fetches
<1>11. http' \in Seq(Posts) /\ OneChange'
  BY <1>1, <1>2, <1>10, PostServed DEF OptInv, Fetches
<1>12. OptTypes'
  BY <1>1, <1>6, <1>7, <1>8, <1>9, <1>11 DEF OptTypes
<1>13. \A j \in Controls : read'[j].id = read[j].id
  BY <1>7, <1>8 DEF old
<1>14. CASE k = "transitions"
  <2>1. /\ shown' = new /\ shown = old /\ shown.phase = "fetching"
        /\ shown'.id = shown.id /\ shown'.after = shown.after
    BY <1>7, <1>8, <1>14 DEF shown, old, k
  <2>2. Numbered'
    BY <1>7, <1>13, <2>1 DEF OptInv, Numbered
  <2>3. /\ applied <= status /\ shown.after <= applied /\ applied \in Nat /\ shown.after \in Nat
    BY <1>1, <1>4, <2>1 DEF OptInv, ReadsAreNew, OptTypes, Reads
  <2>6. ReadsAreNew'
    BY <1>4, <1>6, <1>7, <2>1, <2>3 DEF ReadsAreNew
  <2>7. faults' = 0 => Ordered'
    <3>1. FetchedIsNew'
      BY <1>4, <1>6, <1>7, <2>1, <2>3 DEF FetchedIsNew
    <3> QED
      BY <1>7, <2>1, <3>1 DEF OptInv, Ordered, QueueIsNew, LookIsNew, LookedIsNew
  <2>8. ~raced' => Guarded'
    BY <1>4, <1>6, <1>7, <2>1, <2>3 DEF OptInv, Guarded, AllNew, LookedIsNew
  <2>9. OptionsFollowTransitionUnlessRaced'
    BY <1>7, <2>1 DEF OptionsFollowTransitionUnlessRaced, OptionsFollowTransition, shown
  <2> QED
    BY <1>11, <1>12, <2>2, <2>6, <2>7, <2>8, <2>9 DEF OptInv
<1>15. CASE k # "transitions"
  <2>1. shown' = shown
    BY <1>1, <1>3, <1>8, <1>15, OtherControl
  <2>2. ~OfRead(q, "fetch", shown.id)
    BY <1>15 DEF OfRead, k
  <2>3. FetchedIsNew => FetchedIsNew'
    BY <1>1, <1>3, <2>1, <2>2, WokenBehind
  <2> QED
    BY <1>4, <1>11, <1>12, <1>13, <2>1, <2>3, Still
<1> QED
  BY <1>14, <1>15

\* Each case of the thread of the gateway.
LEMMA ServeHttpStep == ASSUME OptInv, ServeHttp PROVE OptInv'
<1> DEFINE q == Head(http)
<1>1. /\ http # <<>> /\ http' = Tail(http)
      /\ UNCHANGED <<clock, row, guard, db, change, applied, raced, reads, faults>>
  BY DEF ServeHttp
<1>2. OptTypes /\ http \in Seq(Posts) /\ woken \in Seq(Wakes) /\ status \in Nat
  BY DEF OptInv, OptTypes
<1>3. q \in Posts
  BY <1>1, <1>2, TailIs
<1>4. CASE q.what = "change" /\ UNCHANGED read
           /\ \/ Wake([what |-> "applied"]) /\ status' = status + 1
              \/ Wake([what |-> "failed"]) /\ status' \in {status, status + 1}
  BY <1>1, <1>4, ChangeServed DEF Wake
<1>5. CASE q.what = "fetch" /\ awaits(q, "fetching") /\ UNCHANGED status /\ Wake(q)
           /\ read' = [read EXCEPT ![q.control] = Fetched(q)]
  BY <1>1, <1>5, FetchServed DEF Wake, awaits
<1>6. CASE q.what = "fetch" /\ UNCHANGED <<status, woken>>
           /\ (At(q.control, "failed") \/ UNCHANGED read)
  <2>1. Answers' = Answers
    BY <1>6 DEF Answers
  <2>2. http' \in Seq(Posts) /\ OneChange'
    BY <1>1, <1>2, <1>6, <2>1, PostServed DEF OptInv
  <2>3. CASE UNCHANGED read
    <3>1. OptTypes'
      BY <1>1, <1>2, <1>6, <2>2, <2>3 DEF OptTypes
    <3> QED
      BY <1>1, <1>6, <2>2, <2>3, <3>1, Aside
  <2>4. CASE At(q.control, "failed")
    <3>1. q.control \in Controls /\ "failed" \in Phases
      BY <1>3, <1>6 DEF Posts, Fetches, Phases
    <3>2. /\ read' \in [Controls -> Reads] /\ read'[q.control].phase = "failed"
          /\ read'[q.control].id = read[q.control].id
          /\ read'[q.control].after = read[q.control].after
          /\ \A j \in Controls : j # q.control => read'[j] = read[j]
      BY <1>2, <2>4, <3>1, AtIs
    <3>3. OptTypes'
      BY <1>1, <1>2, <1>6, <2>2, <3>2 DEF OptTypes
    <3>4. \A j \in Controls : read'[j].id = read[j].id
      BY <3>2
    <3>5. CASE q.control = "transitions"
      <4>1. shown'.phase = "failed" /\ shown'.after = shown.after
        BY <3>2, <3>5 DEF shown
      <4> QED
        BY <1>1, <1>6, <2>2, <3>3, <3>4, <4>1, Calm
    <3>6. CASE q.control # "transitions"
      <4>1. shown' = shown
        BY <1>2, <3>1, <3>2, <3>6, OtherControl
      <4>2. FetchedIsNew => FetchedIsNew'
        BY <1>1, <1>6, <4>1 DEF FetchedIsNew
      <4>3. status <= status'
        BY <1>2, <1>6
      <4> QED
        BY <1>1, <1>6, <2>2, <3>3, <3>4, <4>1, <4>2, <4>3, Still
    <3> QED
      BY <3>5, <3>6
  <2> QED
    BY <1>6, <2>3, <2>4
<1> QED
  BY <1>4, <1>5, <1>6 DEF ServeHttp, Fetched

\* The queue of the worker without its head.
LEMMA DbTail ==
  ASSUME OptTypes, db # <<>>, db' = Tail(db)
  PROVE  /\ db' \in Seq(Requests) /\ Len(db) \in Nat /\ Len(db') = Len(db) - 1
         /\ DOMAIN db' = 1 .. Len(db) - 1 /\ DOMAIN db = 1 .. Len(db)
         /\ Len(db) >= 1 /\ Head(db) = db[1] /\ Head(db) \in Requests
         /\ \A n \in DOMAIN db' : n + 1 \in DOMAIN db /\ db'[n] = db[n + 1]
         /\ 1 \in DOMAIN db
BY TailIs DEF OptTypes

\* A request that is served leaves the ids of the others.
LEMMA ServedNumbered ==
  ASSUME OptTypes, Numbered, db # <<>>, db' = Tail(db), reads' = reads,
         \A j \in Controls : read'[j].id = read[j].id,
         shown'.phase \in {"looking", "looked", "fetching", "fetched"} =>
           shown.phase \in {"looking", "looked", "fetching", "fetched"}
  PROVE  Numbered'
<1>1. shown'.id = shown.id
  BY Control DEF shown
<1> QED
  BY <1>1, DbTail DEF Numbered

\* Serving keeps what is old before its invalidation.
LEMMA ServedInOrder ==
  ASSUME OptTypes, db # <<>>, db' = Tail(db), applied' = applied,
         row'["transitions"] = HeldAfter(Head(db), row["transitions"]),
         shown'.id = shown.id, shown'.after = shown.after,
         shown'.phase = "looking" => shown.phase = "looking", QueueIsNew, LookIsNew
  PROVE  QueueIsNew' /\ LookIsNew'
<1>1. db \in Seq(Requests) /\ Len(db) \in 1 .. Len(db) /\ Len(db') + 1 = Len(db)
  BY DbTail DEF OptTypes
<1>2. QueueIsNew'
  <2>1. HoldsNew(db, row["transitions"], Len(db) + 1, applied)
    BY DEF QueueIsNew
  <2>2. HoldsNew(Tail(db), HeldAfter(Head(db), row["transitions"]), Len(db), applied)
    BY <1>1, <2>1, HoldsServed
  <2> QED
    BY <1>1, <2>2 DEF QueueIsNew
<1>3. LookIsNew'
  <2> SUFFICES ASSUME shown'.phase = "looking", NEW n \in DOMAIN db',
                      OfRead(db'[n], "look", shown'.id)
               PROVE  HoldsNew(db', row'["transitions"], n, shown'.after)
    BY DEF LookIsNew
  <2>1. n + 1 \in DOMAIN db /\ db'[n] = db[n + 1] /\ n \in 1 .. Len(db)
    BY DbTail
  <2>2. HoldsNew(db, row["transitions"], n + 1, shown.after)
    BY <2>1 DEF LookIsNew
  <2>3. HoldsNew(Tail(db), HeldAfter(Head(db), row["transitions"]), n, shown.after)
    BY <1>1, <2>1, <2>2, HoldsServed
  <2> QED
    BY <2>3
<1> QED
  BY <1>2, <1>3

\* Serving brings nothing old where nothing old is.
LEMMA ServedStaysNew ==
  ASSUME OptTypes, db # <<>>, db' = Tail(db), applied' = applied,
         row'["transitions"] \in {row["transitions"], HeldAfter(Head(db), row["transitions"])},
         AllNew
  PROVE  AllNew'
<1>1. ~OldStore(Head(db), applied)
  BY DbTail DEF AllNew
<1>2. ~Old(None, applied)
  BY DEF Old
<1>3. ~Old(HeldAfter(Head(db), row["transitions"]), applied)
  BY <1>1, <1>2 DEF HeldAfter, OldStore, AllNew
<1>4. ~Old(row'["transitions"], applied)
  BY <1>3 DEF AllNew
<1>5. \A n \in DOMAIN db' : ~OldStore(db'[n], applied)
  BY DbTail DEF AllNew
<1> QED
  BY <1>4, <1>5 DEF AllNew

\* The worker serves a request that does not change what the read of the transitions
\* holds, or fails.
LEMMA ServedAside ==
  ASSUME OptInv, OptTypes', OneChange', db # <<>>, db' = Tail(db),
         UNCHANGED <<status, guard, applied, raced, reads>>,
         \A j \in Controls : read'[j].id = read[j].id,
         shown'.after = shown.after, shown' = shown \/ shown'.phase = "failed",
         FetchedIsNew => FetchedIsNew',
         \/ /\ faults' = faults
            /\ row'["transitions"] = HeldAfter(Head(db), row["transitions"])
         \/ faults' = faults + 1 /\ row' = row
  PROVE  OptInv'
<1>1. OptTypes /\ faults \in Nat /\ shown'.id = shown.id
  BY Control DEF OptInv, OptTypes, shown
<1>2. Numbered'
  BY <1>1, ServedNumbered DEF OptInv
<1>3. ReadsAreNew'
  BY DEF OptInv, ReadsAreNew
<1>4. faults' = 0 => Ordered'
  <2> SUFFICES ASSUME faults' = 0 PROVE Ordered'
    OBVIOUS
  <2>1. faults = 0 /\ row'["transitions"] = HeldAfter(Head(db), row["transitions"])
    BY <1>1
  <2>2. QueueIsNew /\ LookIsNew /\ LookedIsNew /\ FetchedIsNew
    BY <2>1 DEF OptInv, Ordered
  <2>3. QueueIsNew' /\ LookIsNew'
    BY <1>1, <2>1, <2>2, ServedInOrder
  <2>4. LookedIsNew'
    BY <2>2 DEF LookedIsNew
  <2> QED
    BY <2>2, <2>3, <2>4 DEF Ordered
<1>5. ~raced' => Guarded'
  <2> SUFFICES ASSUME ~raced' PROVE Guarded'
    OBVIOUS
  <2>1. Guarded
    BY DEF OptInv
  <2>2. AllNew => AllNew'
    BY <1>1, ServedStaysNew
  <2>3. LookedIsNew => LookedIsNew'
    BY DEF LookedIsNew
  <2>4. shown'.phase = "storing" =>
          \A n \in DOMAIN db' : OfRead(db'[n], "store", shown'.id) =>
             \A m \in DOMAIN db' : m >= n => ~OldStore(db'[m], applied')
    <3> SUFFICES ASSUME shown'.phase = "storing", NEW n \in DOMAIN db',
                        OfRead(db'[n], "store", shown'.id), NEW m \in DOMAIN db', m >= n
                 PROVE  ~OldStore(db'[m], applied')
      OBVIOUS
    <3>1. /\ n + 1 \in DOMAIN db /\ db'[n] = db[n + 1]
          /\ m + 1 \in DOMAIN db /\ db'[m] = db[m + 1] /\ m + 1 >= n + 1
      BY <1>1, DbTail
    <3> QED
      BY <1>1, <2>1, <3>1 DEF Guarded
  <2> QED
    BY <2>1, <2>2, <2>3, <2>4 DEF Guarded
<1>6. OptionsFollowTransitionUnlessRaced'
  BY <1>1 DEF OptInv, OptionsFollowTransitionUnlessRaced, OptionsFollowTransition, shown
<1> QED
  BY <1>2, <1>3, <1>4, <1>5, <1>6 DEF OptInv

\* The worker answers the read of the transitions with what it holds.
LEMMA ServedLook ==
  ASSUME OptInv, OptTypes', OneChange', db # <<>>, db' = Tail(db),
         OfRead(Head(db), "look", shown.id), shown.phase = "looking",
         UNCHANGED <<status, guard, applied, raced, reads, faults, row>>,
         \A j \in Controls : read'[j].id = read[j].id,
         shown'.phase = "looked", shown'.after = shown.after,
         shown'.options = row["transitions"]
  PROVE  OptInv'
<1>1. OptTypes /\ shown'.id = shown.id
  BY Control DEF OptInv, shown
<1>2. Numbered'
  BY <1>1, ServedNumbered DEF OptInv
<1>3. ReadsAreNew'
  BY DEF OptInv, ReadsAreNew
<1>4. row'["transitions"] = HeldAfter(Head(db), row["transitions"])
  BY DEF HeldAfter, OfRead
<1>5. faults' = 0 => Ordered'
  <2> SUFFICES ASSUME faults' = 0 PROVE Ordered'
    OBVIOUS
  <2>1. QueueIsNew /\ LookIsNew
    BY DEF OptInv, Ordered
  <2>2. QueueIsNew' /\ LookIsNew'
    BY <1>1, <1>4, <2>1, ServedInOrder
  <2>3. HoldsNew(db, row["transitions"], 1, shown.after)
    BY <1>1, <2>1, DbTail DEF LookIsNew
  <2>4. LookedIsNew'
    BY <2>3 DEF LookedIsNew, HoldsNew
  <2> QED
    BY <2>2, <2>4 DEF Ordered, FetchedIsNew
<1>6. ~raced' => Guarded'
  <2> SUFFICES ASSUME ~raced' PROVE Guarded'
    OBVIOUS
  <2>1. Guarded
    BY DEF OptInv
  <2>2. AllNew => AllNew'
    BY <1>1, ServedStaysNew
  <2>3. AllNew => LookedIsNew'
    <3>1. shown.after <= applied /\ shown.after \in Nat /\ applied \in Nat
      BY <1>1, Control DEF OptInv, ReadsAreNew, OptTypes, shown, Reads
    <3>2. row["transitions"] \in Options \cup {None}
      BY <1>1, Control DEF OptTypes
    <3> QED
      BY <3>1, <3>2 DEF AllNew, LookedIsNew, Old, Options
  <2> QED
    BY <2>1, <2>2, <2>3 DEF Guarded
<1>7. OptionsFollowTransitionUnlessRaced'
  BY DEF OptionsFollowTransitionUnlessRaced, OptionsFollowTransition, shown
<1> QED
  BY <1>2, <1>3, <1>5, <1>6, <1>7 DEF OptInv

\* The worker has stored what the read of the transitions fetched.
LEMMA ServedStore ==
  ASSUME OptInv, OptTypes', OneChange', db # <<>>, db' = Tail(db),
         OfRead(Head(db), "store", shown.id), shown.phase = "storing",
         UNCHANGED <<status, guard, applied, raced, reads, faults>>,
         row'["transitions"] = HeldAfter(Head(db), row["transitions"]),
         \A j \in Controls : read'[j].id = read[j].id,
         shown'.phase = "stored", shown'.after = shown.after, shown'.options = shown.options
  PROVE  OptInv'
<1>1. OptTypes /\ shown'.id = shown.id
  BY Control DEF OptInv, shown
<1>2. Numbered'
  BY <1>1, ServedNumbered DEF OptInv
<1>3. ReadsAreNew'
  BY DEF OptInv, ReadsAreNew
<1>5. faults' = 0 => Ordered'
  <2> SUFFICES ASSUME faults' = 0 PROVE Ordered'
    OBVIOUS
  <2>1. QueueIsNew /\ LookIsNew
    BY DEF OptInv, Ordered
  <2>2. QueueIsNew' /\ LookIsNew'
    BY <1>1, <2>1, ServedInOrder
  <2> QED
    BY <2>2 DEF Ordered, FetchedIsNew, LookedIsNew
<1>6. ~raced' => Guarded'
  <2> SUFFICES ASSUME ~raced' PROVE Guarded'
    OBVIOUS
  <2>1. Guarded
    BY DEF OptInv
  <2>2. \A m \in DOMAIN db : ~OldStore(db[m], applied)
    <3>1. 1 \in DOMAIN db /\ \A m \in DOMAIN db : m >= 1
      BY <1>1, DbTail
    <3> QED
      BY <1>1, <2>1, <3>1, DbTail DEF Guarded
  <2>3. ~Old(row'["transitions"], applied)
    BY <1>1, <2>2, DbTail DEF HeldAfter, OldStore, OfRead
  <2>4. AllNew'
    BY <1>1, <2>2, <2>3, DbTail DEF AllNew
  <2> QED
    BY <2>1, <2>4 DEF Guarded, LookedIsNew
<1>7. OptionsFollowTransitionUnlessRaced'
  BY DEF OptionsFollowTransitionUnlessRaced, OptionsFollowTransition, shown
<1> QED
  BY <1>2, <1>3, <1>5, <1>6, <1>7 DEF OptInv

\* What the read of a control is once the worker has answered it.
Looked(q) == [read[q.control] EXCEPT !.phase = "looked", !.options = row[q.control]]

\* Its fields.
LEMMA LookedIs ==
  ASSUME OptTypes, NEW q, q.control \in Controls
  PROVE  /\ Looked(q) \in Reads /\ Looked(q).phase = "looked"
         /\ Looked(q).options = row[q.control]
         /\ Looked(q).id = read[q.control].id /\ Looked(q).after = read[q.control].after
<1> DEFINE old == read[q.control]
           options == row[q.control]
<1>1. old \in Reads /\ options \in Options \cup {None}
  BY DEF OptTypes
<1>2. Looked(q) = [old EXCEPT !.phase = "looked", !.options = options]
  BY DEF Looked
<1> HIDE DEF old, options
<1>3. /\ Looked(q) \in Reads /\ Looked(q).phase = "looked" /\ Looked(q).options = options
      /\ Looked(q).id = old.id /\ Looked(q).after = old.after
  BY <1>1, <1>2 DEF Reads, Phases
<1> QED
  BY <1>3 DEF old, options

\* What the worker holds after a request of the queue.
LEMMA RowIs ==
  ASSUME OptTypes, NEW q \in Stores, row' = [row EXCEPT ![q.control] = q.row]
  PROVE  /\ row' \in [Controls -> Options \cup {None}]
         /\ row'["transitions"] = HeldAfter(q, row["transitions"])
<1>1. /\ q.control \in Controls /\ q.row \in Options /\ q.what = "store"
      /\ row \in [Controls -> Options \cup {None}]
  BY DEF OptTypes, Stores
<1>2. row' \in [Controls -> Options \cup {None}]
  BY <1>1
<1>3. row'["transitions"] = IF q.control = "transitions" THEN q.row ELSE row["transitions"]
  BY <1>1, Control
<1> QED
  BY <1>1, <1>2, <1>3 DEF HeldAfter

\* An invalidation leaves nothing of the transitions.
LEMMA RowIsGone ==
  ASSUME OptTypes, row' = [row EXCEPT !["transitions"] = None], NEW q, q.what = "invalidate"
  PROVE  /\ row' \in [Controls -> Options \cup {None}]
         /\ row'["transitions"] = HeldAfter(q, row["transitions"])
BY Control DEF OptTypes, HeldAfter

\* A look is answered with what the worker holds.
LEMMA LookServed ==
  ASSUME OptInv, db # <<>>, db' = Tail(db), NEW q, q = Head(db), q.what = "look",
         read[q.control].id = q.id, read[q.control].phase = "looking",
         read' = [read EXCEPT ![q.control] = Looked(q)], woken' = Append(woken, q),
         UNCHANGED <<row, faults, status, clock, guard, http, change, applied, raced, reads>>
  PROVE  OptInv'
<1> DEFINE k == q.control
           old == read[k]
           new == Looked(q)
<1>1. OptTypes /\ OneChange /\ woken \in Seq(Wakes)
  BY DEF OptInv, OptTypes
<1>2. q \in Looks
  <2>1. q \in Requests
    BY <1>1, DbTail
  <2> QED
    BY <2>1 DEF Requests, Stores
<1>3. k \in Controls /\ q \in Wakes /\ q.what = "look"
  BY <1>2 DEF Looks, Wakes
<1>4. old \in Reads /\ read \in [Controls -> Reads]
  BY <1>1, <1>3 DEF OptTypes
<1>5. /\ new \in Reads /\ new.phase = "looked" /\ new.options = row[k]
      /\ new.id = old.id /\ new.after = old.after
  BY <1>1, <1>3, LookedIs
<1> HIDE DEF k, old, new
<1>6. /\ read' \in [Controls -> Reads] /\ read'[k] = new
      /\ \A j \in Controls : j # k => read'[j] = read[j]
  BY <1>3, <1>4, <1>5 DEF k, new
<1>7. woken' \in Seq(Wakes)
  BY <1>1, <1>3, AppendIs
<1>8. OneChange'
  BY <1>1, <1>3, OtherWake
<1>9. OptTypes'
  BY <1>1, <1>5, <1>6, <1>7, DbTail DEF OptTypes
<1>10. \A j \in Controls : read'[j].id = read[j].id
  BY <1>5, <1>6 DEF old
<1>11. CASE k = "transitions"
  <2>1. shown' = new /\ shown = old /\ OfRead(Head(db), "look", shown.id)
    BY <1>3, <1>6, <1>11 DEF shown, old, k, OfRead
  <2>2. shown.phase = "looking"
    BY <2>1 DEF old, k
  <2> QED
    BY <1>5, <1>8, <1>9, <1>10, <1>11, <2>1, <2>2, ServedLook
<1>12. CASE k # "transitions"
  <2>1. shown' = shown
    BY <1>1, <1>3, <1>6, <1>12, OtherControl
  <2>2. ~OfRead(q, "fetch", shown.id)
    BY <1>3 DEF OfRead
  <2>3. FetchedIsNew => FetchedIsNew'
    BY <1>1, <1>3, <2>1, <2>2, WokenBehind
  <2>4. row'["transitions"] = HeldAfter(Head(db), row["transitions"])
    BY <1>3 DEF HeldAfter
  <2> QED
    BY <1>8, <1>9, <1>10, <2>1, <2>3, <2>4, ServedAside
<1> QED
  BY <1>11, <1>12

\* A store is carried out, whether or not it is still awaited.
LEMMA StoreServed ==
  ASSUME OptInv, db # <<>>, db' = Tail(db), NEW q, q = Head(db), q.what = "store",
         row' = [row EXCEPT ![q.control] = q.row],
         \/ /\ read[q.control].id = q.id /\ read[q.control].phase = "storing"
            /\ At(q.control, "stored") /\ woken' = Append(woken, q)
         \/ UNCHANGED <<read, woken>>,
         UNCHANGED <<faults, status, clock, guard, http, change, applied, raced, reads>>
  PROVE  OptInv'
<1> DEFINE k == q.control
<1>1. OptTypes /\ OneChange /\ woken \in Seq(Wakes)
  BY DEF OptInv, OptTypes
<1>2. q \in Stores
  <2>1. q \in Requests
    BY <1>1, DbTail
  <2> QED
    BY <2>1 DEF Requests, Looks
<1>3. k \in Controls /\ q \in Wakes /\ q.what = "store" /\ "stored" \in Phases
  BY <1>2 DEF Stores, Wakes, Phases
<1>4. /\ row' \in [Controls -> Options \cup {None}]
      /\ row'["transitions"] = HeldAfter(Head(db), row["transitions"])
  BY <1>1, <1>2, RowIs
<1>5. CASE UNCHANGED <<read, woken>>
  <2>1. OptTypes' /\ OneChange' /\ shown' = shown
    BY <1>1, <1>4, <1>5, DbTail, ChangesAlone DEF OptTypes, shown
  <2>2. FetchedIsNew => FetchedIsNew'
    BY <1>5, <2>1 DEF FetchedIsNew
  <2> QED
    BY <1>4, <1>5, <2>1, <2>2, ServedAside
<1>6. CASE /\ read[k].id = q.id /\ read[k].phase = "storing"
           /\ At(k, "stored") /\ woken' = Append(woken, q)
  <2>1. /\ read' \in [Controls -> Reads] /\ read'[k].phase = "stored"
        /\ read'[k].id = read[k].id /\ read'[k].options = read[k].options
        /\ read'[k].after = read[k].after
        /\ \A j \in Controls : j # k => read'[j] = read[j]
    BY <1>1, <1>3, <1>6, AtIs
  <2>2. woken' \in Seq(Wakes) /\ OneChange'
    BY <1>1, <1>3, <1>6, AppendIs, OtherWake
  <2>3. OptTypes'
    BY <1>1, <1>4, <1>6, <2>1, <2>2, DbTail DEF OptTypes
  <2>4. \A j \in Controls : read'[j].id = read[j].id
    BY <2>1
  <2>5. CASE k = "transitions"
    <3>1. /\ OfRead(Head(db), "store", shown.id) /\ shown.phase = "storing"
          /\ shown'.phase = "stored" /\ shown'.after = shown.after
          /\ shown'.options = shown.options
      BY <1>3, <1>6, <2>1, <2>5 DEF shown, OfRead
    <3> QED
      BY <1>4, <2>2, <2>3, <2>4, <3>1, ServedStore
  <2>6. CASE k # "transitions"
    <3>1. shown' = shown
      BY <1>1, <1>3, <2>1, <2>6, OtherControl
    <3>2. ~OfRead(q, "fetch", shown.id)
      BY <1>3 DEF OfRead
    <3>3. FetchedIsNew => FetchedIsNew'
      BY <1>1, <1>3, <1>6, <3>1, <3>2, WokenBehind
    <3> QED
      BY <1>4, <2>2, <2>3, <2>4, <3>1, <3>3, ServedAside
  <2> QED
    BY <2>5, <2>6
<1> QED
  BY <1>5, <1>6

\* A request that fails changes the read at most.
LEMMA RequestFailed ==
  ASSUME OptInv, db # <<>>, db' = Tail(db), NEW q, q = Head(db), faults' = faults + 1,
         \/ q.what # "invalidate" /\ At(q.control, "failed")
         \/ UNCHANGED read,
         UNCHANGED <<row, woken, status, clock, guard, http, change, applied, raced, reads>>
  PROVE  OptInv'
<1> DEFINE k == q.control
<1>1. OptTypes /\ OneChange
  BY DEF OptInv
<1>2. faults \in Nat /\ faults' \in Nat
  BY <1>1 DEF OptTypes
<1>3. OneChange'
  BY <1>1, ChangesAlone
<1>4. CASE UNCHANGED read
  <2>1. OptTypes' /\ shown' = shown
    BY <1>1, <1>2, <1>4, DbTail DEF OptTypes, shown
  <2>2. FetchedIsNew => FetchedIsNew'
    BY <2>1 DEF FetchedIsNew
  <2> QED
    BY <1>3, <1>4, <2>1, <2>2, ServedAside
<1>5. CASE q.what # "invalidate" /\ At(k, "failed")
  <2>1. q \in Requests
    BY <1>1, DbTail
  <2>2. k \in Controls /\ "failed" \in Phases
    BY <1>5, <2>1 DEF Requests, Looks, Stores, Phases
  <2>3. /\ read' \in [Controls -> Reads] /\ read'[k].phase = "failed"
        /\ read'[k].id = read[k].id /\ read'[k].after = read[k].after
        /\ \A j \in Controls : j # k => read'[j] = read[j]
    BY <1>1, <1>5, <2>2, AtIs
  <2>4. OptTypes'
    BY <1>1, <1>2, <2>3, DbTail DEF OptTypes
  <2>5. \A j \in Controls : read'[j].id = read[j].id
    BY <2>3
  <2>6. shown'.after = shown.after /\ (shown' = shown \/ shown'.phase = "failed")
    BY <2>3, Control DEF shown
  <2>7. FetchedIsNew => FetchedIsNew'
    BY <2>6 DEF FetchedIsNew
  <2> QED
    BY <1>3, <2>4, <2>5, <2>6, <2>7, ServedAside
<1> QED
  BY <1>4, <1>5

\* Each case of the worker.
LEMMA ServeDbStep == ASSUME OptInv, ServeDb PROVE OptInv'
<1> DEFINE q == Head(db)
<1>1. /\ db # <<>> /\ db' = Tail(db)
      /\ UNCHANGED <<status, clock, guard, http, change, applied, raced, reads>>
  BY DEF ServeDb
<1>2. OptTypes /\ OneChange
  BY DEF OptInv
<1>3. CASE q.what = "look" /\ awaits(q, "looking") /\ UNCHANGED <<row, faults>> /\ Wake(q)
           /\ read' = [read EXCEPT ![q.control] = Looked(q)]
  BY <1>1, <1>3, LookServed DEF Wake, awaits
<1>4. CASE q.what = "look" /\ UNCHANGED <<read, woken, row, faults>>
  <2>1. OptTypes' /\ OneChange' /\ shown' = shown
    BY <1>1, <1>2, <1>4, DbTail, ChangesAlone DEF OptTypes, shown
  <2>2. FetchedIsNew => FetchedIsNew'
    BY <1>1, <1>4, <2>1 DEF FetchedIsNew
  <2>3. row'["transitions"] = HeldAfter(Head(db), row["transitions"])
    BY <1>4 DEF HeldAfter
  <2> QED
    BY <1>1, <1>4, <2>1, <2>2, <2>3, ServedAside
<1>5. CASE /\ q.what = "store" /\ row' = [row EXCEPT ![q.control] = q.row]
           /\ IF awaits(q, "storing") THEN At(q.control, "stored") /\ Wake(q)
              ELSE UNCHANGED <<read, woken>>
           /\ UNCHANGED faults
  BY <1>1, <1>5, StoreServed DEF Wake, awaits
<1>6. CASE /\ q.what = "invalidate" /\ row' = [row EXCEPT !["transitions"] = None]
           /\ UNCHANGED <<read, woken, faults>>
  <2>1. /\ row' \in [Controls -> Options \cup {None}]
        /\ row'["transitions"] = HeldAfter(Head(db), row["transitions"])
    BY <1>2, <1>6, RowIsGone
  <2>2. OptTypes' /\ OneChange' /\ shown' = shown
    BY <1>1, <1>2, <1>6, <2>1, DbTail, ChangesAlone DEF OptTypes, shown
  <2>3. FetchedIsNew => FetchedIsNew'
    BY <1>1, <1>6, <2>2 DEF FetchedIsNew
  <2> QED
    BY <1>1, <1>6, <2>1, <2>2, <2>3, ServedAside
<1>7. CASE /\ faults' = faults + 1 /\ UNCHANGED <<row, woken>>
           /\ IF q.what # "invalidate" /\ read[q.control].id = q.id
                 /\ read[q.control].phase \in {"looking", "storing"}
              THEN At(q.control, "failed") ELSE UNCHANGED read
  BY <1>1, <1>7, RequestFailed
<1> QED
  BY <1>3, <1>4, <1>5, <1>6, <1>7 DEF ServeDb, Looked

\* The woken tasks without the first.
LEMMA WokenTail ==
  ASSUME OptTypes, woken # <<>>, woken' = Tail(woken)
  PROVE  /\ woken' \in Seq(Wakes) /\ Len(woken) \in Nat /\ DOMAIN woken = 1 .. Len(woken)
         /\ DOMAIN woken' = 1 .. Len(woken) - 1 /\ 1 \in DOMAIN woken
         /\ Head(woken) = woken[1] /\ Head(woken) \in Wakes
         /\ \A n \in DOMAIN woken' : n + 1 \in DOMAIN woken /\ woken'[n] = woken[n + 1]
BY TailIs DEF OptTypes

\* A task that is polled carries no outcome of a change.
LEMMA PolledAlone ==
  ASSUME OptTypes, OneChange, woken # <<>>, woken' = Tail(woken), change' = change,
         Changes' = Changes
  PROVE  OneChange'
<1>1. \A n \in Answers' : n + 1 \in Answers /\ n \in Nat
  BY WokenTail DEF Answers
<1> QED
  BY <1>1 DEF OneChange

\* The outcome of the change is the last of it.
LEMMA PolledOutcome ==
  ASSUME OptTypes, OneChange, woken # <<>>, woken' = Tail(woken), change' = "none",
         http' = http, Head(woken).what \in {"applied", "failed"}
  PROVE  OneChange'
<1>1. 1 \in Answers
  BY WokenTail DEF Answers
<1>2. Changes' = {}
  BY <1>1 DEF OneChange, Changes
<1>3. Answers' = {}
  <2>1. ASSUME NEW n \in Answers' PROVE FALSE
    <3>1. n + 1 \in Answers /\ n \in 1 .. Len(woken) - 1
      BY WokenTail DEF Answers
    <3>2. n + 1 = 1
      BY <1>1, <3>1 DEF OneChange
    <3> QED
      BY <3>1, <3>2
  <2> QED
    BY <2>1
<1> QED
  BY <1>2, <1>3 DEF OneChange

\* What was fetched and is still to be polled is as new as a change polled before it.
LEMMA PolledNew ==
  ASSUME OptTypes, woken # <<>>, woken' = Tail(woken), shown' = shown, status' = status,
         \/ applied' = applied
         \/ Head(woken).what = "applied" /\ applied' = status,
         FetchedIsNew
  PROVE  FetchedIsNew'
<1> SUFFICES ASSUME shown.phase = "fetched", NEW n \in DOMAIN woken',
                    OfRead(woken'[n], "fetch", shown.id)
             PROVE  /\ shown.options.of >= applied'
                    /\ (\E m \in 1 .. n - 1 : woken'[m].what = "applied") =>
                         shown.options.of >= status
  BY DEF FetchedIsNew
<1>1. /\ n + 1 \in DOMAIN woken /\ woken'[n] = woken[n + 1] /\ n \in 1 .. Len(woken) - 1
      /\ Len(woken) \in Nat
  BY WokenTail
<1>2. /\ shown.options.of >= applied
      /\ (\E m \in 1 .. (n + 1) - 1 : woken[m].what = "applied") => shown.options.of >= status
  BY <1>1 DEF FetchedIsNew
<1>3. ASSUME NEW m \in 1 .. n - 1, woken'[m].what = "applied"
      PROVE  \E i \in 1 .. (n + 1) - 1 : woken[i].what = "applied"
  <2>1. m \in DOMAIN woken' /\ m + 1 \in 1 .. (n + 1) - 1
    BY <1>1, WokenTail
  <2>2. woken'[m] = woken[m + 1]
    BY <2>1, WokenTail
  <2> QED
    BY <1>3, <2>1, <2>2
<1>4. Head(woken).what = "applied" => \E i \in 1 .. (n + 1) - 1 : woken[i].what = "applied"
  <2>1. 1 \in 1 .. (n + 1) - 1 /\ Head(woken) = woken[1]
    BY <1>1, WokenTail
  <2> QED
    BY <2>1
<1> QED
  BY <1>2, <1>3, <1>4

\* A change that is reported makes what the worker holds old, and invalidates it.
LEMMA ChangeAppliedStep ==
  ASSUME OptInv, woken # <<>>, woken' = Tail(woken), Head(woken).what = "applied",
         ChangeApplied, UNCHANGED <<status, clock, row, reads, faults>>
  PROVE  OptInv'
<1> DEFINE request == [what |-> "invalidate"]
<1>1. /\ change' = "none" /\ applied' = status /\ guard' = TRUE /\ db' = Append(db, request)
      /\ raced' = (raced \/ shown.phase \in {"fetching", "fetched", "storing", "stored"})
      /\ UNCHANGED <<http, read>>
  BY DEF ChangeApplied, shown
<1>2. OptTypes /\ OneChange /\ db \in Seq(Requests) /\ request \in Requests
  BY DEF OptInv, OptTypes, Requests
<1>3. shown' = shown
  BY <1>1 DEF shown
<1>4. /\ db' \in Seq(Requests) /\ DOMAIN db = 1 .. Len(db)
      /\ \A n \in DOMAIN db' : n \in DOMAIN db \/ n = Len(db) + 1
      /\ \A n \in DOMAIN db : db'[n] = db[n]
      /\ db'[Len(db) + 1] = request
  BY <1>1, <1>2, AppendIs
<1>5. OptTypes'
  <2>1. raced' \in BOOLEAN
    BY <1>1, <1>2 DEF OptTypes
  <2> QED
    BY <1>1, <1>2, <1>4, <2>1, WokenTail DEF OptTypes
<1>6. OneChange'
  BY <1>1, <1>2, PolledOutcome
<1>7. Numbered'
  <2>1. \A n \in DOMAIN db' : db'[n].what # "invalidate" => n \in DOMAIN db /\ db'[n] = db[n]
    BY <1>4
  <2>2. \A n \in DOMAIN db' : OfRead(db'[n], "store", shown.id) => n \in DOMAIN db /\ db'[n] = db[n]
    BY <1>4 DEF OfRead
  <2> QED
    BY <1>1, <1>3, <2>1, <2>2 DEF OptInv, Numbered
<1>8. ReadsAreNew'
  <2>1. /\ status \in Nat /\ applied \in Nat /\ shown.after \in Nat
    BY <1>2, Control DEF OptTypes, shown, Reads
  <2> QED
    BY <1>1, <1>3, <2>1 DEF OptInv, ReadsAreNew
<1>9. faults' = 0 => Ordered'
  <2> SUFFICES ASSUME faults' = 0 PROVE Ordered'
    OBVIOUS
  <2>1. LookIsNew /\ LookedIsNew /\ FetchedIsNew
    BY DEF OptInv, Ordered
  <2>2. QueueIsNew'
    <3>1. HoldsNew(Append(db, request), row["transitions"], Len(Append(db, request)) + 1, status)
      BY <1>2, HoldsInvalidated
    <3> QED
      BY <1>1, <3>1 DEF QueueIsNew
  <2>3. LookIsNew'
    BY <1>1, <1>2, <1>3, <2>1, LooksStay
  <2>4. LookedIsNew'
    BY <1>3, <2>1 DEF LookedIsNew
  <2>5. FetchedIsNew'
    BY <1>1, <1>2, <1>3, <2>1, PolledNew
  <2> QED
    BY <2>2, <2>3, <2>4, <2>5 DEF Ordered
<1>10. ~raced' => Guarded'
  BY <1>1, <1>3 DEF Guarded
<1>11. OptionsFollowTransitionUnlessRaced'
  BY <1>1, <1>3 DEF OptInv, OptionsFollowTransitionUnlessRaced, OptionsFollowTransition, shown
<1> QED
  BY <1>5, <1>6, <1>7, <1>8, <1>9, <1>10, <1>11 DEF OptInv

\* A task that is polled and does nothing for the controls.
LEMMA PolledAside ==
  ASSUME OptInv, woken # <<>>, woken' = Tail(woken), OneChange', change' \in {change, "none"},
         UNCHANGED <<status, clock, row, reads, faults, guard, db, http, read, applied, raced>>
  PROVE  OptInv'
<1>1. OptTypes /\ shown' = shown
  BY DEF OptInv, shown
<1>2. OptTypes'
  BY <1>1, WokenTail DEF OptTypes
<1>3. FetchedIsNew => FetchedIsNew'
  BY <1>1, PolledNew
<1>4. status <= status'
  BY <1>1 DEF OptTypes
<1> QED
  BY <1>1, <1>2, <1>3, <1>4, Still

\* The choices the worker held, which are fresh, are shown.
LEMMA ShownFromCache ==
  ASSUME OptInv, OptTypes', OneChange',
         UNCHANGED <<db, row, guard, applied, raced, faults, reads, status>>,
         \A j \in Controls : read'[j].id = read[j].id,
         shown.phase = "looked", shown.options # None, ~guard,
         shown'.phase = "shown", shown'.after = shown.after, shown'.options = shown.options
  PROVE  OptInv'
<1>1. shown'.id = shown.id /\ OptTypes
  BY Control DEF OptInv, shown
<1>2. Numbered' /\ ReadsAreNew'
  BY <1>1 DEF OptInv, Numbered, ReadsAreNew
<1>3. faults' = 0 => Ordered'
  BY DEF OptInv, Ordered, QueueIsNew, LookIsNew, LookedIsNew, FetchedIsNew
<1>4. ~raced' => Guarded'
  BY DEF OptInv, Guarded, AllNew, LookedIsNew
<1>5. OptionsFollowTransitionUnlessRaced'
  <2>1. (faults = 0 \/ ~raced) => LookedIsNew
    BY DEF OptInv, Ordered, Guarded
  <2>2. shown.options \in Options /\ shown.after \in Nat
    BY <1>1, Control DEF OptTypes, shown, Reads
  <2>3. shown.options.of \in Nat
    BY <2>2 DEF Options
  <2>4. LookedIsNew => shown.options.of >= shown.after
    BY <2>2, <2>3 DEF LookedIsNew, Old
  <2> QED
    BY <2>1, <2>4 DEF OptionsFollowTransitionUnlessRaced, OptionsFollowTransition, shown
<1> QED
  BY <1>2, <1>3, <1>4, <1>5 DEF OptInv

\* Cached choices are shown or fetched again.
LEMMA UseCacheStep ==
  ASSUME OptInv, woken # <<>>, woken' = Tail(woken), NEW q, q = Head(woken), q.what = "look",
         awaits(q, "looked"), UseCache(q.control), UNCHANGED <<status, clock, row, reads, faults>>
  PROVE  OptInv'
<1> DEFINE k == q.control
           phase == read'[k].phase
<1>1. OptTypes /\ OneChange
  BY DEF OptInv
<1>2. k \in Controls /\ read[k].phase = "looked" /\ q \in Wakes
  <2>1. q \in Wakes
    BY <1>1, WokenTail
  <2> QED
    BY <2>1 DEF Wakes, Looks, Fetches, Stores, awaits
<1>3. UNCHANGED <<guard, db, change, applied, raced>>
  BY DEF UseCache
<1>4. \/ is_fresh(k, read[k].options) /\ At(k, "shown") /\ UNCHANGED http
      \/ At(k, "fetching") /\ http' = Append(http, Request(k, "fetch"))
  BY DEF UseCache
<1>5. "shown" \in Phases /\ "fetching" \in Phases
  BY DEF Phases
<1>6. /\ read' \in [Controls -> Reads] /\ read'[k].phase \in {"shown", "fetching"}
      /\ read'[k].id = read[k].id /\ read'[k].options = read[k].options
      /\ read'[k].after = read[k].after
      /\ \A j \in Controls : j # k => read'[j] = read[j]
      /\ read'[k].phase = "shown" => is_fresh(k, read[k].options)
  <2>1. CASE is_fresh(k, read[k].options) /\ At(k, "shown") /\ UNCHANGED http
    BY <1>1, <1>2, <1>5, <2>1, AtIs
  <2>2. CASE At(k, "fetching") /\ http' = Append(http, Request(k, "fetch"))
    BY <1>1, <1>2, <1>5, <2>2, AtIs
  <2> QED
    BY <1>4, <2>1, <2>2
<1>7. http' \in Seq(Posts) /\ Changes' = Changes
  <2>1. CASE UNCHANGED http
    BY <1>1, <2>1 DEF OptTypes, Changes
  <2>2. CASE http' = Append(http, Request(k, "fetch"))
    <3>1. Request(k, "fetch") \in Posts /\ Request(k, "fetch").what # "change"
      BY <1>1, <1>2 DEF OptTypes, Reads, Request, Posts, Fetches
    <3> QED
      BY <1>1, <2>2, <3>1, AppendIs DEF OptTypes, Changes
  <2> QED
    BY <1>4, <2>1, <2>2
<1>8. OneChange'
  BY <1>1, <1>3, <1>7, PolledAlone
<1>9. OptTypes'
  BY <1>1, <1>3, <1>6, <1>7, WokenTail DEF OptTypes
<1>10. \A j \in Controls : read'[j].id = read[j].id
  BY <1>6
<1>11. CASE k = "transitions"
  <2>1. /\ shown.phase = "looked" /\ shown'.phase \in {"shown", "fetching"}
        /\ shown'.after = shown.after /\ shown'.options = shown.options
        /\ shown'.phase = "shown" => is_fresh("transitions", shown.options)
    BY <1>2, <1>6, <1>11 DEF shown
  <2>2. CASE shown'.phase = "fetching"
    BY <1>3, <1>8, <1>9, <1>10, <2>1, <2>2, Calm
  <2>3. CASE shown'.phase = "shown"
    <3>1. shown.options # None /\ ~guard
      BY <2>1, <2>3 DEF is_fresh
    <3> QED
      BY <1>3, <1>8, <1>9, <1>10, <2>1, <2>3, <3>1, ShownFromCache
  <2> QED
    BY <2>1, <2>2, <2>3
<1>12. CASE k # "transitions"
  <2>1. shown' = shown
    BY <1>1, <1>2, <1>6, <1>12, OtherControl
  <2>2. FetchedIsNew => FetchedIsNew'
    BY <1>1, <1>3, <2>1, PolledNew
  <2>3. status <= status'
    BY <1>1 DEF OptTypes
  <2> QED
    BY <1>3, <1>8, <1>9, <1>10, <2>1, <2>2, <2>3, Still
<1> QED
  BY <1>11, <1>12

\* What was fetched of the transitions is on its way to the worker.
LEMMA StoredBehind ==
  ASSUME OptInv, OptTypes', OneChange', NEW request \in Stores, db' = Append(db, request),
         request.control = "transitions", request.id = shown.id,
         request.row = shown.options, shown.phase = "fetched",
         faults = 0 => shown.options.of >= applied,
         UNCHANGED <<row, guard, applied, raced, faults, reads, status>>,
         \A j \in Controls : read'[j].id = read[j].id,
         shown'.phase = "storing", shown'.after = shown.after, shown'.options = shown.options
  PROVE  OptInv'
<1>1. shown'.id = shown.id /\ OptTypes /\ request \in Requests /\ request.what = "store"
  BY Control DEF OptInv, shown, Requests, Stores
<1>2. /\ DOMAIN db = 1 .. Len(db) /\ Len(db) \in Nat
      /\ \A n \in DOMAIN db' : n \in DOMAIN db \/ n = Len(db) + 1
      /\ \A n \in DOMAIN db : db'[n] = db[n]
      /\ db'[Len(db) + 1] = request /\ DOMAIN db' = 1 .. Len(db) + 1
  BY <1>1, AppendIs DEF OptTypes
<1>3. Numbered'
  <2>1. request.id <= reads
    BY Control DEF OptInv, Numbered, shown
  <2> QED
    BY <1>1, <1>2, <2>1 DEF OptInv, Numbered
<1>4. ReadsAreNew'
  BY DEF OptInv, ReadsAreNew
<1>5. /\ shown.options \in Options /\ shown.options.of \in Nat /\ applied \in Nat
  BY <1>1, Control DEF OptTypes, shown, Options
<1>6. shown.options.of >= applied => ~OldStore(request, applied)
  BY <1>5 DEF OldStore, Old
<1>7. faults' = 0 => Ordered'
  <2> SUFFICES ASSUME faults' = 0 PROVE Ordered'
    OBVIOUS
  <2>1. QueueIsNew
    BY DEF OptInv, Ordered
  <2>2. QueueIsNew'
    BY <1>1, <1>6, <2>1, AsksTheWorker
  <2> QED
    BY <2>2 DEF Ordered, LookIsNew, LookedIsNew, FetchedIsNew
<1>8. ~raced' => Guarded'
  <2> SUFFICES ASSUME ~raced' PROVE Guarded'
    OBVIOUS
  <2>1. Guarded
    BY DEF OptInv
  <2>2. shown.options.of >= applied /\ ~OldStore(request, applied)
    BY <1>6, <2>1 DEF Guarded
  <2>3. AllNew => AllNew'
    BY <1>2, <2>2 DEF AllNew
  <2>4. \A n \in DOMAIN db' : OfRead(db'[n], "store", shown.id) => n = Len(db) + 1
    BY <1>2 DEF OptInv, Numbered
  <2>5. \A n \in DOMAIN db' : n >= Len(db) + 1 => n = Len(db) + 1
    BY <1>2
  <2>6. \A n \in DOMAIN db' : OfRead(db'[n], "store", shown'.id) =>
           \A m \in DOMAIN db' : m >= n => ~OldStore(db'[m], applied')
    BY <1>1, <1>2, <2>2, <2>4, <2>5
  <2> QED
    BY <2>1, <2>2, <2>3, <2>6 DEF Guarded, LookedIsNew
<1>9. OptionsFollowTransitionUnlessRaced'
  BY DEF OptionsFollowTransitionUnlessRaced, OptionsFollowTransition, shown
<1> QED
  BY <1>3, <1>4, <1>7, <1>8, <1>9 DEF OptInv

\* The choices of another control are on their way to the worker.
LEMMA OtherBehind ==
  ASSUME OptInv, OptTypes', OneChange', NEW request \in Stores, db' = Append(db, request),
         request.control # "transitions", request.id <= reads,
         UNCHANGED <<row, guard, applied, raced, faults, reads, status>>,
         \A j \in Controls : read'[j].id = read[j].id,
         shown' = shown, FetchedIsNew => FetchedIsNew'
  PROVE  OptInv'
<1>1. OptTypes /\ request \in Requests /\ request.what = "store"
  BY DEF OptInv, Requests, Stores
<1>2. /\ \A n \in DOMAIN db' : n \in DOMAIN db \/ n = Len(db) + 1
      /\ \A n \in DOMAIN db : db'[n] = db[n]
      /\ db'[Len(db) + 1] = request
  BY <1>1, AppendIs DEF OptTypes
<1>3. ~OldStore(request, applied) /\ ~OfRead(request, "store", shown.id)
  BY DEF OldStore, OfRead
<1>4. Numbered'
  BY <1>2, <1>3 DEF OptInv, Numbered
<1>5. ReadsAreNew'
  BY DEF OptInv, ReadsAreNew
<1>6. faults' = 0 => Ordered'
  <2> SUFFICES ASSUME faults' = 0 PROVE Ordered'
    OBVIOUS
  <2>1. QueueIsNew /\ LookIsNew /\ LookedIsNew /\ FetchedIsNew
    BY DEF OptInv, Ordered
  <2>2. QueueIsNew' /\ LookIsNew'
    BY <1>1, <1>3, <2>1, AsksTheWorker, LooksStay
  <2> QED
    BY <2>1, <2>2 DEF Ordered, LookedIsNew
<1>7. ~raced' => Guarded'
  <2> SUFFICES ASSUME ~raced' PROVE Guarded'
    OBVIOUS
  <2>1. Guarded
    BY DEF OptInv
  <2>2. AllNew => AllNew'
    BY <1>2, <1>3 DEF AllNew
  <2>3. \A n \in DOMAIN db' : ~OldStore(db'[n], applied) \/ (n \in DOMAIN db /\ db'[n] = db[n])
    BY <1>2, <1>3
  <2>4. \A n \in DOMAIN db' : OfRead(db'[n], "store", shown.id) => n \in DOMAIN db /\ db'[n] = db[n]
    BY <1>2, <1>3
  <2> QED
    BY <2>1, <2>2, <2>3, <2>4 DEF Guarded, LookedIsNew
<1>8. OptionsFollowTransitionUnlessRaced'
  BY DEF OptInv, OptionsFollowTransitionUnlessRaced, OptionsFollowTransition, shown
<1> QED
  BY <1>4, <1>5, <1>6, <1>7, <1>8 DEF OptInv

\* What was fetched is stored.
LEMMA StoreStep ==
  ASSUME OptInv, woken # <<>>, woken' = Tail(woken), NEW q, q = Head(woken), q.what = "fetch",
         awaits(q, "fetched"), Store(q.control), UNCHANGED <<status, clock, row, reads, faults>>
  PROVE  OptInv'
<1> DEFINE k == q.control
           request == [what |-> "store", control |-> k, id |-> read[k].id, row |-> read[k].options]
<1>1. OptTypes /\ OneChange
  BY DEF OptInv
<1>2. k \in Controls /\ read[k].phase = "fetched" /\ read[k].id = q.id /\ q \in Wakes
  <2>1. q \in Wakes
    BY <1>1, WokenTail
  <2> QED
    BY <2>1 DEF Wakes, Looks, Fetches, Stores, awaits
<1>3. At(k, "storing") /\ db' = Append(db, request)
      /\ UNCHANGED <<guard, http, change, applied, raced>>
  BY DEF Store
<1>4. request \in Stores /\ request \in Requests
  <2>1. read[k].options \in Options /\ read[k].id \in Nat
    BY <1>1, <1>2 DEF OptTypes, Reads
  <2> QED
    BY <1>2, <2>1 DEF Stores, Requests
<1>5. /\ request.control = k /\ request.id = read[k].id /\ request.row = read[k].options
  OBVIOUS
<1> HIDE DEF request
<1>6. "storing" \in Phases
  BY DEF Phases
<1>7. /\ read' \in [Controls -> Reads] /\ read'[k].phase = "storing"
      /\ read'[k].id = read[k].id /\ read'[k].options = read[k].options
      /\ read'[k].after = read[k].after
      /\ \A j \in Controls : j # k => read'[j] = read[j]
  BY <1>1, <1>2, <1>3, <1>6, AtIs
<1>8. OneChange'
  BY <1>1, <1>3, PolledAlone DEF Changes
<1>9. OptTypes'
  <2>1. db' \in Seq(Requests)
    BY <1>1, <1>3, <1>4, AppendIs DEF OptTypes
  <2>2. \A j \in Controls : read'[j].phase \in {"fetched", "storing", "stored"} =>
           read'[j].options \in Options
    BY <1>1, <1>2, <1>7 DEF OptTypes
  <2> QED
    BY <1>1, <1>3, <1>7, <2>1, <2>2, WokenTail DEF OptTypes
<1>10. \A j \in Controls : read'[j].id = read[j].id
  BY <1>7
<1>11. CASE k = "transitions"
  <2>1. /\ shown.phase = "fetched" /\ shown'.phase = "storing"
        /\ shown'.after = shown.after /\ shown'.options = shown.options
        /\ request.id = shown.id /\ request.row = shown.options
    BY <1>2, <1>5, <1>7, <1>11 DEF shown
  <2>2. faults = 0 => shown.options.of >= applied
    <3>1. faults = 0 => FetchedIsNew
      BY DEF OptInv, Ordered
    <3>2. OfRead(woken[1], "fetch", shown.id) /\ 1 \in DOMAIN woken
      BY <1>1, <1>2, <1>11, WokenTail DEF OfRead, shown
    <3> QED
      BY <2>1, <3>1, <3>2 DEF FetchedIsNew
  <2> QED
    BY <1>3, <1>4, <1>5, <1>8, <1>9, <1>10, <1>11, <2>1, <2>2, StoredBehind
<1>12. CASE k # "transitions"
  <2>1. shown' = shown
    BY <1>1, <1>2, <1>7, <1>12, OtherControl
  <2>2. FetchedIsNew => FetchedIsNew'
    BY <1>1, <1>3, <2>1, PolledNew
  <2>3. request.id <= reads
    BY <1>2, <1>5 DEF OptInv, Numbered
  <2> QED
    BY <1>3, <1>4, <1>5, <1>8, <1>9, <1>10, <1>12, <2>1, <2>2, <2>3, OtherBehind
<1> QED
  BY <1>11, <1>12

\* The choices that were stored are shown, and the guard is lifted.
LEMMA ShownAsStored ==
  ASSUME OptInv, OptTypes', OneChange',
         UNCHANGED <<db, row, applied, raced, faults, reads, status>>,
         \A j \in Controls : read'[j].id = read[j].id,
         shown.phase = "stored",
         shown'.phase = "shown", shown'.after = shown.after, shown'.options = shown.options
  PROVE  OptInv'
<1>1. shown'.id = shown.id
  BY Control DEF shown
<1>2. Numbered' /\ ReadsAreNew'
  BY <1>1 DEF OptInv, Numbered, ReadsAreNew
<1>3. faults' = 0 => Ordered'
  BY DEF OptInv, Ordered, QueueIsNew, LookIsNew, LookedIsNew, FetchedIsNew
<1>4. ~raced' => Guarded'
  BY DEF OptInv, Guarded, AllNew, LookedIsNew
<1>5. OptionsFollowTransitionUnlessRaced'
  BY DEF OptInv, ReadsAreNew, OptionsFollowTransitionUnlessRaced, OptionsFollowTransition, shown
<1> QED
  BY <1>2, <1>3, <1>4, <1>5 DEF OptInv

\* What was stored is shown.
LEMMA ShowStep ==
  ASSUME OptInv, woken # <<>>, woken' = Tail(woken), NEW q, q = Head(woken), q.what = "store",
         awaits(q, "stored"), Show(q.control), UNCHANGED <<status, clock, row, reads, faults>>
  PROVE  OptInv'
<1> DEFINE k == q.control
<1>1. OptTypes /\ OneChange
  BY DEF OptInv
<1>2. k \in Controls /\ read[k].phase = "stored" /\ "shown" \in Phases
  <2>1. q \in Wakes
    BY <1>1, WokenTail
  <2> QED
    BY <2>1 DEF Wakes, Looks, Fetches, Stores, awaits, Phases
<1>3. At(k, "shown") /\ guard' = (guard /\ k # "transitions")
      /\ UNCHANGED <<db, http, change, applied, raced>>
  BY DEF Show
<1>4. /\ read' \in [Controls -> Reads] /\ read'[k].phase = "shown"
      /\ read'[k].id = read[k].id /\ read'[k].options = read[k].options
      /\ read'[k].after = read[k].after
      /\ \A j \in Controls : j # k => read'[j] = read[j]
  BY <1>1, <1>2, <1>3, AtIs
<1>5. OneChange'
  BY <1>1, <1>3, PolledAlone DEF Changes
<1>6. OptTypes'
  <2>1. guard' \in BOOLEAN
    BY <1>3
  <2> QED
    BY <1>1, <1>3, <1>4, <2>1, WokenTail DEF OptTypes
<1>7. \A j \in Controls : read'[j].id = read[j].id
  BY <1>4
<1>8. CASE k = "transitions"
  <2>1. /\ shown.phase = "stored" /\ shown'.phase = "shown"
        /\ shown'.after = shown.after /\ shown'.options = shown.options
    BY <1>2, <1>4, <1>8 DEF shown
  <2> QED
    BY <1>3, <1>5, <1>6, <1>7, <2>1, ShownAsStored
<1>9. CASE k # "transitions"
  <2>1. shown' = shown
    BY <1>1, <1>2, <1>4, <1>9, OtherControl
  <2>2. FetchedIsNew => FetchedIsNew'
    BY <1>1, <1>3, <2>1, PolledNew
  <2>3. status <= status'
    BY <1>1 DEF OptTypes
  <2>4. guard' = guard
    BY <1>1, <1>3, <1>9 DEF OptTypes
  <2> QED
    BY <1>3, <1>5, <1>6, <1>7, <2>1, <2>2, <2>3, <2>4, Still
<1> QED
  BY <1>8, <1>9

\* Each task that may be polled.
LEMMA PollStep == ASSUME OptInv, Poll PROVE OptInv'
<1> DEFINE q == Head(woken)
<1>1. /\ woken # <<>> /\ woken' = Tail(woken) /\ UNCHANGED <<status, clock, row, reads, faults>>
  BY DEF Poll
<1>2. OptTypes /\ OneChange
  BY DEF OptInv
<1>3. CASE q.what = "applied" /\ ChangeApplied
  BY <1>1, <1>3, ChangeAppliedStep
<1>4. CASE q.what = "failed" /\ ChangeFailed
  <2>1. change' = "none" /\ UNCHANGED <<guard, db, http, read, applied, raced>>
    BY <1>4 DEF ChangeFailed
  <2>2. OneChange'
    BY <1>1, <1>2, <1>4, <2>1, PolledOutcome
  <2> QED
    BY <1>1, <2>1, <2>2, PolledAside
<1>5. CASE q.what = "look" /\ awaits(q, "looked") /\ UseCache(q.control)
  BY <1>1, <1>5, UseCacheStep
<1>6. CASE q.what = "fetch" /\ awaits(q, "fetched") /\ Store(q.control)
  BY <1>1, <1>6, StoreStep
<1>7. CASE q.what = "store" /\ awaits(q, "stored") /\ Show(q.control)
  BY <1>1, <1>7, ShowStep
<1>8. CASE UNCHANGED <<guard, db, http, read, change, applied, raced>>
  <2>1. OneChange'
    BY <1>1, <1>2, <1>8, PolledAlone DEF Changes
  <2> QED
    BY <1>1, <1>8, <2>1, PolledAside
<1> QED
  BY <1>3, <1>4, <1>5, <1>6, <1>7, <1>8 DEF Poll

\* The first state.
LEMMA OptInitial == ASSUME OptInit PROVE OptInv
<1> DEFINE idle == Read("idle", 0, 0, None, 0)
<1>1. /\ status = 0 /\ clock = 0 /\ row = [k \in Controls |-> None] /\ guard = FALSE
      /\ db = <<>> /\ http = <<>> /\ woken = <<>> /\ read = [k \in Controls |-> idle]
      /\ change = "none" /\ applied = 0 /\ raced = FALSE /\ reads = 0 /\ faults = 0
  BY DEF OptInit
<1>2. /\ idle \in Reads /\ idle.phase = "idle" /\ idle.id = 0 /\ idle.after = 0
  BY DEF Reads, Read, Phases
<1> HIDE DEF idle
<1>3. /\ read \in [Controls -> Reads] /\ shown = idle
      /\ \A k \in Controls : read[k] = idle
  BY <1>1, <1>2, Control DEF shown
<1>4. /\ <<>> \in Seq(Requests) /\ <<>> \in Seq(Posts) /\ <<>> \in Seq(Wakes) /\ Len(<<>>) = 0
      /\ \A n \in DOMAIN <<>> : FALSE
  OBVIOUS
<1>5. row["transitions"] = None
  BY <1>1, Control
<1>6. OptTypes
  BY <1>1, <1>2, <1>3, <1>4 DEF OptTypes
<1>7. OneChange
  BY <1>1, <1>4 DEF OneChange, Changes, Answers
<1>8. Numbered /\ ReadsAreNew
  BY <1>1, <1>2, <1>3, <1>4 DEF Numbered, ReadsAreNew
<1>9. Ordered
  <2>1. QueueIsNew
    BY <1>1, <1>4, <1>5 DEF QueueIsNew, HoldsNew, Old
  <2> QED
    BY <1>2, <1>3, <2>1 DEF Ordered, LookIsNew, LookedIsNew, FetchedIsNew
<1>10. Guarded
  BY <1>1, <1>2, <1>3, <1>4, <1>5 DEF Guarded, AllNew, LookedIsNew, Old
<1>11. OptionsFollowTransitionUnlessRaced
  BY <1>2, <1>3 DEF OptionsFollowTransitionUnlessRaced, OptionsFollowTransition, shown
<1> QED
  BY <1>6, <1>7, <1>8, <1>9, <1>10, <1>11 DEF OptInv

\* A step of another part.
LEMMA OptUnchanged == ASSUME OptInv, UNCHANGED optVars PROVE OptInv'
<1>1. OptTypes' /\ OneChange'
  BY DEF optVars, OptInv, OptTypes, OneChange, Changes, Answers
<1> QED
  BY <1>1, Aside DEF optVars

\* After a status change was reported, a read of the transitions that begins later shows
\* no choices from before it, however reads, stores, failures and the clock interleave,
\* as long as no storage failed or no change overtook a read (issue_edit.rs:228-238).
THEOREM OptionsFollow == OptSpec => []OptionsFollowTransitionUnlessRaced
<1>1. OptInit => OptInv
  BY OptInitial
<1>2. OptInv /\ [OptNext]_optVars => OptInv'
  BY PollStep, ServeHttpStep, ServeDbStep, ChooseStep, ConfirmStep, ClockStep, BeginReadStep,
     DropStep, OptUnchanged DEF OptNext
<1>3. OptInv => OptionsFollowTransitionUnlessRaced
  BY DEF OptInv
<1> QED
  BY <1>1, <1>2, <1>3, PTL DEF OptSpec
=============================================================================
