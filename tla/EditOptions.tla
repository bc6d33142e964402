---------------------------- MODULE EditOptions ----------------------------
(***************************************************************************)
(* The cached choices of the edit controls of one issue: who it can be     *)
(* assigned to and which transitions it can take (application/issue_edit,  *)
(* issue_edit_policy, storage/sqlite/edit_cache).  Reads of the controls,  *)
(* the SQLite worker, the gateway's thread and a status change interleave; *)
(* each thread serves its queue in order, and the shell's executor polls   *)
(* the tasks in the order they were woken.  The dashboard keeps one read   *)
(* per control and drops the older one.  Every caller names the issue by   *)
(* its id, so one locator is enough.                                       *)
(***************************************************************************)
EXTENDS Naturals, Sequences, Absent

CONSTANTS
    TTL,        \* ISSUE_EDIT_CACHE_TTL
    MaxTime, MaxReads, MaxChanges,
    MaxFaults   \* failures of the SQLite worker

ASSUME EditOptionsAssumption ==
    /\ TTL \in Nat \ {0} /\ None \notin Nat
    /\ MaxTime \in Nat /\ MaxReads \in Nat /\ MaxChanges \in Nat
    /\ MaxFaults \in Nat

Controls == {"assignees", "transitions"}

VARIABLES
    status,     \* the workflow state of the issue in Jira, counted up
    clock,
    row,        \* the durable cache: what was fetched, and when
    guard,      \* invalidated_transitions holds the issue
    db, http,   \* the requests queued at the worker and at the gateway
    woken,      \* the tasks to poll, in order
    read,       \* the read of each control
    change,     \* the status change under way
    applied,    \* history: the status after the last change reported applied
    raced,      \* history: a change was reported during a read of them
    reads, faults   \* bounds

optVars == <<status, clock, row, guard, db, http, woken, read, change,
             applied, raced, reads, faults>>

Read(phase, id, started, options, after) ==
    [phase |-> phase, id |-> id, started |-> started, options |-> options,
     after |-> after]

OptInit ==
    /\ status = 0 /\ clock = 0
    /\ row = [k \in Controls |-> None]
    /\ guard = FALSE
    /\ db = <<>> /\ http = <<>> /\ woken = <<>>
    /\ read = [k \in Controls |-> Read("idle", 0, 0, None, 0)]
    /\ change = "none" /\ applied = 0 /\ raced = FALSE
    /\ reads = 0 /\ faults = 0

Request(k, what) == [what |-> what, control |-> k, id |-> read[k].id]
At(k, phase) == read' = [read EXCEPT ![k].phase = phase]

(* A dropped read no longer answers to what is still under way for it. *)
awaits(q, phase) ==
    read[q.control].id = q.id /\ read[q.control].phase = phase
Wake(q) == woken' = Append(woken, q)

---------------------------------------------------------------------------
(* The controls *)

(* Opening a control, or reloading it, drops the older read. *)
BeginRead(k) ==
    /\ reads < MaxReads
    /\ reads' = reads + 1
    /\ read' = [read EXCEPT ![k] =
                  Read("looking", reads + 1, clock, None, applied)]
    /\ db' = Append(db, [what |-> "look", control |-> k, id |-> reads + 1])
    /\ UNCHANGED <<status, clock, row, guard, http, woken, change, applied,
                   raced, faults>>

DropRead(k) ==
    /\ read[k].phase \in {"looking", "looked", "fetching", "fetched",
                          "storing", "stored"}
    /\ At(k, "idle")
    /\ UNCHANGED <<status, clock, row, guard, db, http, woken, change,
                   applied, raced, reads,
                   faults>>

(* A choice that is shown is chosen; it is sent once it is confirmed,      *)
(* whatever reads began since.                                             *)
Choose ==
    /\ change = "none" /\ read["transitions"].phase = "shown"
    /\ change' = "chosen"
    /\ UNCHANGED <<status, clock, row, guard, db, http, woken, read, applied,
                   raced, reads,
                   faults>>

Confirm ==
    /\ change = "chosen" /\ status < MaxChanges
    /\ change' = "sent"
    /\ http' = Append(http, [what |-> "change"])
    /\ UNCHANGED <<status, clock, row, guard, db, woken, read, applied, raced,
                   reads, faults>>

---------------------------------------------------------------------------
(* What a task does when it is polled *)

cache_is_fresh(fetched_at, now) ==
    now >= fetched_at /\ now < fetched_at + TTL

\* Mutant: the guard is not looked at.
is_fresh_NoGuard(k, cached) ==
    cached # None /\ cache_is_fresh(cached.fetched_at, read[k].started)

is_fresh(k, cached) ==
    /\ cached # None
    /\ cache_is_fresh(cached.fetched_at, read[k].started)
    /\ k = "transitions" => ~guard

(* Cached choices are used while they are fresh; others are fetched. *)
UseCache(k) ==
    /\ IF is_fresh(k, read[k].options)
       THEN At(k, "shown") /\ UNCHANGED http
       ELSE /\ At(k, "fetching")
            /\ http' = Append(http, Request(k, "fetch"))
    /\ UNCHANGED <<guard, db, change, applied, raced>>

Store(k) ==
    /\ At(k, "storing")
    /\ db' = Append(db, [what |-> "store", control |-> k, id |-> read[k].id,
                         row |-> read[k].options])
    /\ UNCHANGED <<guard, http, change, applied, raced>>

(* mark_transitions_refreshed, and the choices are handed over. *)
Show(k) ==
    /\ At(k, "shown")
    /\ guard' = (guard /\ k # "transitions")
    /\ UNCHANGED <<db, http, change, applied, raced>>

ChangeApplied ==
    /\ change' = "none" /\ applied' = status
    /\ guard' = TRUE
    /\ raced' = (raced \/ read["transitions"].phase \in
                            {"fetching", "fetched", "storing", "stored"})
    /\ db' = Append(db, [what |-> "invalidate"])
    /\ UNCHANGED <<http, read>>

(* Any error, an unknown outcome too, leaves cache and guard alone. *)
ChangeFailed ==
    /\ change' = "none"
    /\ UNCHANGED <<guard, db, http, read, applied, raced>>

Poll ==
    /\ woken # <<>>
    /\ woken' = Tail(woken)
    /\ LET q == Head(woken) IN
        CASE q.what = "applied"    -> ChangeApplied
          [] q.what = "failed"     -> ChangeFailed
          [] q.what = "look"  /\ awaits(q, "looked")  -> UseCache(q.control)
          [] q.what = "fetch" /\ awaits(q, "fetched") -> Store(q.control)
          [] q.what = "store" /\ awaits(q, "stored")  -> Show(q.control)
          [] OTHER -> UNCHANGED <<guard, db, http, read, change, applied, raced>>
    /\ UNCHANGED <<status, clock, row, reads, faults>>

---------------------------------------------------------------------------
(* The gateway's thread: a change is carried out and reported, carried out *)
(* and lost, or refused; a fetch answers with what Jira offers, or fails.  *)
ServeHttp ==
    /\ http # <<>>
    /\ http' = Tail(http)
    /\ LET q == Head(http) IN
        \/ /\ q.what = "change"
           /\ \/ Wake([what |-> "applied"]) /\ status' = status + 1
              \/ Wake([what |-> "failed"]) /\ status' \in {status, status + 1}
           /\ UNCHANGED read
        \/ /\ q.what = "fetch" /\ awaits(q, "fetching")
           /\ \/ /\ read' = [read EXCEPT
                       ![q.control].phase = "fetched",
                       ![q.control].options =
                         [of |-> status,
                          fetched_at |-> read[q.control].started]]
                 /\ Wake(q)
              \/ At(q.control, "failed") /\ UNCHANGED woken
           /\ UNCHANGED status
        \/ /\ q.what = "fetch" /\ ~awaits(q, "fetching")
           /\ UNCHANGED <<status, read, woken>>
    /\ UNCHANGED <<clock, row, guard, db, change, applied, raced, reads,
                   faults>>

(* The SQLite worker; a request may fail, which the invalidation ignores. *)
ServeDb ==
    /\ db # <<>>
    /\ db' = Tail(db)
    /\ LET q == Head(db) IN
        \/ /\ q.what = "look"
           /\ IF awaits(q, "looking")
              THEN /\ read' = [read EXCEPT
                                 ![q.control].phase = "looked",
                                 ![q.control].options = row[q.control]]
                   /\ Wake(q)
              ELSE UNCHANGED <<read, woken>>
           /\ UNCHANGED <<row, faults>>
        \/ /\ q.what = "store"
           /\ row' = [row EXCEPT ![q.control] = q.row]
           /\ IF awaits(q, "storing") THEN At(q.control, "stored") /\ Wake(q)
              ELSE UNCHANGED <<read, woken>>
           /\ UNCHANGED faults
        \/ /\ q.what = "invalidate"
           /\ row' = [row EXCEPT !["transitions"] = None]
           /\ UNCHANGED <<read, woken, faults>>
        \/ /\ faults < MaxFaults
           /\ faults' = faults + 1
           /\ IF q.what # "invalidate" /\ read[q.control].id = q.id
                 /\ read[q.control].phase \in {"looking", "storing"}
              THEN At(q.control, "failed") ELSE UNCHANGED read
           /\ UNCHANGED <<row, woken>>
    /\ UNCHANGED <<status, clock, guard, http, change, applied, raced,
                   reads>>

(* The wall clock is not monotonic. *)
ClockMoves ==
    /\ \E t \in 0 .. MaxTime : t # clock /\ clock' = t
    /\ UNCHANGED <<status, row, guard, db, http, woken, read, change, applied,
                   raced, reads,
                   faults>>

---------------------------------------------------------------------------
OptNext ==
    \/ Poll \/ ServeHttp \/ ServeDb \/ Choose \/ Confirm \/ ClockMoves
    \/ \E k \in Controls : BeginRead(k) \/ DropRead(k)

OptSpec == OptInit /\ [][OptNext]_optVars

---------------------------------------------------------------------------
(* "A local guard above prevents this service from using stale values even *)
(* if the adapter is temporarily unavailable" (issue_edit.rs:231-233):     *)
(* after a status change was reported applied, a read of the transitions   *)
(* that begins later never shows choices that Jira offered before it.      *)
OptionsFollowTransition ==
    LET r == read["transitions"]
    IN  r.phase = "shown" => r.options.of >= r.after

(* It holds while the durable invalidation works, and when it fails unless *)
(* an older read of the transitions was then still under way               *)
(* (issue_edit_policy.rs:61-75, issue_edit.rs:228-238).                    *)
OptionsFollowTransitionUnlessRaced ==
    faults = 0 \/ ~raced => OptionsFollowTransition
=============================================================================
