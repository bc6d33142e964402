------------------------ MODULE SettingsTransaction ------------------------
(***************************************************************************)
(* Saving the issue scope or the team tracker (dashboard/settings.rs): the *)
(* session moves to the user set of the new value, refreshes from Jira and *)
(* replaces the preferences file; a step that fails is undone by moving    *)
(* back, which may fail too.  The file is the one of local_data.rs, the      *)
(* user sets are those of the store, the process may end between any two   *)
(* steps, and what a new process finds is what it starts with.             *)
(***************************************************************************)
EXTENDS Naturals, FiniteSets, Absent

CONSTANTS
    Values,     \* Values["scope"] and Values["team"] that can be entered
    Default,    \* [scope, team] of a process without preferences
    FirstFiles, \* the preferences files a first process may find
    MaxSaves

Kinds == {"scope", "team"}

Entries == Values["scope"] \cup Values["team"]

(* A value in use with its user set, and a transaction. *)
Active == [of : Entries, set : Nat]
Transactions ==
    [kind : Kinds, to : Entries \cup {None}, from : Entries, other : Entries,
     members : Entries,
     at : {"activate", "refresh", "save", "sync_directory", "restore", "over"},
     result : {"none", "saved", "unchanged", "restored", "restore_failed"}]

ASSUME SettingsAssumption ==
    /\ DOMAIN Values = Kinds
    /\ \A k \in Kinds : Default[k] \in Values[k] /\ None \notin Values[k]
    /\ \A f \in FirstFiles \ {None}, k \in Kinds : f[k] \in Values[k]
    /\ None \notin Active /\ None \notin Transactions

VARIABLES
    stored,     \* preferences.json: [scope, team], or None if unreadable
    user_sets,  \* the store's user sets: [id, kind, of]
    session,    \* LiveWorkspace: the active values and their user sets
    board,      \* the dashboard: what it shows, and of which user sets
    tx,         \* the transaction under way, or None
    unsynced,   \* history: a save failed after it had replaced the file
    saves

settingsVars == <<stored, user_sets, session, board, tx, unsynced, saves>>

NoSession == [scope |-> None, team |-> None]
NoBoard == [workspace |-> FALSE, paused |-> FALSE,
            scope |-> None, team |-> None, members |-> Default["team"]]

SettingsInit ==
    /\ stored \in FirstFiles
    /\ user_sets = {}
    /\ session = NoSession
    /\ board = NoBoard
    /\ tx = None
    /\ unsynced = FALSE
    /\ saves = 0

---------------------------------------------------------------------------
(* User sets *)

is_empty_team(k, v) == k = "team" /\ v = Default["team"]

(* The number of user sets plus one, or the next id that is not taken. *)
next_user_set_id(sets) ==
    LET free == Cardinality(sets) + 1 .. 2 * Cardinality(sets) + 1
                  \ {s.id : s \in sets}
    IN  CHOOSE n \in free : \A m \in free : n <= m

(* A team is found by its members, a scope by its fingerprint. *)
existing(sets, k, v) == {s \in sets : s.kind = k /\ s.of = v}

save_user_set(sets, k, v) ==
    sets \cup {[id |-> next_user_set_id(sets), kind |-> k, of |-> v]}

(* A team without members has a user set of its own that is never stored. *)
with_user_set(sets, k, v) ==
    IF is_empty_team(k, v) \/ existing(sets, k, v) # {} THEN sets
    ELSE save_user_set(sets, k, v)

user_set_id(sets, k, v) ==
    IF is_empty_team(k, v) THEN 0
    ELSE (CHOOSE s \in sets : s.kind = k /\ s.of = v).id

(* set_jql_scope and configure_team_members *)
Activate(k, v) ==
    /\ user_sets' = with_user_set(user_sets, k, v)
    /\ session' = [session EXCEPT ![k] =
                      [of |-> v, set |-> user_set_id(user_sets', k, v)]]

(* The list or the save failed, perhaps after the save was committed. *)
ActivateFails(k, v) ==
    /\ user_sets' \in {user_sets, with_user_set(user_sets, k, v)}
    /\ UNCHANGED session

---------------------------------------------------------------------------
(* The process *)

(* load_preferences: anything that is not readable is the default. *)
loaded == IF stored = None THEN Default ELSE stored

Start ==
    /\ session = NoSession
    /\ LET scoped == with_user_set(user_sets, "scope", loaded["scope"])
           teamed == with_user_set(scoped, "team", loaded["team"])
           active == [k \in Kinds |->
                        [of |-> loaded[k], set |-> user_set_id(teamed, k, loaded[k])]]
       IN  \/ /\ user_sets' = teamed
              /\ session' = active
              /\ board' = [workspace |-> TRUE, paused |-> FALSE,
                           scope |-> active["scope"].set,
                           team |-> active["team"].set,
                           members |-> loaded["team"]]
           \/ /\ user_sets' \in {scoped, teamed} \ {user_sets}
              /\ UNCHANGED <<session, board>>
    /\ UNCHANGED <<stored, tx, unsynced, saves>>

(* The process ends; what it stored stays. *)
Stop ==
    /\ session # NoSession
    /\ session' = NoSession
    /\ board' = NoBoard
    /\ tx' = None
    /\ UNCHANGED <<stored, user_sets, unsynced, saves>>

---------------------------------------------------------------------------
(* The transaction *)

GoesTo(step) == tx' = [tx EXCEPT !.at = step]
Ends(result) == tx' = [tx EXCEPT !.at = "over", !.result = result]

(* What is entered is one of the values, or None: it does not validate. *)
normalized(k) == Values[k] \cup {None}

(* begin_save_settings, begin_save_team: what the file is to hold of the      *)
(* other setting is what the dashboard or the session holds of it now.      *)
BeginSave(k) ==
    /\ board.workspace /\ tx = None /\ saves < MaxSaves
    /\ saves' = saves + 1
    /\ \E v \in normalized(k) :
         tx' = [kind |-> k, to |-> v, from |-> session[k].of,
                other |-> IF k = "scope" THEN board.members
                          ELSE session["scope"].of,
                members |-> board.members,
                at |-> IF v = None THEN "over" ELSE "activate",
                result |-> IF v = None THEN "unchanged" ELSE "none"]
    /\ UNCHANGED <<stored, user_sets, session, board, unsynced>>

(* The emails of a team are looked up before this, and may not be found. *)
ActivateEntered ==
    /\ tx # None /\ tx.at = "activate"
    /\ \/ Activate(tx.kind, tx.to) /\ GoesTo("refresh")
       \/ ActivateFails(tx.kind, tx.to) /\ Ends("unchanged")
    /\ UNCHANGED <<stored, board, unsynced, saves>>

Refresh ==
    /\ tx # None /\ tx.at = "refresh"
    /\ GoesTo("save") \/ GoesTo("restore")
    /\ UNCHANGED <<stored, user_sets, session, board, unsynced, saves>>

\* Mutant: the other setting is left out of the file.
saved_preferences_OneSetting ==
    [k \in Kinds |-> IF k = tx.kind THEN tx.to ELSE Default[k]]

saved_preferences == [k \in Kinds |-> IF k = tx.kind THEN tx.to ELSE tx.other]

(* save_preferences_in_directory writes and syncs a temporary file, renames   *)
(* it over the old one, and syncs the directory.                            *)
ReplaceFile ==
    /\ tx # None /\ tx.at = "save"
    /\ \/ stored' = saved_preferences /\ GoesTo("sync_directory")
       \/ GoesTo("restore") /\ UNCHANGED stored
    /\ UNCHANGED <<user_sets, session, board, unsynced, saves>>

SyncDirectory ==
    /\ tx # None /\ tx.at = "sync_directory"
    /\ \/ Ends("saved") /\ UNCHANGED unsynced
       \/ GoesTo("restore") /\ unsynced' = TRUE
    /\ UNCHANGED <<stored, user_sets, session, board, saves>>

(* restore_scope, restore_team *)
Restore ==
    /\ tx # None /\ tx.at = "restore"
    /\ \/ Activate(tx.kind, tx.from) /\ Ends("restored")
       \/ ActivateFails(tx.kind, tx.from) /\ Ends("restore_failed")
    /\ UNCHANGED <<stored, board, unsynced, saves>>

\* Mutant: a scope that could not be restored leaves the workspace in use.
shown_after_KeepWorkspace(k, result) ==
    CASE result = "saved" -> [board EXCEPT ![k] = session[k].set]
      [] OTHER -> board

(* What the completions make of the board.  A scope that cannot be restored *)
(* gives the workspace up, a team pauses the tracker.                       *)
shown_after(k, result) ==
    CASE result = "saved" /\ k = "scope" ->
            [board EXCEPT !.scope = session["scope"].set]
      [] result = "saved" /\ k = "team" ->
            [board EXCEPT !.team = session["team"].set, !.paused = FALSE,
                          !.members = tx.to]
      [] result = "restore_failed" /\ k = "scope" ->
            [board EXCEPT !.workspace = FALSE, !.scope = None]
      [] result = "restore_failed" /\ k = "team" ->
            [board EXCEPT !.paused = TRUE, !.team = None,
                          !.members = Default["team"]]
      [] result \in {"restored", "unchanged"} /\ k = "team" ->
            [board EXCEPT !.members = tx.members]
      [] OTHER -> board

FinishSave ==
    /\ tx # None /\ tx.at = "over"
    /\ board' = shown_after(tx.kind, tx.result)
    /\ tx' = None
    /\ UNCHANGED <<stored, user_sets, session, unsynced, saves>>

TransactionStep ==
    \/ ActivateEntered \/ Refresh \/ ReplaceFile \/ SyncDirectory \/ Restore
    \/ FinishSave

SettingsNext == Start \/ Stop \/ TransactionStep \/ \E k \in Kinds : BeginSave(k)

SettingsSpec == SettingsInit /\ [][SettingsNext]_settingsVars

---------------------------------------------------------------------------
(* Between transactions the dashboard shows the issues of the scope and of  *)
(* the team that the session is set to, or none of them: an old cache is    *)
(* never paired with an unknown active scope, however the transaction, its  *)
(* undoing and the process ended.                                           *)
ShownIsOfTheActiveScope ==
    tx = None /\ board.workspace =>
        /\ board.scope = session["scope"].set
        /\ board.team \in {session["team"].set, None}

(* What a restart would load is what is in use: saving one setting neither  *)
(* loses nor changes the other.  Left out are a team that is paused and a   *)
(* save that failed after it had replaced the file.                           *)
StoredValuesAreInUse ==
    tx = None /\ board.workspace /\ ~board.paused /\ ~unsynced /\ stored # None =>
        \A k \in Kinds : stored[k] = session[k].of

(* Every value has one user set and every user set its own id, so that a    *)
(* value that is chosen again finds its issues and its cursor.              *)
UserSetsAreFoundAgain ==
    \A s, t \in user_sets :
        s.id = t.id \/ (s.kind = t.kind /\ s.of = t.of) => s = t

(* What a restart finds: the values that are in use, under the user sets   *)
(* that hold their issues.                                                  *)
SettingsAreFoundAgain == StoredValuesAreInUse /\ UserSetsAreFoundAgain
=============================================================================
