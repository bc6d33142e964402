---------------------------- MODULE Settings_proofs ----------------------------
(***************************************************************************)
(* Proofs about what the program keeps over a restart.  Saving settings,   *)
(* for all values, preferences files and any number of saves, failures and *)
(* restarts: user sets are found again, the dashboard shows the issues of  *)
(* the active scope, and what a restart would load is what is in use.  The *)
(* saved login, for all tokens and any number of starts, attempts, threads *)
(* of the keyring and failures of it: it obeys what was asked last.        *)
(***************************************************************************)
EXTENDS SettingsTransaction, Session, FiniteSetTheorems, FiniteFolds

-----------------------------------------------------------------------------
(* User sets *)

SetsOk(sets) ==
    /\ sets \in SUBSET [id : Nat, kind : Kinds, of : Entries]
    /\ IsFiniteSet(sets)
    /\ \A s, t \in sets : s.id = t.id \/ (s.kind = t.kind /\ s.of = t.of) => s = t

\* The user set of a value is there, or the value needs none.
Held(sets, k, v) == is_empty_team(k, v) \/ existing(sets, k, v) # {}

\* Of n user sets, one of the n + 1 ids above n is not taken, so that the next
\* id is always a new one.
LEMMA NextIdIsNew ==
  ASSUME NEW sets, SetsOk(sets)
  PROVE  /\ next_user_set_id(sets) \in Nat
         /\ \A s \in sets : s.id # next_user_set_id(sets)
<1> DEFINE n == Cardinality(sets)
           above == n + 1 .. 2 * n + 1
           ids == {s.id : s \in sets}
           free == above \ ids
<1>1. n \in Nat /\ IsFiniteSet(sets)
  BY FS_CardinalityType DEF SetsOk
<1>2. free # {}
  <2> SUFFICES ASSUME free = {} PROVE FALSE
    OBVIOUS
  <2> DEFINE f == [a \in above |-> CHOOSE s \in sets : s.id = a]
  <2>1. \A a \in above : f[a] \in sets /\ f[a].id = a
    OBVIOUS
  <2>2. f \in [above -> sets]
    BY <2>1
  <2>3. IsFiniteSet(above) /\ Cardinality(above) = n + 1
    BY <1>1, FS_Interval
  <2>4. PICK a, b \in above : a # b /\ f[a] = f[b]
    <3>1. n < Cardinality(above)
      BY <1>1, <2>3
    <3> HIDE DEF f, above
    <3> QED
      BY <1>1, <2>2, <2>3, <3>1, FS_PigeonHole
  <2> QED
    BY <2>1, <2>4
<1>3. free \in SUBSET Nat
  BY <1>1
<1>4. \E x \in free : \A y \in free : x <= y
  <2> HIDE DEF free
  <2> QED
    BY <1>2, <1>3, Least
<1>5. next_user_set_id(sets) = CHOOSE x \in free : \A y \in free : x <= y
  BY DEF next_user_set_id
<1>6. next_user_set_id(sets) \in free
  <2> HIDE DEF free
  <2> QED
    BY <1>4, <1>5
<1> QED
  BY <1>3, <1>6

\* A value that has its user set keeps it, under the same id, while user sets
\* are added.
LEMMA IdIsKept ==
  ASSUME NEW sets, NEW more, SetsOk(sets), SetsOk(more), sets \subseteq more,
         NEW k, NEW v, Held(sets, k, v)
  PROVE  Held(more, k, v) /\ user_set_id(more, k, v) = user_set_id(sets, k, v)
<1>1. CASE is_empty_team(k, v)
  BY <1>1 DEF Held, user_set_id
<1>2. CASE ~is_empty_team(k, v)
  <2>1. PICK s \in sets : s.kind = k /\ s.of = v
    BY <1>2 DEF Held, existing
  <2>2. \A t \in more : t.kind = k /\ t.of = v => t = s
    BY <2>1 DEF SetsOk
  <2>3. (CHOOSE t \in more : t.kind = k /\ t.of = v) = s
    BY <2>1, <2>2
  <2>4. (CHOOSE t \in sets : t.kind = k /\ t.of = v) = s
    BY <2>1, <2>2
  <2>5. s \in existing(more, k, v)
    BY <2>1 DEF existing
  <2> QED
    <3>1. Held(more, k, v)
      BY <2>5 DEF Held
    <3>2. user_set_id(more, k, v) = s.id
      BY <1>2, <2>3, Zenon DEF user_set_id
    <3>3. user_set_id(sets, k, v) = s.id
      BY <1>2, <2>4, Zenon DEF user_set_id
    <3> QED
      BY <3>1, <3>2, <3>3
<1> QED
  BY <1>1, <1>2

\* After a value is looked up or stored it has its user set.
LEMMA WithUserSet ==
  ASSUME NEW sets, SetsOk(sets), NEW k \in Kinds, NEW v \in Values[k]
  PROVE  /\ SetsOk(with_user_set(sets, k, v))
         /\ sets \subseteq with_user_set(sets, k, v)
         /\ Held(with_user_set(sets, k, v), k, v)
         /\ user_set_id(with_user_set(sets, k, v), k, v) \in Nat
<1> DEFINE more == with_user_set(sets, k, v)
<1>1. v \in Entries
  BY DEF Kinds, Entries
<1>2. SetsOk(more) /\ sets \subseteq more /\ Held(more, k, v)
  <2>1. CASE is_empty_team(k, v) \/ existing(sets, k, v) # {}
    BY <2>1 DEF with_user_set, Held
  <2>2. CASE ~(is_empty_team(k, v) \/ existing(sets, k, v) # {})
    <3> DEFINE s == [id |-> next_user_set_id(sets), kind |-> k, of |-> v]
    <3>1. more = sets \cup {s}
      BY <2>2 DEF with_user_set, save_user_set
    <3>2. s \in [id : Nat, kind : Kinds, of : Entries]
      BY <1>1, NextIdIsNew
    <3>4. \A t \in sets : ~(s.id = t.id \/ (s.kind = t.kind /\ s.of = t.of))
      BY <2>2, NextIdIsNew DEF existing
    <3> HIDE DEF s
    <3>3. IsFiniteSet(more)
      <4>1. IsFiniteSet(sets \cup {s})
        BY FS_AddElement DEF SetsOk
      <4> QED
        BY <3>1, <4>1
    <3>5. SetsOk(more)
      BY <3>1, <3>2, <3>3, <3>4 DEF SetsOk
    <3>6. s \in existing(more, k, v)
      BY <3>1 DEF existing, s
    <3> QED
      BY <3>1, <3>5, <3>6 DEF Held
  <2> QED
    BY <2>1, <2>2
<1>3. user_set_id(more, k, v) \in Nat
  <2> HIDE DEF more
  <2>1. CASE is_empty_team(k, v)
    BY <2>1 DEF user_set_id
  <2>2. CASE ~is_empty_team(k, v)
    <3>1. \E s \in more : s.kind = k /\ s.of = v
      BY <1>2, <2>2 DEF Held, existing
    <3> QED
      BY <1>2, <2>2, <3>1 DEF user_set_id, SetsOk
  <2> QED
    BY <2>1, <2>2
<1> QED
  BY <1>2, <1>3

-----------------------------------------------------------------------------
(* The inductive invariant *)

Types ==
    /\ stored # None => \A k \in Kinds : stored[k] \in Values[k]
    /\ SetsOk(user_sets)
    /\ session \in [Kinds -> Active \cup {None}]
    /\ \A k \in Kinds : session[k] # None => session[k].of \in Values[k]
    /\ board \in [workspace : BOOLEAN, paused : BOOLEAN, scope : Nat \cup {None},
                  team : Nat \cup {None}, members : Values["team"]]
    /\ tx \in Transactions \cup {None}
    /\ tx # None =>
          /\ tx.to \in Values[tx.kind] \cup {None} /\ tx.from \in Values[tx.kind]
          /\ \A k \in Kinds \ {tx.kind} : tx.other \in Values[k]
          /\ tx.members \in Values["team"]

\* The value of a kind is in use, with the user set that holds its issues.
InUse(k) ==
    /\ session[k] # None
    /\ Held(user_sets, k, session[k].of)
    /\ session[k].set = user_set_id(user_sets, k, session[k].of)

\* The dashboard shows the user set of a value; of a team, perhaps nothing.
Shows(k, v) ==
    /\ Held(user_sets, k, v)
    /\ board[k] = user_set_id(user_sets, k, v) \/ (k = "team" /\ board[k] = None)

\* The value a transaction came from is back in use, or still is.
Back == tx.at = "activate" \/ (tx.at = "over" /\ tx.result \in {"unchanged", "restored"})

ShownInv ==
    /\ tx # None => board.workspace
    /\ board.workspace => \A k \in Kinds : InUse(k)
    /\ tx = None /\ board.workspace => \A k \in Kinds : Shows(k, session[k].of)
    /\ tx # None =>
          /\ Shows(tx.kind, tx.from)
          /\ \A k \in Kinds \ {tx.kind} : Shows(k, session[k].of)
          /\ Back => session[tx.kind].of = tx.from
          /\ tx.at # "over" => tx.to # None
          /\ tx.at = "over" => tx.result # "none"

\* The file was replaced, and the transaction is to end well.
Replaced == tx.at = "sync_directory" \/ (tx.at = "over" /\ tx.result = "saved")

FileInv ==
    /\ tx = None /\ board.workspace /\ ~board.paused =>
          /\ board.members = session["team"].of
          /\ ~unsynced /\ stored # None =>
                \A k \in Kinds : stored[k] = session[k].of
    /\ tx # None =>
          /\ tx.members = board.members
          /\ tx.kind = "team" => tx.other = session["scope"].of
          /\ Replaced =>
                /\ stored # None => stored[tx.kind] = tx.to
                /\ stored # None /\ tx.kind = "team" => stored["scope"] = session["scope"].of
                /\ session[tx.kind].of = tx.to
          /\ tx.at \in {"refresh", "save", "sync_directory"} => session[tx.kind].of = tx.to
    /\ tx # None /\ ~board.paused =>
          /\ tx.kind = "team" => board.members = tx.from
          /\ tx.kind = "scope" =>
                board.members = session["team"].of /\ tx.other = session["team"].of
          /\ ~unsynced /\ stored # None =>
                /\ \A k \in Kinds \ {tx.kind} : stored[k] = session[k].of
                /\ Back \/ tx.at \in {"refresh", "save", "restore"} =>
                      stored[tx.kind] = tx.from

SettingsInv == Types /\ ShownInv /\ FileInv

LEMMA SettingsInitOk == SettingsInit => SettingsInv
<1> SUFFICES ASSUME SettingsInit PROVE SettingsInv
  OBVIOUS
<1>1. SetsOk(user_sets)
  BY FS_EmptySet DEF SettingsInit, SetsOk
<1>2. session \in [Kinds -> Active \cup {None}] /\ \A k \in Kinds : session[k] = None
  BY DEF SettingsInit, NoSession, Kinds
<1>3. board \in [workspace : BOOLEAN, paused : BOOLEAN, scope : Nat \cup {None},
                 team : Nat \cup {None}, members : Values["team"]]
      /\ ~board.workspace
  BY SettingsAssumption DEF SettingsInit, NoBoard, Kinds
<1>4. tx = None /\ (stored # None => \A k \in Kinds : stored[k] \in Values[k])
  BY SettingsAssumption DEF SettingsInit
<1> QED
  BY <1>1, <1>2, <1>3, <1>4 DEF SettingsInv, Types, ShownInv, FileInv

-----------------------------------------------------------------------------
(* What the steps have in common *)

\* User sets that are added take nothing from a value that has one.
LEMMA GrowthKeeps ==
  ASSUME Types, SetsOk(user_sets'), user_sets \subseteq user_sets', NEW k \in Kinds
  PROVE  /\ InUse(k) /\ session'[k] = session[k] => InUse(k)'
         /\ \A v : Shows(k, v) /\ (board[k]' = board[k]) => Shows(k, v)'
<1>1. \A v : Held(user_sets, k, v) =>
        /\ Held(user_sets', k, v)
        /\ user_set_id(user_sets', k, v) = user_set_id(user_sets, k, v)
  BY IdIsKept DEF Types
<1> QED
  BY <1>1 DEF InUse, Shows

\* Activating a value puts it in use and leaves the other kind alone.
LEMMA ActivateOk ==
  ASSUME Types, NEW k \in Kinds, NEW v \in Values[k], Activate(k, v)
  PROVE  /\ SetsOk(user_sets') /\ user_sets \subseteq user_sets'
         /\ session' \in [Kinds -> Active \cup {None}]
         /\ InUse(k)' /\ session'[k].of = v
         /\ \A j \in Kinds \ {k} : session'[j] = session[j]
<1> DEFINE a == [of |-> v, set |-> user_set_id(user_sets', k, v)]
<1>1. user_sets' = with_user_set(user_sets, k, v) /\ session' = [session EXCEPT ![k] = a]
  BY DEF Activate
<1>2. /\ SetsOk(user_sets') /\ user_sets \subseteq user_sets'
      /\ Held(user_sets', k, v) /\ user_set_id(user_sets', k, v) \in Nat
  BY <1>1, WithUserSet DEF Types
<1>3. a \in Active /\ a # None
  BY <1>2, SettingsAssumption DEF Active, Entries, Kinds
<1>4. /\ session' \in [Kinds -> Active \cup {None}] /\ session'[k] = a
      /\ \A j \in Kinds \ {k} : session'[j] = session[j]
  BY <1>1, <1>3 DEF Types
<1> QED
  BY <1>2, <1>3, <1>4 DEF InUse

LEMMA ActivateFailsOk ==
  ASSUME Types, NEW k \in Kinds, NEW v \in Values[k], ActivateFails(k, v)
  PROVE  SetsOk(user_sets') /\ user_sets \subseteq user_sets' /\ session' = session
  BY WithUserSet DEF ActivateFails, Types

-----------------------------------------------------------------------------
(* The steps *)

\* Without a session nothing is shown and no transaction is under way.
LEMMA NothingBefore ==
  ASSUME SettingsInv, session = NoSession
  PROVE  ~board.workspace /\ tx = None
<1>1. session["scope"] = None
  BY DEF NoSession
<1> QED
  BY <1>1 DEF SettingsInv, ShownInv, InUse, Kinds

LEMMA StartStep ==
  ASSUME SettingsInv, Start
  PROVE  SettingsInv'
<1> DEFINE scoped == with_user_set(user_sets, "scope", loaded["scope"])
           teamed == with_user_set(scoped, "team", loaded["team"])
           active == [k \in Kinds |->
                        [of |-> loaded[k], set |-> user_set_id(teamed, k, loaded[k])]]
<1>1. ~board.workspace /\ tx = None /\ UNCHANGED <<stored, tx, unsynced>>
  BY NothingBefore DEF Start
<1>2. loaded["scope"] \in Values["scope"] /\ loaded["team"] \in Values["team"]
      /\ (stored # None => loaded = stored)
  BY SettingsAssumption DEF SettingsInv, Types, loaded, Kinds
<1>3. SetsOk(scoped) /\ user_sets \subseteq scoped /\ Held(scoped, "scope", loaded["scope"])
      /\ user_set_id(scoped, "scope", loaded["scope"]) \in Nat
  BY <1>2, WithUserSet DEF SettingsInv, Types, Kinds
<1>4. SetsOk(teamed) /\ scoped \subseteq teamed /\ Held(teamed, "team", loaded["team"])
      /\ user_set_id(teamed, "team", loaded["team"]) \in Nat
  <2> HIDE DEF scoped
  <2> QED
    BY <1>2, <1>3, WithUserSet DEF Kinds
<1>5. Held(teamed, "scope", loaded["scope"])
      /\ user_set_id(teamed, "scope", loaded["scope"]) \in Nat
  <2> HIDE DEF scoped, teamed
  <2> QED
    BY <1>3, <1>4, IdIsKept
<1>6. CASE /\ user_sets' = teamed
           /\ session' = active
           /\ board' = [workspace |-> TRUE, paused |-> FALSE,
                        scope |-> active["scope"].set,
                        team |-> active["team"].set,
                        members |-> loaded["team"]]
  <2> HIDE DEF scoped, teamed
  <2>1. \A k \in Kinds : /\ active[k] \in Active /\ active[k] # None
                         /\ active[k].of = loaded[k]
                         /\ active[k].set = user_set_id(teamed, k, loaded[k])
                         /\ Held(teamed, k, loaded[k])
    BY <1>2, <1>4, <1>5, SettingsAssumption DEF Active, Entries, Kinds
  <2>2. active \in [Kinds -> Active \cup {None}]
    BY <2>1
  <2> HIDE DEF active
  <2>3. Types'
    BY <1>1, <1>2, <1>4, <1>6, <2>1, <2>2 DEF SettingsInv, Types, Kinds, Active
  <2>4. \A k \in Kinds : InUse(k)' /\ Shows(k, session[k].of)'
    BY <1>6, <2>1 DEF InUse, Shows, Kinds
  <2>5. ShownInv'
    BY <1>1, <2>4 DEF ShownInv
  <2>6. FileInv'
    BY <1>1, <1>2, <1>6, <2>1 DEF FileInv, Kinds
  <2> QED
    BY <2>3, <2>5, <2>6 DEF SettingsInv
<1>7. CASE user_sets' \in {scoped, teamed} /\ UNCHANGED <<session, board>>
  <2>1. SetsOk(user_sets')
    BY <1>3, <1>4, <1>7
  <2>2. Types'
    BY <1>1, <1>7, <2>1 DEF SettingsInv, Types
  <2> QED
    BY <1>1, <1>7, <2>2 DEF SettingsInv, ShownInv, FileInv
<1> QED
  BY <1>6, <1>7 DEF Start

LEMMA StopStep ==
  ASSUME SettingsInv, Stop
  PROVE  SettingsInv'
<1>1. session' \in [Kinds -> Active \cup {None}] /\ \A k \in Kinds : session'[k] = None
  BY DEF Stop, NoSession, Kinds
<1>2. board' \in [workspace : BOOLEAN, paused : BOOLEAN, scope : Nat \cup {None},
                  team : Nat \cup {None}, members : Values["team"]]
      /\ ~board'.workspace
  BY SettingsAssumption DEF Stop, NoBoard, Kinds
<1>3. tx' = None /\ UNCHANGED <<stored, user_sets>>
  BY DEF Stop
<1> QED
  BY <1>1, <1>2, <1>3 DEF SettingsInv, Types, ShownInv, FileInv

LEMMA BeginSaveStep ==
  ASSUME SettingsInv, NEW k \in Kinds, BeginSave(k)
  PROVE  SettingsInv'
<1>1. /\ board.workspace /\ tx = None
      /\ UNCHANGED <<stored, user_sets, session, board, unsynced>>
  BY DEF BeginSave
<1>2. PICK v \in Values[k] \cup {None} :
        tx' = [kind |-> k, to |-> v, from |-> session[k].of,
               other |-> IF k = "scope" THEN board.members ELSE session["scope"].of,
               members |-> board.members,
               at |-> IF v = None THEN "over" ELSE "activate",
               result |-> IF v = None THEN "unchanged" ELSE "none"]
  BY DEF BeginSave, normalized
<1>3. \A j \in Kinds : InUse(j) /\ Shows(j, session[j].of) /\ session[j].of \in Values[j]
  BY <1>1 DEF SettingsInv, ShownInv, Types, InUse
<1>4. /\ board.members \in Values["team"]
      /\ \A j \in Kinds : \A w \in Values[j] : w \in Entries
  BY DEF SettingsInv, Types, Kinds, Entries
<1>5. tx' \in Transactions /\ tx' # None
  BY <1>2, <1>3, <1>4, SettingsAssumption DEF Transactions, Kinds
<1>6. Types'
  BY <1>1, <1>2, <1>3, <1>4, <1>5 DEF SettingsInv, Types, Kinds
<1>7. \A j \in Kinds : \A w : (InUse(j) => InUse(j)') /\ (Shows(j, w) => Shows(j, w)')
  BY <1>1 DEF InUse, Shows
<1>8. ShownInv'
  BY <1>1, <1>2, <1>3, <1>5, <1>7 DEF ShownInv, Back
<1>9. FileInv'
  BY <1>1, <1>2, <1>3, <1>5 DEF SettingsInv, FileInv, Back, Replaced, Kinds
<1> QED
  BY <1>6, <1>8, <1>9 DEF SettingsInv

\* A transaction goes on: only its step changes, and at its end its result.
LEMMA TxMoves ==
  ASSUME Types, tx # None,
         NEW step \in {"activate", "refresh", "save", "sync_directory", "restore", "over"},
         GoesTo(step)
  PROVE  /\ tx' \in Transactions /\ tx' # None
         /\ tx'.kind = tx.kind /\ tx'.to = tx.to /\ tx'.from = tx.from
         /\ tx'.other = tx.other /\ tx'.members = tx.members
         /\ tx'.at = step /\ tx'.result = tx.result
<1>1. tx \in Transactions
  BY DEF Types
<1> QED
  BY <1>1, SettingsAssumption DEF Transactions, GoesTo

LEMMA TxEnds ==
  ASSUME Types, tx # None,
         NEW result \in {"none", "saved", "unchanged", "restored", "restore_failed"},
         Ends(result)
  PROVE  /\ tx' \in Transactions /\ tx' # None
         /\ tx'.kind = tx.kind /\ tx'.to = tx.to /\ tx'.from = tx.from
         /\ tx'.other = tx.other /\ tx'.members = tx.members
         /\ tx'.at = "over" /\ tx'.result = result
<1>1. tx \in Transactions
  BY DEF Types
<1>2. PICK t : t = [tx EXCEPT !.at = "over"]
  OBVIOUS
<1>3. /\ t \in Transactions /\ t.at = "over"
      /\ t.kind = tx.kind /\ t.to = tx.to /\ t.from = tx.from
      /\ t.other = tx.other /\ t.members = tx.members
  BY <1>1, <1>2 DEF Transactions
<1>4. tx' = [t EXCEPT !.result = result]
  BY <1>2 DEF Ends
<1> QED
  BY <1>3, <1>4, SettingsAssumption DEF Transactions

\* What is known of a transaction under way.
LEMMA TxFacts ==
  ASSUME SettingsInv, tx # None
  PROVE  /\ tx \in Transactions /\ tx.kind \in Kinds /\ board.workspace
         /\ \A k \in Kinds : InUse(k)
         /\ Shows(tx.kind, tx.from)
         /\ \A k \in Kinds \ {tx.kind} : Shows(k, session[k].of)
         /\ tx.from \in Values[tx.kind]
         /\ tx.at # "over" => tx.to \in Values[tx.kind]
         /\ tx.result \in {"none", "saved", "unchanged", "restored", "restore_failed"}
<1>1. tx \in Transactions
  BY DEF SettingsInv, Types
<1> QED
  BY <1>1 DEF SettingsInv, Types, ShownInv, Transactions

LEMMA ActivateEnteredStep ==
  ASSUME SettingsInv, ActivateEntered
  PROVE  SettingsInv'
<1>0. PICK k : k = tx.kind
  OBVIOUS
<1>1. tx # None /\ tx.at = "activate" /\ UNCHANGED <<stored, board, unsynced>>
  BY DEF ActivateEntered
<1>2. k \in Kinds /\ tx.to \in Values[k] /\ tx.from \in Values[k] /\ session[k].of = tx.from
  BY <1>0, <1>1, TxFacts DEF SettingsInv, ShownInv, Back
<1>3. CASE Activate(k, tx.to) /\ GoesTo("refresh")
  <2>1. /\ SetsOk(user_sets') /\ user_sets \subseteq user_sets'
        /\ session' \in [Kinds -> Active \cup {None}]
        /\ InUse(k)' /\ session'[k].of = tx.to
        /\ \A j \in Kinds \ {k} : session'[j] = session[j]
    BY <1>0, <1>2, <1>3, ActivateOk DEF SettingsInv
  <2>2. /\ tx' \in Transactions /\ tx' # None
        /\ tx'.kind = tx.kind /\ tx'.to = tx.to /\ tx'.from = tx.from
        /\ tx'.other = tx.other /\ tx'.members = tx.members
        /\ tx'.at = "refresh"
    BY <1>0, <1>1, <1>3, TxFacts, TxMoves DEF SettingsInv
  <2>3. Types'
    BY <1>0, <1>1, <1>2, <2>1, <2>2 DEF SettingsInv, Types, Kinds
  <2>4. \A j \in Kinds : InUse(j)'
    BY <1>0, <1>1, <2>1, TxFacts, GrowthKeeps DEF SettingsInv
  <2>5. Shows(k, tx.from)' /\ \A j \in Kinds \ {k} : Shows(j, session[j].of)'
    BY <1>0, <1>1, <1>2, <2>1, <2>2, TxFacts, GrowthKeeps DEF SettingsInv
  <2>6. ShownInv'
    BY <1>0, <1>1, <1>2, <2>2, <2>4, <2>5, TxFacts, SettingsAssumption DEF ShownInv, Back
  <2>7. FileInv'
    BY <1>0, <1>1, <1>2, <2>1, <2>2 DEF SettingsInv, FileInv, Back, Replaced, Kinds
  <2> QED
    BY <2>3, <2>6, <2>7 DEF SettingsInv
<1>4. CASE ActivateFails(k, tx.to) /\ Ends("unchanged")
  <2>1. SetsOk(user_sets') /\ user_sets \subseteq user_sets' /\ session' = session
    BY <1>0, <1>2, <1>4, ActivateFailsOk DEF SettingsInv
  <2>2. /\ tx' \in Transactions /\ tx' # None
        /\ tx'.kind = tx.kind /\ tx'.to = tx.to /\ tx'.from = tx.from
        /\ tx'.other = tx.other /\ tx'.members = tx.members
        /\ tx'.at = "over" /\ tx'.result = "unchanged"
    BY <1>0, <1>1, <1>4, TxEnds DEF SettingsInv
  <2>3. Types'
    BY <1>0, <1>1, <2>1, <2>2 DEF SettingsInv, Types
  <2>4. \A j \in Kinds : InUse(j)' /\ \A v : Shows(j, v) => Shows(j, v)'
    BY <1>0, <1>1, <2>1, TxFacts, GrowthKeeps DEF SettingsInv
  <2>5. ShownInv'
    BY <1>0, <1>1, <1>2, <2>1, <2>2, <2>4, TxFacts DEF ShownInv, Back
  <2>6. FileInv'
    BY <1>0, <1>1, <1>2, <2>1, <2>2 DEF SettingsInv, FileInv, Back, Replaced
  <2> QED
    BY <2>3, <2>5, <2>6 DEF SettingsInv
<1> QED
  BY <1>0, <1>3, <1>4 DEF ActivateEntered

\* A step that moves the transaction and perhaps the file, nothing else.
LEMMA RefreshStep ==
  ASSUME SettingsInv, Refresh
  PROVE  SettingsInv'
<1>1. /\ tx # None /\ tx.at = "refresh"
      /\ UNCHANGED <<stored, user_sets, session, board, unsynced>>
  BY DEF Refresh
<1>2. PICK step \in {"save", "restore"} : GoesTo(step)
  BY DEF Refresh
<1>3. /\ tx' \in Transactions /\ tx' # None
      /\ tx'.kind = tx.kind /\ tx'.to = tx.to /\ tx'.from = tx.from
      /\ tx'.other = tx.other /\ tx'.members = tx.members /\ tx'.at = step
  BY <1>1, <1>2, TxFacts, TxMoves DEF SettingsInv
<1>4. Types'
  BY <1>1, <1>3 DEF SettingsInv, Types
<1>5. \A j \in Kinds : \A w : (InUse(j) => InUse(j)') /\ (Shows(j, w) => Shows(j, w)')
  BY <1>1 DEF InUse, Shows
<1>6. ShownInv'
  BY <1>1, <1>3, <1>5, TxFacts DEF SettingsInv, ShownInv, Back
<1>7. FileInv'
  BY <1>1, <1>3 DEF SettingsInv, FileInv, Back, Replaced
<1> QED
  BY <1>4, <1>6, <1>7 DEF SettingsInv

LEMMA ReplaceFileStep ==
  ASSUME SettingsInv, ReplaceFile
  PROVE  SettingsInv'
<1>1. /\ tx # None /\ tx.at = "save"
      /\ UNCHANGED <<user_sets, session, board, unsynced>>
  BY DEF ReplaceFile
<1>2. PICK step \in {"sync_directory", "restore"} :
        /\ GoesTo(step)
        /\ stored' = IF step = "sync_directory" THEN saved_preferences ELSE stored
  BY DEF ReplaceFile
<1>3. /\ tx' \in Transactions /\ tx' # None
      /\ tx'.kind = tx.kind /\ tx'.to = tx.to /\ tx'.from = tx.from
      /\ tx'.other = tx.other /\ tx'.members = tx.members /\ tx'.at = step
  BY <1>1, <1>2, TxFacts, TxMoves DEF SettingsInv
<1>4. \A k \in Kinds : saved_preferences[k] = IF k = tx.kind THEN tx.to ELSE tx.other
  BY DEF saved_preferences
<1>5. Types'
  BY <1>1, <1>2, <1>3, <1>4, TxFacts DEF SettingsInv, Types
<1>6. \A j \in Kinds : \A w : (InUse(j) => InUse(j)') /\ (Shows(j, w) => Shows(j, w)')
  BY <1>1 DEF InUse, Shows
<1>7. ShownInv'
  BY <1>1, <1>3, <1>6, TxFacts DEF SettingsInv, ShownInv, Back
<1>8. FileInv'
  <2>1. CASE step = "sync_directory"
    BY <1>1, <1>2, <1>3, <1>4, <2>1, TxFacts
       DEF SettingsInv, FileInv, Back, Replaced, Kinds
  <2>2. CASE step = "restore"
    BY <1>1, <1>2, <1>3, <2>2 DEF SettingsInv, FileInv, Back, Replaced
  <2> QED
    BY <2>1, <2>2
<1> QED
  BY <1>5, <1>7, <1>8 DEF SettingsInv

LEMMA SyncDirectoryStep ==
  ASSUME SettingsInv, SyncDirectory
  PROVE  SettingsInv'
<1>1. /\ tx # None /\ tx.at = "sync_directory"
      /\ UNCHANGED <<stored, user_sets, session, board>>
  BY DEF SyncDirectory
<1>2. CASE Ends("saved") /\ UNCHANGED unsynced
  <2>1. /\ tx' \in Transactions /\ tx' # None
        /\ tx'.kind = tx.kind /\ tx'.to = tx.to /\ tx'.from = tx.from
        /\ tx'.other = tx.other /\ tx'.members = tx.members
        /\ tx'.at = "over" /\ tx'.result = "saved"
    BY <1>1, <1>2, TxEnds DEF SettingsInv
  <2>2. Types'
    BY <1>1, <2>1 DEF SettingsInv, Types
  <2>3. \A j \in Kinds : \A w : (InUse(j) => InUse(j)') /\ (Shows(j, w) => Shows(j, w)')
    BY <1>1 DEF InUse, Shows
  <2>4. ShownInv'
    BY <1>1, <2>1, <2>3, TxFacts DEF SettingsInv, ShownInv, Back
  <2>5. FileInv'
    BY <1>1, <1>2, <2>1 DEF SettingsInv, FileInv, Back, Replaced
  <2> QED
    BY <2>2, <2>4, <2>5 DEF SettingsInv
<1>3. CASE GoesTo("restore") /\ unsynced' = TRUE
  <2>1. /\ tx' \in Transactions /\ tx' # None
        /\ tx'.kind = tx.kind /\ tx'.to = tx.to /\ tx'.from = tx.from
        /\ tx'.other = tx.other /\ tx'.members = tx.members
        /\ tx'.at = "restore"
    BY <1>1, <1>3, TxFacts, TxMoves DEF SettingsInv
  <2>2. Types'
    BY <1>1, <2>1 DEF SettingsInv, Types
  <2>3. \A j \in Kinds : \A w : (InUse(j) => InUse(j)') /\ (Shows(j, w) => Shows(j, w)')
    BY <1>1 DEF InUse, Shows
  <2>4. ShownInv'
    BY <1>1, <2>1, <2>3, TxFacts DEF SettingsInv, ShownInv, Back
  <2>5. FileInv'
    BY <1>1, <1>3, <2>1 DEF SettingsInv, FileInv, Back, Replaced
  <2> QED
    BY <2>2, <2>4, <2>5 DEF SettingsInv
<1> QED
  BY <1>2, <1>3 DEF SyncDirectory

LEMMA RestoreStep ==
  ASSUME SettingsInv, Restore
  PROVE  SettingsInv'
<1>0. PICK k : k = tx.kind
  OBVIOUS
<1>1. tx # None /\ tx.at = "restore" /\ UNCHANGED <<stored, board, unsynced>>
  BY DEF Restore
<1>2. k \in Kinds /\ tx.from \in Values[k]
  BY <1>0, <1>1, TxFacts
<1>3. CASE Activate(k, tx.from) /\ Ends("restored")
  <2>1. /\ SetsOk(user_sets') /\ user_sets \subseteq user_sets'
        /\ session' \in [Kinds -> Active \cup {None}]
        /\ InUse(k)' /\ session'[k].of = tx.from
        /\ \A j \in Kinds \ {k} : session'[j] = session[j]
    BY <1>0, <1>2, <1>3, ActivateOk DEF SettingsInv
  <2>2. /\ tx' \in Transactions /\ tx' # None
        /\ tx'.kind = tx.kind /\ tx'.to = tx.to /\ tx'.from = tx.from
        /\ tx'.other = tx.other /\ tx'.members = tx.members
        /\ tx'.at = "over" /\ tx'.result = "restored"
    BY <1>0, <1>1, <1>3, TxEnds DEF SettingsInv
  <2>3. Types'
    BY <1>0, <1>1, <1>2, <2>1, <2>2 DEF SettingsInv, Types, Kinds
  <2>4. \A j \in Kinds : InUse(j)'
    BY <1>0, <1>1, <2>1, TxFacts, GrowthKeeps DEF SettingsInv
  <2>5. Shows(k, tx.from)' /\ \A j \in Kinds \ {k} : Shows(j, session[j].of)'
    BY <1>0, <1>1, <1>2, <2>1, <2>2, TxFacts, GrowthKeeps DEF SettingsInv
  <2>6. ShownInv'
    BY <1>0, <1>1, <1>2, <2>1, <2>2, <2>4, <2>5, TxFacts DEF ShownInv, Back
  <2>7. FileInv'
    BY <1>0, <1>1, <1>2, <2>1, <2>2 DEF SettingsInv, FileInv, Back, Replaced, Kinds
  <2> QED
    BY <2>3, <2>6, <2>7 DEF SettingsInv
<1>4. CASE ActivateFails(k, tx.from) /\ Ends("restore_failed")
  <2>1. SetsOk(user_sets') /\ user_sets \subseteq user_sets' /\ session' = session
    BY <1>0, <1>2, <1>4, ActivateFailsOk DEF SettingsInv
  <2>2. /\ tx' \in Transactions /\ tx' # None
        /\ tx'.kind = tx.kind /\ tx'.to = tx.to /\ tx'.from = tx.from
        /\ tx'.other = tx.other /\ tx'.members = tx.members
        /\ tx'.at = "over" /\ tx'.result = "restore_failed"
    BY <1>0, <1>1, <1>4, TxEnds DEF SettingsInv
  <2>3. Types'
    BY <1>0, <1>1, <2>1, <2>2 DEF SettingsInv, Types
  <2>4. \A j \in Kinds : InUse(j)' /\ \A v : Shows(j, v) => Shows(j, v)'
    BY <1>0, <1>1, <2>1, TxFacts, GrowthKeeps DEF SettingsInv
  <2>5. ShownInv'
    BY <1>0, <1>1, <2>1, <2>2, <2>4, TxFacts DEF ShownInv, Back
  <2>6. FileInv'
    BY <1>0, <1>1, <2>1, <2>2 DEF SettingsInv, FileInv, Back, Replaced
  <2> QED
    BY <2>3, <2>5, <2>6 DEF SettingsInv
<1> QED
  BY <1>0, <1>3, <1>4 DEF Restore

\* What the completions make of the board: its own field and the fields that
\* belong to the outcome change.
LEMMA ShownAfter ==
  ASSUME SettingsInv, FinishSave
  PROVE  /\ tx.result = "saved" =>
              /\ board'[tx.kind] = session[tx.kind].set
              /\ tx.kind = "scope" =>
                    /\ board'.team = board.team /\ board'.members = board.members
                    /\ board'.paused = board.paused
              /\ tx.kind = "team" =>
                    /\ board'.scope = board.scope /\ board'.members = tx.to
                    /\ ~board'.paused
              /\ board'.workspace = board.workspace
         /\ tx.result = "restore_failed" /\ tx.kind = "scope" => ~board'.workspace
         /\ tx.result = "restore_failed" /\ tx.kind = "team" =>
              /\ board'.team = None /\ board'.scope = board.scope
              /\ board'.paused /\ board'.workspace = board.workspace
         /\ tx.result \in {"restored", "unchanged"} => board' = board
         /\ board' \in [workspace : BOOLEAN, paused : BOOLEAN, scope : Nat \cup {None},
                        team : Nat \cup {None}, members : Values["team"]]
<1> DEFINE Boards == [workspace : BOOLEAN, paused : BOOLEAN, scope : Nat \cup {None},
                      team : Nat \cup {None}, members : Values["team"]]
<1>1. /\ tx # None /\ tx.at = "over" /\ tx' = None
      /\ board' = shown_after(tx.kind, tx.result)
  BY DEF FinishSave
<1>2. /\ board \in Boards
      /\ tx.kind \in Kinds
      /\ tx.result \in {"saved", "unchanged", "restored", "restore_failed"}
      /\ tx.members = board.members
      /\ \A k \in Kinds : session[k].set \in Nat
      /\ tx.kind = "team" /\ tx.result = "saved" => tx.to \in Values["team"]
  <2>1. \A k \in Kinds : session[k] \in Active
    BY <1>1, TxFacts DEF SettingsInv, Types, InUse
  <2>2. tx.kind = "team" /\ tx.result = "saved" => tx.to = session["team"].of
    BY <1>1 DEF SettingsInv, FileInv, Replaced
  <2>3. session["team"].of \in Values["team"]
    BY <1>1, TxFacts DEF SettingsInv, Types, InUse, Kinds
  <2> QED
    BY <1>1, <2>1, <2>2, <2>3, TxFacts
       DEF SettingsInv, Types, ShownInv, FileInv, Active
<1>3. CASE tx.result = "saved" /\ tx.kind = "scope"
  <2>1. board' = [board EXCEPT !.scope = session["scope"].set]
    BY <1>1, <1>3 DEF shown_after
  <2> QED
    BY <1>2, <1>3, <2>1 DEF Kinds
<1>4. CASE tx.result = "saved" /\ tx.kind = "team"
  <2>1. board' = [board EXCEPT !.team = session["team"].set, !.paused = FALSE,
                               !.members = tx.to]
    BY <1>1, <1>4 DEF shown_after
  <2> QED
    BY <1>2, <1>4, <2>1 DEF Kinds
<1>5. CASE tx.result = "restore_failed" /\ tx.kind = "scope"
  <2>1. board' = [board EXCEPT !.workspace = FALSE, !.scope = None]
    BY <1>1, <1>5 DEF shown_after
  <2> QED
    BY <1>2, <1>5, <2>1
<1>6. CASE tx.result = "restore_failed" /\ tx.kind = "team"
  <2>1. board' = [board EXCEPT !.paused = TRUE, !.team = None,
                               !.members = Default["team"]]
    BY <1>1, <1>6 DEF shown_after
  <2>2. Default["team"] \in Values["team"]
    BY SettingsAssumption DEF Kinds
  <2> QED
    BY <1>2, <1>6, <2>1, <2>2
<1>7. CASE tx.result \in {"restored", "unchanged"}
  <2>1. tx.kind = "team" => board' = [board EXCEPT !.members = tx.members]
    BY <1>1, <1>7 DEF shown_after
  <2>2. tx.kind = "scope" => board' = board
    BY <1>1, <1>7 DEF shown_after
  <2>3. board' = board
    BY <1>2, <2>1, <2>2 DEF Kinds
  <2> QED
    BY <1>2, <1>7, <2>3
<1> QED
  BY <1>2, <1>3, <1>4, <1>5, <1>6, <1>7 DEF Kinds

LEMMA FinishSaveStep ==
  ASSUME SettingsInv, FinishSave
  PROVE  SettingsInv'
<1>0. PICK k : k = tx.kind
  OBVIOUS
<1>1. /\ tx # None /\ tx.at = "over" /\ tx' = None
      /\ UNCHANGED <<stored, user_sets, session, unsynced>>
  BY DEF FinishSave
<1>2. Types'
  BY <1>1, ShownAfter DEF SettingsInv, Types
<1>3. \A j \in Kinds : InUse(j) /\ InUse(j)'
  BY <1>1, TxFacts DEF InUse
<1>4. \A j \in Kinds : \A v : board'[j] = board[j] /\ Shows(j, v) => Shows(j, v)'
  BY <1>1 DEF Shows
<1>5. /\ k \in Kinds
      /\ tx.result \in {"saved", "unchanged", "restored", "restore_failed"}
      /\ Shows(k, tx.from) /\ \A j \in Kinds \ {k} : Shows(j, session[j].of)
  BY <1>0, <1>1, TxFacts DEF SettingsInv, ShownInv
<1>6. CASE tx.result = "saved"
  <2>1. Shows(k, session[k].of)'
    BY <1>0, <1>1, <1>3, <1>5, <1>6, ShownAfter DEF InUse, Shows
  <2>2. \A j \in Kinds \ {k} : Shows(j, session[j].of)'
    BY <1>0, <1>1, <1>4, <1>5, <1>6, ShownAfter DEF Kinds
  <2>3. ShownInv'
    BY <1>1, <1>3, <2>1, <2>2 DEF ShownInv
  <2>4. FileInv'
    BY <1>0, <1>1, <1>5, <1>6, ShownAfter DEF SettingsInv, FileInv, Replaced, Kinds
  <2> QED
    BY <1>2, <2>3, <2>4 DEF SettingsInv
<1>7. CASE tx.result = "restore_failed" /\ k = "scope"
  BY <1>0, <1>1, <1>2, <1>7, ShownAfter DEF SettingsInv, ShownInv, FileInv
<1>8. CASE tx.result = "restore_failed" /\ k = "team"
  <2>1. Shows("team", session["team"].of)'
    BY <1>0, <1>1, <1>3, <1>8, ShownAfter DEF InUse, Shows, Kinds
  <2>2. Shows("scope", session["scope"].of)'
    BY <1>0, <1>1, <1>4, <1>5, <1>8, ShownAfter DEF Kinds
  <2>3. ShownInv'
    BY <1>1, <1>3, <2>1, <2>2 DEF ShownInv, Kinds
  <2>4. FileInv'
    BY <1>0, <1>1, <1>8, ShownAfter DEF FileInv
  <2> QED
    BY <1>2, <2>3, <2>4 DEF SettingsInv
<1>9. CASE tx.result \in {"restored", "unchanged"}
  <2>1. board' = board
    BY <1>9, ShownAfter
  <2>2. session[k].of = tx.from
    BY <1>0, <1>1, <1>9 DEF SettingsInv, ShownInv, Back
  <2>3. \A j \in Kinds : Shows(j, session[j].of)'
    BY <1>1, <1>4, <1>5, <2>1, <2>2
  <2>4. ShownInv'
    BY <1>1, <1>3, <2>3 DEF ShownInv
  <2>5. FileInv'
    BY <1>0, <1>1, <1>5, <1>9, <2>1, <2>2 DEF SettingsInv, FileInv, Back, Kinds
  <2> QED
    BY <1>2, <2>4, <2>5 DEF SettingsInv
<1> QED
  BY <1>5, <1>6, <1>7, <1>8, <1>9 DEF Kinds

LEMMA SettingsNextOk == SettingsInv /\ [SettingsNext]_settingsVars => SettingsInv'
<1> SUFFICES ASSUME SettingsInv, [SettingsNext]_settingsVars PROVE SettingsInv'
  OBVIOUS
<1>1. CASE UNCHANGED settingsVars
  BY <1>1 DEF settingsVars, SettingsInv, Types, ShownInv, FileInv, InUse, Shows,
              Back, Replaced
<1>2. CASE Start
  BY <1>2, StartStep
<1>3. CASE Stop
  BY <1>3, StopStep
<1>4. CASE \E k \in Kinds : BeginSave(k)
  BY <1>4, BeginSaveStep
<1>5. CASE TransactionStep
  BY <1>5, ActivateEnteredStep, RefreshStep, ReplaceFileStep, SyncDirectoryStep,
     RestoreStep, FinishSaveStep DEF TransactionStep
<1> QED
  BY <1>1, <1>2, <1>3, <1>4, <1>5 DEF SettingsNext

LEMMA SettingsInvHolds == SettingsSpec => []SettingsInv
  BY SettingsInitOk, SettingsNextOk, PTL DEF SettingsSpec

-----------------------------------------------------------------------------
(* The theorems *)

\* Whenever no transaction is under way, the dashboard shows the issues of the
\* scope and of the team that the session is set to, or none of a team
\* (settings.rs and the session's set_jql_scope and configure_team_members).
THEOREM ActiveScopeIsShown == SettingsSpec => []ShownIsOfTheActiveScope
<1>1. SettingsInv => ShownIsOfTheActiveScope
  BY DEF SettingsInv, ShownInv, Shows, InUse, ShownIsOfTheActiveScope, Types, Kinds
<1> QED
  BY <1>1, SettingsInvHolds, PTL

\* What a restart would load is what is in use, under the user sets that hold
\* its issues (local_data.rs and the store's save_user_set), whichever saves
\* were made, failed and were undone.
THEOREM RestartFindsTheSettings == SettingsSpec => []SettingsAreFoundAgain
<1>1. SettingsInv => SettingsAreFoundAgain
  BY DEF SettingsInv, FileInv, Types, SetsOk, SettingsAreFoundAgain,
         StoredValuesAreInUse, UserSetsAreFoundAgain
<1> QED
  BY <1>1, SettingsInvHolds, PTL

-----------------------------------------------------------------------------
(* The saved login *)

SessionTasks == [from : {"vault", "form"}, login : Logins \cup {None}, remember : BOOLEAN,
          at : {"load", "discover_cloud_id", "ensure_authenticated_user", "open_store"}]
Forgettings == [state : {"idle", "deleting", "completed"},
                answer : {None, "deleted", "absent", "error"}]

SessionTypes ==
    /\ shell # None => shell \in Shells
    /\ call # None => call \in SessionTasks
    /\ forget \in Forgettings

\* A session is built by a shell without a dashboard; a login is saved and
\* forgotten by one that has it, so that nothing is saved any more but what was
\* on its way before.
OneAtATime ==
    /\ call # None => shell # None /\ ~shell.dashboard
    /\ keeping # None => shell # None /\ shell.dashboard
    /\ forget.state # "idle" => shell # None /\ shell.dashboard

\* Whatever is on its way to the keyring was accepted and is to be remembered.
WayToTheKeyring ==
    /\ keeping = None \/ keeping \in remembered
    /\ call # None /\ call.remember /\ call.at = "open_store" =>
          call.login \in remembered

\* A login that was forgotten has nothing behind it that would bring it back.
Forgotten ==
    forget.state # "idle" /\ forget.answer \in {"deleted", "absent"} /\ ~forget_raced =>
        vault = None /\ keeping = None

SessionInv ==
    /\ SessionTypes /\ OneAtATime /\ WayToTheKeyring /\ OnlyRememberedLoginsAreSaved
    /\ Forgotten

LEMMA SessionInitOk == SessionInit => SessionInv
  BY DEF SessionInit, SessionInv, SessionTypes, Forgettings, OneAtATime, WayToTheKeyring,
         OnlyRememberedLoginsAreSaved, Forgotten, NotForgetting

\* The shell keeps its form, and its dashboard unless it is set.
LEMMA LaunchStep == ASSUME SessionInv, Launch PROVE SessionInv'
<1>1. shell = None /\ call = None /\ forget.state = "idle"
  BY DEF Launch, SessionInv, OneAtATime
<1>2. UNCHANGED <<vault, keeping, forget, remembered, forget_raced>>
  BY DEF Launch
<1>3. CASE /\ shell' = [NewShell EXCEPT !.connecting = TRUE]
           /\ call' = SessionTask("vault", None, FALSE)
  <2>1. shell' \in Shells /\ ~shell'.dashboard
    BY <1>3 DEF NewShell, Shells
  <2>2. call' \in SessionTasks /\ call'.at = "load"
    BY <1>3 DEF SessionTask, SessionTasks
  <2>3. shell' # None
    BY SessionAssumption, <2>1
  <2> QED
    BY <1>1, <1>2, <2>1, <2>2, <2>3
       DEF SessionInv, SessionTypes, OneAtATime, WayToTheKeyring,
           OnlyRememberedLoginsAreSaved, Forgotten
<1>4. CASE /\ \/ shell' = [NewShell EXCEPT !.dashboard = TRUE]
              \/ shell' = [NewShell EXCEPT !.error = TRUE]
           /\ UNCHANGED call
  <2>1. shell' \in Shells
    BY <1>4 DEF NewShell, Shells
  <2> QED
    BY <1>1, <1>2, <1>4, <2>1
       DEF SessionInv, SessionTypes, OneAtATime, WayToTheKeyring,
           OnlyRememberedLoginsAreSaved, Forgotten
<1> QED
  BY <1>3, <1>4 DEF Launch

LEMMA QuitStep == ASSUME SessionInv, Quit PROVE SessionInv'
  BY DEF Quit, SessionInv, SessionTypes, Forgettings, OneAtATime, WayToTheKeyring,
         OnlyRememberedLoginsAreSaved, Forgotten, NotForgetting

\* The form leaves everything but the shell's form and its inputs alone.
LEMMA FormStep ==
  ASSUME SessionInv, shell # None, shell' \in Shells, shell'.dashboard = shell.dashboard,
         UNCHANGED <<vault, call, keeping, forget, remembered, forget_raced>>
  PROVE  SessionInv'
<1>1. shell' # None
  BY SessionAssumption
<1> QED
  BY <1>1 DEF SessionInv, SessionTypes, OneAtATime, WayToTheKeyring,
              OnlyRememberedLoginsAreSaved, Forgotten

LEMMA FormSteps ==
  ASSUME SessionInv,
         \/ open_connection_dialog \/ CancelDialog \/ ToggleRemember
         \/ \E token \in Logins \cup {Empty, Malformed} : EnterToken(token)
         \/ \E named \in BOOLEAN : EnterSite(named)
  PROVE  SessionInv'
<1>1. shell # None => shell \in Shells
  BY DEF SessionInv, SessionTypes
<1>2. CASE open_connection_dialog
  BY <1>1, <1>2, FormStep DEF open_connection_dialog, CanUseForm
<1>3. CASE CancelDialog
  BY <1>1, <1>3, FormStep DEF CancelDialog, InDialog, CanUseForm
<1>4. CASE ToggleRemember
  <2>1. shell # None /\ shell \in Shells
    BY <1>1, <1>4 DEF ToggleRemember, InDialog, CanUseForm
  <2>2. shell' \in Shells /\ shell'.dashboard = shell.dashboard
    BY <1>4, <2>1 DEF ToggleRemember, Shells
  <2> QED
    BY <1>4, <2>1, <2>2, FormStep DEF ToggleRemember
<1>5. ASSUME NEW token, EnterToken(token) PROVE SessionInv'
  <2>1. shell # None /\ shell \in Shells
    BY <1>1, <1>5 DEF EnterToken, InDialog, CanUseForm
  <2>2. shell' \in Shells /\ shell'.dashboard = shell.dashboard
    BY <1>5, <2>1 DEF EnterToken, Shells
  <2> QED
    BY <1>5, <2>1, <2>2, FormStep DEF EnterToken
<1>6. ASSUME NEW named \in BOOLEAN, EnterSite(named) PROVE SessionInv'
  <2>1. shell # None /\ shell \in Shells
    BY <1>1, <1>6 DEF EnterSite, InDialog, CanUseForm
  <2>2. shell' \in Shells /\ shell'.dashboard = shell.dashboard
    BY <1>6, <2>1 DEF EnterSite, Shells
  <2> QED
    BY <1>6, <2>1, <2>2, FormStep DEF EnterSite
<1> QED
  BY <1>2, <1>3, <1>4, <1>5, <1>6

LEMMA ConnectStep == ASSUME SessionInv, connect PROVE SessionInv'
<1>1. shell # None /\ shell \in Shells /\ ~shell.dashboard
      /\ UNCHANGED <<vault, keeping, forget, remembered, forget_raced>>
  BY DEF connect, InDialog, CanUseForm, SessionInv, SessionTypes
<1>2. CASE connection_readiness(shell.named, api_token)
  <2>1. call' = SessionTask("form", api_token, shell.remember)
        /\ api_token \in Logins
    BY <1>2 DEF connect, connection_readiness
  <2>2. call' \in SessionTasks /\ call'.at = "discover_cloud_id"
    BY <1>1, <2>1 DEF SessionTask, SessionTasks, Shells
  <2>3. shell' \in Shells /\ ~shell'.dashboard
    BY <1>1, <1>2 DEF connect, Shells
  <2>4. shell' # None
    BY <2>3, SessionAssumption
  <2> QED
    BY <1>1, <2>2, <2>3, <2>4
       DEF SessionInv, SessionTypes, OneAtATime, WayToTheKeyring,
           OnlyRememberedLoginsAreSaved, Forgotten
<1>3. CASE ~connection_readiness(shell.named, api_token)
  <2>1. shell' \in Shells /\ shell'.dashboard = shell.dashboard
    BY <1>1, <1>3 DEF connect, Shells
  <2> QED
    BY <1>1, <1>3, <2>1, FormStep DEF connect
<1> QED
  BY <1>2, <1>3

\* A step of the task that neither saves nor forgets.
LEMMA TaskStep ==
  ASSUME SessionInv, call # None, shell' \in Shells, ~shell'.dashboard,
         call' = None \/ (call' \in SessionTasks /\ (call'.at = "open_store" => call' = call)),
         UNCHANGED <<vault, keeping, forget, remembered, forget_raced>>
  PROVE  SessionInv'
<1>1. shell' # None /\ forget.state = "idle"
  BY SessionAssumption DEF SessionInv, OneAtATime
<1> QED
  BY <1>1 DEF SessionInv, SessionTypes, OneAtATime, WayToTheKeyring,
              OnlyRememberedLoginsAreSaved, Forgotten

LEMMA SessionStepOk == ASSUME SessionInv, SessionStep PROVE SessionInv'
<1>1. /\ call # None /\ call \in SessionTasks
      /\ shell \in Shells /\ ~shell.dashboard /\ forget.state = "idle"
  BY DEF SessionInv, SessionTypes, OneAtATime, SessionStep, load_saved_credentials,
         discover_cloud_id, ensure_authenticated_user, open_store
<1>2. Fails => call' = None /\ shell' \in Shells /\ ~shell'.dashboard
  BY <1>1 DEF Fails, Shells
<1>3. CASE load_saved_credentials
  <2>1. UNCHANGED <<vault, keeping, forget, remembered, forget_raced>>
    BY <1>3 DEF load_saved_credentials
  <2>2. CASE /\ vault \in Logins
             /\ call' = [call EXCEPT !.at = "discover_cloud_id", !.login = vault]
             /\ UNCHANGED shell
    <3>1. PICK c : c = [call EXCEPT !.at = "discover_cloud_id"]
      OBVIOUS
    <3>2. c \in SessionTasks /\ c.at = "discover_cloud_id"
      BY <1>1, <3>1 DEF SessionTasks
    <3>3. call' = [c EXCEPT !.login = vault]
      BY <2>2, <3>1
    <3>4. call' \in SessionTasks /\ call'.at = "discover_cloud_id"
      BY <2>2, <3>2, <3>3 DEF SessionTasks
    <3> QED
      BY <1>1, <2>1, <2>2, <3>4, TaskStep
  <2>3. CASE call' = None /\ shell' = [shell EXCEPT !.connecting = FALSE]
    <3>1. shell' \in Shells /\ ~shell'.dashboard
      BY <1>1, <2>3 DEF Shells
    <3> QED
      BY <1>1, <2>1, <2>3, <3>1, TaskStep
  <2>4. CASE call' = None
             /\ shell' = [shell EXCEPT !.connecting = FALSE, !.warning = TRUE]
    <3>1. shell' \in Shells /\ ~shell'.dashboard
      BY <1>1, <2>4 DEF Shells
    <3> QED
      BY <1>1, <2>1, <2>4, <3>1, TaskStep
  <2> QED
    BY <1>3, <2>2, <2>3, <2>4 DEF load_saved_credentials
<1>4. CASE discover_cloud_id
  <2>1. UNCHANGED <<vault, keeping, forget, remembered, forget_raced>>
    BY <1>4 DEF discover_cloud_id, Proceeds, Fails
  <2>2. CASE Proceeds("ensure_authenticated_user")
    <3>1. call' \in SessionTasks /\ call'.at = "ensure_authenticated_user"
          /\ UNCHANGED shell
      BY <1>1, <2>2 DEF Proceeds, SessionTasks
    <3> QED
      BY <1>1, <2>1, <3>1, TaskStep
  <2>3. CASE Fails
    BY <1>1, <1>2, <2>1, <2>3, TaskStep
  <2> QED
    BY <1>4, <2>2, <2>3 DEF discover_cloud_id
<1>5. CASE ensure_authenticated_user
  <2>1. UNCHANGED <<vault, forget, forget_raced>>
    BY <1>5 DEF ensure_authenticated_user
  <2>2. CASE /\ call' = [call EXCEPT !.at = "open_store"]
             /\ remembered' = IF call.remember THEN remembered \cup {call.login}
                              ELSE remembered
             /\ UNCHANGED <<shell, dialog, keeping>>
    <3>1. call' \in SessionTasks /\ call'.remember = call.remember /\ call'.login = call.login
      BY <1>1, <2>2 DEF SessionTasks
    <3>2. remembered \subseteq remembered'
          /\ (call.remember => call.login \in remembered')
      BY <2>2
    <3>3. WayToTheKeyring'
      BY <2>2, <3>1, <3>2 DEF SessionInv, WayToTheKeyring
    <3>4. OnlyRememberedLoginsAreSaved'
      BY <2>1, <3>2 DEF SessionInv, OnlyRememberedLoginsAreSaved
    <3> QED
      BY <1>1, <2>1, <2>2, <3>1, <3>3, <3>4
         DEF SessionInv, SessionTypes, OneAtATime, Forgotten
  <2>3. CASE Fails
    BY <1>1, <1>2, <2>1, <2>3, TaskStep DEF Fails
  <2> QED
    BY <1>5, <2>2, <2>3 DEF ensure_authenticated_user
<1>6. CASE open_store
  <2>1. UNCHANGED <<vault, forget, forget_raced>> /\ call.at = "open_store"
    BY <1>6 DEF open_store
  <2>2. CASE /\ call' = None
             /\ shell' = [shell EXCEPT
                  !.dashboard = TRUE, !.connecting = FALSE, !.error = FALSE,
                  !.warning = IF call.from = "vault" THEN @
                              ELSE call.remember /\ call.login \in Oversized]
             /\ keeping' = credentials_to_save
             /\ UNCHANGED remembered
    <3>1. shell' \in Shells /\ shell'.dashboard
      <4>1. (IF call.from = "vault" THEN shell.warning
             ELSE call.remember /\ call.login \in Oversized) \in BOOLEAN
        BY <1>1 DEF Shells, SessionTasks
      <4> QED
        BY <1>1, <2>2, <4>1 DEF Shells
    <3>2. shell' # None
      BY <3>1, SessionAssumption
    <3>3. keeping' = None \/ keeping' \in remembered'
      BY <1>1, <2>1, <2>2 DEF credentials_to_save, SessionInv, WayToTheKeyring
    <3> QED
      BY <1>1, <2>1, <2>2, <3>1, <3>2, <3>3
         DEF SessionInv, SessionTypes, OneAtATime, WayToTheKeyring,
             OnlyRememberedLoginsAreSaved, Forgotten
  <2>3. CASE Fails
    BY <1>1, <1>2, <2>1, <2>3, TaskStep DEF Fails
  <2> QED
    BY <1>6, <2>2, <2>3 DEF open_store
<1> QED
  BY <1>3, <1>4, <1>5, <1>6 DEF SessionStep

LEMMA SaveStep == ASSUME SessionInv, save_credentials PROVE SessionInv'
<1>1. keeping # None /\ keeping' = None
      /\ UNCHANGED <<call, forget, remembered, forget_raced>>
  BY DEF save_credentials
<1>2. keeping \in remembered
      /\ ~(forget.state # "idle" /\ forget.answer \in {"deleted", "absent"}
           /\ ~forget_raced)
  BY <1>1 DEF SessionInv, WayToTheKeyring, Forgotten
<1>3. CASE vault' = keeping /\ UNCHANGED shell
  BY <1>1, <1>2, <1>3
     DEF SessionInv, SessionTypes, OneAtATime, WayToTheKeyring,
         OnlyRememberedLoginsAreSaved, Forgotten
<1>4. CASE shell' = [shell EXCEPT !.warning = TRUE] /\ UNCHANGED vault
  <2>1. shell # None /\ shell \in Shells
    BY <1>1 DEF SessionInv, SessionTypes, OneAtATime
  <2>2. shell' \in Shells /\ shell'.dashboard = shell.dashboard
    BY <1>4, <2>1 DEF Shells
  <2>3. shell' # None
    BY <2>2, SessionAssumption
  <2> QED
    BY <1>1, <1>2, <1>4, <2>1, <2>2, <2>3
       DEF SessionInv, SessionTypes, OneAtATime, WayToTheKeyring,
           OnlyRememberedLoginsAreSaved, Forgotten
<1> QED
  BY <1>3, <1>4 DEF save_credentials

LEMMA ForgetSteps ==
  ASSUME SessionInv,
         begin_forget_saved_login \/ delete_saved_credentials \/ FinishForget
  PROVE  SessionInv'
<1>1. forget \in Forgettings
  BY DEF SessionInv, SessionTypes
<1>2. CASE begin_forget_saved_login
  <2>1. forget' \in Forgettings /\ forget'.answer = None
    BY <1>2 DEF begin_forget_saved_login, Forgettings
  <2> QED
    BY <1>2, <2>1, SessionAssumption
       DEF begin_forget_saved_login, SessionInv, SessionTypes, OneAtATime, WayToTheKeyring,
           OnlyRememberedLoginsAreSaved, Forgotten
<1>3. CASE delete_saved_credentials
  <2>1. /\ forget.state = "deleting" /\ forget_raced' = (forget_raced \/ keeping # None)
        /\ UNCHANGED <<shell, call, keeping, remembered>>
    BY <1>3 DEF delete_saved_credentials
  <2>2. CASE /\ vault' = None
             /\ forget' = [forget EXCEPT !.answer =
                   map_delete_backend_result(IF vault = None THEN "no_entry" ELSE "ok")]
    <3>1. forget' \in Forgettings /\ forget'.state = "deleting"
      BY <1>1, <2>1, <2>2 DEF Forgettings, map_delete_backend_result
    <3> QED
      BY <2>1, <2>2, <3>1
         DEF SessionInv, SessionTypes, OneAtATime, WayToTheKeyring,
             OnlyRememberedLoginsAreSaved, Forgotten
  <2>3. CASE /\ forget' = [forget EXCEPT
                   !.answer = map_delete_backend_result("unavailable")]
             /\ UNCHANGED vault
    <3>1. map_delete_backend_result("unavailable") = "error"
      BY DEF map_delete_backend_result
    <3>2. forget' \in Forgettings /\ forget'.state = "deleting" /\ forget'.answer = "error"
      BY <1>1, <2>1, <2>3, <3>1 DEF Forgettings
    <3> QED
      BY <2>1, <2>3, <3>2
         DEF SessionInv, SessionTypes, OneAtATime, WayToTheKeyring,
             OnlyRememberedLoginsAreSaved, Forgotten
  <2> QED
    BY <1>3, <2>2, <2>3 DEF delete_saved_credentials
<1>4. CASE FinishForget
  <2>1. /\ forget.state = "deleting"
        /\ forget' = [forget EXCEPT !.state = "completed"]
        /\ UNCHANGED <<vault, shell, call, keeping, remembered, forget_raced>>
    BY <1>4 DEF FinishForget
  <2>2. forget' \in Forgettings /\ forget'.answer = forget.answer
    BY <1>1, <2>1 DEF Forgettings
  <2> QED
    BY <2>1, <2>2
       DEF SessionInv, SessionTypes, OneAtATime, WayToTheKeyring,
           OnlyRememberedLoginsAreSaved, Forgotten
<1> QED
  BY <1>2, <1>3, <1>4

LEMMA SessionNextOk == SessionInv /\ [SessionNext]_sessionVars => SessionInv'
<1> SUFFICES ASSUME SessionInv, [SessionNext]_sessionVars PROVE SessionInv'
  OBVIOUS
<1>1. CASE UNCHANGED sessionVars
  BY <1>1 DEF sessionVars, SessionInv, SessionTypes, OneAtATime, WayToTheKeyring,
              OnlyRememberedLoginsAreSaved, Forgotten
<1>2. CASE SessionNext
  BY <1>2, LaunchStep, QuitStep, FormSteps, ConnectStep, SessionStepOk, SaveStep,
     ForgetSteps DEF SessionNext
<1> QED
  BY <1>1, <1>2

-----------------------------------------------------------------------------
\* The keyring holds what the user last asked it to hold (credential_store.rs
\* and the shell's connect and begin_forget_saved_login): only accepted logins
\* that were to be remembered, and none once it is told that it is gone.
THEOREM KeyringObeys == SessionSpec => []KeyringIsAsAsked
<1>1. SessionInv => KeyringIsAsAsked
  BY DEF SessionInv, KeyringIsAsAsked, ForgottenUnlessRaced, Forgotten
<1> QED
  BY <1>1, SessionInitOk, SessionNextOk, PTL DEF SessionSpec
=============================================================================
