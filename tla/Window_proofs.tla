----------------------------- MODULE Window_proofs -----------------------------
(***************************************************************************)
(* Proofs about the sections of the window, for every site, order of keys, *)
(* caches and behaviour of the table: the filters are what is shown, a     *)
(* write holds the selection, the table keeps its issue, and the team's    *)
(* section opens on an issue of the team.  And about its updates, for      *)
(* every feed and limit: every update is in its group, a selected one is   *)
(* read, and none becomes read that was not listed.                        *)
(***************************************************************************)
EXTENDS Sections, Inbox, FiniteFolds, TLAPS

-----------------------------------------------------------------------------
(* The window *)

\* What the window may be.
Windows ==
    [section : Names, layout : Layouts, mobile_detail_open : BOOLEAN,
     domain : DomainCaches \cup {<<>>}, team : TeamCaches \cup {<<>>},
     core : SiteIssues \cup {None}, selected : SiteIssues \cup {None},
     lookup : [kind : {"idle", "loading", "loaded", "error"}, issue : SiteIssues \cup {None}],
     writing : {"none", "edit", "watch"},
     search_query : SiteIssues \cup {None}, search_input : SiteIssues \cup {None},
     status_filter : SUBSET Categories, combobox : SUBSET Categories,
     rows : Seq(SiteIssues), row : Nat, mirror : SiteIssues \cup {None},
     column : Columns, order : Orders]

\* A cache that is shown, or none yet.
LEMMA TeamIs ==
  ASSUME NEW team \in TeamCaches \cup {<<>>}
  PROVE  /\ DOMAIN team \subseteq SiteIssues
         /\ \A i \in DOMAIN team : team[i].at \in Nat
<1>1. CASE team \in TeamCaches
  <2>1. DOMAIN team \subseteq SiteIssues /\ team \in [DOMAIN team -> [active : BOOLEAN, at : Nat]]
    BY <1>1, SectionsAssumption
  <2> QED
    BY <2>1
<1>2. CASE team = <<>>
  BY <1>2
<1> QED
  BY <1>1, <1>2

\* The same of the list.
LEMMA DomainIs ==
  ASSUME NEW domain \in DomainCaches \cup {<<>>}
  PROVE  DOMAIN domain \subseteq SiteIssues
<1>1. CASE domain \in DomainCaches
  BY <1>1, SectionsAssumption
<1>2. CASE domain = <<>>
  BY <1>2
<1> QED
  BY <1>1, <1>2

\* What the table has, and what filters the list.
Table(w) == <<w.team, w.rows, w.row, w.mirror>>
Filters(w) == <<w.search_query, w.search_input, w.status_filter, w.combobox>>
FiltersShown(w) == w.search_query = w.search_input /\ w.status_filter = w.combobox

\* What the table told last is the row it has.
Told(w) == w.row = 0 => w.mirror = None
RowOk(w) == Told(w) /\ (w.row # 0 => w.row \in DOMAIN w.rows /\ w.mirror = w.rows[w.row])

\* The inductive invariant: the filters are what is shown, the row that is
\* set is the one the dashboard was told of, and the rows are of the team.
WinInv(w) ==
    /\ w \in Windows /\ FiltersShown(w) /\ RowOk(w)
    /\ ToSet(w.rows) \subseteq DOMAIN w.team

\* A method keeps all that it is not about.
Alike(w, v) ==
    /\ v \in Windows /\ Table(v) = Table(w) /\ Filters(v) = Filters(w)
    /\ v.section = w.section /\ v.writing = w.writing

\* A write keeps the selection.
Held(w, v) == w.writing # "none" => v.selected = w.selected

-----------------------------------------------------------------------------
(* The rows of the table *)

\* Rows are ordered, whatever column they are sorted by.
LEMMA RowsAreOrdered ==
  ASSUME NEW w \in Windows, NEW S \in SUBSET DOMAIN w.team
  PROVE  StrictlyOrders({p \in S \X S : row_before(w, p[1], p[2])}, S)
<1> DEFINE R == {p \in S \X S : row_before(w, p[1], p[2])}
           team == w.team
           at == [i \in S |-> team[i].at]
           rank == [i \in S |-> Rank[i]]
           column == w.column
           down == w.order = "Descending"
<1>1. /\ team \in TeamCaches \cup {<<>>} /\ column \in Columns
  BY DEF Windows
<1>2. /\ S \subseteq SiteIssues /\ \A i \in S : team[i].at \in Nat
  BY <1>1, TeamIs
<1>3. /\ \A i \in S : at[i] \in Nat /\ rank[i] \in Nat
      /\ \A i, j \in S : rank[i] = rank[j] => i = j
  BY <1>2, SectionsAssumption
<1> DEFINE less(i, j) == \/ column = "Key" /\ rank[i] < rank[j]
                         \/ column = "LastUpdated" /\ at[i] < at[j]
                         \/ column = "Elapsed" /\ at[j] < at[i]
<1>4. \A i, j \in S : compare_rows(w.team, w.column, i, j) <=> less(i, j)
  <2> SUFFICES ASSUME NEW i \in S, NEW j \in S
               PROVE  compare_rows(w.team, w.column, i, j) <=> less(i, j)
    OBVIOUS
  <2>1. column = "Key" \/ column = "LastUpdated" \/ column = "Elapsed"
    BY <1>1 DEF Columns
  <2>2. /\ at[i] = team[i].at /\ at[j] = team[j].at /\ rank[i] = Rank[i] /\ rank[j] = Rank[j]
    OBVIOUS
  <2> HIDE DEF at, rank
  <2> QED
    BY <2>1, <2>2 DEF compare_rows
<1>5. \A i, j \in S : <<i, j>> \in R <=>
          IF less(i, j) \/ less(j, i) THEN IF down THEN less(j, i) ELSE less(i, j)
          ELSE rank[i] < rank[j]
  <2> SUFFICES ASSUME NEW i \in S, NEW j \in S
               PROVE  row_before(w, i, j) <=>
                        IF less(i, j) \/ less(j, i) THEN IF down THEN less(j, i) ELSE less(i, j)
                        ELSE rank[i] < rank[j]
    OBVIOUS
  <2>1. /\ compare_rows(w.team, w.column, i, j) <=> less(i, j)
        /\ compare_rows(w.team, w.column, j, i) <=> less(j, i)
    BY <1>4
  <2>2. rank[i] = Rank[i] /\ rank[j] = Rank[j]
    OBVIOUS
  <2> HIDE DEF less, rank
  <2> QED
    BY <2>1, <2>2 DEF row_before
<1>6. /\ \A i \in S : ~less(i, i)
      /\ \A i, j, k \in S : less(i, j) /\ less(j, k) => less(i, k)
      /\ \A i, j \in S : ~(less(i, j) /\ less(j, i))
      /\ \A i, j, k \in S : less(i, j) => less(i, k) \/ less(k, j)
  <2> HIDE DEF at, rank
  <2> QED
    BY <1>3
<1> HIDE DEF less, R, down, at, rank
<1>7. \A i \in S : <<i, i>> \notin R
  BY <1>3, <1>5, <1>6
<1>8. \A i, j \in S : i = j \/ <<i, j>> \in R \/ <<j, i>> \in R
  <2> SUFFICES ASSUME NEW i \in S, NEW j \in S, i # j PROVE <<i, j>> \in R \/ <<j, i>> \in R
    OBVIOUS
  <2>1. rank[i] < rank[j] \/ rank[j] < rank[i]
    BY <1>3
  <2> QED
    BY <1>5, <2>1
<1>9. \A i, j, k \in S : <<i, j>> \in R /\ <<j, k>> \in R => <<i, k>> \in R
  <2> SUFFICES ASSUME NEW i \in S, NEW j \in S, NEW k \in S, <<i, j>> \in R, <<j, k>> \in R
               PROVE  <<i, k>> \in R
    OBVIOUS
  <2> DEFINE L(x, y) == IF down THEN less(y, x) ELSE less(x, y)
  <2>1. \A x, y \in S : <<x, y>> \in R <=>
           L(x, y) \/ (~L(x, y) /\ ~L(y, x) /\ rank[x] < rank[y])
    BY <1>5, <1>6
  <2>2. /\ \A x, y, z \in S : L(x, y) /\ L(y, z) => L(x, z)
        /\ \A x, y, z \in S : L(x, y) => L(x, z) \/ L(z, y)
    BY <1>6
  <2>3. rank[i] < rank[j] /\ rank[j] < rank[k] => rank[i] < rank[k]
    BY <1>3
  <2> HIDE DEF L
  <2> QED
    BY <2>1, <2>2, <2>3
<1> QED
  BY <1>7, <1>8, <1>9 DEF StrictlyOrders, R

\* Sorting keeps the rows.
LEMMA SortKeeps ==
  ASSUME NEW w \in Windows, NEW S \in SUBSET DOMAIN w.team
  PROVE  sort_rows(w, S) \in Seq(SiteIssues) /\ ToSet(sort_rows(w, S)) = S
<1> DEFINE R == {p \in S \X S : row_before(w, p[1], p[2])}
           n == Cardinality(S)
           f == sort_rows(w, S)
<1>1. w.team \in TeamCaches \cup {<<>>}
  BY DEF Windows
<1>2. S \subseteq SiteIssues
  BY <1>1, TeamIs
<1>3. IsFiniteSet(S)
  BY <1>2, FS_Subset, SectionsAssumption
<1>4. n \in Nat
  BY <1>3, FS_CardinalityType
<1>5. StrictlyOrders(R, S)
  BY RowsAreOrdered
<1>6. \A g \in [1 .. n -> S] : Sorts(g, R, S) <=>
         \A i, j \in DOMAIN g : i < j => row_before(w, g[i], g[j])
  <2> SUFFICES ASSUME NEW g \in [1 .. n -> S]
               PROVE  Sorts(g, R, S) <=>
                        \A i, j \in DOMAIN g : i < j => row_before(w, g[i], g[j])
    OBVIOUS
  <2>1. DOMAIN g = 1 .. n /\ \A i \in 1 .. n : g[i] \in S
    OBVIOUS
  <2>2. \A i, j \in 1 .. n : <<g[i], g[j]>> \in R <=> row_before(w, g[i], g[j])
    BY <2>1
  <2> HIDE DEF R
  <2> QED
    BY <2>1, <2>2 DEF Sorts
<1> HIDE DEF R
<1>7. PICK g : Sorts(g, R, S)
  BY <1>3, <1>5, SortExists
<1>8. g \in [1 .. n -> S]
  BY <1>7 DEF Sorts
<1>9. \E h \in [1 .. n -> S] : \A i, j \in DOMAIN h : i < j => row_before(w, h[i], h[j])
  BY <1>6, <1>7, <1>8
<1>10. f = CHOOSE h \in [1 .. n -> S] : \A i, j \in DOMAIN h : i < j => row_before(w, h[i], h[j])
  BY DEF sort_rows
<1>11. f \in [1 .. n -> S] /\ \A i, j \in DOMAIN f : i < j => row_before(w, f[i], f[j])
  BY <1>9, <1>10, Zenon
<1> HIDE DEF f, n
<1>12. Sorts(f, R, S)
  BY <1>6, <1>11
<1>13. {f[i] : i \in DOMAIN f} = S
  BY <1>3, <1>5, <1>12, SortedOnto
<1>14. f \in Seq(SiteIssues)
  BY <1>2, <1>4, <1>11
<1> QED
  BY <1>13, <1>14 DEF ToSet, f

-----------------------------------------------------------------------------
(* The list: its selection and its filters *)

\* A field that is given a value of its type.
LEMMA CoreSet ==
  ASSUME NEW w \in Windows, NEW core \in SiteIssues \cup {None}
  PROVE  [w EXCEPT !.core = core] \in Windows
BY DEF Windows

\* The issue the dashboard was told of,
LEMMA MirrorSet ==
  ASSUME NEW w \in Windows, NEW i \in SiteIssues \cup {None}
  PROVE  [w EXCEPT !.mirror = i] \in Windows
BY DEF Windows

\* the pane,
LEMMA PaneSet ==
  ASSUME NEW w \in Windows, NEW open \in BOOLEAN
  PROVE  [w EXCEPT !.mobile_detail_open = open] \in Windows
BY DEF Windows

\* both forms of the status filter,
LEMMA StatusSet ==
  ASSUME NEW w \in Windows
  PROVE  [w EXCEPT !.status_filter = {}, !.combobox = {}] \in Windows
BY DEF Windows

\* and the order of the rows.
LEMMA OrderSet ==
  ASSUME NEW w \in Windows, NEW order \in Orders
  PROVE  [w EXCEPT !.order = order] \in Windows
BY DEF Windows

\* Another issue selected, with its own cache row.
Selecting(w, i, core) == [w EXCEPT !.selected = i, !.core = core]

\* Its fields, one at a time.
LEMMA SelectedAndCore ==
  ASSUME NEW w \in Windows, NEW i \in SiteIssues \cup {None}, NEW core \in SiteIssues \cup {None}
  PROVE  LET u == Selecting(w, i, core)
         IN  /\ u \in Windows /\ u.selected = i
             /\ Table(u) = Table(w) /\ Filters(u) = Filters(w)
             /\ u.section = w.section /\ u.writing = w.writing
<1> DEFINE s == [w EXCEPT !.selected = i]
           u == [s EXCEPT !.core = core]
<1>1. /\ s \in Windows /\ s.selected = i
      /\ Table(s) = Table(w) /\ Filters(s) = Filters(w)
      /\ s.section = w.section /\ s.writing = w.writing
  <2>1. s \in Windows
    BY DEF Windows
  <2>2. /\ s.selected = i /\ Table(s) = Table(w) /\ Filters(s) = Filters(w)
        /\ s.section = w.section /\ s.writing = w.writing
    BY DEF Windows, Table, Filters
  <2> QED
    BY <2>1, <2>2
<1> HIDE DEF s
<1>2. /\ u \in Windows /\ u.selected = s.selected
      /\ Table(u) = Table(s) /\ Filters(u) = Filters(s)
      /\ u.section = s.section /\ u.writing = s.writing
  <2>0. s \in Windows
    BY <1>1
  <2>1. u \in Windows
    BY <2>0, CoreSet, Zenon
  <2>2. /\ u.selected = s.selected /\ Table(u) = Table(s) /\ Filters(u) = Filters(s)
        /\ u.section = s.section /\ u.writing = s.writing
    BY <2>0 DEF Windows, Table, Filters
  <2> QED
    BY <2>1, <2>2
<1> QED
  BY <1>1, <1>2 DEF s, Selecting

\* An issue is chosen, unless a write holds another.
LEMMA ChooseIs ==
  ASSUME NEW w \in Windows, NEW i \in SiteIssues \cup {None}
  PROVE  /\ Alike(w, choose_issue(w, i)) /\ Held(w, choose_issue(w, i))
         /\ w.writing = "none" => choose_issue(w, i).selected = i
<1> DEFINE v == choose_issue(w, i)
           u == [w EXCEPT !.selected = i, !.core = IF w.selected = i THEN @ ELSE None]
<1>1. CASE w.writing # "none" /\ w.selected # i
  <2>1. v = w
    BY <1>1 DEF choose_issue
  <2> QED
    BY <1>1, <2>1 DEF Alike, Held
<1>2. CASE ~ (w.writing # "none" /\ w.selected # i)
  <2>1. v = u
    BY <1>2 DEF choose_issue
  <2>2. /\ u \in Windows /\ u.selected = i
        /\ Table(u) = Table(w) /\ Filters(u) = Filters(w)
        /\ u.section = w.section /\ u.writing = w.writing
    <3> DEFINE core == IF w.selected = i THEN w.core ELSE None
           t == Selecting(w, i, core)
    <3>1. core \in SiteIssues \cup {None} /\ i \in SiteIssues \cup {None}
      BY DEF Windows
    <3>2. u = t
      BY DEF Selecting
    <3> HIDE DEF core
    <3>3. /\ t \in Windows /\ t.selected = i
          /\ Table(t) = Table(w) /\ Filters(t) = Filters(w)
          /\ t.section = w.section /\ t.writing = w.writing
      BY <3>1, SelectedAndCore, Zenon
    <3> QED
      BY <3>2, <3>3, Zenon
  <2> HIDE DEF u, v
  <2>3. Alike(w, v) /\ v.selected = i
    BY <2>1, <2>2 DEF Alike
  <2>4. Held(w, v)
    BY <1>2, <2>3 DEF Held
  <2> QED
    BY <2>3, <2>4 DEF v
<1> QED
  BY <1>1, <1>2

\* The lookup is dropped.
LEMMA ClearIs ==
  ASSUME NEW w \in Windows
  PROVE  /\ Alike(w, clear_remote_lookup(w)) /\ clear_remote_lookup(w).selected = w.selected
         /\ clear_remote_lookup(w).domain = w.domain
BY DEF Windows, Table, Filters, Alike, clear_remote_lookup

\* The selection is dropped, unless a write holds it.
LEMMA ClearSelectionIs ==
  ASSUME NEW w \in Windows
  PROVE  /\ Alike(w, clear_selection_for_team_scope(w))
         /\ Held(w, clear_selection_for_team_scope(w))
         /\ w.writing = "none" => clear_selection_for_team_scope(w).selected = None
<1> DEFINE c == clear_remote_lookup(w)
           v == clear_selection_for_team_scope(w)
<1>1. Alike(w, c)
  BY ClearIs
<1>2. v = IF w.writing # "none" THEN w ELSE [c EXCEPT !.selected = None, !.core = None]
  BY DEF clear_selection_for_team_scope
<1> HIDE DEF c, v
<1>3. CASE w.writing # "none"
  BY <1>2, <1>3 DEF Alike, Held, v
<1>4. CASE w.writing = "none"
  <2> DEFINE u == Selecting(c, None, None)
  <2>0. None \in SiteIssues \cup {None}
    OBVIOUS
  <2>1. c \in Windows
    BY <1>1 DEF Alike
  <2>2. /\ u \in Windows /\ u.selected = None /\ Table(u) = Table(c) /\ Filters(u) = Filters(c)
        /\ u.section = c.section /\ u.writing = c.writing
    BY <2>1, <2>0, SelectedAndCore, Zenon
  <2>3. v = u
    BY <1>2, <1>4 DEF Selecting
  <2> HIDE DEF u
  <2>4. Alike(w, v) /\ v.selected = None
    BY <1>1, <2>2, <2>3 DEF Alike
  <2> QED
    BY <1>4, <2>4 DEF v, Held
<1> QED
  BY <1>3, <1>4

\* Of the issues that are visible, one comes first.
LEMMA FirstVisible ==
  ASSUME NEW w \in Windows, visible(w) # {}
  PROVE  (CHOOSE i \in visible(w) : \A j \in visible(w) : Rank[i] <= Rank[j]) \in SiteIssues
<1>1. w.domain \in DomainCaches \cup {<<>>}
  BY DEF Windows
<1>2. visible(w) \subseteq SiteIssues
  BY <1>1, DomainIs DEF visible
<1> DEFINE ranks == {Rank[i] : i \in visible(w)}
<1>3. ranks \in SUBSET Nat /\ ranks # {}
  BY <1>2, SectionsAssumption
<1>4. PICK r \in ranks : \A s \in ranks : r <= s
  <2> HIDE DEF ranks
  <2> QED
    BY <1>3, Least
<1>5. \E i \in visible(w) : \A j \in visible(w) : Rank[i] <= Rank[j]
  BY <1>4
<1> QED
  BY <1>2, <1>5

\* Views that are rebuilt select their first issue if none is selected.
LEMMA RebuildIs ==
  ASSUME NEW w \in Windows
  PROVE  Alike(w, rebuild_issue_views(w)) /\ Held(w, rebuild_issue_views(w))
<1> DEFINE first == CHOOSE i \in visible(w) : \A j \in visible(w) : Rank[i] <= Rank[j]
<1>1. CASE w.selected # None \/ visible(w) = {}
  <2>1. rebuild_issue_views(w) = w
    BY <1>1 DEF rebuild_issue_views
  <2> QED
    BY <2>1 DEF Alike, Held
<1>2. CASE ~(w.selected # None \/ visible(w) = {})
  <2>1. rebuild_issue_views(w) = choose_issue(w, first)
    BY <1>2 DEF rebuild_issue_views
  <2>2. first \in SiteIssues
    BY <1>2, FirstVisible
  <2> HIDE DEF first
  <2> QED
    BY <2>1, <2>2, ChooseIs
<1> QED
  BY <1>1, <1>2

\* One method after another.
LEMMA AlikeIsTransitive ==
  ASSUME NEW w, NEW u, NEW v, Alike(w, u), Alike(u, v)
  PROVE  Alike(w, v)
BY DEF Alike

\* What changes the filters leaves all else to the rebuilding.
Otherwise(w, v) ==
    /\ v \in Windows /\ Table(v) = Table(w) /\ v.section = w.section /\ v.writing = w.writing

\* The filter takes what the control shows.
LEMMA StatusFilterIs ==
  ASSUME NEW w \in Windows, NEW statuses \in SUBSET Categories, w.combobox = statuses,
         w.search_query = w.search_input
  PROVE  /\ Otherwise(w, set_status_filter(w, statuses))
         /\ Held(w, set_status_filter(w, statuses))
         /\ FiltersShown(set_status_filter(w, statuses))
<1> DEFINE u == [w EXCEPT !.status_filter = statuses]
<1>1. /\ u \in Windows /\ u.selected = w.selected /\ Table(u) = Table(w)
      /\ u.status_filter = statuses /\ u.combobox = statuses /\ u.search_query = u.search_input
      /\ u.section = w.section /\ u.writing = w.writing
  <2>1. u \in Windows
    BY DEF Windows
  <2>2. /\ u.selected = w.selected /\ Table(u) = Table(w) /\ u.status_filter = statuses
        /\ u.combobox = statuses /\ u.search_query = u.search_input /\ u.section = w.section
        /\ u.writing = w.writing
    BY DEF Windows, Table
  <2> QED
    BY <2>1, <2>2
<1>2. set_status_filter(w, statuses) = rebuild_issue_views(u)
  BY DEF set_status_filter
<1> HIDE DEF u
<1>3. Alike(u, rebuild_issue_views(u)) /\ Held(u, rebuild_issue_views(u))
  BY <1>1, RebuildIs
<1> QED
  BY <1>1, <1>2, <1>3 DEF Alike, Held, Otherwise, FiltersShown, Filters

\* The search, and the lack of any filter, field by field.
LEMMA QuerySet ==
  ASSUME NEW c \in Windows, NEW query \in SiteIssues \cup {None}
  PROVE  LET u == [c EXCEPT !.search_query = query]
         IN  /\ u \in Windows /\ u.selected = c.selected /\ Table(u) = Table(c)
             /\ u.search_query = query /\ u.search_input = c.search_input
             /\ u.status_filter = c.status_filter /\ u.combobox = c.combobox
             /\ u.section = c.section /\ u.writing = c.writing
<1> DEFINE u == [c EXCEPT !.search_query = query]
<1>1. u \in Windows
  BY DEF Windows
<1>2. /\ u.selected = c.selected /\ Table(u) = Table(c) /\ u.search_query = query
      /\ u.search_input = c.search_input /\ u.status_filter = c.status_filter
      /\ u.combobox = c.combobox /\ u.section = c.section /\ u.writing = c.writing
  BY DEF Windows, Table
<1> QED
  BY <1>1, <1>2

\* All four filters at once.
LEMMA FiltersEmptied ==
  ASSUME NEW c \in Windows
  PROVE  LET u == [c EXCEPT !.search_query = None, !.search_input = None,
                            !.status_filter = {}, !.combobox = {}]
         IN  /\ u \in Windows /\ u.selected = c.selected /\ Table(u) = Table(c)
             /\ FiltersShown(u) /\ u.section = c.section /\ u.writing = c.writing
<1> DEFINE f == [c EXCEPT !.search_query = None, !.search_input = None]
           u == [f EXCEPT !.status_filter = {}, !.combobox = {}]
<1>1. /\ f \in Windows /\ f.selected = c.selected /\ Table(f) = Table(c)
      /\ f.search_query = f.search_input /\ f.section = c.section /\ f.writing = c.writing
  <2>1. f \in Windows
    BY DEF Windows
  <2>2. /\ f.selected = c.selected /\ Table(f) = Table(c) /\ f.search_query = f.search_input
        /\ f.section = c.section /\ f.writing = c.writing
    BY DEF Windows, Table
  <2> QED
    BY <2>1, <2>2
<1> HIDE DEF f
<1>2. /\ u \in Windows /\ u.selected = f.selected /\ Table(u) = Table(f)
      /\ u.search_query = f.search_query /\ u.search_input = f.search_input
      /\ u.status_filter = {} /\ u.combobox = {}
      /\ u.section = f.section /\ u.writing = f.writing
  <2>0. f \in Windows
    BY <1>1
  <2>1. u \in Windows
    BY <2>0, StatusSet, Zenon
  <2>2. /\ u.selected = f.selected /\ Table(u) = Table(f) /\ u.search_query = f.search_query
        /\ u.search_input = f.search_input /\ u.status_filter = {} /\ u.combobox = {}
        /\ u.section = f.section /\ u.writing = f.writing
    BY <2>0 DEF Windows, Table
  <2> QED
    BY <2>1, <2>2
<1> QED
  BY <1>1, <1>2 DEF f, FiltersShown

\* The search takes what its input shows.
LEMMA SearchQueryIs ==
  ASSUME NEW w \in Windows, NEW query \in SiteIssues \cup {None}, w.search_input = query,
         w.status_filter = w.combobox
  PROVE  /\ Otherwise(w, set_search_query(w, query))
         /\ Held(w, set_search_query(w, query))
         /\ FiltersShown(set_search_query(w, query))
<1> DEFINE c == clear_remote_lookup(w)
           u == [c EXCEPT !.search_query = query]
<1>1. CASE w.search_query = query
  <2>1. set_search_query(w, query) = w
    BY <1>1 DEF set_search_query
  <2> QED
    BY <1>1, <2>1 DEF Otherwise, Held, FiltersShown
<1>2. CASE w.search_query # query
  <2>1. set_search_query(w, query) = rebuild_issue_views(u)
    BY <1>2 DEF set_search_query
  <2>2. Alike(w, c) /\ c.selected = w.selected
    BY ClearIs
  <2> HIDE DEF c
  <2>3. c \in Windows
    BY <2>2 DEF Alike
  <2>0. query \in SiteIssues \cup {None}
    OBVIOUS
  <2>4. /\ u \in Windows /\ u.selected = c.selected /\ Table(u) = Table(c)
        /\ u.search_query = query /\ u.search_input = c.search_input
        /\ u.status_filter = c.status_filter /\ u.combobox = c.combobox
        /\ u.section = c.section /\ u.writing = c.writing
    BY <2>0, <2>3, QuerySet, Zenon
  <2> HIDE DEF u
  <2>5. Alike(u, rebuild_issue_views(u)) /\ Held(u, rebuild_issue_views(u))
    BY <2>4, RebuildIs
  <2> QED
    BY <2>1, <2>2, <2>4, <2>5 DEF Alike, Held, Otherwise, FiltersShown, Filters
<1> QED
  BY <1>1, <1>2

\* No filter is left, nor shown.
LEMMA ClearFiltersIs ==
  ASSUME NEW w \in Windows
  PROVE  /\ Otherwise(w, clear_issue_filters(w)) /\ Held(w, clear_issue_filters(w))
         /\ FiltersShown(clear_issue_filters(w))
<1> DEFINE c == clear_remote_lookup(w)
           u == [c EXCEPT !.search_query = None, !.search_input = None,
                          !.status_filter = {}, !.combobox = {}]
<1>1. clear_issue_filters(w) = rebuild_issue_views(u)
  BY DEF clear_issue_filters
<1>2. Alike(w, c) /\ c.selected = w.selected
  BY ClearIs
<1> HIDE DEF c
<1>3. c \in Windows
  BY <1>2 DEF Alike
<1>4. /\ u \in Windows /\ u.selected = c.selected /\ Table(u) = Table(c)
      /\ FiltersShown(u) /\ u.section = c.section /\ u.writing = c.writing
  BY <1>3, FiltersEmptied, Zenon
<1> HIDE DEF u
<1>5. Alike(u, rebuild_issue_views(u)) /\ Held(u, rebuild_issue_views(u))
  BY <1>4, RebuildIs
<1> QED
  BY <1>1, <1>2, <1>4, <1>5 DEF Alike, Held, Otherwise, FiltersShown, Filters

\* What a lookup may be.
Lookups == [kind : {"idle", "loading", "loaded", "error"}, issue : SiteIssues \cup {None}]
Looking(w, lookup) == [w EXCEPT !.lookup = lookup]

\* A lookup is not of the table or the filters.
LEMMA LookingIs ==
  ASSUME NEW w \in Windows, NEW lookup \in Lookups
  PROVE  Alike(w, Looking(w, lookup)) /\ Looking(w, lookup).selected = w.selected
<1> DEFINE v == Looking(w, lookup)
<1>1. v \in Windows
  BY DEF Looking, Lookups, Windows
<1>2. /\ Table(v) = Table(w) /\ Filters(v) = Filters(w) /\ v.section = w.section
      /\ v.writing = w.writing /\ v.selected = w.selected
  BY DEF Looking, Windows, Table, Filters
<1> QED
  BY <1>1, <1>2 DEF Alike

\* Looking for a key opens a known issue or asks Jira.
LEMMA SearchJiraIs ==
  ASSUME NEW w \in Windows, NEW i \in SiteIssues \cup {None}
  PROVE  Alike(w, search_jira_for_key(w, i)) /\ Held(w, search_jira_for_key(w, i))
<1> DEFINE o == [w EXCEPT !.mobile_detail_open = TRUE]
           c == clear_remote_lookup(o)
           l == Looking(o, [kind |-> "loading", issue |-> i])
<1>1. search_jira_for_key(w, i) \in {w, choose_issue(c, i), l}
  BY DEF search_jira_for_key, Looking
<1>2. Alike(w, o) /\ o.selected = w.selected
  <2>1. o \in Windows
    BY DEF Windows
  <2>2. /\ Table(o) = Table(w) /\ Filters(o) = Filters(w) /\ o.section = w.section
        /\ o.writing = w.writing /\ o.selected = w.selected
    BY DEF Windows, Table, Filters
  <2> QED
    BY <2>1, <2>2 DEF Alike
<1> HIDE DEF o
<1>3. o \in Windows
  BY <1>2 DEF Alike
<1>4. Alike(o, c) /\ c.selected = o.selected
  BY <1>3, ClearIs
<1>5. Alike(o, l) /\ l.selected = o.selected
  <2>1. [kind |-> "loading", issue |-> i] \in Lookups
    BY DEF Lookups
  <2> QED
    BY <1>3, <2>1, LookingIs, Zenon
<1> HIDE DEF c, l
<1>6. Alike(c, choose_issue(c, i)) /\ Held(c, choose_issue(c, i))
  <2>1. c \in Windows
    BY <1>4 DEF Alike
  <2> QED
    BY <2>1, ChooseIs
<1>7. Alike(w, w) /\ Held(w, w)
  BY DEF Alike, Held
<1>8. Alike(w, l) /\ Held(w, l)
  BY <1>2, <1>5, AlikeIsTransitive DEF Held
<1>9. Alike(w, choose_issue(c, i)) /\ Held(w, choose_issue(c, i))
  BY <1>2, <1>4, <1>6 DEF Held, Alike
<1> QED
  BY <1>1, <1>7, <1>8, <1>9

-----------------------------------------------------------------------------
(* The table *)

\* What the table has of its rows.
Drawn(w) == FiltersShown(w) /\ Told(w) /\ ToSet(w.rows) \subseteq DOMAIN w.team

\* The team's section does not open on an issue outside the team.
OpensOnItsOwn(w, v) ==
    w.section # "Team" /\ v.section = "Team" /\ w.writing # "watch"
        => v.selected \in DOMAIN v.team \cup {None}

\* What follows the table telling of a row.
After(w, v) ==
    /\ WinInv(v) /\ Held(w, v) /\ OpensOnItsOwn(w, v)
    /\ v.writing = w.writing /\ v.rows = w.rows /\ v.team = w.team

\* The index of an issue's row.
LEMMA IndexIs ==
  ASSUME NEW rows \in Seq(SiteIssues), NEW i
  PROVE  LET row == row_index_for_issue_id(rows, i)
         IN  IF i \in ToSet(rows) THEN row \in DOMAIN rows /\ rows[row] = i ELSE row = 0
<1> DEFINE row == row_index_for_issue_id(rows, i)
           I == {n \in 1 .. Len(rows) : rows[n] = i}
           least == CHOOSE x \in I : \A y \in I : x =< y
<1>1. row = IF I # {} THEN least ELSE 0
  BY DEF row_index_for_issue_id, SelectInSeq, Min
<1>2. Len(rows) \in Nat /\ DOMAIN rows = 1 .. Len(rows)
  OBVIOUS
<1>3. ToSet(rows) = {rows[n] : n \in DOMAIN rows}
  BY DEF ToSet
<1>4. CASE i \in ToSet(rows)
  <2>1. I # {}
    BY <1>2, <1>3, <1>4
  <2>2. I \in SUBSET Nat
    BY <1>2
  <2>3. \E x \in I : \A y \in I : x =< y
    <3> HIDE DEF I
    <3> QED
      BY <2>1, <2>2, Least
  <2>4. least \in I
    <3> HIDE DEF I
    <3> QED
      BY <2>3, Zenon
  <2> HIDE DEF row, least
  <2>5. row \in I
    BY <1>1, <2>1, <2>4
  <2>6. row \in DOMAIN rows /\ rows[row] = i
    BY <1>2, <2>5
  <2> QED
    BY <1>4, <2>6 DEF row
<1>5. CASE i \notin ToSet(rows)
  <2>1. I = {}
    BY <1>2, <1>3, <1>5
  <2> HIDE DEF row, least, I
  <2>2. row = 0
    BY <1>1, <2>1
  <2> QED
    BY <1>5, <2>2 DEF row
<1> QED
  BY <1>4, <1>5

\* The table tells of a row; a section is opened.
Telling(w, row, i) == [w EXCEPT !.row = row, !.mirror = i]
Opening(w, section, open) == [w EXCEPT !.section = section, !.mobile_detail_open = open]

\* What is told, and nothing else, changes.
LEMMA TellingIs ==
  ASSUME NEW w \in Windows, NEW row \in Nat, NEW i \in SiteIssues \cup {None}
  PROVE  LET v == Telling(w, row, i)
         IN  /\ v \in Windows /\ v.row = row /\ v.mirror = i
             /\ v.team = w.team /\ v.rows = w.rows /\ Filters(v) = Filters(w)
             /\ v.section = w.section /\ v.writing = w.writing /\ v.selected = w.selected
             /\ v.layout = w.layout
<1> DEFINE t == [w EXCEPT !.row = row]
           v == [t EXCEPT !.mirror = i]
<1>1. /\ t \in Windows /\ t.row = row
      /\ t.team = w.team /\ t.rows = w.rows /\ Filters(t) = Filters(w)
      /\ t.section = w.section /\ t.writing = w.writing /\ t.selected = w.selected
      /\ t.layout = w.layout
  <2>1. t \in Windows
    BY DEF Windows
  <2>2. /\ t.row = row /\ t.team = w.team /\ t.rows = w.rows /\ Filters(t) = Filters(w)
        /\ t.section = w.section /\ t.writing = w.writing /\ t.selected = w.selected
        /\ t.layout = w.layout
    BY DEF Windows, Filters
  <2> QED
    BY <2>1, <2>2
<1> HIDE DEF t
<1>2. /\ v \in Windows /\ v.row = t.row /\ v.mirror = i
      /\ v.team = t.team /\ v.rows = t.rows /\ Filters(v) = Filters(t)
      /\ v.section = t.section /\ v.writing = t.writing /\ v.selected = t.selected
      /\ v.layout = t.layout
  <2>0. t \in Windows
    BY <1>1
  <2>1. v \in Windows
    BY <2>0, MirrorSet, Zenon
  <2>2. /\ v.row = t.row /\ v.mirror = i /\ v.team = t.team /\ v.rows = t.rows
        /\ Filters(v) = Filters(t) /\ v.section = t.section /\ v.writing = t.writing
        /\ v.selected = t.selected /\ v.layout = t.layout
    BY <2>0 DEF Windows, Filters
  <2> QED
    BY <2>1, <2>2
<1> QED
  BY <1>1, <1>2 DEF t, Telling

\* The section and the pane, and nothing else, change.
LEMMA OpeningIs ==
  ASSUME NEW w \in Windows, NEW section \in Names, NEW open \in BOOLEAN
  PROVE  LET v == Opening(w, section, open)
         IN  /\ v \in Windows /\ v.section = section
             /\ Table(v) = Table(w) /\ Filters(v) = Filters(w)
             /\ v.writing = w.writing /\ v.selected = w.selected
<1> DEFINE t == [w EXCEPT !.section = section]
           v == [t EXCEPT !.mobile_detail_open = open]
<1>1. /\ t \in Windows /\ t.section = section
      /\ Table(t) = Table(w) /\ Filters(t) = Filters(w)
      /\ t.writing = w.writing /\ t.selected = w.selected
  <2>1. t \in Windows
    BY DEF Windows
  <2>2. /\ t.section = section /\ Table(t) = Table(w) /\ Filters(t) = Filters(w)
        /\ t.writing = w.writing /\ t.selected = w.selected
    BY DEF Windows, Filters, Table
  <2> QED
    BY <2>1, <2>2
<1> HIDE DEF t
<1>2. /\ v \in Windows /\ v.section = t.section
      /\ Table(v) = Table(t) /\ Filters(v) = Filters(t)
      /\ v.writing = t.writing /\ v.selected = t.selected
  <2>0. t \in Windows
    BY <1>1
  <2>1. v \in Windows
    BY <2>0, PaneSet, Zenon
  <2>2. /\ v.section = t.section /\ Table(v) = Table(t) /\ Filters(v) = Filters(t)
        /\ v.writing = t.writing /\ v.selected = t.selected
    BY <2>0 DEF Windows, Filters, Table
  <2> QED
    BY <2>1, <2>2
<1> QED
  BY <1>1, <1>2 DEF t, Opening

\* A row is set: its issue is what the table told.
LEMMA RowSetIs ==
  ASSUME NEW w \in Windows, FiltersShown(w), ToSet(w.rows) \subseteq DOMAIN w.team,
         NEW row \in DOMAIN w.rows
  PROVE  After(w, RowSet(w, row)) /\ RowSet(w, row).row = row
<1> DEFINE i == w.rows[row]
           told == Telling(w, row, i)
           shown == IF w.selected = i THEN told ELSE choose_issue(told, i)
           open == w.layout = "mobile"
           x == Opening(shown, "Team", open)
           v == RowSet(w, row)
<1>1. /\ w.rows \in Seq(SiteIssues) /\ w.writing \in {"none", "edit", "watch"}
      /\ w.row \in Nat
  BY DEF Windows
<1>2. i \in SiteIssues /\ row \in Nat /\ row # 0 /\ i \in ToSet(w.rows)
  BY <1>1 DEF ToSet
<1>3. v = IF w.writing = "edit" /\ w.selected # i THEN told ELSE x
  BY DEF RowSet, Telling, Opening
<1>4. /\ told \in Windows /\ told.row = row /\ told.mirror = i
      /\ told.team = w.team /\ told.rows = w.rows /\ Filters(told) = Filters(w)
      /\ told.section = w.section /\ told.writing = w.writing /\ told.selected = w.selected
      /\ told.layout = w.layout
  <2>1. i \in SiteIssues \cup {None}
    BY <1>2
  <2> HIDE DEF i
  <2> QED
    BY <1>2, <2>1, TellingIs, Zenon
<1>5. FiltersShown(told) /\ WinInv(told)
  <2>1. FiltersShown(told)
    BY <1>4 DEF Filters, FiltersShown
  <2> HIDE DEF told
  <2> QED
    BY <1>2, <1>4, <2>1 DEF WinInv, RowOk, Told
<1> HIDE DEF told, v
<1>6. /\ Alike(told, shown) /\ Held(told, shown)
      /\ w.writing = "none" \/ w.selected = i => shown.selected = i
  <2>1. CASE w.selected = i
    <3>1. shown = told
      BY <2>1
    <3> HIDE DEF shown
    <3> QED
      BY <1>4, <2>1, <3>1 DEF Alike, Held
  <2>2. CASE w.selected # i
    <3>1. shown = choose_issue(told, i)
      BY <2>2
    <3> HIDE DEF shown, i
    <3> QED
      BY <1>2, <1>4, <2>2, <3>1, ChooseIs
  <2> QED
    BY <2>1, <2>2
<1> HIDE DEF shown
<1>7. /\ x \in Windows /\ x.section = "Team" /\ Table(x) = Table(shown)
      /\ Filters(x) = Filters(shown) /\ x.writing = shown.writing
      /\ x.selected = shown.selected
  <2>1. shown \in Windows /\ "Team" \in Names /\ open \in BOOLEAN
    BY <1>6 DEF Alike, Names
  <2> HIDE DEF open
  <2> QED
    BY <2>1, OpeningIs, Zenon
<1> HIDE DEF x
<1>8. CASE w.writing = "edit" /\ w.selected # i
  <2>1. v = told
    BY <1>3, <1>8
  <2>2. Held(w, v) /\ OpensOnItsOwn(w, v)
    BY <1>4, <2>1 DEF Held, OpensOnItsOwn
  <2> QED
    BY <1>4, <1>5, <2>1, <2>2 DEF After, v
<1>9. CASE ~(w.writing = "edit" /\ w.selected # i)
  <2>1. v = x
    BY <1>3, <1>9
  <2>2. Table(v) = Table(told) /\ Filters(v) = Filters(told) /\ v.writing = w.writing
    BY <1>4, <1>6, <1>7, <2>1 DEF Alike
  <2>3. /\ v.team = w.team /\ v.rows = w.rows /\ v.row = row /\ v.mirror = i
    BY <1>4, <2>2 DEF Table
  <2>4. Held(w, v)
    BY <1>4, <1>6, <1>7, <2>1 DEF Held
  <2>5. FiltersShown(v)
    BY <1>5, <2>2 DEF FiltersShown, Filters
  <2>6. WinInv(v)
    BY <1>2, <1>7, <2>1, <2>3, <2>5 DEF WinInv, RowOk, Told
  <2>7. OpensOnItsOwn(w, v)
    <3>1. CASE w.writing = "none" \/ w.selected = i
      <4>1. v.selected = i
        BY <1>6, <1>7, <2>1, <3>1
      <4> QED
        BY <1>2, <2>3, <4>1 DEF OpensOnItsOwn
    <3>2. CASE w.writing = "watch"
      BY <3>2 DEF OpensOnItsOwn
    <3> QED
      BY <1>1, <1>9, <3>1, <3>2
  <2> QED
    BY <2>2, <2>3, <2>4, <2>6, <2>7 DEF After, v
<1> QED
  BY <1>8, <1>9

\* The row is cleared.
LEMMA RowClearedIs ==
  ASSUME NEW w \in Windows, FiltersShown(w), ToSet(w.rows) \subseteq DOMAIN w.team
  PROVE  After(w, RowCleared(w))
<1> DEFINE told == Telling(w, 0, None)
           c == clear_selection_for_team_scope(told)
           v == RowCleared(w)
<1>1. v \in {told, c}
  BY DEF RowCleared, Telling
<1>2. /\ told \in Windows /\ told.row = 0 /\ told.mirror = None
      /\ told.team = w.team /\ told.rows = w.rows /\ Filters(told) = Filters(w)
      /\ told.section = w.section /\ told.writing = w.writing /\ told.selected = w.selected
  <2>1. 0 \in Nat /\ None \in SiteIssues \cup {None}
    OBVIOUS
  <2> QED
    BY <2>1, TellingIs, Zenon
<1> HIDE DEF told
<1>3. Alike(told, c) /\ Held(told, c)
  BY <1>2, ClearSelectionIs
<1>4. Alike(told, told) /\ Held(told, told)
  BY <1>2 DEF Alike, Held
<1> HIDE DEF c, v
<1>5. Alike(told, v) /\ Held(told, v)
  BY <1>1, <1>3, <1>4
<1>6. /\ v \in Windows /\ v.team = w.team /\ v.rows = w.rows /\ v.row = 0 /\ v.mirror = None
      /\ v.section = w.section /\ v.writing = w.writing
  BY <1>2, <1>5 DEF Alike, Table
<1>7. FiltersShown(v)
  BY <1>2, <1>5 DEF Alike, FiltersShown, Filters
<1>8. Held(w, v)
  BY <1>2, <1>5 DEF Held
<1> QED
  BY <1>6, <1>7, <1>8 DEF After, WinInv, RowOk, Told, OpensOnItsOwn, v

\* The issue is selected again where its row is now.
LEMMA ReselectIs ==
  ASSUME NEW w \in Windows, Drawn(w), NEW i, NEW quiet \in BOOLEAN
  PROVE  LET v == reselect(w, i, quiet)
         IN  /\ After(w, v)
             /\ i \in ToSet(w.rows) => selected_team_ticket_issue_id(v) = i
<1> DEFINE row == row_index_for_issue_id(w.rows, i)
           v == reselect(w, i, quiet)
<1>1. v = IF row # 0 THEN RowSet(w, row)
          ELSE IF w.row = 0 /\ quiet THEN w ELSE RowCleared(w)
  BY DEF reselect
<1>2. w.rows \in Seq(SiteIssues)
  BY DEF Windows
<1>3. IF i \in ToSet(w.rows) THEN row \in DOMAIN w.rows /\ w.rows[row] = i ELSE row = 0
  BY <1>2, IndexIs, Zenon
<1>4. 0 \notin DOMAIN w.rows
  BY <1>2
<1> HIDE DEF row, v
<1>5. CASE i \in ToSet(w.rows)
  <2>1. row \in DOMAIN w.rows /\ w.rows[row] = i /\ v = RowSet(w, row)
    BY <1>1, <1>3, <1>4, <1>5
  <2>2. After(w, v) /\ v.row = row
    BY <2>1, RowSetIs DEF Drawn
  <2>3. selected_team_ticket_issue_id(v) = i
    BY <2>1, <2>2 DEF After, selected_team_ticket_issue_id
  <2> QED
    BY <2>2, <2>3 DEF v
<1>6. CASE i \notin ToSet(w.rows)
  <2>1. CASE w.row = 0 /\ quiet
    <3>1. v = w
      BY <1>1, <1>3, <1>6, <2>1
    <3>2. After(w, w)
      BY <2>1 DEF After, WinInv, RowOk, Drawn, Told, Held, OpensOnItsOwn
    <3> QED
      BY <1>6, <3>1, <3>2 DEF v
  <2>2. CASE ~(w.row = 0 /\ quiet)
    <3>1. v = RowCleared(w)
      BY <1>1, <1>3, <1>6, <2>2
    <3>2. After(w, v)
      BY <3>1, RowClearedIs DEF Drawn
    <3> QED
      BY <1>6, <3>2 DEF v
  <2> QED
    BY <2>1, <2>2
<1> QED
  BY <1>5, <1>6

\* The row that is selected follows its issue.
Keeps(w, v) ==
    \/ selected_team_ticket_issue_id(w) \in {None, selected_team_ticket_issue_id(v)}
    \/ selected_team_ticket_issue_id(w) \notin ToSet(v.rows)

\* What a method makes of the window, its table included.
Settled(w, v) ==
    /\ WinInv(v) /\ Held(w, v) /\ OpensOnItsOwn(w, v) /\ Keeps(w, v)
    /\ v.writing = w.writing /\ v.team = w.team

\* The rows are replaced.
Listing(w, rows) == [w EXCEPT !.rows = rows]

\* The rows, and nothing else, change.
LEMMA ListingIs ==
  ASSUME NEW w \in Windows, NEW rows \in Seq(SiteIssues)
  PROVE  LET v == Listing(w, rows)
         IN  /\ v \in Windows /\ v.rows = rows
             /\ v.team = w.team /\ v.row = w.row /\ v.mirror = w.mirror
             /\ Filters(v) = Filters(w) /\ v.section = w.section /\ v.writing = w.writing
             /\ v.selected = w.selected
<1> DEFINE v == Listing(w, rows)
<1>1. v \in Windows
  BY DEF Windows, Listing
<1>2. /\ v.rows = rows /\ v.team = w.team /\ v.row = w.row /\ v.mirror = w.mirror
      /\ Filters(v) = Filters(w) /\ v.section = w.section /\ v.writing = w.writing
      /\ v.selected = w.selected
  BY DEF Windows, Filters, Listing
<1> QED
  BY <1>1, <1>2

\* Rows of the same table, the issue selected again.
LEMMA RelistIs ==
  ASSUME NEW w \in Windows, NEW u \in Windows, FiltersShown(u), Told(u),
         NEW rows \in Seq(SiteIssues), ToSet(rows) \subseteq DOMAIN u.team,
         NEW quiet \in BOOLEAN,
         u.team = w.team, u.section = w.section, u.writing = w.writing, u.selected = w.selected
  PROVE  Settled(w, reselect(Listing(u, rows), selected_team_ticket_issue_id(w), quiet))
<1> DEFINE i == selected_team_ticket_issue_id(w)
           l == Listing(u, rows)
           v == reselect(l, i, quiet)
<1>1. /\ l \in Windows /\ l.rows = rows
      /\ l.team = u.team /\ l.row = u.row /\ l.mirror = u.mirror
      /\ Filters(l) = Filters(u) /\ l.section = u.section /\ l.writing = u.writing
      /\ l.selected = u.selected
  BY ListingIs, Zenon
<1> HIDE DEF l
<1>2. Drawn(l)
  BY <1>1 DEF Drawn, FiltersShown, Filters, Told
<1>3. After(l, v) /\ (i \in ToSet(l.rows) => selected_team_ticket_issue_id(v) = i)
  BY <1>1, <1>2, ReselectIs, Zenon
<1> HIDE DEF v
<1>4. Held(w, v) /\ OpensOnItsOwn(w, v)
  BY <1>1, <1>3 DEF After, Held, OpensOnItsOwn
<1>5. Keeps(w, v)
  BY <1>3 DEF Keeps, After
<1> QED
  BY <1>1, <1>3, <1>4, <1>5 DEF Settled, After, v, l

\* The rows are read again.
LEMMA ReplaceIs ==
  ASSUME NEW w \in Windows, FiltersShown(w), Told(w), NEW quiet \in BOOLEAN
  PROVE  Settled(w, replace_team_ticket_rows(w, quiet))
<1> DEFINE S == team_in_progress(w)
           rows == sort_rows(w, S)
<1>1. S \in SUBSET DOMAIN w.team
  BY DEF team_in_progress
<1>2. rows \in Seq(SiteIssues) /\ ToSet(rows) = S
  <2> HIDE DEF S
  <2> QED
    BY <1>1, SortKeeps
<1>3. replace_team_ticket_rows(w, quiet)
          = reselect(Listing(w, rows), selected_team_ticket_issue_id(w), quiet)
  BY DEF replace_team_ticket_rows, Listing
<1> HIDE DEF S, rows
<1> QED
  BY <1>1, <1>2, <1>3, RelistIs

\* A step that is not of the table leaves it as it was.
LEMMA AsideIsSettled ==
  ASSUME NEW w \in Windows, WinInv(w), NEW v \in Windows, FiltersShown(v), Table(v) = Table(w),
         v.writing = w.writing, Held(w, v), OpensOnItsOwn(w, v)
  PROVE  Settled(w, v)
<1>1. /\ v.team = w.team /\ v.rows = w.rows /\ v.row = w.row /\ v.mirror = w.mirror
  BY DEF Table
<1>2. selected_team_ticket_issue_id(v) = selected_team_ticket_issue_id(w)
  BY <1>1 DEF selected_team_ticket_issue_id
<1> QED
  BY <1>1, <1>2 DEF Settled, WinInv, RowOk, Told, Keeps

\* The layout, and the order of the rows.
Sizing(w, layout) == [w EXCEPT !.layout = layout]
Sorting(w, column, order) == [w EXCEPT !.column = column, !.order = order]

\* The layout is not of the table or the filters.
LEMMA SizingIs ==
  ASSUME NEW w \in Windows, NEW layout \in Layouts
  PROVE  LET v == Sizing(w, layout)
         IN  /\ v \in Windows /\ Table(v) = Table(w) /\ Filters(v) = Filters(w)
             /\ v.section = w.section /\ v.writing = w.writing /\ v.selected = w.selected
<1> DEFINE v == Sizing(w, layout)
<1>1. v \in Windows
  BY DEF Windows, Sizing
<1>2. /\ Table(v) = Table(w) /\ Filters(v) = Filters(w) /\ v.section = w.section
      /\ v.writing = w.writing /\ v.selected = w.selected
  BY DEF Windows, Filters, Table, Sizing
<1> QED
  BY <1>1, <1>2

\* Nor are the column and its order.
LEMMA SortingIs ==
  ASSUME NEW w \in Windows, NEW column \in Columns, NEW order \in Orders
  PROVE  LET v == Sorting(w, column, order)
         IN  /\ v \in Windows /\ Table(v) = Table(w) /\ Filters(v) = Filters(w)
             /\ v.section = w.section /\ v.writing = w.writing /\ v.selected = w.selected
<1> DEFINE t == [w EXCEPT !.column = column]
           v == [t EXCEPT !.order = order]
<1>1. /\ t \in Windows /\ Table(t) = Table(w) /\ Filters(t) = Filters(w)
      /\ t.section = w.section /\ t.writing = w.writing /\ t.selected = w.selected
  <2>1. t \in Windows
    BY DEF Windows
  <2>2. /\ Table(t) = Table(w) /\ Filters(t) = Filters(w) /\ t.section = w.section
        /\ t.writing = w.writing /\ t.selected = w.selected
    BY DEF Windows, Filters, Table
  <2> QED
    BY <2>1, <2>2
<1> HIDE DEF t
<1>2. /\ v \in Windows /\ Table(v) = Table(t) /\ Filters(v) = Filters(t)
      /\ v.section = t.section /\ v.writing = t.writing /\ v.selected = t.selected
  <2>0. t \in Windows
    BY <1>1
  <2>1. v \in Windows
    BY <2>0, OrderSet, Zenon
  <2>2. /\ Table(v) = Table(t) /\ Filters(v) = Filters(t) /\ v.section = t.section
        /\ v.writing = t.writing /\ v.selected = t.selected
    BY <2>0 DEF Windows, Filters, Table
  <2> QED
    BY <2>1, <2>2
<1> QED
  BY <1>1, <1>2 DEF t, Sorting

\* The window is resized: what was selected in the table still is.
LEMMA DensityIs ==
  ASSUME NEW w \in Windows, WinInv(w), NEW layout \in Layouts, NEW quiet \in BOOLEAN
  PROVE  Settled(w, set_team_ticket_density(w, layout, quiet))
<1> DEFINE denser == Sizing(w, layout)
           reset == Sorting(denser, "LastUpdated", "Ascending")
           rows == sort_rows(reset, ToSet(w.rows))
           i == selected_team_ticket_issue_id(w)
           visible_still == sort_column_is_visible(w.column, layout)
           same == (w.layout = "wide") = (layout = "wide")
           v == set_team_ticket_density(w, layout, quiet)
<1>1. v = IF same THEN denser
          ELSE IF visible_still THEN reselect(denser, i, quiet)
          ELSE reselect(Listing(reset, rows), i, quiet)
  BY DEF set_team_ticket_density, Sizing, Sorting, Listing
<1>2. /\ denser \in Windows /\ Table(denser) = Table(w) /\ Filters(denser) = Filters(w)
      /\ denser.section = w.section /\ denser.writing = w.writing
      /\ denser.selected = w.selected
  BY SizingIs, Zenon
<1> HIDE DEF denser, same, visible_still
<1>3. /\ reset \in Windows /\ Table(reset) = Table(denser) /\ Filters(reset) = Filters(denser)
      /\ reset.section = denser.section /\ reset.writing = denser.writing
      /\ reset.selected = denser.selected
  <2>1. "LastUpdated" \in Columns /\ "Ascending" \in Orders
    BY DEF Columns, Orders
  <2> QED
    BY <1>2, <2>1, SortingIs, Zenon
<1> HIDE DEF reset
<1>4. /\ w.rows \in Seq(SiteIssues) /\ FiltersShown(w) /\ Told(w)
      /\ ToSet(w.rows) \in SUBSET DOMAIN w.team
  BY DEF WinInv, RowOk, Windows
<1>5. /\ FiltersShown(denser) /\ Told(denser) /\ denser.team = w.team /\ denser.rows = w.rows
      /\ FiltersShown(reset) /\ Told(reset) /\ reset.team = w.team
  BY <1>2, <1>3, <1>4 DEF FiltersShown, Filters, Told, Table
<1>6. rows \in Seq(SiteIssues) /\ ToSet(rows) = ToSet(w.rows)
  BY <1>3, <1>4, <1>5, SortKeeps
<1> HIDE DEF rows, v
<1>7. CASE same
  <2>1. v = denser
    BY <1>1, <1>7
  <2>2. Held(w, denser) /\ OpensOnItsOwn(w, denser)
    BY <1>2 DEF Held, OpensOnItsOwn
  <2> QED
    BY <1>2, <1>5, <2>1, <2>2, AsideIsSettled DEF v
<1>8. CASE ~same /\ visible_still
  <2>1. v = reselect(denser, i, quiet)
    BY <1>1, <1>8
  <2>2. denser = Listing(denser, w.rows)
    BY <1>2, <1>5 DEF Windows, Listing
  <2>3. v = reselect(Listing(denser, w.rows), i, quiet)
    BY <2>1, <2>2, Zenon
  <2>4. ToSet(w.rows) \subseteq DOMAIN denser.team
    BY <1>4, <1>5
  <2> QED
    BY <1>2, <1>4, <1>5, <2>3, <2>4, RelistIs, Zenon DEF v
<1>9. CASE ~same /\ ~visible_still
  <2>1. v = reselect(Listing(reset, rows), i, quiet)
    BY <1>1, <1>9
  <2>2. ToSet(rows) \subseteq DOMAIN reset.team
    BY <1>4, <1>5, <1>6
  <2>3. /\ reset.section = w.section /\ reset.writing = w.writing /\ reset.selected = w.selected
    BY <1>2, <1>3
  <2> QED
    BY <1>3, <1>5, <1>6, <2>1, <2>2, <2>3, RelistIs, Zenon DEF v
<1> QED
  BY <1>7, <1>8, <1>9

\* The rows are sorted: the issue the dashboard was told of is their row.
LEMMA SortIs ==
  ASSUME NEW w \in Windows, WinInv(w), NEW column \in Columns, NEW order \in Orders
  PROVE  Settled(w, perform_sort(w, column, order))
<1> DEFINE chosen == IF order = "Default" THEN Sorting(w, "LastUpdated", "Ascending")
                     ELSE Sorting(w, column, order)
           rows == sort_rows(chosen, ToSet(w.rows))
           sorted == Listing(chosen, rows)
           row == row_index_for_issue_id(rows, w.mirror)
           v == perform_sort(w, column, order)
<1>1. /\ chosen \in Windows /\ Table(chosen) = Table(w) /\ Filters(chosen) = Filters(w)
      /\ chosen.section = w.section /\ chosen.writing = w.writing
      /\ chosen.selected = w.selected
  <2>1. "LastUpdated" \in Columns /\ "Ascending" \in Orders
    BY DEF Columns, Orders
  <2>2. CASE order = "Default"
    <3>1. chosen = Sorting(w, "LastUpdated", "Ascending")
      BY <2>2
    <3> HIDE DEF chosen
    <3> QED
      BY <2>1, <3>1, SortingIs, Zenon
  <2>3. CASE order # "Default"
    <3>1. chosen = Sorting(w, column, order)
      BY <2>3
    <3> HIDE DEF chosen
    <3> QED
      BY <3>1, SortingIs, Zenon
  <2> QED
    BY <2>2, <2>3
<1>2. v = LET s == [chosen EXCEPT !.rows = sort_rows(chosen, ToSet(w.rows))]
              r == row_index_for_issue_id(s.rows, w.mirror)
          IN  IF r # 0 THEN RowSet(s, r) ELSE s
  BY DEF perform_sort, Sorting
<1> HIDE DEF chosen
<1>3. /\ w.rows \in Seq(SiteIssues) /\ FiltersShown(w) /\ RowOk(w)
      /\ ToSet(w.rows) \in SUBSET DOMAIN w.team /\ None \notin SiteIssues
      /\ w.row \in Nat
  BY SectionsAssumption DEF WinInv, Windows
<1>4. /\ chosen.team = w.team /\ chosen.rows = w.rows /\ chosen.row = w.row
      /\ chosen.mirror = w.mirror
  BY <1>1 DEF Table
<1>5. rows \in Seq(SiteIssues) /\ ToSet(rows) = ToSet(w.rows)
  BY <1>1, <1>3, <1>4, SortKeeps
<1>6. sorted = [chosen EXCEPT !.rows = sort_rows(chosen, ToSet(w.rows))]
  BY DEF Listing
<1> HIDE DEF rows
<1>7. /\ sorted \in Windows /\ sorted.rows = rows
      /\ sorted.team = chosen.team /\ sorted.row = chosen.row /\ sorted.mirror = chosen.mirror
      /\ Filters(sorted) = Filters(chosen) /\ sorted.section = chosen.section
      /\ sorted.writing = chosen.writing /\ sorted.selected = chosen.selected
  BY <1>1, <1>5, ListingIs, Zenon
<1>8. v = IF row # 0 THEN RowSet(sorted, row) ELSE sorted
  BY <1>2, <1>6, <1>7, Zenon
<1> HIDE DEF sorted
<1>9. IF w.mirror \in ToSet(rows) THEN row \in DOMAIN rows /\ rows[row] = w.mirror ELSE row = 0
  BY <1>5, IndexIs, Zenon
<1>10. 0 \notin DOMAIN rows
  BY <1>5
<1> HIDE DEF row, v
<1>11. FiltersShown(sorted) /\ ToSet(sorted.rows) \subseteq DOMAIN sorted.team
  BY <1>1, <1>3, <1>4, <1>5, <1>7 DEF FiltersShown, Filters
<1>12. CASE w.row # 0
  <2>1. w.row \in DOMAIN w.rows /\ w.mirror = w.rows[w.row]
    BY <1>3, <1>12 DEF RowOk
  <2>2. w.mirror \in ToSet(w.rows)
    BY <2>1 DEF ToSet
  <2>3. row \in DOMAIN sorted.rows /\ rows[row] = w.mirror /\ row # 0
    BY <1>5, <1>7, <1>9, <1>10, <2>2
  <2>4. After(sorted, v) /\ v.row = row
    BY <1>7, <1>8, <1>11, <2>3, RowSetIs
  <2>5. /\ selected_team_ticket_issue_id(w) = w.mirror
        /\ selected_team_ticket_issue_id(v) = w.mirror
    BY <1>7, <2>1, <2>3, <2>4 DEF selected_team_ticket_issue_id, After
  <2>6. Held(w, v) /\ OpensOnItsOwn(w, v) /\ v.writing = w.writing /\ v.team = w.team
    BY <1>1, <1>4, <1>7, <2>4 DEF After, Held, OpensOnItsOwn
  <2> QED
    BY <2>4, <2>5, <2>6 DEF Settled, After, Keeps, v
<1>13. CASE w.row = 0
  <2>1. w.mirror = None
    BY <1>3, <1>13 DEF RowOk, Told
  <2>2. \A s \in Seq(SiteIssues) : None \notin ToSet(s)
    BY <1>3 DEF ToSet
  <2>3. row = 0
    BY <1>5, <1>9, <2>1, <2>2
  <2>4. v = sorted
    BY <1>8, <2>3
  <2>5. WinInv(v)
    BY <1>3, <1>4, <1>7, <1>11, <1>13, <2>1, <2>4 DEF WinInv, RowOk, Told
  <2>6. 0 \notin DOMAIN w.rows
    BY <1>3
  <2>7. selected_team_ticket_issue_id(w) = None
    BY <1>13, <2>6 DEF selected_team_ticket_issue_id
  <2>8. /\ Held(w, v) /\ OpensOnItsOwn(w, v) /\ v.writing = w.writing /\ v.team = w.team
    BY <1>1, <1>4, <1>7, <2>4 DEF Held, OpensOnItsOwn
  <2> QED
    BY <2>5, <2>7, <2>8 DEF Settled, Keeps, v
<1> QED
  BY <1>12, <1>13

-----------------------------------------------------------------------------
(* The steps *)

\* What each step makes of the window, the team table's clicks apart.
Step(w, v) ==
    /\ WinInv(v) /\ OpensOnItsOwn(w, v)
    /\ w.writing # "none" /\ v.writing # "none" => v.selected = w.selected

\* The three ways a method leaves the window are steps.
LEMMA SettledIsStep ==
  ASSUME NEW w, NEW v, Settled(w, v)
  PROVE  Step(w, v) /\ Keeps(w, v)
BY DEF Settled, Step, Held

\* A method that is not about the table or the filters.
LEMMA AlikeIsStep ==
  ASSUME NEW w \in Windows, WinInv(w), NEW v, Alike(w, v), Held(w, v)
  PROVE  Step(w, v) /\ Keeps(w, v)
<1>1. v \in Windows /\ FiltersShown(v) /\ OpensOnItsOwn(w, v)
  BY DEF Alike, WinInv, FiltersShown, Filters, OpensOnItsOwn
<1> QED
  BY <1>1, AsideIsSettled, SettledIsStep DEF Alike

\* A method about the filters.
LEMMA OtherwiseIsStep ==
  ASSUME NEW w \in Windows, WinInv(w), NEW v, Otherwise(w, v), Held(w, v), FiltersShown(v)
  PROVE  Step(w, v) /\ Keeps(w, v)
<1>1. v \in Windows /\ OpensOnItsOwn(w, v)
  BY DEF Otherwise, OpensOnItsOwn
<1> QED
  BY <1>1, AsideIsSettled, SettledIsStep DEF Otherwise

\* A step that changes the section, but not to the team's.
LEMMA ElsewhereIsStep ==
  ASSUME NEW w \in Windows, WinInv(w), NEW u,
         NEW section \in Names \ {"Team"}, NEW open \in BOOLEAN,
         Alike(w, u), Held(w, u)
  PROVE  Step(w, Opening(u, section, open)) /\ Keeps(w, Opening(u, section, open))
<1> DEFINE v == Opening(u, section, open)
<1>1. u \in Windows /\ section \in Names
  BY DEF Alike
<1>2. /\ v \in Windows /\ v.section = section /\ Table(v) = Table(u) /\ Filters(v) = Filters(u)
      /\ v.writing = u.writing /\ v.selected = u.selected
  BY <1>1, OpeningIs, Zenon
<1> HIDE DEF v
<1>3. v \in Windows /\ FiltersShown(v) /\ OpensOnItsOwn(w, v) /\ Held(w, v)
  BY <1>2 DEF Alike, WinInv, FiltersShown, Filters, OpensOnItsOwn, Held
<1> QED
  BY <1>2, <1>3, AsideIsSettled, SettledIsStep DEF Alike, v

\* The other fields: the pane,
LEMMA OpenIs ==
  ASSUME NEW w \in Windows, NEW open \in BOOLEAN
  PROVE  Alike(w, [w EXCEPT !.mobile_detail_open = open])
         /\ [w EXCEPT !.mobile_detail_open = open].selected = w.selected
<1> DEFINE v == [w EXCEPT !.mobile_detail_open = open]
<1>1. v \in Windows
  BY DEF Windows
<1>2. /\ Table(v) = Table(w) /\ Filters(v) = Filters(w) /\ v.section = w.section
      /\ v.writing = w.writing /\ v.selected = w.selected
  BY DEF Windows, Table, Filters
<1> QED
  BY <1>1, <1>2 DEF Alike

\* the answer of a lookup,
LEMMA LookedUpIs ==
  ASSUME NEW w \in Windows, NEW kind \in {"loaded", "error"}
  PROVE  Alike(w, [w EXCEPT !.lookup.kind = kind])
         /\ [w EXCEPT !.lookup.kind = kind].selected = w.selected
<1> DEFINE l == [w.lookup EXCEPT !.kind = kind]
<1>1. l \in Lookups
  BY DEF Windows, Lookups
<1>2. [w EXCEPT !.lookup.kind = kind] = Looking(w, l)
  BY DEF Windows, Looking
<1> HIDE DEF l
<1>3. Alike(w, Looking(w, l)) /\ Looking(w, l).selected = w.selected
  BY <1>1, LookingIs, Zenon
<1> QED
  BY <1>2, <1>3

\* the detail that was read,
LEMMA CoreIs ==
  ASSUME NEW w \in Windows
  PROVE  Alike(w, [w EXCEPT !.core = w.selected])
         /\ [w EXCEPT !.core = w.selected].selected = w.selected
<1> DEFINE v == [w EXCEPT !.core = w.selected]
<1>1. v \in Windows
  BY DEF Windows
<1>2. /\ Table(v) = Table(w) /\ Filters(v) = Filters(w) /\ v.section = w.section
      /\ v.writing = w.writing /\ v.selected = w.selected
  BY DEF Windows, Table, Filters
<1> QED
  BY <1>1, <1>2 DEF Alike

\* the list's cache,
LEMMA DomainRead ==
  ASSUME NEW w \in Windows, NEW cache \in DomainCaches
  PROVE  Alike(w, [w EXCEPT !.domain = cache])
         /\ [w EXCEPT !.domain = cache].selected = w.selected
<1> DEFINE v == [w EXCEPT !.domain = cache]
<1>1. v \in Windows
  BY DEF Windows
<1>2. /\ Table(v) = Table(w) /\ Filters(v) = Filters(w) /\ v.section = w.section
      /\ v.writing = w.writing /\ v.selected = w.selected
  BY DEF Windows, Table, Filters
<1> QED
  BY <1>1, <1>2 DEF Alike

\* the section,
LEMMA SectionIs ==
  ASSUME NEW w \in Windows, NEW section \in Names
  PROVE  LET v == [w EXCEPT !.section = section]
         IN  /\ v \in Windows /\ v.section = section /\ Table(v) = Table(w)
             /\ Filters(v) = Filters(w) /\ v.writing = w.writing /\ v.selected = w.selected
<1> DEFINE v == [w EXCEPT !.section = section]
<1>1. v \in Windows
  BY DEF Windows
<1>2. /\ v.section = section /\ Table(v) = Table(w) /\ Filters(v) = Filters(w)
      /\ v.writing = w.writing /\ v.selected = w.selected
  BY DEF Windows, Table, Filters
<1> QED
  BY <1>1, <1>2

\* the write under way,
LEMMA WritingIs ==
  ASSUME NEW w \in Windows, NEW writing \in {"none", "edit", "watch"}
  PROVE  LET v == [w EXCEPT !.writing = writing]
         IN  /\ v \in Windows /\ v.section = w.section /\ Table(v) = Table(w)
             /\ Filters(v) = Filters(w) /\ v.writing = writing /\ v.selected = w.selected
<1> DEFINE v == [w EXCEPT !.writing = writing]
<1>1. v \in Windows
  BY DEF Windows
<1>2. /\ v.section = w.section /\ Table(v) = Table(w) /\ Filters(v) = Filters(w)
      /\ v.writing = writing /\ v.selected = w.selected
  BY DEF Windows, Table, Filters
<1> QED
  BY <1>1, <1>2

\* and the team's cache.
TeamRead(w, team) == [w EXCEPT !.team = team]

\* The team's cache, and nothing else, changes.
LEMMA TeamReadIs ==
  ASSUME NEW w \in Windows, NEW team \in TeamCaches
  PROVE  LET v == TeamRead(w, team)
         IN  /\ v \in Windows /\ v.section = w.section /\ v.rows = w.rows /\ v.row = w.row
             /\ v.mirror = w.mirror /\ v.team = team
             /\ Filters(v) = Filters(w) /\ v.writing = w.writing /\ v.selected = w.selected
<1> DEFINE v == TeamRead(w, team)
<1>1. v \in Windows
  BY DEF Windows, TeamRead
<1>2. /\ v.section = w.section /\ v.rows = w.rows /\ v.row = w.row /\ v.mirror = w.mirror
      /\ v.team = team /\ Filters(v) = Filters(w) /\ v.writing = w.writing
      /\ v.selected = w.selected
  BY DEF Windows, Filters, TeamRead
<1> QED
  BY <1>1, <1>2

\* The team's cache is applied.
LEMMA ApplyTeamCachedIs ==
  ASSUME NEW w \in Windows, WinInv(w), NEW u, Alike(w, u), Held(w, u), NEW team \in TeamCaches,
         NEW quiet \in BOOLEAN
  PROVE  Step(w, apply_team_cached(u, team, quiet)) /\ Keeps(w, apply_team_cached(u, team, quiet))
<1> DEFINE t == TeamRead(u, team)
           v == apply_team_cached(u, team, quiet)
<1>1. v = replace_team_ticket_rows(t, quiet)
  BY DEF apply_team_cached, TeamRead
<1>2. u \in Windows
  BY DEF Alike
<1>3. /\ t \in Windows /\ t.section = u.section /\ t.rows = u.rows /\ t.row = u.row
      /\ t.mirror = u.mirror /\ t.team = team
      /\ Filters(t) = Filters(u) /\ t.writing = u.writing /\ t.selected = u.selected
  BY <1>2, TeamReadIs, Zenon
<1> HIDE DEF t, v
<1>4. /\ u.rows = w.rows /\ u.row = w.row /\ u.mirror = w.mirror /\ u.section = w.section
      /\ u.writing = w.writing /\ Filters(u) = Filters(w)
  BY DEF Alike, Table
<1>5. FiltersShown(t) /\ Told(t)
  BY <1>3, <1>4 DEF FiltersShown, Filters, Told, WinInv, RowOk
<1>6. Settled(t, v)
  BY <1>1, <1>3, <1>5, ReplaceIs
<1>7. selected_team_ticket_issue_id(t) = selected_team_ticket_issue_id(w)
  BY <1>3, <1>4 DEF selected_team_ticket_issue_id
<1>8. Keeps(w, v)
  BY <1>6, <1>7 DEF Settled, Keeps
<1>9. Step(w, v)
  BY <1>3, <1>4, <1>6 DEF Settled, Step, Held, OpensOnItsOwn
<1> QED
  BY <1>8, <1>9 DEF v

\* Another section, by the navigation.
LEMMA ActivateIs ==
  ASSUME NEW w \in Windows, WinInv(w), NEW section \in Names
  PROVE  /\ Settled(w, activate_section(w, section))
<1> DEFINE c == clear_selection_for_team_scope(w)
           u == IF foreign(w, section) THEN c ELSE w
           x == [u EXCEPT !.section = section]
           v == activate_section(w, section)
<1>1. v = IF ~may_activate(w, section) THEN w ELSE x
  BY DEF activate_section
<1>2. Alike(w, c) /\ Held(w, c) /\ (w.writing = "none" => c.selected = None)
  BY ClearSelectionIs
<1>3. Alike(w, w) /\ Held(w, w)
  BY DEF Alike, Held
<1> HIDE DEF c
<1>4. Alike(w, u) /\ Held(w, u)
  BY <1>2, <1>3
<1>5. foreign(w, section) /\ w.writing = "none" => u.selected = None
  BY <1>2
<1>6. ~foreign(w, section) => u = w
  OBVIOUS
<1> HIDE DEF u
<1>7. /\ x \in Windows /\ x.section = section /\ Table(x) = Table(u)
      /\ Filters(x) = Filters(u) /\ x.writing = u.writing /\ x.selected = u.selected
  <2>1. u \in Windows
    BY <1>4 DEF Alike
  <2> QED
    BY <2>1, SectionIs, Zenon
<1> HIDE DEF x, v
<1>8. CASE ~may_activate(w, section)
  <2>1. v = w /\ FiltersShown(w) /\ OpensOnItsOwn(w, w)
    BY <1>1, <1>8 DEF WinInv, OpensOnItsOwn
  <2> QED
    BY <1>3, <2>1, AsideIsSettled DEF v
<1>9. CASE may_activate(w, section)
  <2>1. v = x
    BY <1>1, <1>9
  <2>2. Table(x) = Table(w) /\ x.writing = w.writing /\ Held(w, x) /\ FiltersShown(x)
    BY <1>4, <1>7 DEF Alike, Held, WinInv, FiltersShown, Filters
  <2>3. x.team = w.team
    BY <2>2 DEF Table
  <2>4. OpensOnItsOwn(w, x)
    BY <1>5, <1>6, <1>7, <1>9, <2>3 DEF OpensOnItsOwn, may_activate, foreign
  <2> QED
    BY <1>7, <2>1, <2>2, <2>4, AsideIsSettled DEF v
<1> QED
  BY <1>8, <1>9

\* The window as it opens.
LEMMA WinInvInit == SectionsInit => WinInv(win)
<1> SUFFICES ASSUME SectionsInit PROVE WinInv(win)
  OBVIOUS
<1> DEFINE lookup == [kind |-> "idle", issue |-> None]
<1>1. /\ lookup \in [kind : {"idle", "loading", "loaded", "error"}, issue : SiteIssues \cup {None}]
      /\ <<>> \in Seq(SiteIssues) /\ "Issues" \in Names /\ "wide" \in Layouts
      /\ "LastUpdated" \in Columns /\ "Ascending" \in Orders
      /\ {} \in SUBSET Categories
  BY DEF Names, Layouts, Columns, Orders
<1>2. win \in Windows
  BY <1>1 DEF SectionsInit, Windows
<1>3. ToSet(win.rows) = {}
  BY DEF SectionsInit, ToSet
<1> QED
  BY <1>2, <1>3 DEF SectionsInit, WinInv, FiltersShown, RowOk, Told

\* What the list can do.
LEMMA ListSteps ==
  ASSUME WinInv(win), ListStep
  PROVE  Step(win, win') /\ Keeps(win, win')
<1>1. /\ win \in Windows /\ FiltersShown(win)
      /\ win.search_query \in SiteIssues \cup {None}
  BY DEF WinInv, Windows
<1>2. CASE ClickLookupRow
  <2>1. win' = [win EXCEPT !.mobile_detail_open = TRUE]
    BY <1>2 DEF ClickLookupRow
  <2>2. Alike(win, win') /\ win'.selected = win.selected
    BY <1>1, <2>1, OpenIs, Zenon
  <2> QED
    BY <1>1, <2>2, AlikeIsStep DEF Held
<1>3. CASE TypeSearch
  <2>1. PICK query \in SiteIssues \cup {None} :
           win' = set_search_query([win EXCEPT !.search_input = query], query)
    BY <1>3 DEF TypeSearch
  <2> DEFINE u == [win EXCEPT !.search_input = query]
  <2>2. /\ u \in Windows /\ u.search_input = query /\ u.status_filter = u.combobox
        /\ Otherwise(win, u) /\ u.selected = win.selected
    <3>1. u \in Windows
      BY <1>1 DEF Windows
    <3>2. /\ u.search_input = query /\ u.status_filter = u.combobox /\ Otherwise(win, u)
          /\ u.selected = win.selected
      BY <1>1 DEF Windows, Otherwise, Table, FiltersShown
    <3> QED
      BY <3>1, <3>2
  <2>3. win' = set_search_query(u, query)
    BY <2>1
  <2> HIDE DEF u
  <2>4. /\ Otherwise(u, win') /\ Held(u, win') /\ FiltersShown(win')
    BY <2>2, <2>3, SearchQueryIs
  <2>5. Otherwise(win, win') /\ Held(win, win')
    BY <2>2, <2>4 DEF Otherwise, Held
  <2> QED
    BY <1>1, <2>4, <2>5, OtherwiseIsStep
<1>4. CASE FindKey
  <2>1. win' = search_jira_for_key(win, win.search_query)
    BY <1>4 DEF FindKey
  <2> QED
    BY <1>1, <2>1, SearchJiraIs, AlikeIsStep
<1>5. CASE AnswerLookup
  <2>1. PICK kind \in {"loaded", "error"} : win' = [win EXCEPT !.lookup.kind = kind]
    BY <1>5 DEF AnswerLookup
  <2>2. Alike(win, win') /\ win'.selected = win.selected
    BY <1>1, <2>1, LookedUpIs, Zenon
  <2> QED
    BY <1>1, <2>2, AlikeIsStep DEF Held
<1>6. ASSUME NEW statuses \in SUBSET Categories,
             win' = set_status_filter([win EXCEPT !.combobox = statuses], statuses)
      PROVE  Step(win, win') /\ Keeps(win, win')
  <2> DEFINE u == [win EXCEPT !.combobox = statuses]
  <2>1. /\ u \in Windows /\ u.combobox = statuses /\ u.search_query = u.search_input
        /\ Otherwise(win, u) /\ u.selected = win.selected
    <3>1. u \in Windows
      BY <1>1 DEF Windows
    <3>2. /\ u.combobox = statuses /\ u.search_query = u.search_input /\ Otherwise(win, u)
          /\ u.selected = win.selected
      BY <1>1 DEF Windows, Otherwise, Table, FiltersShown
    <3> QED
      BY <3>1, <3>2
  <2>2. win' = set_status_filter(u, statuses)
    BY <1>6
  <2> HIDE DEF u
  <2>3. /\ Otherwise(u, win') /\ Held(u, win') /\ FiltersShown(win')
    BY <2>1, <2>2, StatusFilterIs
  <2>4. Otherwise(win, win') /\ Held(win, win')
    BY <2>1, <2>3 DEF Otherwise, Held
  <2> QED
    BY <1>1, <2>3, <2>4, OtherwiseIsStep
<1>7. CASE ChooseStatus
  <2>1. PICK statuses \in SUBSET Categories :
            win' = set_status_filter([win EXCEPT !.combobox = statuses], statuses)
    BY <1>7 DEF ChooseStatus
  <2> QED
    BY <1>6, <2>1
<1>8. CASE ShowActive
  <2>1. win' = set_status_filter([win EXCEPT !.combobox = {"active"}], {"active"})
    BY <1>8 DEF ShowActive
  <2>2. {"active"} \in SUBSET Categories
    BY DEF Categories
  <2> QED
    BY <1>6, <2>1, <2>2
<1>9. CASE ClearFilters
  <2>1. win' = clear_issue_filters(win)
    BY <1>9 DEF ClearFilters
  <2> QED
    BY <1>1, <2>1, ClearFiltersIs, OtherwiseIsStep
<1>10. CASE OpenRelated
  <2>1. PICK i \in SiteIssues : win' = search_jira_for_key([win EXCEPT !.section = "Issues"], i)
    BY <1>10 DEF OpenRelated
  <2> DEFINE u == [win EXCEPT !.section = "Issues"]
  <2>2. /\ u \in Windows /\ u.section = "Issues" /\ Table(u) = Table(win)
        /\ Filters(u) = Filters(win) /\ u.writing = win.writing /\ u.selected = win.selected
    <3>1. "Issues" \in Names
      BY DEF Names
    <3> QED
      BY <1>1, <3>1, SectionIs, Zenon
  <2>3. win' = search_jira_for_key(u, i)
    BY <2>1
  <2> HIDE DEF u
  <2>4. Alike(u, win') /\ Held(u, win')
    BY <2>2, <2>3, SearchJiraIs
  <2>5. /\ win' \in Windows /\ FiltersShown(win') /\ Table(win') = Table(win)
        /\ win'.writing = win.writing /\ Held(win, win') /\ OpensOnItsOwn(win, win')
    BY <1>1, <2>2, <2>4 DEF Alike, FiltersShown, Filters, Held, OpensOnItsOwn
  <2> QED
    BY <1>1, <2>5, AsideIsSettled, SettledIsStep
<1> QED
  BY <1>2, <1>3, <1>4, <1>5, <1>7, <1>8, <1>9, <1>10 DEF ListStep

\* What the team can do.
LEMMA TeamSteps ==
  ASSUME WinInv(win), TeamStep
  PROVE  Step(win, win') /\ (Keeps(win, win') \/ ClickTeamRow)
<1>1. /\ win \in Windows /\ FiltersShown(win) /\ Told(win)
      /\ ToSet(win.rows) \subseteq DOMAIN win.team
  BY DEF WinInv, RowOk
<1>2. Alike(win, win) /\ Held(win, win)
  BY <1>1 DEF Alike, Held
<1>3. CASE ConfigureTeam
  <2>1. PICK open \in {FALSE, win.mobile_detail_open} :
            win' = [win EXCEPT !.section = "Settings", !.mobile_detail_open = open]
    BY <1>3 DEF ConfigureTeam
  <2>2. open \in BOOLEAN /\ "Settings" \in Names \ {"Team"}
    BY <1>1 DEF Windows, Names
  <2>3. win' = Opening(win, "Settings", open)
    BY <2>1 DEF Opening
  <2> QED
    BY <1>1, <1>2, <2>2, <2>3, ElsewhereIsStep
<1>4. CASE ClickTeamRow
  <2>1. PICK row \in team_table(win) : win' = RowSet(win, row)
    BY <1>4 DEF ClickTeamRow
  <2>2. row \in DOMAIN win.rows
    <3>1. team_table(win) \subseteq DOMAIN win.rows
      BY DEF team_table
    <3> QED
      BY <3>1
  <2>3. After(win, win')
    BY <1>1, <2>1, <2>2, RowSetIs
  <2> QED
    BY <1>4, <2>3 DEF After, Step, Held
<1>5. CASE SortTeam
  <2>1. PICK column \in Columns, order \in Orders : win' = perform_sort(win, column, order)
    BY <1>5 DEF SortTeam
  <2> QED
    BY <1>1, <2>1, SortIs, SettledIsStep
<1>6. CASE RefreshAges
  <2>1. PICK quiet \in BOOLEAN : win' = replace_team_ticket_rows(win, quiet)
    BY <1>6 DEF RefreshAges
  <2> QED
    BY <1>1, <2>1, ReplaceIs, SettledIsStep
<1>7. CASE ApplyTeam
  <2>1. PICK team \in TeamCaches, quiet \in BOOLEAN : win' = apply_team_cached(win, team, quiet)
    BY <1>7 DEF ApplyTeam
  <2> QED
    BY <1>1, <1>2, <2>1, ApplyTeamCachedIs
<1>8. CASE ApplyBoth
  <2>1. PICK cache \in DomainCaches, team \in TeamCaches, quiet \in BOOLEAN :
          win' = apply_team_cached(rebuild_issue_views([win EXCEPT !.domain = cache]), team, quiet)
    BY <1>8 DEF ApplyBoth
  <2> DEFINE d == [win EXCEPT !.domain = cache]
             u == rebuild_issue_views(d)
  <2>2. Alike(win, d) /\ d.selected = win.selected
    BY <1>1, DomainRead, Zenon
  <2> HIDE DEF d
  <2>3. Alike(d, u) /\ Held(d, u)
    BY <2>2, RebuildIs DEF Alike
  <2>4. win' = apply_team_cached(u, team, quiet)
    BY <2>1 DEF d
  <2> HIDE DEF u
  <2>5. Alike(win, u) /\ Held(win, u)
    BY <2>2, <2>3, AlikeIsTransitive DEF Held, Alike
  <2> QED
    BY <1>1, <2>4, <2>5, ApplyTeamCachedIs
<1> QED
  BY <1>3, <1>4, <1>5, <1>6, <1>7, <1>8 DEF TeamStep

\* What both can.
LEMMA CommonSteps ==
  ASSUME WinInv(win), CommonStep
  PROVE  Step(win, win') /\ Keeps(win, win')
<1>1. /\ win \in Windows /\ FiltersShown(win) /\ Told(win)
  BY DEF WinInv, RowOk
<1>2. Alike(win, win) /\ Held(win, win)
  BY <1>1 DEF Alike, Held
<1>3. CASE NavigateSidebar
  <2>1. PICK section \in Names : win' = activate_section(win, section)
    BY <1>3 DEF NavigateSidebar
  <2> QED
    BY <1>1, <2>1, ActivateIs, SettledIsStep
<1>4. CASE NavigateMobile
  <2>1. PICK section \in Names :
          win' = IF may_activate(win, section)
                 THEN [activate_section(win, section) EXCEPT !.mobile_detail_open = FALSE]
                 ELSE activate_section(win, section)
    BY <1>4 DEF NavigateMobile
  <2> DEFINE moved == activate_section(win, section)
             closed == [moved EXCEPT !.mobile_detail_open = FALSE]
  <2>2. Settled(win, moved)
    BY <1>1, ActivateIs
  <2>3. win' = closed \/ win' = moved
    BY <2>1
  <2> HIDE DEF moved
  <2>4. Alike(moved, closed) /\ closed.selected = moved.selected
    <3>1. moved \in Windows
      BY <2>2 DEF Settled, WinInv
    <3> QED
      BY <3>1, OpenIs, Zenon
  <2> HIDE DEF closed
  <2>5. CASE win' = moved
    BY <2>2, <2>5, SettledIsStep
  <2>6. CASE win' = closed
    <3>1. Settled(moved, closed)
      <4>1. FiltersShown(closed) /\ OpensOnItsOwn(moved, closed) /\ Held(moved, closed)
        BY <2>2, <2>4 DEF Settled, WinInv, Alike, FiltersShown, Filters, OpensOnItsOwn, Held
      <4> QED
        BY <2>2, <2>4, <4>1, AsideIsSettled DEF Settled, WinInv, Alike
    <3>2. /\ closed.rows = moved.rows /\ closed.row = moved.row /\ closed.team = moved.team
          /\ closed.section = moved.section /\ closed.writing = moved.writing
      BY <2>4 DEF Alike, Table
    <3>3. Settled(win, closed)
      BY <2>2, <2>4, <3>1, <3>2
         DEF Settled, Held, OpensOnItsOwn, Keeps, selected_team_ticket_issue_id
    <3> QED
      BY <2>6, <3>3, SettledIsStep
  <2> QED
    BY <2>3, <2>5, <2>6
<1>5. CASE ReviewUpdates
  <2>1. win' = [win EXCEPT !.section = "Updates"]
    BY <1>5 DEF ReviewUpdates
  <2>2. /\ win' \in Windows /\ win'.section = "Updates" /\ Table(win') = Table(win)
        /\ Filters(win') = Filters(win) /\ win'.writing = win.writing
        /\ win'.selected = win.selected
    <3>1. "Updates" \in Names
      BY DEF Names
    <3> QED
      BY <1>1, <2>1, <3>1, SectionIs, Zenon
  <2>3. FiltersShown(win') /\ Held(win, win') /\ OpensOnItsOwn(win, win')
    BY <1>1, <2>2 DEF FiltersShown, Filters, Held, OpensOnItsOwn
  <2> QED
    BY <1>1, <2>2, <2>3, AsideIsSettled, SettledIsStep
<1>6. CASE Back
  <2>1. win' = [win EXCEPT !.mobile_detail_open = FALSE]
    BY <1>6 DEF Back
  <2>2. Alike(win, win') /\ win'.selected = win.selected
    BY <1>1, <2>1, OpenIs, Zenon
  <2> QED
    BY <1>1, <2>2, AlikeIsStep DEF Held
<1>7. ASSUME NEW i \in SiteIssues \cup {None}
      PROVE  /\ Alike(win, choose_issue(clear_remote_lookup(win), i))
             /\ Held(win, choose_issue(clear_remote_lookup(win), i))
  <2> DEFINE c == clear_remote_lookup(win)
  <2>1. Alike(win, c) /\ c.selected = win.selected
    BY <1>1, ClearIs
  <2>2. c \in Windows
    BY <2>1 DEF Alike
  <2> HIDE DEF c
  <2>3. Alike(c, choose_issue(c, i)) /\ Held(c, choose_issue(c, i))
    BY <2>2, ChooseIs
  <2>4. Alike(win, choose_issue(c, i)) /\ Held(win, choose_issue(c, i))
    BY <2>1, <2>3, AlikeIsTransitive DEF Held, Alike
  <2> QED
    BY <2>4 DEF c
<1>8. CASE ClickIssueRow
  <2>1. PICK i \in rows_shown(win) :
            win' = [choose_issue(clear_remote_lookup(win), i) EXCEPT !.mobile_detail_open = TRUE]
    BY <1>8 DEF ClickIssueRow
  <2>2. i \in SiteIssues \cup {None}
    <3>1. DOMAIN win.domain \subseteq SiteIssues /\ DOMAIN win.team \subseteq SiteIssues
      BY <1>1, DomainIs, TeamIs DEF Windows
    <3>2. visible(win) \subseteq SiteIssues /\ team_in_progress(win) \subseteq SiteIssues
      BY <3>1 DEF visible, team_in_progress
    <3>3. rows_shown(win) \subseteq SiteIssues
      BY <3>2 DEF rows_shown, issue_list, issue_table, team_cards
    <3> QED
      BY <3>3
  <2> DEFINE u == choose_issue(clear_remote_lookup(win), i)
  <2>3. Alike(win, u) /\ Held(win, u)
    BY <1>7, <2>2
  <2>4. win' = [u EXCEPT !.mobile_detail_open = TRUE]
    BY <2>1
  <2> HIDE DEF u
  <2>5. Alike(u, win') /\ win'.selected = u.selected
    <3>1. u \in Windows
      BY <2>3 DEF Alike
    <3> QED
      BY <2>4, <3>1, OpenIs, Zenon
  <2>6. Alike(win, win') /\ Held(win, win')
    BY <2>3, <2>5, AlikeIsTransitive DEF Held
  <2> QED
    BY <1>1, <2>6, AlikeIsStep
<1>9. CASE OpenInIssues
  <2> DEFINE i == IF win.lookup.kind = "loaded" THEN win.lookup.issue ELSE win.selected
             u == Opening(win, "Issues", TRUE)
  <2>1. win' = choose_issue(u, i)
    BY <1>9 DEF OpenInIssues, Opening
  <2>2. i \in SiteIssues \cup {None}
    BY <1>1 DEF Windows
  <2>3. /\ u \in Windows /\ u.section = "Issues" /\ Table(u) = Table(win)
        /\ Filters(u) = Filters(win) /\ u.writing = win.writing /\ u.selected = win.selected
    <3>1. "Issues" \in Names /\ TRUE \in BOOLEAN
      BY DEF Names
    <3> QED
      BY <1>1, <3>1, OpeningIs, Zenon
  <2> HIDE DEF u, i
  <2>4. Alike(u, win') /\ Held(u, win')
    BY <2>1, <2>2, <2>3, ChooseIs
  <2>5. /\ win' \in Windows /\ FiltersShown(win') /\ Table(win') = Table(win)
        /\ win'.writing = win.writing /\ Held(win, win') /\ OpensOnItsOwn(win, win')
    BY <1>1, <2>3, <2>4 DEF Alike, FiltersShown, Filters, Held, OpensOnItsOwn
  <2> QED
    BY <1>1, <2>5, AsideIsSettled, SettledIsStep
<1>10. CASE OpenUpdate
  <2>1. PICK i \in SiteIssues :
           win' = [choose_issue(clear_remote_lookup(win), i) EXCEPT
                      !.section = "Issues", !.mobile_detail_open = TRUE]
    BY <1>10 DEF OpenUpdate
  <2> DEFINE u == choose_issue(clear_remote_lookup(win), i)
  <2>2. Alike(win, u) /\ Held(win, u)
    BY <1>7
  <2>3. win' = Opening(u, "Issues", TRUE)
    BY <2>1 DEF Opening
  <2>4. "Issues" \in Names \ {"Team"}
    BY DEF Names
  <2> HIDE DEF u
  <2> QED
    BY <1>1, <2>2, <2>3, <2>4, ElsewhereIsStep
<1>11. CASE Resize
  <2>1. PICK layout \in Layouts, quiet \in BOOLEAN :
            win' = set_team_ticket_density(win, layout, quiet)
    BY <1>11 DEF Resize
  <2> QED
    BY <1>1, <2>1, DensityIs, SettledIsStep
<1>12. CASE ReadDetail
  <2> DEFINE read == [win EXCEPT !.core = win.selected]
  <2>1. \/ win' = read
        \/ \E team \in TeamCaches, quiet \in BOOLEAN : win' = apply_team_cached(read, team, quiet)
    BY <1>12 DEF ReadDetail
  <2>2. Alike(win, read) /\ read.selected = win.selected
    BY <1>1, CoreIs, Zenon
  <2>3. Held(win, read)
    BY <2>2 DEF Held
  <2> HIDE DEF read
  <2> QED
    BY <1>1, <2>1, <2>2, <2>3, AlikeIsStep, ApplyTeamCachedIs
<1>13. CASE ApplyCached
  <2>1. PICK cache \in DomainCaches : win' = rebuild_issue_views([win EXCEPT !.domain = cache])
    BY <1>13 DEF ApplyCached
  <2> DEFINE d == [win EXCEPT !.domain = cache]
  <2>2. Alike(win, d) /\ d.selected = win.selected
    BY <1>1, DomainRead, Zenon
  <2>3. win' = rebuild_issue_views(d)
    BY <2>1
  <2> HIDE DEF d
  <2>4. Alike(d, win') /\ Held(d, win')
    BY <2>2, <2>3, RebuildIs DEF Alike
  <2>5. Alike(win, win') /\ Held(win, win')
    BY <2>2, <2>4, AlikeIsTransitive DEF Held, Alike
  <2> QED
    BY <1>1, <2>5, AlikeIsStep
<1>14. CASE WriteBegins \/ WriteEnds
  <2>1. PICK writing \in {"none", "edit", "watch"} : win' = [win EXCEPT !.writing = writing]
    BY <1>14 DEF WriteBegins, WriteEnds
  <2>2. /\ win' \in Windows /\ win'.section = win.section /\ Table(win') = Table(win)
        /\ Filters(win') = Filters(win) /\ win'.selected = win.selected
    BY <1>1, <2>1, WritingIs, Zenon
  <2>3. /\ win'.team = win.team /\ win'.rows = win.rows /\ win'.row = win.row
        /\ win'.mirror = win.mirror
    BY <2>2 DEF Table
  <2>4. WinInv(win')
    BY <2>2, <2>3 DEF WinInv, FiltersShown, Filters, RowOk, Told
  <2> QED
    BY <2>2, <2>3, <2>4 DEF Step, OpensOnItsOwn, Keeps, selected_team_ticket_issue_id
<1> QED
  BY <1>3, <1>4, <1>5, <1>6, <1>8, <1>9, <1>10, <1>11, <1>12, <1>13, <1>14 DEF CommonStep

\* All of it.
LEMMA WindowSteps ==
  ASSUME WinInv(win), SectionsNext
  PROVE  Step(win, win') /\ (Keeps(win, win') \/ ClickTeamRow)
BY ListSteps, TeamSteps, CommonSteps DEF SectionsNext

-----------------------------------------------------------------------------
(* The theorems *)

\* The inductive invariant holds.
THEOREM WinInvHolds == SectionsSpec => []WinInv(win)
<1>1. SectionsInit => WinInv(win)
  BY WinInvInit
<1>2. WinInv(win) /\ [SectionsNext]_win => WinInv(win)'
  <2>1. ASSUME WinInv(win), SectionsNext PROVE WinInv(win')
    BY <2>1, WindowSteps DEF Step
  <2>2. ASSUME WinInv(win), UNCHANGED win PROVE WinInv(win')
    BY <2>2
  <2> QED
    BY <2>1, <2>2
<1> QED
  BY <1>1, <1>2, PTL DEF SectionsSpec

\* The search and the status filter are what their inputs show, through
\* typing, choosing, clearing and whatever is synchronized between
\* (clear_issue_filters, set_search_query, set_status_filter).
THEOREM FiltersShow == SectionsSpec => []FiltersAreWhatIsShown
<1>1. WinInv(win) => FiltersAreWhatIsShown
  BY DEF WinInv, FiltersShown, FiltersAreWhatIsShown
<1> QED
  BY <1>1, WinInvHolds, PTL

\* A confirmed edit or watch change keeps its issue selected until it has
\* ended (choose_issue, clear_selection_for_team_scope, the table's events).
THEOREM SelectionHeld == SectionsSpec => WriteHoldsSelection
<1>1. WinInv(win) /\ [SectionsNext]_win
        => [win.writing # "none" /\ win'.writing # "none" => win'.selected = win.selected]_win
  BY WindowSteps DEF Step
<1> QED
  BY <1>1, WinInvHolds, PTL DEF SectionsSpec, WriteHoldsSelection

\* The row that is set in the team's table follows its issue while it is in
\* the table, however the rows are replaced, sorted or laid out
\* (replace_team_ticket_rows, set_team_ticket_density, perform_sort).
THEOREM TableKeeps == SectionsSpec => TableKeepsItsIssue
<1>1. WinInv(win) /\ [SectionsNext]_win
        => [\/ ClickTeamRow
            \/ selected_team_ticket_issue_id(win) \in {None,
                   selected_team_ticket_issue_id(win')}
            \/ selected_team_ticket_issue_id(win) \notin ToSet(win'.rows)]_win
  BY WindowSteps DEF Keeps
<1> QED
  BY <1>1, WinInvHolds, PTL DEF SectionsSpec, TableKeepsItsIssue

\* The team's section never opens on an issue outside the team, unless a
\* watch change holds the selection (activate_section, TableEvent).
THEOREM TeamOpens == SectionsSpec => TeamOpensOnItsOwn
<1>1. WinInv(win) /\ [SectionsNext]_win
        => [win.section # "Team" /\ win'.section = "Team" /\ win.writing # "watch"
               => win'.selected \in DOMAIN win'.team \cup {None}]_win
  BY WindowSteps DEF Step, OpensOnItsOwn
<1> QED
  BY <1>1, WinInvHolds, PTL DEF SectionsSpec, TeamOpensOnItsOwn

-----------------------------------------------------------------------------
(* The feed of the updates view *)

Fed == [id : EventIds, unread : BOOLEAN]

Group == [issue : {FeedEvents[e].issue : e \in EventIds}, events : Seq(Fed),
          unread : BOOLEAN, unread_count : Nat]

\* Newest first.
Descends(events) ==
    \A j, k \in DOMAIN events : j < k => newer(events[j].id, events[k].id)

\* The feed's order has no ties.
LEMMA NewerOrders ==
  ASSUME NEW ids \in SUBSET EventIds
  PROVE  /\ IsFiniteSet(ids)
         /\ StrictlyOrders({p \in EventIds \X EventIds : newer(p[1], p[2])}, ids)
<1> DEFINE R == {p \in EventIds \X EventIds : newer(p[1], p[2])}
<1>1. \A e, f \in ids : <<e, f>> \in R <=> newer(e, f)
  OBVIOUS
<1>2. \A e \in ids : FeedEvents[e].at \in Nat
  BY InboxAssumption
<1>3. \A e, f \in ids : FeedEvents[e].at = FeedEvents[f].at => e = f
  BY InboxAssumption
<1> HIDE DEF R
<1>4. StrictlyOrders(R, ids)
  <2>1. \A e \in ids : <<e, e>> \notin R
    BY <1>1, <1>2 DEF newer
  <2>2. \A e, f, g \in ids : <<e, f>> \in R /\ <<f, g>> \in R => <<e, g>> \in R
    BY <1>1, <1>2 DEF newer
  <2>3. ASSUME NEW e \in ids, NEW f \in ids, e # f PROVE <<e, f>> \in R \/ <<f, e>> \in R
    <3>1. FeedEvents[e].at # FeedEvents[f].at
      BY <1>3, <2>3
    <3>2. newer(e, f) \/ newer(f, e)
      BY <1>2, <3>1 DEF newer
    <3> QED
      BY <1>1, <3>2
  <2> QED
    BY <2>1, <2>2, <2>3 DEF StrictlyOrders
<1>5. IsFiniteSet(ids)
  BY InboxAssumption, FS_Subset
<1> QED
  BY <1>4, <1>5 DEF R

LEMMA NewestFirst ==
  ASSUME NEW ids \in SUBSET EventIds
  PROVE  LET list == newest_first(ids)
         IN  /\ list \in [1 .. Cardinality(ids) -> ids] /\ Cardinality(ids) \in Nat
             /\ \A m, n \in DOMAIN list : m < n => newer(list[m], list[n])
             /\ {list[n] : n \in DOMAIN list} = ids
<1> DEFINE R == {p \in EventIds \X EventIds : newer(p[1], p[2])}
           Right(list) == \A m, n \in DOMAIN list : m < n => newer(list[m], list[n])
           list == newest_first(ids)
<1>1. IsFiniteSet(ids) /\ StrictlyOrders(R, ids)
  BY NewerOrders
<1>2. \A e, f \in ids : <<e, f>> \in R <=> newer(e, f)
  OBVIOUS
<1>3. Cardinality(ids) \in Nat
  BY <1>1, FS_CardinalityType
<1> HIDE DEF R
<1>4. PICK f : Sorts(f, R, ids)
  BY <1>1, SortExists
<1>5. f \in [1 .. Cardinality(ids) -> ids] /\ Right(f)
  BY <1>2, <1>4 DEF Sorts
<1>6. list = CHOOSE l \in [1 .. Cardinality(ids) -> ids] : Right(l)
  BY Zenon DEF newest_first
<1> HIDE DEF list
<1>7. list \in [1 .. Cardinality(ids) -> ids] /\ Right(list)
  <2> HIDE DEF Right
  <2> QED
    BY <1>5, <1>6, Zenon
<1>8. Sorts(list, R, ids)
  BY <1>2, <1>7 DEF Sorts
<1>9. {list[n] : n \in DOMAIN list} = ids
  BY <1>1, <1>8, SortedOnto
<1> QED
  BY <1>3, <1>7, <1>9 DEF list

Stores == [events : SUBSET EventIds, unread : SUBSET EventIds, cache : InboxCaches]

\* The feed lists what is to be shown of it, newest first.
LEMMA FeedListed ==
  ASSUME NEW store \in Stores
  PROVE  /\ list_feed(store) \in Seq(Fed) /\ Descends(list_feed(store))
         /\ ids_of(list_feed(store)) = fed_events(store)
         /\ fed_events(store) \in SUBSET EventIds
<1> DEFINE ids == fed_events(store)
           list == newest_first(ids)
           feed == list_feed(store)
<1>1. ids \in SUBSET EventIds
  BY DEF fed_events, Stores
<1> HIDE DEF ids
<1>2. /\ list \in [1 .. Cardinality(ids) -> ids] /\ Cardinality(ids) \in Nat
      /\ \A m, n \in DOMAIN list : m < n => newer(list[m], list[n])
      /\ {list[n] : n \in DOMAIN list} = ids
  BY <1>1, NewestFirst
<1>3. feed = [n \in DOMAIN list |-> [id |-> list[n], unread |-> list[n] \in store.unread]]
  BY DEF list_feed, ids
<1> HIDE DEF list, feed
<1>4. DOMAIN feed = 1 .. Cardinality(ids) /\ DOMAIN list = 1 .. Cardinality(ids)
  BY <1>2, <1>3
<1>5. \A n \in DOMAIN feed : feed[n] \in Fed /\ feed[n].id = list[n]
  BY <1>1, <1>2, <1>3, <1>4 DEF Fed
<1>6. feed \in Seq(Fed)
  BY <1>2, <1>3, <1>4, <1>5
<1>7. Descends(feed)
  BY <1>2, <1>4, <1>5 DEF Descends
<1>8. ids_of(feed) = ids
  BY <1>2, <1>4, <1>5 DEF ids_of
<1> QED
  BY <1>1, <1>6, <1>7, <1>8 DEF feed, ids

-----------------------------------------------------------------------------
(* Grouping by issue *)

\* What holds of a group once its events are in it.
GroupOk(g) ==
    /\ g \in Group /\ Len(g.events) > 0
    /\ \A k \in DOMAIN g.events : FeedEvents[g.events[k].id].issue = g.issue
    /\ Descends(g.events)
    /\ g.unread_count = Cardinality({k \in DOMAIN g.events : g.events[k].unread})
    /\ g.unread = (g.unread_count > 0)

LEMMA AloneOk ==
  ASSUME NEW e \in Fed
  PROVE  GroupOk(alone(e)) /\ update_group_event_ids(alone(e)) = {e.id}
<1> DEFINE g == alone(e)
           U == {k \in DOMAIN g.events : g.events[k].unread}
<1>1. /\ g = [issue |-> FeedEvents[e.id].issue, events |-> <<e>>,
              unread |-> e.unread, unread_count |-> Count(e.unread)]
      /\ e.id \in EventIds /\ e.unread \in BOOLEAN
  BY DEF alone, Fed
<1>2. <<e>> \in Seq(Fed) /\ Len(<<e>>) = 1 /\ <<e>>[1] = e /\ DOMAIN <<e>> = {1}
  OBVIOUS
<1>3. /\ g.issue = FeedEvents[e.id].issue /\ g.events = <<e>>
      /\ g.unread = e.unread /\ g.unread_count = Count(e.unread)
  BY <1>1
<1>4. g \in Group
  BY <1>1, <1>2 DEF Group, Count
<1>5. U = IF e.unread THEN {1} ELSE {}
  BY <1>1, <1>2, <1>3
<1>6. Cardinality(U) = Count(e.unread)
  BY <1>1, <1>5, FS_EmptySet, FS_Singleton DEF Count
<1>7. g.unread = (g.unread_count > 0)
  BY <1>1, <1>3 DEF Count
<1>8. update_group_event_ids(g) = {e.id}
  BY <1>2, <1>3 DEF update_group_event_ids
<1>9. Descends(g.events) /\ \A k \in DOMAIN g.events : FeedEvents[g.events[k].id].issue = g.issue
  BY <1>2, <1>3 DEF Descends
<1> HIDE DEF g
<1> QED
  BY <1>2, <1>3, <1>4, <1>6, <1>7, <1>8, <1>9 DEF GroupOk, g

LEMMA JoinedOk ==
  ASSUME NEW g, GroupOk(g), NEW e \in Fed, FeedEvents[e.id].issue = g.issue,
         \A k \in DOMAIN g.events : newer(g.events[k].id, e.id)
  PROVE  /\ GroupOk(joined_by(g, e))
         /\ joined_by(g, e).issue = g.issue
         /\ joined_by(g, e).events[1] = g.events[1]
         /\ update_group_event_ids(joined_by(g, e)) = update_group_event_ids(g) \cup {e.id}
<1> DEFINE h == joined_by(g, e)
           n == Len(g.events)
           U == {k \in DOMAIN g.events : g.events[k].unread}
           V == {k \in DOMAIN h.events : h.events[k].unread}
<1>1. /\ g \in Group /\ g.events \in Seq(Fed) /\ n \in Nat /\ n > 0
      /\ g.unread \in BOOLEAN /\ g.unread_count \in Nat
      /\ e.unread \in BOOLEAN /\ e.id \in EventIds
  BY DEF GroupOk, Group, Fed
<1>2. /\ h.issue = g.issue /\ h.events = Append(g.events, e)
      /\ h.unread = (g.unread \/ e.unread)
      /\ h.unread_count = g.unread_count + Count(e.unread)
  BY <1>1 DEF joined_by, Group
<1>3. /\ Append(g.events, e) \in Seq(Fed) /\ DOMAIN Append(g.events, e) = 1 .. n + 1
      /\ DOMAIN g.events = 1 .. n
      /\ \A k \in 1 .. n : Append(g.events, e)[k] = g.events[k]
      /\ Append(g.events, e)[n + 1] = e /\ Len(Append(g.events, e)) = n + 1
  BY <1>1
<1>4. Count(e.unread) \in Nat /\ Count(e.unread) = IF e.unread THEN 1 ELSE 0
  BY DEF Count
<1>5. h \in Group
  <2>1. \A x \in Seq(Fed), y \in BOOLEAN, z \in Nat :
          [g EXCEPT !.events = x, !.unread = y, !.unread_count = z] \in Group
    BY <1>1 DEF Group
  <2>2. g.unread_count + Count(e.unread) \in Nat /\ (g.unread \/ e.unread) \in BOOLEAN
    BY <1>1, <1>4
  <2>3. [g EXCEPT !.events = Append(g.events, e), !.unread = g.unread \/ e.unread,
                  !.unread_count = g.unread_count + Count(e.unread)] \in Group
    BY <1>3, <2>1, <2>2, Zenon
  <2> QED
    BY <2>3 DEF joined_by
<1> HIDE DEF h, n
<1>6. Cardinality(V) = g.unread_count + Count(e.unread)
  <2>1. U \in SUBSET (1 .. n) /\ IsFiniteSet(U)
    <3>1. U \in SUBSET (1 .. n)
      BY <1>3
    <3>2. IsFiniteSet(1 .. n)
      BY <1>1, FS_Interval
    <3> HIDE DEF U
    <3> QED
      BY <3>1, <3>2, FS_Subset
  <2>2. Cardinality(U) = g.unread_count
    BY DEF GroupOk
  <2>3. n + 1 \notin U
    BY <1>1, <2>1
  <2>4. \A k \in 1 .. n + 1 : k \in V <=> (k \in U \/ (k = n + 1 /\ e.unread))
    BY <1>1, <1>2, <1>3
  <2>5. V \subseteq 1 .. n + 1
    BY <1>2, <1>3
  <2>6. V = IF e.unread THEN U \cup {n + 1} ELSE U
    <3> HIDE DEF U, V
    <3>1. CASE e.unread
      <4>1. U \cup {n + 1} \subseteq 1 .. n + 1
        BY <1>1, <2>1
      <4>2. \A k \in 1 .. n + 1 : k \in V <=> k \in U \cup {n + 1}
        BY <2>4, <3>1
      <4> QED
        BY <2>5, <3>1, <4>1, <4>2
    <3>2. CASE ~e.unread
      <4>1. U \subseteq 1 .. n + 1
        BY <1>1, <2>1
      <4>2. \A k \in 1 .. n + 1 : k \in V <=> k \in U
        BY <2>4, <3>2
      <4> QED
        BY <2>5, <3>2, <4>1, <4>2
    <3> QED
      BY <3>1, <3>2
  <2>7. Cardinality(U \cup {n + 1}) = Cardinality(U) + 1
    <3> HIDE DEF U
    <3> QED
      BY <2>1, <2>3, FS_AddElement
  <2> HIDE DEF U, V
  <2> QED
    BY <1>1, <1>4, <2>2, <2>6, <2>7
<1>7. h.unread = (h.unread_count > 0)
  <2>1. g.unread = (g.unread_count > 0)
    BY DEF GroupOk
  <2>2. CASE e.unread
    BY <1>1, <1>2, <1>4, <2>2
  <2>3. CASE ~e.unread
    <3>1. h.unread_count = g.unread_count
      BY <1>1, <1>2, <1>4, <2>3
    <3>2. h.unread = g.unread
      BY <1>1, <1>2, <2>3
    <3> QED
      BY <2>1, <3>1, <3>2, Zenon
  <2> QED
    BY <2>2, <2>3
<1>8. Descends(h.events)
  <2> SUFFICES ASSUME NEW j \in 1 .. n + 1, NEW k \in 1 .. n + 1, j < k
               PROVE  newer(h.events[j].id, h.events[k].id)
    BY <1>2, <1>3 DEF Descends
  <2>1. j \in 1 .. n
    BY <1>1
  <2>2. CASE k = n + 1
    BY <1>2, <1>3, <2>1, <2>2
  <2>3. CASE k # n + 1
    <3>1. k \in 1 .. n
      BY <1>1, <2>3
    <3> QED
      BY <1>2, <1>3, <2>1, <3>1 DEF GroupOk, Descends
  <2> QED
    BY <2>2, <2>3
<1>9. \A k \in DOMAIN h.events : FeedEvents[h.events[k].id].issue = h.issue
  <2> SUFFICES ASSUME NEW k \in 1 .. n + 1
               PROVE  FeedEvents[h.events[k].id].issue = g.issue
    BY <1>2, <1>3
  <2>1. CASE k = n + 1
    BY <1>2, <1>3, <2>1
  <2>2. CASE k \in 1 .. n
    BY <1>2, <1>3, <2>2 DEF GroupOk
  <2> QED
    BY <1>1, <2>1, <2>2
<1>10. update_group_event_ids(h) = update_group_event_ids(g) \cup {e.id}
  <2>1. 1 .. n + 1 = (1 .. n) \cup {n + 1}
    BY <1>1
  <2>2. update_group_event_ids(h) = {h.events[k].id : k \in 1 .. n + 1}
    BY <1>2, <1>3 DEF update_group_event_ids
  <2>3. update_group_event_ids(g) = {h.events[k].id : k \in 1 .. n}
    BY <1>2, <1>3 DEF update_group_event_ids
  <2>4. h.events[n + 1].id = e.id
    BY <1>2, <1>3
  <2> QED
    BY <2>1, <2>2, <2>3, <2>4
<1>11. h.events[1] = g.events[1] /\ Len(h.events) > 0
  BY <1>1, <1>2, <1>3
<1>12. h.unread_count = Cardinality(V)
  BY <1>2, <1>6
<1> HIDE DEF V
<1>13. GroupOk(h)
  BY <1>5, <1>7, <1>8, <1>9, <1>11, <1>12 DEF GroupOk, V
<1> QED
  BY <1>2, <1>10, <1>11, <1>13 DEF h

\* A group is looked up by its issue.
LEMMA GroupFound ==
  ASSUME NEW groups \in Seq(Group), NEW issue
  PROVE  LET n == SelectInSeq(groups, LAMBDA g : g.issue = issue)
         IN  \/ n = 0 /\ \A k \in DOMAIN groups : groups[k].issue # issue
             \/ n \in DOMAIN groups /\ n # 0 /\ groups[n].issue = issue
<1> DEFINE n == SelectInSeq(groups, LAMBDA g : g.issue = issue)
           I == {k \in 1 .. Len(groups) : groups[k].issue = issue}
           least == CHOOSE x \in I : \A y \in I : x =< y
<1>1. n = IF I # {} THEN least ELSE 0
  BY DEF SelectInSeq, Min
<1>2. Len(groups) \in Nat /\ DOMAIN groups = 1 .. Len(groups)
  OBVIOUS
<1>3. CASE I = {}
  <2>1. n = 0
    BY <1>1, <1>3
  <2>2. \A k \in DOMAIN groups : groups[k].issue # issue
    BY <1>2, <1>3
  <2> QED
    BY <2>1, <2>2
<1>4. CASE I # {}
  <2>1. I \in SUBSET Nat
    BY <1>2
  <2>2. \E x \in I : \A y \in I : x =< y
    <3> HIDE DEF I
    <3> QED
      BY <1>4, <2>1, Least
  <2>3. least \in I
    <3> HIDE DEF I
    <3> QED
      BY <2>2, Zenon
  <2> HIDE DEF n, least
  <2>4. n \in I
    BY <1>1, <1>4, <2>3
  <2>5. n \in DOMAIN groups /\ n # 0 /\ groups[n].issue = issue
    BY <1>2, <2>4
  <2> QED
    BY <2>5 DEF n
<1> QED
  BY <1>3, <1>4

\* What holds of the groups when the first m events are in them.
Grouped(groups, events, m) ==
    /\ groups \in Seq(Group)
    /\ \A n \in DOMAIN groups : GroupOk(groups[n])
    /\ \A j, k \in DOMAIN groups :
         j < k => /\ groups[j].issue # groups[k].issue
                  /\ newer(groups[j].events[1].id, groups[k].events[1].id)
    /\ UNION {update_group_event_ids(groups[n]) : n \in DOMAIN groups}
         = {events[k].id : k \in 1 .. m}

\* What is in the groups comes before the next event.
LEMMA ComesBefore ==
  ASSUME NEW events \in Seq(Fed), Descends(events), NEW m \in Nat, m < Len(events),
         NEW groups, Grouped(groups, events, m)
  PROVE  \A n \in DOMAIN groups : \A k \in DOMAIN groups[n].events :
            newer(groups[n].events[k].id, events[m + 1].id)
<1> SUFFICES ASSUME NEW n \in DOMAIN groups, NEW k \in DOMAIN groups[n].events
             PROVE  newer(groups[n].events[k].id, events[m + 1].id)
  OBVIOUS
<1>1. groups[n].events[k].id \in update_group_event_ids(groups[n])
  BY DEF update_group_event_ids
<1>2. groups[n].events[k].id \in {events[j].id : j \in 1 .. m}
  BY <1>1, Zenon DEF Grouped
<1>3. PICK j \in 1 .. m : groups[n].events[k].id = events[j].id
  BY <1>2
<1>4. j \in DOMAIN events /\ m + 1 \in DOMAIN events /\ j < m + 1
  OBVIOUS
<1> QED
  BY <1>3, <1>4 DEF Descends

\* One more event keeps the groups in order.
LEMMA GroupsOneMore ==
  ASSUME NEW events \in Seq(Fed), Descends(events), NEW m \in Nat, m < Len(events),
         NEW groups, Grouped(groups, events, m)
  PROVE  Grouped(group_with(groups, events[m + 1]), events, m + 1)
<1> DEFINE e == events[m + 1]
           issue == FeedEvents[e.id].issue
           n == SelectInSeq(groups, LAMBDA g : g.issue = issue)
           ids(G) == {update_group_event_ids(G[k]) : k \in DOMAIN G}
           len == Len(groups)
<1>1. e \in Fed
  OBVIOUS
<1>2. /\ groups \in Seq(Group) /\ len \in Nat /\ DOMAIN groups = 1 .. len
      /\ \A k \in DOMAIN groups : GroupOk(groups[k]) /\ groups[k] \in Group
  BY DEF Grouped
<1>3. \/ n = 0 /\ \A k \in DOMAIN groups : groups[k].issue # issue
      \/ n \in DOMAIN groups /\ n # 0 /\ groups[n].issue = issue
  <2> HIDE DEF issue, n
  <2>1. \/ n = 0 /\ \A k \in DOMAIN groups : groups[k].issue # issue
        \/ n \in DOMAIN groups /\ n # 0 /\ groups[n].issue = issue
    BY <1>2, GroupFound, Zenon DEF n
  <2> QED
    BY <2>1
<1>4. \A k \in DOMAIN groups : \A j \in DOMAIN groups[k].events :
         newer(groups[k].events[j].id, e.id)
  BY ComesBefore
<1>5. \A k \in DOMAIN groups : newer(groups[k].events[1].id, e.id)
  <2> SUFFICES ASSUME NEW k \in DOMAIN groups PROVE newer(groups[k].events[1].id, e.id)
    OBVIOUS
  <2>1. groups[k].events \in Seq(Fed) /\ Len(groups[k].events) > 0
    BY <1>2 DEF GroupOk, Group
  <2>2. 1 \in DOMAIN groups[k].events
    BY <2>1
  <2> QED
    BY <1>4, <2>2
<1>6. {events[k].id : k \in 1 .. m + 1} = {events[k].id : k \in 1 .. m} \cup {e.id}
  <2>1. 1 .. m + 1 = (1 .. m) \cup {m + 1}
    OBVIOUS
  <2> QED
    BY <2>1
<1>7. UNION ids(groups) = {events[k].id : k \in 1 .. m}
  BY DEF Grouped
<1>8. group_with(groups, e) = IF n = 0 THEN Append(groups, alone(e))
                              ELSE [groups EXCEPT ![n] = joined_by(@, e)]
  BY DEF group_with
<1> HIDE DEF e, issue, n
<1>9. CASE n = 0
  <2> DEFINE G == Append(groups, alone(e))
  <2>1. GroupOk(alone(e)) /\ update_group_event_ids(alone(e)) = {e.id}
    BY <1>1, AloneOk
  <2>2. alone(e).issue = issue /\ alone(e).events[1] = e
    BY DEF alone, issue
  <2>3. /\ G \in Seq(Group) /\ DOMAIN G = 1 .. len + 1
        /\ \A k \in 1 .. len : G[k] = groups[k]
        /\ G[len + 1] = alone(e)
    BY <1>2, <2>1 DEF GroupOk
  <2> HIDE DEF G
  <2>4. \A k \in DOMAIN G : k \in 1 .. len \/ k = len + 1
    BY <1>2, <2>3
  <2>5. \A k \in DOMAIN G : GroupOk(G[k])
    BY <1>2, <2>1, <2>3, <2>4
  <2>6. ASSUME NEW j \in DOMAIN G, NEW k \in DOMAIN G, j < k
        PROVE  G[j].issue # G[k].issue /\ newer(G[j].events[1].id, G[k].events[1].id)
    <3>1. j \in 1 .. len
      BY <1>2, <2>3, <2>6
    <3>2. CASE k \in 1 .. len
      BY <1>2, <2>3, <2>6, <3>1, <3>2 DEF Grouped
    <3>3. CASE k = len + 1
      BY <1>2, <1>3, <1>5, <1>9, <2>2, <2>3, <3>1, <3>3
    <3> QED
      BY <2>4, <3>2, <3>3
  <2>7. UNION ids(G) = (UNION ids(groups)) \cup {e.id}
    <3>1. 1 .. len + 1 = (1 .. len) \cup {len + 1}
      BY <1>2
    <3>2. ids(G) = ids(groups) \cup {update_group_event_ids(alone(e))}
      BY <1>2, <2>3, <3>1
    <3>3. ids(G) = ids(groups) \cup {{e.id}}
      BY <2>1, <3>2
    <3> HIDE DEF ids
    <3> QED
      BY <3>3
  <2>8. UNION ids(G) = {events[k].id : k \in 1 .. m + 1}
    <3> HIDE DEF ids
    <3> QED
      BY <1>6, <1>7, <2>7
  <2>9. G \in Seq(Group)
    BY <2>3
  <2>10. Grouped(G, events, m + 1)
    BY <2>5, <2>6, <2>8, <2>9, Zenon DEF Grouped
  <2> QED
    BY <1>8, <1>9, <2>10 DEF G, e
<1>10. CASE n \in DOMAIN groups /\ n # 0 /\ groups[n].issue = issue
  <2> DEFINE h == joined_by(groups[n], e)
             G == [groups EXCEPT ![n] = h]
  <2>1. /\ GroupOk(h) /\ h.issue = groups[n].issue /\ h.events[1] = groups[n].events[1]
        /\ update_group_event_ids(h) = update_group_event_ids(groups[n]) \cup {e.id}
    <3>1. GroupOk(groups[n]) /\ FeedEvents[e.id].issue = groups[n].issue
      BY <1>2, <1>10 DEF issue
    <3>2. \A k \in DOMAIN groups[n].events : newer(groups[n].events[k].id, e.id)
      BY <1>4, <1>10
    <3> QED
      BY <1>1, <3>1, <3>2, JoinedOk
  <2> HIDE DEF h
  <2>2. /\ G \in Seq(Group) /\ DOMAIN G = DOMAIN groups
        /\ \A k \in DOMAIN groups : G[k] = IF k = n THEN h ELSE groups[k]
    BY <1>2, <1>10, <2>1 DEF GroupOk
  <2> HIDE DEF G
  <2>3. \A k \in DOMAIN G : GroupOk(G[k])
    BY <1>2, <2>1, <2>2
  <2>4. \A k \in DOMAIN G : G[k].issue = groups[k].issue /\ G[k].events[1] = groups[k].events[1]
    BY <2>1, <2>2
  <2>5. UNION ids(G) = (UNION ids(groups)) \cup {e.id}
    <3>1. \A k \in DOMAIN groups :
            update_group_event_ids(G[k]) =
              update_group_event_ids(groups[k]) \cup (IF k = n THEN {e.id} ELSE {})
      BY <2>1, <2>2
    <3>2. DOMAIN G = DOMAIN groups /\ n \in DOMAIN groups
      BY <1>10, <2>2
    <3>3. \A x : x \in UNION ids(G) <=> \E k \in DOMAIN groups : x \in update_group_event_ids(G[k])
      BY <3>2
    <3>4. \A x : x \in UNION ids(groups)
                 <=> \E k \in DOMAIN groups : x \in update_group_event_ids(groups[k])
      OBVIOUS
    <3> HIDE DEF ids
    <3>5. ASSUME NEW x PROVE x \in UNION ids(G) <=> x \in (UNION ids(groups)) \/ x = e.id
      BY <3>1, <3>2, <3>3, <3>4
    <3> QED
      BY <3>5
  <2>6. \A j, k \in DOMAIN G :
          j < k => G[j].issue # G[k].issue /\ newer(G[j].events[1].id, G[k].events[1].id)
    BY <2>2, <2>4 DEF Grouped
  <2>7. UNION ids(G) = {events[k].id : k \in 1 .. m + 1}
    <3> HIDE DEF ids
    <3> QED
      BY <1>6, <1>7, <2>5
  <2>8. G \in Seq(Group)
    BY <2>2
  <2>9. Grouped(G, events, m + 1)
    BY <2>3, <2>6, <2>7, <2>8, Zenon DEF Grouped
  <2> QED
    BY <1>8, <1>10, <2>9 DEF G, h, e
<1> QED
  BY <1>3, <1>9, <1>10

\* Without its order, one more event still gives groups.
LEMMA GroupType ==
  ASSUME NEW groups \in Seq(Group), NEW e \in Fed
  PROVE  group_with(groups, e) \in Seq(Group)
<1> DEFINE issue == FeedEvents[e.id].issue
           n == SelectInSeq(groups, LAMBDA g : g.issue = issue)
<1>1. group_with(groups, e) = IF n = 0 THEN Append(groups, alone(e))
                              ELSE [groups EXCEPT ![n] = joined_by(@, e)]
  BY DEF group_with
<1>2. alone(e) \in Group
  BY AloneOk DEF GroupOk
<1>3. ASSUME NEW g \in Group PROVE joined_by(g, e) \in Group
  <2>1. \A x \in Seq(Fed), y \in BOOLEAN, z \in Nat :
          [g EXCEPT !.events = x, !.unread = y, !.unread_count = z] \in Group
    BY DEF Group
  <2>2. /\ g.unread_count + Count(e.unread) \in Nat /\ (g.unread \/ e.unread) \in BOOLEAN
        /\ Append(g.events, e) \in Seq(Fed)
    BY DEF Group, Fed, Count
  <2>3. [g EXCEPT !.events = Append(g.events, e), !.unread = g.unread \/ e.unread,
                  !.unread_count = g.unread_count + Count(e.unread)] \in Group
    BY <2>1, <2>2, Zenon
  <2> QED
    BY <2>3 DEF joined_by
<1> HIDE DEF n
<1>4. CASE n = 0
  BY <1>1, <1>2, <1>4
<1>5. CASE n # 0
  <2> DEFINE h == joined_by(groups[n], e)
  <2>1. CASE n \in DOMAIN groups
    <3>1. h \in Group
      BY <1>3, <2>1
    <3> HIDE DEF h
    <3>2. [groups EXCEPT ![n] = h] \in Seq(Group)
      BY <2>1, <3>1
    <3> QED
      BY <1>1, <1>5, <3>2 DEF h
  <2>2. CASE n \notin DOMAIN groups
    <3> HIDE DEF h
    <3>1. [groups EXCEPT ![n] = h] = groups
      BY <2>2
    <3> QED
      BY <1>1, <1>5, <3>1 DEF h
  <2> QED
    BY <2>1, <2>2
<1> QED
  BY <1>4, <1>5

\* The groups of the updates view.
LEMMA UpdatesGrouped ==
  ASSUME NEW events \in Seq(Fed), Descends(events)
  PROVE  Grouped(update_groups_for_events(events), events, Len(events))
<1> DEFINE S == DOMAIN events
           V == Seq(Group)
           pick == [s \in SUBSET S |-> Max(s)]
           step == [p \in S \X V |-> group_with(p[2], events[p[1]])]
           Iter(h) == [s \in SUBSET S |->
                         IF s = {} THEN <<>>
                         ELSE group_with(h[s \ {Max(s)}], events[Max(s)])]
           c == CHOOSE h : h = Iter(h)
<1>1. update_groups_for_events(events) = c[S]
  BY Zenon DEF update_groups_for_events, FoldLeft, MapThenFoldSet
<1>2. S = 1 .. Len(events) /\ IsFiniteSet(S) /\ Len(events) \in Nat
  BY FS_Interval
<1>3. \A s \in SUBSET S : s # {} => pick[s] = Max(s) /\ pick[s] \in s
  <2> SUFFICES ASSUME NEW s \in SUBSET S, s # {} PROVE Max(s) \in s
    OBVIOUS
  <2>1. Len(events) \in Nat /\ s \in SUBSET (1 .. Len(events))
    BY <1>2
  <2> QED
    BY <2>1, Greatest
<1>4. Picks(pick, S)
  BY <1>3 DEF Picks
<1>5. \A x \in S, l \in V : group_with(l, events[x]) \in V
  <2>1. \A x \in S : events[x] \in Fed
    OBVIOUS
  <2> QED
    BY <2>1, GroupType
<1>6. step \in [S \X V -> V] /\ \A x \in S, l \in V : step[<<x, l>>] = group_with(l, events[x])
  BY <1>5
<1> HIDE DEF step, pick, V, S
<1>7. PICK g \in [SUBSET S -> V] : IsFold(g, S, <<>>, step, pick)
  <2>1. <<>> \in V
    BY DEF V
  <2> QED
    BY <1>2, <1>4, <1>6, <2>1, FoldExists
<1>8. g = Iter(g)
  <2>1. ASSUME NEW s \in SUBSET S
        PROVE  g[s] = IF s = {} THEN <<>> ELSE group_with(g[s \ {Max(s)}], events[Max(s)])
    <3>1. CASE s = {}
      BY <1>7, <3>1 DEF IsFold
    <3>2. CASE s # {}
      <4>1. g[s] = step[<<pick[s], g[s \ {pick[s]}]>>]
        BY <1>7, <3>2 DEF IsFold
      <4>2. pick[s] = Max(s) /\ pick[s] \in S /\ g[s \ {pick[s]}] \in V
        BY <1>3, <3>2
      <4> QED
        BY <1>6, <3>2, <4>1, <4>2
    <3> QED
      BY <3>1, <3>2
  <2> QED
    BY <2>1
<1>9. c = Iter(c)
  <2> HIDE DEF Iter
  <2> QED
    BY <1>8, Zenon
<1> HIDE DEF c
<1>10. \A s \in SUBSET S :
         c[s] = IF s = {} THEN <<>> ELSE group_with(c[s \ {Max(s)}], events[Max(s)])
  BY <1>9, Zenon
<1> DEFINE Bad == {m \in 0 .. Len(events) : ~Grouped(c[1 .. m], events, m)}
<1>11. Bad = {}
  <2> SUFFICES ASSUME Bad # {} PROVE FALSE
    OBVIOUS
  <2>1. Bad \in SUBSET Nat
    BY <1>2
  <2>2. PICK m \in Bad : \A k \in Bad : m <= k
    <3> HIDE DEF Bad
    <3> QED
      BY <2>1, Least
  <2>3. m \in Nat /\ m <= Len(events) /\ ~Grouped(c[1 .. m], events, m)
    BY <1>2, <2>2
  <2>4. CASE m = 0
    <3>1. 1 .. m = {} /\ c[1 .. m] = <<>>
      <4>1. 1 .. m = {}
        BY <2>4
      <4>2. c[{}] = <<>>
        BY <1>10
      <4> QED
        BY <4>1, <4>2
    <3>2. <<>> \in Seq(Group) /\ DOMAIN <<>> = {}
      OBVIOUS
    <3>3. Grouped(<<>>, events, m)
      BY <3>1, <3>2 DEF Grouped
    <3> QED
      BY <2>3, <3>1, <3>3
  <2>5. CASE m # 0
    <3>1. m - 1 \in 0 .. Len(events) /\ m - 1 \notin Bad /\ m - 1 \in Nat /\ m - 1 < Len(events)
      <4>1. m - 1 \in Nat /\ m - 1 < m
        BY <2>3, <2>5
      <4>2. m - 1 \notin Bad
        BY <2>1, <2>2, <4>1
      <4> QED
        BY <1>2, <2>3, <4>1, <4>2
    <3>2. Grouped(c[1 .. m - 1], events, m - 1)
      BY <3>1
    <3>3. Max(1 .. m) = m /\ (1 .. m) \ {m} = 1 .. m - 1 /\ 1 .. m # {}
      <4>1. 1 .. m \in SUBSET (1 .. m) /\ m \in 1 .. m
        BY <2>3, <2>5
      <4>2. Max(1 .. m) \in 1 .. m /\ \A y \in 1 .. m : y <= Max(1 .. m)
        <5>1. 1 .. m # {} /\ m \in Nat
          BY <2>3, <4>1
        <5> QED
          BY <4>1, <5>1, Greatest
      <4>3. Max(1 .. m) = m
        BY <2>3, <4>1, <4>2
      <4>4. (1 .. m) \ {m} = 1 .. m - 1
        BY <2>3
      <4>5. 1 .. m # {}
        BY <4>1
      <4> QED
        BY <4>3, <4>4, <4>5
    <3>4. 1 .. m \in SUBSET S
      BY <1>2, <2>3
    <3>5. c[1 .. m] = group_with(c[1 .. m - 1], events[m])
      <4>1. c[1 .. m] = group_with(c[(1 .. m) \ {Max(1 .. m)}], events[Max(1 .. m)])
        BY <1>10, <3>3, <3>4
      <4> QED
        BY <3>3, <4>1
    <3>6. Grouped(group_with(c[1 .. m - 1], events[(m - 1) + 1]), events, (m - 1) + 1)
      BY <3>1, <3>2, GroupsOneMore
    <3>7. (m - 1) + 1 = m
      BY <2>3
    <3> QED
      BY <2>3, <3>5, <3>6, <3>7
  <2> QED
    BY <2>4, <2>5
<1>12. Grouped(c[1 .. Len(events)], events, Len(events))
  BY <1>2, <1>11
<1> QED
  BY <1>1, <1>2, <1>12

-----------------------------------------------------------------------------
(* The rows of an open card *)

\* Numbers in order: the sort of the rows finds them.
LEMMA NumbersInOrder ==
  ASSUME NEW n \in Nat, NEW places \in SUBSET (1 .. n)
  PROVE  LET list == CHOOSE l \in [1 .. Cardinality(places) -> places] :
                        \A j, k \in DOMAIN l : j < k => l[j] < l[k]
         IN  /\ list \in [1 .. Cardinality(places) -> places]
             /\ \A j, k \in DOMAIN list : j < k => list[j] < list[k]
             /\ {list[k] : k \in DOMAIN list} = places
<1> DEFINE R == {p \in Nat \X Nat : p[1] < p[2]}
           Right(l) == \A j, k \in DOMAIN l : j < k => l[j] < l[k]
           list == CHOOSE l \in [1 .. Cardinality(places) -> places] : Right(l)
<1>1. \A j, k \in places : <<j, k>> \in R <=> j < k
  OBVIOUS
<1>2. places \subseteq Nat
  OBVIOUS
<1>3. IsFiniteSet(places)
  <2>1. IsFiniteSet(1 .. n)
    BY FS_Interval
  <2> QED
    BY <2>1, FS_Subset
<1> HIDE DEF R
<1>4. StrictlyOrders(R, places)
  BY <1>1, <1>2 DEF StrictlyOrders
<1>5. PICK f : Sorts(f, R, places)
  BY <1>3, <1>4, SortExists
<1>6. f \in [1 .. Cardinality(places) -> places] /\ Right(f)
  BY <1>1, <1>5 DEF Sorts
<1>7. list \in [1 .. Cardinality(places) -> places] /\ Right(list)
  <2> HIDE DEF Right
  <2> QED
    BY <1>6, Zenon
<1> HIDE DEF list
<1>8. Sorts(list, R, places)
  BY <1>1, <1>7 DEF Sorts
<1>9. {list[k] : k \in DOMAIN list} = places
  BY <1>3, <1>4, <1>8, SortedOnto
<1> QED
  BY <1>7, <1>9 DEF list

\* The rows stand for every event.
LEMMA RowsCount ==
  ASSUME NEW events \in Seq(Fed)
  PROVE  LET rows == compact_update_rows(events)
         IN  SumFunctionOnSet([k \in DOMAIN rows |-> rows[k].count], DOMAIN rows) = Len(events)
<1> DEFINE L == Len(events)
           generic(n) == FeedEvents[events[n].id].generic
           named == {n \in DOMAIN events : ~generic(n)}
           unnamed == DOMAIN events \ named
           places == {n \in DOMAIN events : n \in named \/ \A m \in unnamed : n <= m}
           list == CHOOSE l \in [1 .. Cardinality(places) -> places] :
                      \A j, k \in DOMAIN l : j < k => l[j] < l[k]
           rows == compact_update_rows(events)
           w == [k \in DOMAIN rows |-> rows[k].count]
           S == 1 .. Cardinality(places)
<1>1. rows = [k \in DOMAIN list |->
                IF list[k] \in named THEN [id |-> events[list[k]].id, count |-> 1]
                ELSE [id |-> None, count |-> Cardinality(unnamed)]]
  BY DEF compact_update_rows
<1>2. DOMAIN events = 1 .. L /\ L \in Nat
  OBVIOUS
<1> HIDE DEF rows, generic
<1>3. /\ named \in SUBSET (1 .. L) /\ unnamed = (1 .. L) \ named
      /\ places \in SUBSET (1 .. L)
  BY <1>2
<1>4. places = {n \in 1 .. L : n \in named \/ \A m \in unnamed : n <= m}
  BY <1>2
<1> HIDE DEF named, unnamed, places
<1>5. /\ list \in [S -> places] /\ DOMAIN list = S
      /\ \A j, k \in S : j < k => list[j] < list[k]
      /\ {list[k] : k \in S} = places
  <2> DEFINE Sorted(l) == /\ l \in [S -> places]
                          /\ \A j, k \in DOMAIN l : j < k => l[j] < l[k]
                          /\ {l[k] : k \in DOMAIN l} = places
  <2>1. Sorted(list)
    BY <1>2, <1>3, NumbersInOrder, Zenon
  <2> HIDE DEF list
  <2> QED
    BY <2>1
<1> HIDE DEF list
<1>6. /\ IsFiniteSet(places) /\ IsFiniteSet(named) /\ IsFiniteSet(unnamed)
      /\ Cardinality(places) \in Nat /\ Cardinality(named) \in Nat /\ Cardinality(unnamed) \in Nat
      /\ IsFiniteSet(1 .. L) /\ Cardinality(1 .. L) = L
  <2>1. IsFiniteSet(1 .. L) /\ Cardinality(1 .. L) = L
    BY <1>2, FS_Interval
  <2>2. IsFiniteSet(places) /\ IsFiniteSet(named) /\ IsFiniteSet(unnamed)
    BY <1>3, <2>1, FS_Subset
  <2> QED
    BY <2>1, <2>2, FS_CardinalityType
<1>7. Cardinality(unnamed) + Cardinality(named) = L
  <2>1. Cardinality((1 .. L) \ named) = Cardinality(1 .. L) - Cardinality((1 .. L) \cap named)
    BY <1>6, FS_Difference
  <2>2. (1 .. L) \cap named = named
    BY <1>3
  <2>3. Cardinality(unnamed) = L - Cardinality(named)
    BY <1>3, <1>6, <2>1, <2>2, Zenon
  <2> HIDE DEF L
  <2> QED
    BY <1>2, <1>6, <2>3
<1>8. /\ DOMAIN w = S /\ DOMAIN rows = S
      /\ \A k \in S : w[k] = IF list[k] \in named THEN 1 ELSE Cardinality(unnamed)
  BY <1>1, <1>5
<1>9. IsFiniteSet(S) /\ Cardinality(S) = Cardinality(places)
  <2> DEFINE c == Cardinality(places)
  <2>1. c \in Nat /\ c - 1 + 1 = c
    BY <1>6
  <2> HIDE DEF c
  <2>2. IsFiniteSet(1 .. c) /\ Cardinality(1 .. c) = IF 1 > c THEN 0 ELSE c - 1 + 1
    BY <2>1, FS_Interval
  <2>3. IsFiniteSet(1 .. c) /\ Cardinality(1 .. c) = c
    BY <2>1, <2>2
  <2> QED
    BY <2>3 DEF c
<1> HIDE DEF w, S
<1>10. CASE unnamed = {}
  <2>1. places = 1 .. L /\ named = 1 .. L
    BY <1>3, <1>4, <1>10
  <2>2. \A k \in S : w[k] = 1
    BY <1>5, <1>8, <2>1
  <2>3. SumFunctionOnSet(w, S) = L
    BY <1>6, <1>9, <2>1, <2>2, SumOfOnes
  <2> QED
    BY <1>8, <2>3 DEF w, rows
<1>11. CASE unnamed # {}
  <2>1. PICK u \in unnamed : \A m \in unnamed : u <= m
    <3>1. unnamed \in SUBSET Nat
      BY <1>3
    <3> QED
      BY <1>11, <3>1, Least
  <2>2. u \in places /\ u \notin named /\ u \in Nat
    BY <1>3, <1>4, <2>1
  <2>3. places = named \cup {u}
    <3>1. \A n \in places \ named : n \in unnamed /\ n <= u /\ u <= n /\ n \in Nat
      BY <1>3, <1>4, <2>1
    <3>2. \A n \in places \ named : n = u
      BY <2>2, <3>1
    <3>3. named \subseteq places
      BY <1>3, <1>4
    <3> QED
      BY <2>2, <3>2, <3>3
  <2>4. PICK i \in S : list[i] = u
    BY <1>5, <2>2
  <2>5. \A k \in S : k # i => list[k] # u
    <3> SUFFICES ASSUME NEW k \in S, k # i, list[k] = u PROVE FALSE
      OBVIOUS
    <3>1. k < i \/ i < k
      BY DEF S
    <3>2. list[k] < list[i] \/ list[i] < list[k]
      BY <1>5, <3>1
    <3> QED
      BY <2>2, <2>4, <3>2
  <2>6. \A k \in S \ {i} : w[k] = 1
    BY <1>5, <1>8, <2>3, <2>5
  <2>7. w[i] = Cardinality(unnamed)
    BY <1>8, <2>2, <2>4
  <2>8. IsFiniteSet(S \ {i}) /\ Cardinality(S \ {i}) = Cardinality(places) - 1
    BY <1>9, <2>4, FS_RemoveElement
  <2>9. SumFunctionOnSet(w, S \ {i}) = Cardinality(places) - 1
    BY <2>6, <2>8, SumOfOnes
  <2>10. SumFunctionOnSet(w, S) = w[i] + SumFunctionOnSet(w, S \ {i})
    <3>1. \A k \in S : w[k] \in Nat
      BY <1>6, <2>6, <2>7
    <3> QED
      BY <1>9, <2>4, <3>1, SumAdds
  <2>11. Cardinality(places) = Cardinality(named) + 1
    BY <1>6, <2>2, <2>3, FS_AddElement
  <2>12. SumFunctionOnSet(w, S) = L
    BY <1>2, <1>6, <1>7, <2>7, <2>9, <2>10, <2>11
  <2> QED
    BY <1>8, <2>12 DEF w, rows
<1> QED
  BY <1>10, <1>11

\* So the groups of the feed account for every update of it.
LEMMA GroupsAccount ==
  ASSUME NEW groups \in Seq(Group), \A n \in DOMAIN groups : GroupOk(groups[n])
  PROVE  \A n \in DOMAIN groups : group_is_accounted(groups[n])
<1> SUFFICES ASSUME NEW n \in DOMAIN groups PROVE group_is_accounted(groups[n])
  OBVIOUS
<1> DEFINE events == groups[n].events
           rows == compact_update_rows(events)
<1>1. GroupOk(groups[n]) /\ events \in Seq(Fed)
  BY DEF GroupOk, Group
<1>2. SumFunctionOnSet([k \in DOMAIN rows |-> rows[k].count], DOMAIN rows) = Len(events)
  BY <1>1, RowsCount
<1> QED
  BY <1>1, <1>2, Zenon DEF group_is_accounted, GroupOk, Descends

-----------------------------------------------------------------------------
(* The updates view *)

Stored == InboxCaches \cup {<<>>}
Marks == [all : BOOLEAN, ids : SUBSET EventIds] \cup {None}
FedIssues == {FeedEvents[e].issue : e \in EventIds}

\* What the view may be.
Inboxes ==
    [live : BOOLEAN, store : Stores, domain : Stored, others : {<<>>, OtherStatuses},
     groups : Seq(Group), fed : Seq(Fed),
     update_filter : {"All", "Unread"}, status_filter : InboxStatuses \cup {None},
     query : InboxQueries \cup {None}, selected : FedIssues \cup {None},
     detail_open : BOOLEAN, mobile : BOOLEAN, marking : Marks,
     unseen : SUBSET EventIds, syncs : Nat]

\* The inductive invariant: the groups are of the feed, the selection is listed
\* unless statuses of other issues were learnt, and what the feed lists by now
\* was shown, or a reading failed.
InboxOk(w) ==
    /\ w \in Inboxes
    /\ Grouped(w.groups, w.fed, Len(w.fed))
    /\ w.selected \in listed(w) \cup {None} \/ w.others # <<>>
    /\ w.detail_open => w.selected # None
    /\ displayed(w) \subseteq ids_of(w.fed) \cup w.unseen

\* Each part of the view may change by itself.
LEMMA InboxSetters ==
  /\ \A w \in Inboxes, x \in FedIssues \cup {None}, y \in BOOLEAN :
        [w EXCEPT !.selected = x, !.detail_open = y] \in Inboxes
  /\ \A w \in Inboxes, y \in BOOLEAN : [w EXCEPT !.detail_open = y] \in Inboxes
  /\ \A w \in Inboxes, y \in BOOLEAN : [w EXCEPT !.mobile = y] \in Inboxes
  /\ \A w \in Inboxes, x \in {"All", "Unread"} : [w EXCEPT !.update_filter = x] \in Inboxes
  /\ \A w \in Inboxes, x \in InboxStatuses \cup {None} :
        [w EXCEPT !.status_filter = x] \in Inboxes
  /\ \A w \in Inboxes, x \in InboxQueries \cup {None} : [w EXCEPT !.query = x] \in Inboxes
  /\ \A w \in Inboxes : [w EXCEPT !.others = OtherStatuses] \in Inboxes
  /\ \A w \in Inboxes, x \in Marks : [w EXCEPT !.marking = x] \in Inboxes
  /\ \A w \in Inboxes, x \in Seq(Group) : [w EXCEPT !.groups = x] \in Inboxes
  /\ \A w \in Inboxes, x \in SUBSET EventIds : [w EXCEPT !.unseen = x] \in Inboxes
  /\ \A w \in Inboxes, x \in Stores : [w EXCEPT !.store = x] \in Inboxes
  /\ \A w \in Inboxes, x \in Stores, y \in Nat :
        [w EXCEPT !.store = x, !.syncs = y] \in Inboxes
  /\ \A w \in Inboxes, x \in Stored, y \in Seq(Fed), z \in Seq(Group) :
        [w EXCEPT !.domain = x, !.fed = y, !.groups = z] \in Inboxes
<1>1. \A w \in Inboxes, x \in FedIssues \cup {None}, y \in BOOLEAN :
         [w EXCEPT !.selected = x, !.detail_open = y] \in Inboxes
  BY DEF Inboxes
<1>2. \A w \in Inboxes, y \in BOOLEAN : [w EXCEPT !.detail_open = y] \in Inboxes
  BY DEF Inboxes
<1>3. \A w \in Inboxes, y \in BOOLEAN : [w EXCEPT !.mobile = y] \in Inboxes
  BY DEF Inboxes
<1>4. \A w \in Inboxes, x \in {"All", "Unread"} : [w EXCEPT !.update_filter = x] \in Inboxes
  BY DEF Inboxes
<1>5. \A w \in Inboxes, x \in InboxStatuses \cup {None} :
         [w EXCEPT !.status_filter = x] \in Inboxes
  BY DEF Inboxes
<1>6. \A w \in Inboxes, x \in InboxQueries \cup {None} : [w EXCEPT !.query = x] \in Inboxes
  BY DEF Inboxes
<1>7. \A w \in Inboxes : [w EXCEPT !.others = OtherStatuses] \in Inboxes
  BY DEF Inboxes
<1>8. \A w \in Inboxes, x \in Marks : [w EXCEPT !.marking = x] \in Inboxes
  BY DEF Inboxes
<1>9. \A w \in Inboxes, x \in Seq(Group) : [w EXCEPT !.groups = x] \in Inboxes
  BY DEF Inboxes
<1>10. \A w \in Inboxes, x \in SUBSET EventIds : [w EXCEPT !.unseen = x] \in Inboxes
  BY DEF Inboxes
<1>11. \A w \in Inboxes, x \in Stores : [w EXCEPT !.store = x] \in Inboxes
  BY DEF Inboxes
<1>12. \A w \in Inboxes, x \in Stores, y \in Nat :
         [w EXCEPT !.store = x, !.syncs = y] \in Inboxes
  BY DEF Inboxes
<1>13. \A w \in Inboxes, x \in Stored, y \in Seq(Fed), z \in Seq(Group) :
         [w EXCEPT !.domain = x, !.fed = y, !.groups = z] \in Inboxes
  BY DEF Inboxes
<1> QED
  BY <1>1, <1>2, <1>3, <1>4, <1>5, <1>6, <1>7, <1>8, <1>9, <1>10, <1>11, <1>12, <1>13, Zenon

\* What two views list is the same when the parts it depends on are.
SameList(v, w) ==
    /\ v.groups = w.groups /\ v.fed = w.fed /\ v.domain = w.domain /\ v.others = w.others
    /\ v.update_filter = w.update_filter /\ v.status_filter = w.status_filter
    /\ v.query = w.query

LEMMA ListedSame ==
  ASSUME NEW v, NEW w, SameList(v, w)
  PROVE  visible_inbox_groups(v) = visible_inbox_groups(w) /\ listed(v) = listed(w)
<1>1. \A i : status_of(v, i) = status_of(w, i)
  BY Zenon DEF SameList, status_of
<1>2. v.groups = w.groups /\ v.update_filter = w.update_filter
      /\ v.status_filter = w.status_filter /\ v.query = w.query
  BY DEF SameList
<1>3. visible_inbox_groups(v) = visible_inbox_groups(w)
  BY <1>1, <1>2 DEF visible_inbox_groups
<1> QED
  BY <1>2, <1>3, Zenon DEF listed

\* A view that lists the same, and feeds no more than was shown.
LEMMA ListKept ==
  ASSUME NEW w, InboxOk(w), NEW v \in Inboxes, SameList(v, w),
         v.selected \in listed(w) \cup {None} \/ v.selected = w.selected,
         v.detail_open => v.selected # None,
         fed_events(v.store) \subseteq ids_of(w.fed) \cup v.unseen
  PROVE  InboxOk(v)
<1>1. listed(v) = listed(w)
  BY ListedSame
<1>2. v.groups = w.groups /\ v.fed = w.fed /\ v.others = w.others
  BY DEF SameList
<1>3. w.selected \in listed(w) \cup {None} \/ w.others # <<>>
  BY DEF InboxOk
<1>4. v.selected \in listed(v) \cup {None} \/ v.others # <<>>
  BY <1>1, <1>2, <1>3
<1>5. Grouped(v.groups, v.fed, Len(v.fed))
  BY <1>2 DEF InboxOk
<1>6. displayed(v) \subseteq ids_of(v.fed) \cup v.unseen
  BY <1>2 DEF displayed
<1> QED
  BY <1>4, <1>5, <1>6 DEF InboxOk

\* A selection that is not listed is dropped, and nothing else.
LEMMA Cleared ==
  ASSUME NEW w \in Inboxes
  PROVE  LET v == clear_hidden_update_selection(w)
         IN  /\ v \in Inboxes /\ SameList(v, w)
             /\ v.store = w.store /\ v.unseen = w.unseen /\ v.live = w.live
             /\ v.selected \in listed(v) \cup {None}
             /\ (w.detail_open => w.selected # None) => (v.detail_open => v.selected # None)
<1> DEFINE v == clear_hidden_update_selection(w)
           u == [w EXCEPT !.selected = None, !.detail_open = FALSE]
<1>1. CASE w.selected \in listed(w) \cup {None}
  <2>1. v = w
    BY <1>1 DEF clear_hidden_update_selection
  <2> QED
    BY <1>1, <2>1 DEF SameList
<1>2. CASE w.selected \notin listed(w) \cup {None}
  <2>1. v = u
    BY <1>2 DEF clear_hidden_update_selection
  <2>2. u \in Inboxes
    BY InboxSetters, Zenon
  <2>3. SameList(u, w) /\ u.store = w.store /\ u.unseen = w.unseen /\ u.live = w.live
        /\ u.selected = None /\ u.detail_open = FALSE
    BY DEF SameList, Inboxes
  <2> HIDE DEF u
  <2> QED
    BY <2>1, <2>2, <2>3
<1> QED
  BY <1>1, <1>2

\* So a view that is right but for its selection is, when that is cleared.
LEMMA ClearedOk ==
  ASSUME NEW w \in Inboxes, Grouped(w.groups, w.fed, Len(w.fed)),
         w.detail_open => w.selected # None,
         displayed(w) \subseteq ids_of(w.fed) \cup w.unseen
  PROVE  InboxOk(clear_hidden_update_selection(w))
<1> DEFINE v == clear_hidden_update_selection(w)
<1>1. /\ v \in Inboxes /\ SameList(v, w) /\ v.store = w.store /\ v.unseen = w.unseen
      /\ v.selected \in listed(v) \cup {None}
      /\ v.detail_open => v.selected # None
  BY Cleared
<1> HIDE DEF v
<1>2. Grouped(v.groups, v.fed, Len(v.fed))
  BY <1>1 DEF SameList
<1>3. displayed(v) \subseteq ids_of(v.fed) \cup v.unseen
  BY <1>1 DEF SameList, displayed
<1>4. InboxOk(v)
  BY <1>1, <1>2, <1>3 DEF InboxOk
<1> QED
  BY <1>4 DEF v

\* What is read of the store is what the view has of it.
LEMMA Applied ==
  ASSUME NEW w \in Inboxes, w.detail_open => w.selected # None
  PROVE  LET v == apply_cached(w, w.store)
         IN  /\ InboxOk(v) /\ v.store = w.store /\ v.live = w.live
             /\ InboxOk([v EXCEPT !.unseen = {}])
<1> DEFINE feed == list_feed(w.store)
           groups == update_groups_for_events(feed)
           u == [w EXCEPT !.domain = w.store.cache, !.fed = feed, !.groups = groups]
           v == apply_cached(w, w.store)
           x == [v EXCEPT !.unseen = {}]
<1>1. w.store \in Stores /\ w.store.cache \in Stored
  BY DEF Inboxes, Stores, Stored
<1>2. feed \in Seq(Fed) /\ Descends(feed) /\ ids_of(feed) = fed_events(w.store)
  BY <1>1, FeedListed
<1>3. Grouped(groups, feed, Len(feed)) /\ groups \in Seq(Group)
  <2> HIDE DEF feed
  <2>1. Grouped(groups, feed, Len(feed))
    BY <1>2, UpdatesGrouped
  <2> QED
    BY <2>1 DEF Grouped
<1>4. v = clear_hidden_update_selection(u)
  BY Zenon DEF apply_cached
<1> HIDE DEF feed, groups
<1>5. u \in Inboxes
  BY <1>1, <1>2, <1>3, InboxSetters, Zenon
<1>6. /\ u.fed = feed /\ u.groups = groups /\ u.store = w.store /\ u.live = w.live
      /\ u.selected = w.selected /\ u.detail_open = w.detail_open
  BY DEF Inboxes
<1> HIDE DEF u, v
<1>7. Grouped(u.groups, u.fed, Len(u.fed)) /\ fed_events(u.store) = ids_of(u.fed)
  BY <1>2, <1>3, <1>6
<1>8. InboxOk(v)
  BY <1>4, <1>5, <1>6, <1>7, ClearedOk DEF displayed
<1>9. v \in Inboxes /\ SameList(v, u) /\ v.store = w.store /\ v.live = w.live
  BY <1>4, <1>5, <1>6, Cleared
<1>10. x \in Inboxes
  <2>1. {} \in SUBSET EventIds
    OBVIOUS
  <2> QED
    BY <1>9, <2>1, InboxSetters, Zenon
<1>11. /\ SameList(x, v) /\ x.selected = v.selected /\ x.detail_open = v.detail_open
       /\ x.store = v.store /\ x.unseen = {}
  BY <1>9 DEF SameList, Inboxes
<1> HIDE DEF x
<1>12. fed_events(x.store) \subseteq ids_of(v.fed) \cup x.unseen
  BY <1>6, <1>7, <1>9, <1>11 DEF SameList
<1>13. InboxOk(x)
  <2>1. x.detail_open => x.selected # None
    BY <1>8, <1>11 DEF InboxOk
  <2> QED
    BY <1>8, <1>10, <1>11, <1>12, <2>1, ListKept
<1> QED
  BY <1>8, <1>9, <1>13 DEF v, x

-----------------------------------------------------------------------------
(* Marking as read *)

\* A group that was read has its events still.
LEMMA ReadOk ==
  ASSUME NEW g, GroupOk(g)
  PROVE  LET h == read_in_place(g)
         IN  /\ GroupOk(h) /\ h.issue = g.issue /\ h.events[1].id = g.events[1].id
             /\ update_group_event_ids(h) = update_group_event_ids(g)
<1> DEFINE list == [n \in DOMAIN g.events |-> [g.events[n] EXCEPT !.unread = FALSE]]
           h == read_in_place(g)
           L == Len(g.events)
<1>1. /\ g \in Group /\ g.events \in Seq(Fed) /\ L \in Nat /\ L > 0
      /\ DOMAIN g.events = 1 .. L
  BY DEF GroupOk, Group
<1>2. \A n \in 1 .. L : /\ [g.events[n] EXCEPT !.unread = FALSE] \in Fed
                        /\ [g.events[n] EXCEPT !.unread = FALSE].id = g.events[n].id
                        /\ [g.events[n] EXCEPT !.unread = FALSE].unread = FALSE
  <2>1. \A e \in Fed : /\ [e EXCEPT !.unread = FALSE] \in Fed
                       /\ [e EXCEPT !.unread = FALSE].id = e.id
                       /\ [e EXCEPT !.unread = FALSE].unread = FALSE
    BY DEF Fed
  <2>2. \A n \in 1 .. L : g.events[n] \in Fed
    BY <1>1
  <2> QED
    BY <2>1, <2>2
<1>3. DOMAIN list = 1 .. L /\ \A n \in 1 .. L : list[n] = [g.events[n] EXCEPT !.unread = FALSE]
  BY <1>1
<1>4. list \in Seq(Fed) /\ Len(list) = L
  <2>1. list \in [1 .. L -> Fed]
    BY <1>1, <1>2
  <2> HIDE DEF list
  <2>2. list \in Seq(Fed)
    BY <1>1, <2>1
  <2>3. Len(list) = L
    BY <1>1, <1>3, <2>2
  <2> QED
    BY <2>2, <2>3
<1>5. \A n \in 1 .. L : list[n].id = g.events[n].id /\ list[n].unread = FALSE
  BY <1>2, <1>3
<1> HIDE DEF list
<1>6. /\ h \in Group /\ h.events = list /\ h.issue = g.issue
      /\ h.unread = FALSE /\ h.unread_count = 0
  <2>1. h = [g EXCEPT !.unread = FALSE, !.unread_count = 0, !.events = list]
    BY <1>1 DEF read_in_place, list, Group
  <2> DEFINE r == [g EXCEPT !.unread = FALSE, !.unread_count = 0, !.events = list]
  <2>2. r \in Group
    <3>1. \A x \in Seq(Fed) :
             [g EXCEPT !.unread = FALSE, !.unread_count = 0, !.events = x] \in Group
      BY <1>1 DEF Group
    <3> QED
      BY <1>4, <3>1, Zenon
  <2>3. /\ r.events = list /\ r.issue = g.issue
        /\ r.unread = FALSE /\ r.unread_count = 0
    BY <1>1 DEF Group
  <2> HIDE DEF h, r
  <2>5. h = r
    BY <2>1 DEF r
  <2> QED
    BY <2>2, <2>3, <2>5
<1> HIDE DEF h
<1>7. {k \in DOMAIN h.events : h.events[k].unread} = {}
  BY <1>3, <1>5, <1>6
<1>8. \A k \in DOMAIN h.events : FeedEvents[h.events[k].id].issue = h.issue
  BY <1>1, <1>3, <1>5, <1>6 DEF GroupOk
<1>9. Descends(h.events)
  BY <1>1, <1>3, <1>5, <1>6 DEF GroupOk, Descends
<1>10. h.unread_count = Cardinality({k \in DOMAIN h.events : h.events[k].unread})
  BY <1>6, <1>7, FS_EmptySet
<1>11. h.unread = (h.unread_count > 0)
  <2>1. (0 > 0) = FALSE
    OBVIOUS
  <2> QED
    BY <1>6, <2>1, Zenon
<1>12. GroupOk(h)
  BY <1>1, <1>4, <1>6, <1>8, <1>9, <1>10, <1>11 DEF GroupOk
<1>13. update_group_event_ids(h) = update_group_event_ids(g)
  BY <1>1, <1>3, <1>5, <1>6 DEF update_group_event_ids
<1>14. h.events[1].id = g.events[1].id
  BY <1>1, <1>5, <1>6
<1> QED
  BY <1>6, <1>12, <1>13, <1>14 DEF h

\* Reading some of the groups leaves them the groups of the feed.
LEMMA GroupsRead ==
  ASSUME NEW groups, NEW events, NEW m, Grouped(groups, events, m),
         NEW G, DOMAIN G = DOMAIN groups, G = [k \in DOMAIN G |-> G[k]],
         \A k \in DOMAIN G : G[k] = groups[k] \/ G[k] = read_in_place(groups[k])
  PROVE  Grouped(G, events, m) /\ G \in Seq(Group)
<1>1. \A k \in DOMAIN G : /\ GroupOk(G[k]) /\ G[k].issue = groups[k].issue
                          /\ G[k].events[1].id = groups[k].events[1].id
                          /\ update_group_event_ids(G[k]) = update_group_event_ids(groups[k])
  <2> SUFFICES ASSUME NEW k \in DOMAIN G
               PROVE  /\ GroupOk(G[k]) /\ G[k].issue = groups[k].issue
                      /\ G[k].events[1].id = groups[k].events[1].id
                      /\ update_group_event_ids(G[k]) = update_group_event_ids(groups[k])
    OBVIOUS
  <2>1. GroupOk(groups[k])
    BY DEF Grouped
  <2> QED
    BY <2>1, ReadOk
<1>2. groups \in Seq(Group) /\ Len(groups) \in Nat /\ DOMAIN G = 1 .. Len(groups)
  BY DEF Grouped
<1>3. G \in Seq(Group)
  <2>1. \A k \in DOMAIN G : G[k] \in Group
    BY <1>1 DEF GroupOk
  <2>2. G \in [1 .. Len(groups) -> Group]
    BY <1>2, <2>1
  <2> QED
    BY <1>2, <2>2
<1>4. {update_group_event_ids(G[k]) : k \in DOMAIN G}
        = {update_group_event_ids(groups[k]) : k \in DOMAIN groups}
  BY <1>1
<1>5. \A j, k \in DOMAIN G :
         j < k => G[j].issue # G[k].issue /\ newer(G[j].events[1].id, G[k].events[1].id)
  BY <1>1 DEF Grouped
<1>6. UNION {update_group_event_ids(G[k]) : k \in DOMAIN G} = {events[k].id : k \in 1 .. m}
  BY <1>4 DEF Grouped
<1> QED
  BY <1>1, <1>3, <1>5, <1>6, Zenon DEF Grouped

-----------------------------------------------------------------------------
(* What the feed lists as the store changes *)

\* It does not depend on what was read.
LEMMA FedSame ==
  ASSUME NEW s, NEW t, s.events = t.events, s.cache = t.cache
  PROVE  fed_events(s) = fed_events(t)
BY DEF fed_events

\* An event of another view can only push one out.
LEMMA FedShrinks ==
  ASSUME NEW s \in Stores, NEW t, NEW e, ~FeedEvents[e].ours,
         t.events = s.events \cup {e}, t.cache = s.cache, t.events \in SUBSET EventIds
  PROVE  fed_events(t) \subseteq fed_events(s)
<1> SUFFICES ASSUME NEW x \in fed_events(t) PROVE x \in fed_events(s)
  OBVIOUS
<1> DEFINE A == {f \in s.events : newer(f, x)}
           B == {f \in t.events : newer(f, x)}
<1>1. /\ x \in t.events /\ Cardinality(B) < FeedLimit
      /\ FeedEvents[x].ours /\ FeedEvents[x].issue \in DOMAIN s.cache
  BY DEF fed_events
<1>2. x \in s.events
  BY <1>1
<1>3. A \subseteq B /\ B \in SUBSET EventIds
  OBVIOUS
<1>4. IsFiniteSet(B)
  <2> HIDE DEF B
  <2> QED
    BY <1>3, InboxAssumption, FS_Subset
<1>5. Cardinality(A) <= Cardinality(B) /\ IsFiniteSet(A)
  <2> HIDE DEF A, B
  <2> QED
    BY <1>3, <1>4, FS_Subset
<1>6. Cardinality(A) \in Nat /\ Cardinality(B) \in Nat
  <2> HIDE DEF A, B
  <2> QED
    BY <1>4, <1>5, FS_CardinalityType
<1>7. Cardinality(A) < FeedLimit
  <2> HIDE DEF A, B
  <2> QED
    BY <1>1, <1>5, <1>6, InboxAssumption
<1> QED
  BY <1>1, <1>2, <1>7 DEF fed_events

-----------------------------------------------------------------------------
(* The steps of the view *)

LEMMA InboxStarts ==
  ASSUME InboxInit
  PROVE  InboxOk(inbox)
<1> DEFINE stored(live, cache) ==
             [events |-> IF live THEN FirstEvents ELSE EventIds,
              unread |-> IF live THEN FirstEvents ELSE EventIds, cache |-> cache]
           empty(live, cache) ==
             [live |-> live, store |-> stored(live, cache), domain |-> <<>>,
              others |-> <<>>, groups |-> <<>>, fed |-> <<>>,
              update_filter |-> "All", status_filter |-> None,
              query |-> None, selected |-> None, detail_open |-> FALSE,
              mobile |-> FALSE, marking |-> None, unseen |-> {}, syncs |-> 0]
           shown(live, cache) == apply_cached(empty(live, cache), stored(live, cache))
<1>1. PICK live \in BOOLEAN, cache \in InboxCaches :
         inbox = IF live THEN shown(live, cache)
                 ELSE [shown(live, cache) EXCEPT
                         !.selected = IF shown(live, cache).groups = <<>> THEN None
                                      ELSE shown(live, cache).groups[1].issue]
  BY Zenon DEF InboxInit
<1> DEFINE s == stored(live, cache)
           w == empty(live, cache)
           v == shown(live, cache)
<1>2. s \in Stores
  BY InboxAssumption DEF Stores
<1>3. w \in Inboxes
  <2>1. <<>> \in Seq(Group) /\ <<>> \in Seq(Fed)
    OBVIOUS
  <2> HIDE DEF s
  <2>2. [live |-> live, store |-> s, domain |-> <<>>,
         others |-> <<>>, groups |-> <<>>, fed |-> <<>>,
         update_filter |-> "All", status_filter |-> None,
         query |-> None, selected |-> None, detail_open |-> FALSE,
         mobile |-> FALSE, marking |-> None, unseen |-> {}, syncs |-> 0] \in Inboxes
    BY <1>2, <2>1 DEF Inboxes, Stored, Marks
  <2> QED
    BY <2>2 DEF s
<1>4. w.store = s /\ w.detail_open = FALSE /\ w.selected = None /\ w.others = <<>>
      /\ w.update_filter = "All" /\ w.status_filter = None /\ w.query = None
  OBVIOUS
<1>5. v = apply_cached(w, s)
  OBVIOUS
<1>6. inbox = IF live THEN v
              ELSE [v EXCEPT !.selected = IF v.groups = <<>> THEN None ELSE v.groups[1].issue]
  BY <1>1
<1> HIDE DEF stored, empty, shown, s, w, v
<1>7. InboxOk(v)
  BY <1>3, <1>4, <1>5, Applied
<1>8. CASE live
  BY <1>6, <1>7, <1>8
<1>9. CASE ~live
  <2> DEFINE x == IF v.groups = <<>> THEN None ELSE v.groups[1].issue
             u == [v EXCEPT !.selected = x]
  <2>1. inbox = u
    BY <1>6, <1>9
  <2>2. /\ v.others = <<>> /\ v.update_filter = "All" /\ v.status_filter = None
        /\ v.query = None /\ v.detail_open = FALSE
    <3> DEFINE feed == list_feed(s)
               groups == update_groups_for_events(feed)
               y == [w EXCEPT !.domain = s.cache, !.fed = feed, !.groups = groups]
    <3>1. v = clear_hidden_update_selection(y)
      BY <1>5, Zenon DEF apply_cached
    <3> HIDE DEF feed, groups
    <3>2. /\ y.others = w.others /\ y.update_filter = w.update_filter /\ y.selected = w.selected
          /\ y.status_filter = w.status_filter /\ y.query = w.query
          /\ y.detail_open = w.detail_open
      BY <1>3 DEF Inboxes
    <3> HIDE DEF y
    <3>3. v = y
      BY <1>4, <3>1, <3>2 DEF clear_hidden_update_selection
    <3> QED
      BY <1>4, <3>2, <3>3
  <2>3. v \in Inboxes /\ v.groups \in Seq(Group)
    BY <1>7 DEF InboxOk, Inboxes
  <2>4. x \in FedIssues \cup {None} /\ x \in listed(v) \cup {None}
    <3>1. CASE v.groups = <<>>
      BY <3>1
    <3>2. CASE v.groups # <<>>
      <4>1. 1 \in DOMAIN v.groups /\ v.groups[1] \in Group /\ x = v.groups[1].issue
        BY <2>3, <3>2
      <4>2. x \in FedIssues
        BY <4>1 DEF Group, FedIssues
      <4>3. 1 \in visible_inbox_groups(v)
        BY <2>2, <4>1 DEF visible_inbox_groups, query_matches
      <4> QED
        BY <4>1, <4>2, <4>3 DEF listed
    <3> QED
      BY <3>1, <3>2
  <2> HIDE DEF x
  <2>5. u \in Inboxes
    <3>1. \A a \in Inboxes, b \in FedIssues \cup {None} : [a EXCEPT !.selected = b] \in Inboxes
      BY DEF Inboxes
    <3> QED
      BY <2>3, <2>4, <3>1, Zenon
  <2>6. /\ SameList(u, v) /\ u.selected = x /\ u.detail_open = v.detail_open
        /\ u.store = v.store /\ u.unseen = v.unseen
    BY <2>3 DEF SameList, Inboxes
  <2> HIDE DEF u
  <2>7. fed_events(u.store) \subseteq ids_of(v.fed) \cup u.unseen
    BY <1>7, <2>6 DEF InboxOk, displayed
  <2>8. InboxOk(u)
    BY <1>7, <2>2, <2>4, <2>5, <2>6, <2>7, ListKept
  <2> QED
    BY <2>1, <2>8
<1> QED
  BY <1>8, <1>9

\* What marks and synchronizations leave alone: a view whose list stays.
LEMMA StoreOnly ==
  ASSUME NEW w, InboxOk(w), NEW v \in Inboxes, SameList(v, w),
         v.selected = w.selected, v.detail_open = w.detail_open,
         fed_events(v.store) \subseteq ids_of(w.fed) \cup v.unseen
  PROVE  InboxOk(v)
BY ListKept DEF InboxOk

\* Selecting an update, closing the pane, and another width of the window.
LEMMA SelectionSteps ==
  ASSUME InboxOk(inbox), SelectUpdateGroup \/ CloseMobileUpdateDetail \/ ResizeInbox
  PROVE  InboxOk(inbox') /\ inbox'.store = inbox.store
<1> DEFINE w == inbox
           v == inbox'
<1>1. w \in Inboxes /\ (w.detail_open => w.selected # None) /\ w.mobile \in BOOLEAN
  BY DEF InboxOk, Inboxes
<1>2. fed_events(w.store) \subseteq ids_of(w.fed) \cup w.unseen
  BY DEF InboxOk, displayed
<1>3. CASE SelectUpdateGroup
  <2>1. PICK n \in visible_inbox_groups(w) :
           v = [w EXCEPT !.selected = w.groups[n].issue, !.detail_open = w.mobile]
    BY <1>3, Zenon DEF SelectUpdateGroup
  <2> DEFINE x == w.groups[n].issue
  <2>2. x \in listed(w)
    BY <2>1 DEF listed
  <2>3. x \in FedIssues /\ x # None
    <3>1. n \in DOMAIN w.groups /\ w.groups \in Seq(Group)
      BY <1>1, <2>1 DEF Inboxes, visible_inbox_groups
    <3>2. w.groups[n] \in Group
      BY <3>1
    <3> QED
      BY <3>2, InboxAssumption DEF Group, FedIssues
  <2> HIDE DEF x
  <2>4. v \in Inboxes
    BY <1>1, <2>1, <2>3, InboxSetters, Zenon DEF x
  <2>5. /\ SameList(v, w) /\ v.selected = x /\ v.store = w.store /\ v.unseen = w.unseen
    BY <1>1, <2>1 DEF SameList, Inboxes, x
  <2> QED
    BY <1>2, <2>2, <2>3, <2>4, <2>5, ListKept
<1>4. CASE CloseMobileUpdateDetail
  <2>1. v = [w EXCEPT !.detail_open = FALSE]
    BY <1>4 DEF CloseMobileUpdateDetail
  <2>2. v \in Inboxes
    BY <1>1, <2>1, InboxSetters, Zenon
  <2>3. /\ SameList(v, w) /\ v.selected = w.selected /\ v.detail_open = FALSE
        /\ v.store = w.store /\ v.unseen = w.unseen
    BY <1>1, <2>1 DEF SameList, Inboxes
  <2> QED
    BY <1>2, <2>2, <2>3, ListKept
<1>5. CASE ResizeInbox
  <2>1. v = [w EXCEPT !.mobile = ~w.mobile]
    BY <1>5 DEF ResizeInbox
  <2>2. v \in Inboxes
    <3>1. (~w.mobile) \in BOOLEAN
      OBVIOUS
    <3> QED
      BY <1>1, <2>1, <3>1, InboxSetters, Zenon
  <2>3. /\ SameList(v, w) /\ v.selected = w.selected /\ v.detail_open = w.detail_open
        /\ v.store = w.store /\ v.unseen = w.unseen
    BY <1>1, <2>1 DEF SameList, Inboxes
  <2> QED
    BY <1>1, <1>2, <2>2, <2>3, StoreOnly
<1> QED
  BY <1>3, <1>4, <1>5

\* A filter, after which the selection is cleared.
LEMMA FilterSteps ==
  ASSUME InboxOk(inbox), SetUpdateFilter \/ SetInboxStatus \/ TypeInboxQuery
  PROVE  InboxOk(inbox') /\ inbox'.store = inbox.store
<1> DEFINE w == inbox
<1>1. w \in Inboxes /\ (w.detail_open => w.selected # None)
  BY DEF InboxOk
<1>2. PICK v : /\ inbox' = clear_hidden_update_selection(v)
               /\ \/ \E x \in {"All", "Unread"} : v = [w EXCEPT !.update_filter = x]
                  \/ \E x \in InboxStatuses \cup {None} : v = [w EXCEPT !.status_filter = x]
                  \/ \E x \in InboxQueries \cup {None} : v = [w EXCEPT !.query = x]
  <2>1. CASE SetUpdateFilter
    BY <2>1, Zenon DEF SetUpdateFilter
  <2>2. CASE SetInboxStatus
    BY <2>2, Zenon DEF SetInboxStatus
  <2>3. CASE TypeInboxQuery
    BY <2>3, Zenon DEF TypeInboxQuery
  <2> QED
    BY <2>1, <2>2, <2>3
<1>3. v \in Inboxes
  <2>1. CASE \E x \in {"All", "Unread"} : v = [w EXCEPT !.update_filter = x]
    BY <1>1, <2>1 DEF Inboxes
  <2>2. CASE \E x \in InboxStatuses \cup {None} : v = [w EXCEPT !.status_filter = x]
    BY <1>1, <2>2 DEF Inboxes
  <2>3. CASE \E x \in InboxQueries \cup {None} : v = [w EXCEPT !.query = x]
    BY <1>1, <2>3 DEF Inboxes
  <2> QED
    BY <1>2, <2>1, <2>2, <2>3
<1>4. /\ v.groups = w.groups /\ v.fed = w.fed /\ v.selected = w.selected
      /\ v.detail_open = w.detail_open /\ v.store = w.store /\ v.unseen = w.unseen
  <2>1. CASE \E x \in {"All", "Unread"} : v = [w EXCEPT !.update_filter = x]
    BY <1>1, <2>1 DEF Inboxes
  <2>2. CASE \E x \in InboxStatuses \cup {None} : v = [w EXCEPT !.status_filter = x]
    BY <1>1, <2>2 DEF Inboxes
  <2>3. CASE \E x \in InboxQueries \cup {None} : v = [w EXCEPT !.query = x]
    BY <1>1, <2>3 DEF Inboxes
  <2> QED
    BY <1>2, <2>1, <2>2, <2>3
<1>5. Grouped(v.groups, v.fed, Len(v.fed)) /\ displayed(v) \subseteq ids_of(v.fed) \cup v.unseen
  BY <1>4 DEF InboxOk, displayed
<1>6. InboxOk(inbox')
  BY <1>1, <1>2, <1>3, <1>4, <1>5, ClearedOk
<1>7. inbox'.store = v.store
  BY <1>2, <1>3, Cleared
<1> QED
  BY <1>4, <1>6, <1>7

\* Statuses of other issues, learnt once.
LEMMA LearnStep ==
  ASSUME InboxOk(inbox), LearnStatuses
  PROVE  InboxOk(inbox') /\ inbox'.store = inbox.store
<1> DEFINE w == inbox
           v == inbox'
<1>1. /\ w \in Inboxes /\ w.others \in {<<>>, OtherStatuses}
      /\ (w.detail_open => w.selected # None)
  BY DEF InboxOk, Inboxes
<1>2. v = [w EXCEPT !.others = OtherStatuses]
  BY DEF LearnStatuses
<1>3. v \in Inboxes
  BY <1>1, <1>2, InboxSetters, Zenon
<1>4. /\ v.groups = w.groups /\ v.fed = w.fed /\ v.domain = w.domain
      /\ v.update_filter = w.update_filter /\ v.status_filter = w.status_filter
      /\ v.query = w.query /\ v.others = OtherStatuses /\ v.selected = w.selected
      /\ v.detail_open = w.detail_open /\ v.store = w.store /\ v.unseen = w.unseen
  BY <1>1, <1>2 DEF Inboxes
<1>5. v.selected \in listed(v) \cup {None} \/ v.others # <<>>
  <2>1. CASE v.others = w.others
    <3>1. listed(v) = listed(w)
      BY <1>4, <2>1, ListedSame DEF SameList
    <3> QED
      BY <1>4, <2>1, <3>1 DEF InboxOk
  <2>2. CASE v.others # w.others
    BY <1>1, <1>4, <2>2
  <2> QED
    BY <2>1, <2>2
<1>6. Grouped(v.groups, v.fed, Len(v.fed)) /\ displayed(v) \subseteq ids_of(v.fed) \cup v.unseen
  BY <1>4 DEF InboxOk, displayed
<1> QED
  BY <1>1, <1>3, <1>4, <1>5, <1>6 DEF InboxOk

\* Without a workspace the groups are read in place.
LEMMA ReadInPlace ==
  ASSUME NEW w, InboxOk(w), NEW G, DOMAIN G = DOMAIN w.groups, G = [k \in DOMAIN G |-> G[k]],
         \A k \in DOMAIN G : G[k] = w.groups[k] \/ G[k] = read_in_place(w.groups[k])
  PROVE  LET v == clear_hidden_update_selection([w EXCEPT !.groups = G])
         IN  InboxOk(v) /\ v.store = w.store
<1> DEFINE u == [w EXCEPT !.groups = G]
           v == clear_hidden_update_selection(u)
<1>1. w \in Inboxes /\ (w.detail_open => w.selected # None)
  BY DEF InboxOk
<1>2. Grouped(G, w.fed, Len(w.fed)) /\ G \in Seq(Group)
  BY GroupsRead DEF InboxOk
<1>3. u \in Inboxes
  BY <1>1, <1>2, InboxSetters, Zenon
<1>4. /\ u.groups = G /\ u.fed = w.fed /\ u.selected = w.selected
      /\ u.detail_open = w.detail_open /\ u.store = w.store /\ u.unseen = w.unseen
  BY <1>1 DEF Inboxes
<1> HIDE DEF u
<1>5. Grouped(u.groups, u.fed, Len(u.fed)) /\ displayed(u) \subseteq ids_of(u.fed) \cup u.unseen
  BY <1>2, <1>4 DEF InboxOk, displayed
<1>6. InboxOk(v) /\ v.store = u.store
  BY <1>1, <1>3, <1>4, <1>5, ClearedOk, Cleared
<1> QED
  BY <1>4, <1>6 DEF u

\* A mark that is asked for, and one that fails.
LEMMA MarkingOnly ==
  ASSUME NEW w, InboxOk(w), NEW m \in Marks
  PROVE  InboxOk([w EXCEPT !.marking = m]) /\ [w EXCEPT !.marking = m].store = w.store
<1> DEFINE v == [w EXCEPT !.marking = m]
<1>1. w \in Inboxes /\ fed_events(w.store) \subseteq ids_of(w.fed) \cup w.unseen
  BY DEF InboxOk, displayed
<1>2. v \in Inboxes
  BY <1>1, InboxSetters, Zenon
<1>3. /\ SameList(v, w) /\ v.selected = w.selected /\ v.detail_open = w.detail_open
      /\ v.store = w.store /\ v.unseen = w.unseen
  BY <1>1 DEF SameList, Inboxes
<1> HIDE DEF v
<1> QED
  BY <1>1, <1>2, <1>3, StoreOnly DEF v

LEMMA AskSteps ==
  ASSUME InboxOk(inbox), MarkGroupRead \/ MarkAllRead \/ MarkFails
  PROVE  InboxOk(inbox') /\ inbox'.store = inbox.store
<1> DEFINE w == inbox
<1>1. w \in Inboxes /\ w.groups \in Seq(Group)
  BY DEF InboxOk, Inboxes
<1>2. CASE MarkGroupRead
  <2>1. PICK n \in visible_inbox_groups(w) :
           IF w.live
           THEN inbox' = [w EXCEPT !.marking =
                             [all |-> FALSE, ids |-> update_group_event_ids(w.groups[n])]]
           ELSE inbox' = clear_hidden_update_selection(
                             [w EXCEPT !.groups[n] = read_in_place(@)])
    BY <1>2, Zenon DEF MarkGroupRead
  <2>2. n \in DOMAIN w.groups
    BY DEF visible_inbox_groups
  <2>3. CASE w.live
    <3> DEFINE m == [all |-> FALSE, ids |-> update_group_event_ids(w.groups[n])]
    <3>1. update_group_event_ids(w.groups[n]) \in SUBSET EventIds
      <4>1. w.groups[n] \in Group
        BY <1>1, <2>2
      <4>2. ASSUME NEW g \in Group PROVE update_group_event_ids(g) \in SUBSET EventIds
        <5>1. \A k \in DOMAIN g.events : g.events[k] \in Fed
          BY DEF Group
        <5>2. \A k \in DOMAIN g.events : g.events[k].id \in EventIds
          BY <5>1 DEF Fed
        <5> QED
          BY <5>2 DEF update_group_event_ids
      <4> QED
        BY <4>1, <4>2, Zenon
    <3>2. m \in Marks
      BY <3>1 DEF Marks
    <3>3. inbox' = [w EXCEPT !.marking = m]
      BY <2>1, <2>3
    <3> HIDE DEF m
    <3> QED
      BY <3>2, <3>3, MarkingOnly
  <2>4. CASE ~w.live
    <3> DEFINE G == [w.groups EXCEPT ![n] = read_in_place(@)]
    <3>1. /\ DOMAIN G = DOMAIN w.groups /\ G = [k \in DOMAIN G |-> G[k]]
          /\ \A k \in DOMAIN G : G[k] = w.groups[k] \/ G[k] = read_in_place(w.groups[k])
      <4>1. DOMAIN G = DOMAIN w.groups /\ \A k \in DOMAIN G :
               G[k] = IF k = n THEN read_in_place(w.groups[n]) ELSE w.groups[k]
        BY <1>1, <2>2
      <4>2. G = [k \in DOMAIN G |-> G[k]]
        BY <1>1
      <4> QED
        BY <4>1, <4>2
    <3>2. inbox' = clear_hidden_update_selection([w EXCEPT !.groups = G])
      BY <1>1, <2>1, <2>4 DEF Inboxes
    <3> HIDE DEF G
    <3> QED
      BY <3>1, <3>2, ReadInPlace
  <2> QED
    BY <2>3, <2>4
<1>3. CASE MarkAllRead
  <2>1. IF w.live THEN inbox' = [w EXCEPT !.marking = [all |-> TRUE, ids |-> {}]]
        ELSE inbox' = clear_hidden_update_selection(
                         [w EXCEPT !.groups = [n \in DOMAIN @ |-> read_in_place(@[n])]])
    BY <1>3 DEF MarkAllRead
  <2>2. CASE w.live
    <3>1. [all |-> TRUE, ids |-> {}] \in Marks
      BY DEF Marks
    <3> QED
      BY <2>1, <2>2, <3>1, MarkingOnly
  <2>3. CASE ~w.live
    <3> DEFINE G == [n \in DOMAIN w.groups |-> read_in_place(w.groups[n])]
    <3>1. /\ DOMAIN G = DOMAIN w.groups /\ G = [k \in DOMAIN G |-> G[k]]
          /\ \A k \in DOMAIN G : G[k] = w.groups[k] \/ G[k] = read_in_place(w.groups[k])
      OBVIOUS
    <3>2. inbox' = clear_hidden_update_selection([w EXCEPT !.groups = G])
      BY <1>1, <2>1, <2>3 DEF Inboxes
    <3> HIDE DEF G
    <3> QED
      BY <3>1, <3>2, ReadInPlace
  <2> QED
    BY <2>2, <2>3
<1>4. CASE MarkFails
  <2>1. inbox' = [w EXCEPT !.marking = None] /\ None \in Marks
    BY <1>4 DEF MarkFails, Marks
  <2> QED
    BY <2>1, MarkingOnly
<1> QED
  BY <1>2, <1>3, <1>4

\* A mark that is written takes only updates the feed lists; it is read again or not.
LEMMA UpdatesMarked ==
  ASSUME InboxOk(inbox), MarkSucceeds
  PROVE  /\ InboxOk(inbox')
         /\ inbox.store.unread \ inbox'.store.unread \subseteq displayed(inbox)
<1> DEFINE w == inbox
           s == [w.store EXCEPT !.unread = @ \ asked_for(w)]
           u == [w EXCEPT !.marking = None]
           v == [u EXCEPT !.store = s]
<1>1. /\ w \in Inboxes /\ w.store \in Stores /\ w.marking \in Marks /\ w.marking # None
      /\ (w.detail_open => w.selected # None)
      /\ fed_events(w.store) \subseteq ids_of(w.fed) \cup w.unseen
  BY DEF InboxOk, Inboxes, MarkSucceeds, displayed
<1>2. asked_for(w) \subseteq displayed(w)
  BY DEF MarkSucceeds, asked_for
<1>3. /\ s \in Stores /\ s.events = w.store.events /\ s.cache = w.store.cache
      /\ s.unread = w.store.unread \ asked_for(w)
  <2> DEFINE left == w.store.unread \ asked_for(w)
  <2>1. left \in SUBSET EventIds
    BY <1>1 DEF Stores
  <2>2. s = [w.store EXCEPT !.unread = left]
    OBVIOUS
  <2> HIDE DEF left
  <2>3. \A t \in Stores : /\ [t EXCEPT !.unread = left] \in Stores
                          /\ [t EXCEPT !.unread = left].events = t.events
                          /\ [t EXCEPT !.unread = left].cache = t.cache
                          /\ [t EXCEPT !.unread = left].unread = left
    BY <2>1 DEF Stores
  <2> HIDE DEF s
  <2> QED
    BY <1>1, <2>2, <2>3 DEF left
<1>4. inbox' \in {v, [apply_cached(v, v.store) EXCEPT !.unseen = {}]}
  <2>1. [inbox EXCEPT !.marking = None, !.store.unread = @ \ asked_for(inbox)] = v
    BY <1>1 DEF Inboxes
  <2> QED
    BY <2>1, Zenon DEF MarkSucceeds
<1> HIDE DEF s
<1>5. u \in Inboxes /\ None \in Marks
  BY <1>1 DEF Inboxes, Marks
<1>6. v \in Inboxes
  <2> HIDE DEF u
  <2> QED
    BY <1>3, <1>5, InboxSetters, Zenon
<1>7. /\ SameList(v, w) /\ v.selected = w.selected /\ v.detail_open = w.detail_open
      /\ v.store = s /\ v.unseen = w.unseen
  BY <1>1 DEF SameList, Inboxes
<1> HIDE DEF u, v
<1>8. fed_events(v.store) = fed_events(w.store)
  BY <1>3, <1>7, FedSame
<1>9. InboxOk(v)
  BY <1>1, <1>6, <1>7, <1>8, StoreOnly
<1>10. /\ InboxOk([apply_cached(v, v.store) EXCEPT !.unseen = {}])
       /\ apply_cached(v, v.store).store = s /\ apply_cached(v, v.store) \in Inboxes
  BY <1>1, <1>6, <1>7, Applied DEF InboxOk
<1>11. [apply_cached(v, v.store) EXCEPT !.unseen = {}].store = s
  <2> DEFINE x == apply_cached(v, v.store)
  <2>1. x \in Inboxes /\ x.store = s
    BY <1>10
  <2> HIDE DEF x
  <2>2. [x EXCEPT !.unseen = {}].store = s
    BY <2>1 DEF Inboxes
  <2> QED
    BY <2>2 DEF x
<1>12. InboxOk(inbox') /\ inbox'.store = s
  BY <1>4, <1>7, <1>9, <1>10, <1>11
<1>13. w.store.unread \ s.unread \subseteq displayed(w)
  BY <1>2, <1>3
<1> QED
  BY <1>12, <1>13

\* A synchronization of the view: its reading succeeds, or nothing is known of
\* what was shown.
LEMMA OwnSynced ==
  ASSUME InboxOk(inbox), SynchronizeOwn
  PROVE  InboxOk(inbox') /\ inbox.store.unread \subseteq inbox'.store.unread
<1> DEFINE w == inbox
<1>1. /\ w \in Inboxes /\ w.store \in Stores /\ w.syncs \in Nat
      /\ (w.detail_open => w.selected # None)
  BY DEF InboxOk, Inboxes
<1>2. PICK new \in SUBSET {e \in EventIds \ w.store.events : FeedEvents[e].ours},
           cache \in InboxCaches :
         LET store  == [events |-> w.store.events \cup new,
                        unread |-> w.store.unread \cup new, cache |-> cache]
             stored == [w EXCEPT !.store = store, !.syncs = @ + 1]
         IN  \/ inbox' = [apply_cached(stored, store) EXCEPT !.unseen = {}]
             \/ inbox' = [stored EXCEPT !.unseen = EventIds]
  BY Zenon DEF SynchronizeOwn
<1> DEFINE s == [events |-> w.store.events \cup new,
                 unread |-> w.store.unread \cup new, cache |-> cache]
           v == [w EXCEPT !.store = s, !.syncs = @ + 1]
<1>3. s \in Stores /\ s.unread = w.store.unread \cup new
  BY <1>1 DEF Stores
<1>4. \/ inbox' = [apply_cached(v, s) EXCEPT !.unseen = {}]
      \/ inbox' = [v EXCEPT !.unseen = EventIds]
  BY <1>2
<1> HIDE DEF s
<1>5. v \in Inboxes
  <2>1. v = [w EXCEPT !.store = s, !.syncs = w.syncs + 1]
    BY <1>1 DEF Inboxes
  <2>2. w.syncs + 1 \in Nat
    BY <1>1
  <2> HIDE DEF v
  <2> QED
    BY <1>1, <1>3, <2>1, <2>2, InboxSetters, Zenon
<1>6. /\ SameList(v, w) /\ v.selected = w.selected /\ v.detail_open = w.detail_open
      /\ v.store = s
  BY <1>1 DEF SameList, Inboxes
<1> HIDE DEF v
<1>7. CASE inbox' = [apply_cached(v, s) EXCEPT !.unseen = {}]
  <2> DEFINE x == apply_cached(v, s)
  <2>1. InboxOk([x EXCEPT !.unseen = {}]) /\ InboxOk(x) /\ x.store = s
    BY <1>1, <1>5, <1>6, Applied
  <2> HIDE DEF x
  <2>2. [x EXCEPT !.unseen = {}].store = s
    BY <2>1 DEF InboxOk, Inboxes
  <2>3. inbox' = [x EXCEPT !.unseen = {}]
    BY <1>7 DEF x
  <2> QED
    BY <1>3, <2>1, <2>2, <2>3
<1>8. CASE inbox' = [v EXCEPT !.unseen = EventIds]
  <2> DEFINE y == [v EXCEPT !.unseen = EventIds]
  <2>1. y \in Inboxes
    <3>1. EventIds \in SUBSET EventIds
      OBVIOUS
    <3> QED
      BY <1>5, <3>1, InboxSetters, Zenon
  <2>2. /\ SameList(y, w) /\ y.selected = w.selected /\ y.detail_open = w.detail_open
        /\ y.store = s /\ y.unseen = EventIds
    BY <1>5, <1>6 DEF SameList, Inboxes
  <2> HIDE DEF y
  <2>3. fed_events(y.store) \subseteq ids_of(w.fed) \cup y.unseen
    BY <1>3, <2>2, FeedListed
  <2>4. InboxOk(y)
    BY <2>1, <2>2, <2>3, StoreOnly
  <2> QED
    BY <1>3, <1>8, <2>2, <2>4 DEF y
<1> QED
  BY <1>4, <1>7, <1>8

LEMMA TeamSynced ==
  ASSUME InboxOk(inbox), SynchronizeTeam
  PROVE  InboxOk(inbox') /\ inbox.store.unread \subseteq inbox'.store.unread
<1> DEFINE w == inbox
           v == inbox'
<1>1. /\ w \in Inboxes /\ w.store \in Stores
      /\ fed_events(w.store) \subseteq ids_of(w.fed) \cup w.unseen
  BY DEF InboxOk, Inboxes, displayed
<1>2. PICK e \in EventIds \ w.store.events :
         /\ ~FeedEvents[e].ours
         /\ v = [w EXCEPT !.store.events = @ \cup {e}, !.store.unread = @ \cup {e}]
  BY DEF SynchronizeTeam
<1> DEFINE s == [w.store EXCEPT !.events = @ \cup {e}, !.unread = @ \cup {e}]
<1>3. v = [w EXCEPT !.store = s]
  BY <1>1, <1>2 DEF Inboxes, Stores
<1>4. /\ s \in Stores /\ s.events = w.store.events \cup {e} /\ s.cache = w.store.cache
      /\ s.unread = w.store.unread \cup {e}
  <2> DEFINE more == w.store.events \cup {e}
             unread == w.store.unread \cup {e}
             t == w.store
             r == [t EXCEPT !.events = more, !.unread = unread]
  <2>1. t \in Stores /\ more \in SUBSET EventIds /\ unread \in SUBSET EventIds
    BY <1>1 DEF Stores
  <2>2. s = r
    BY <1>1 DEF Stores
  <2> HIDE DEF s, more, unread, t
  <2>3. r \in Stores
    BY <2>1 DEF Stores
  <2>4. r.events = more /\ r.cache = t.cache /\ r.unread = unread
    BY <2>1 DEF Stores
  <2> QED
    BY <2>2, <2>3, <2>4 DEF more, unread, t
<1> HIDE DEF s
<1>5. v \in Inboxes
  BY <1>1, <1>3, <1>4, InboxSetters, Zenon
<1>6. /\ SameList(v, w) /\ v.selected = w.selected /\ v.detail_open = w.detail_open
      /\ v.store = s /\ v.unseen = w.unseen
  BY <1>1, <1>3 DEF SameList, Inboxes
<1>7. fed_events(s) \subseteq fed_events(w.store)
  <2>1. s.events \in SUBSET EventIds
    BY <1>4 DEF Stores
  <2> QED
    BY <1>1, <1>2, <1>4, <2>1, FedShrinks
<1>8. InboxOk(v)
  BY <1>1, <1>5, <1>6, <1>7, StoreOnly
<1> QED
  BY <1>4, <1>6, <1>8

\* The invariant is kept, and what becomes read was shown or a reading failed.
LEMMA InboxSteps ==
  ASSUME InboxOk(inbox), [InboxNext]_inbox
  PROVE  /\ InboxOk(inbox')
         /\ inbox.store.unread \ inbox'.store.unread \subseteq ids_of(inbox.fed) \cup inbox.unseen
<1>1. CASE UNCHANGED inbox
  BY <1>1
<1>2. CASE SelectUpdateGroup \/ CloseMobileUpdateDetail \/ ResizeInbox
  BY <1>2, SelectionSteps
<1>3. CASE SetUpdateFilter \/ SetInboxStatus \/ TypeInboxQuery
  BY <1>3, FilterSteps
<1>4. CASE LearnStatuses
  BY <1>4, LearnStep
<1>5. CASE MarkGroupRead \/ MarkAllRead \/ MarkFails
  BY <1>5, AskSteps
<1>6. CASE MarkSucceeds
  BY <1>6, UpdatesMarked DEF InboxOk
<1>7. CASE SynchronizeOwn
  BY <1>7, OwnSynced
<1>8. CASE SynchronizeTeam
  BY <1>8, TeamSynced
<1> QED
  BY <1>1, <1>2, <1>3, <1>4, <1>5, <1>6, <1>7, <1>8 DEF InboxNext

LEMMA InboxInvariant == InboxSpec => []InboxOk(inbox)
<1>1. InboxInit => InboxOk(inbox)
  BY InboxStarts
<1>2. InboxOk(inbox) /\ [InboxNext]_inbox => InboxOk(inbox)'
  <2> SUFFICES ASSUME InboxOk(inbox), [InboxNext]_inbox PROVE InboxOk(inbox')
    OBVIOUS
  <2> QED
    BY InboxSteps
<1> QED
  BY <1>1, <1>2, PTL DEF InboxSpec

\* The invariant says what is shown and read.
LEMMA InboxTells ==
  ASSUME InboxOk(inbox)
  PROVE  InboxIsTrue
<1>1. updates_are_all_accounted(inbox.groups, inbox.fed)
  <2> DEFINE groups == inbox.groups
             fed == inbox.fed
  <2>1. Grouped(groups, fed, Len(fed)) /\ fed \in Seq(Fed)
    BY DEF InboxOk, Inboxes
  <2> HIDE DEF groups, fed
  <2>2. \A n \in DOMAIN groups : group_is_accounted(groups[n])
    BY <2>1, GroupsAccount DEF Grouped
  <2>3. {fed[k].id : k \in 1 .. Len(fed)} = ids_of(fed)
    BY <2>1 DEF ids_of
  <2>4. updates_are_all_accounted(groups, fed)
    BY <2>1, <2>2, <2>3, Zenon DEF updates_are_all_accounted, Grouped
  <2> QED
    BY <2>4 DEF groups, fed
<1>2. SelectionIsRead
  <2>1. CASE inbox.selected \in listed(inbox)
    <3>1. PICK n \in visible_inbox_groups(inbox) : inbox.groups[n].issue = inbox.selected
      BY <2>1 DEF listed
    <3>2. CASE inbox.mobile /\ ~inbox.detail_open
      BY <3>2 DEF InboxOk, SelectionIsRead, list_shown
    <3>3. CASE ~(inbox.mobile /\ ~inbox.detail_open)
      BY <3>1, <3>3 DEF InboxOk, SelectionIsRead, reading_pane
    <3> QED
      BY <3>2, <3>3
  <2>2. CASE inbox.selected \notin listed(inbox)
    BY <2>2 DEF InboxOk, SelectionIsRead
  <2> QED
    BY <2>1, <2>2
<1> QED
  BY <1>1, <1>2 DEF InboxIsTrue

(* For every feed, limit and set of caches: the groups of the updates view *)
(* are the feed that was read, every event in the group of its issue, in   *)
(* the feed's order, counted once among the unread and once among the rows *)
(* of an open card; and the selected updates are read in the pane, or are  *)
(* listed beside it (dashboard.rs:2863, presentation/updates.rs).          *)
THEOREM InboxTold == InboxSpec => []InboxIsTrue
<1>1. InboxOk(inbox) => InboxIsTrue
  BY InboxTells
<1> QED
  BY <1>1, InboxInvariant, PTL

(* For every feed, limit and set of caches, no update becomes read that    *)
(* the view did not list, except after a synchronization whose own reading *)
(* of the feed failed (live_workspace.rs:830).                             *)
THEOREM UnseenKept == InboxSpec => UnseenStaysUnread
<1>1. InboxOk(inbox) /\ [InboxNext]_inbox =>
        [inbox.store.unread \ inbox'.store.unread
            \subseteq ids_of(inbox.fed) \cup inbox.unseen]_inbox
  BY InboxSteps
<1> QED
  BY <1>1, InboxInvariant, PTL DEF InboxSpec, UnseenStaysUnread
=============================================================================
