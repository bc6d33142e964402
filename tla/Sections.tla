------------------------------ MODULE Sections ------------------------------
(***************************************************************************)
(* The sections of the dashboard window and what each offers: the list of  *)
(* issues with its filters, the table of team tickets, and the pane that   *)
(* shows the selected issue beside them.  render_* of the dashboard's view *)
(* files draw the record win; what they draw is here the set of controls a *)
(* user can click, and a click is an action guarded by its control.        *)
(*                                                                         *)
(* The team table is a component of its own: it keeps the index of a row,  *)
(* tells the dashboard when that row is set or cleared, and its rows are   *)
(* replaced and sorted under it.  It is told of new rows whichever section *)
(* is shown.  Events are delivered before the next click or timer.         *)
(***************************************************************************)
EXTENDS Naturals, Sequences, FiniteSets, SequencesExt, Absent

CONSTANTS
    SiteIssues,     \* the issues of the Jira site
    Rank,           \* their order by key, which is also that of the cache
    DomainCaches,   \* caches of the issue scope: issue -> status category
    TeamCaches      \* caches of the team: issue -> [active, at]

Categories == {"active", "other"}

ASSUME SectionsAssumption ==
    /\ None \notin SiteIssues /\ IsFiniteSet(SiteIssues)
    /\ Rank \in [SiteIssues -> Nat]
    /\ \A i, j \in SiteIssues : Rank[i] = Rank[j] => i = j
    /\ \A cache \in DomainCaches :
          DOMAIN cache \subseteq SiteIssues /\ cache \in [DOMAIN cache -> Categories]
    /\ \A cache \in TeamCaches :
          /\ DOMAIN cache \subseteq SiteIssues
          /\ cache \in [DOMAIN cache -> [active : BOOLEAN, at : Nat]]

VARIABLE win

Layouts == {"mobile", "cards", "dense", "wide"}   \* by the window's width
Names   == {"Issues", "Updates", "Team", "Settings"}
Columns == {"Key", "LastUpdated", "Elapsed"}
Orders  == {"Default", "Ascending", "Descending"}

---------------------------------------------------------------------------
(* What is shown *)

(* The issues the search and the status filter leave; no status is all.    *)
visible(w) ==
    {i \in DOMAIN w.domain :
        /\ w.status_filter = {} \/ w.domain[i] \in w.status_filter
        /\ w.search_query \in {None, i}}

known_issue(w, i) == i \in DOMAIN w.domain \cup DOMAIN w.team \cup {w.core}

remote(w) == IF w.lookup.kind = "loaded" THEN {w.lookup.issue} ELSE {}

(* A row of the desktop's table that shows the issue a lookup found only   *)
(* opens the pane; on a phone only the labelled row of the lookup does.    *)
issue_table_row(w, i) == i \notin remote(w)

team_in_progress(w) == {i \in DOMAIN w.team : w.team[i].active}

has_active_filters(w) == w.search_query # None \/ w.status_filter # {}

---------------------------------------------------------------------------
(* Selection, as dashboard.rs keeps it: a confirmed write holds it         *)

\* Mutant: only a watch change holds the selection.
choose_issue_WatchOnly(w, i) ==
    IF w.writing = "watch" /\ w.selected # i THEN w
    ELSE [w EXCEPT !.selected = i, !.core = IF w.selected = i THEN @ ELSE None]

choose_issue(w, i) ==
    IF w.writing # "none" /\ w.selected # i THEN w
    ELSE [w EXCEPT !.selected = i, !.core = IF w.selected = i THEN @ ELSE None]

clear_remote_lookup(w) == [w EXCEPT !.lookup = [kind |-> "idle", issue |-> None]]

clear_selection_for_team_scope(w) ==
    IF w.writing # "none" THEN w
    ELSE [clear_remote_lookup(w) EXCEPT !.selected = None, !.core = None]

rebuild_issue_views(w) ==
    IF w.selected # None \/ visible(w) = {} THEN w
    ELSE choose_issue(w, CHOOSE i \in visible(w) :
                             \A j \in visible(w) : Rank[i] <= Rank[j])

set_status_filter(w, statuses) ==
    rebuild_issue_views([w EXCEPT !.status_filter = statuses])

set_search_query(w, query) ==
    IF w.search_query = query THEN w
    ELSE rebuild_issue_views([clear_remote_lookup(w) EXCEPT
                                 !.search_query = query])

\* Mutant: the status control keeps what was chosen.
clear_issue_filters_KeepCombobox(w) ==
    rebuild_issue_views(
        [clear_remote_lookup(w) EXCEPT !.search_query = None,
            !.search_input = None, !.status_filter = {}])

clear_issue_filters(w) ==
    rebuild_issue_views(
        [clear_remote_lookup(w) EXCEPT !.search_query = None,
            !.search_input = None, !.status_filter = {}, !.combobox = {}])

search_jira_for_key(w, i) ==
    IF w.writing = "watch" THEN w
    ELSE LET opened == [w EXCEPT !.mobile_detail_open = TRUE]
         IN  IF known_issue(w, i)
             THEN choose_issue(clear_remote_lookup(opened), i)
             ELSE [opened EXCEPT !.lookup = [kind |-> "loading", issue |-> i]]

---------------------------------------------------------------------------
(* The table of team tickets *)

(* Ties are broken by the issue.                                           *)
compare_rows(team, column, i, j) ==
    CASE column = "Key"         -> Rank[i] < Rank[j]
      [] column = "LastUpdated" -> team[i].at < team[j].at
      [] column = "Elapsed"     -> team[j].at < team[i].at

row_before(w, i, j) ==
    LET less == compare_rows(w.team, w.column, i, j)
        more == compare_rows(w.team, w.column, j, i)
    IN  IF less \/ more
        THEN IF w.order = "Descending" THEN more ELSE less
        ELSE Rank[i] < Rank[j]

sort_rows(w, issues) ==
    CHOOSE rows \in [1..Cardinality(issues) -> issues] :
        \A m, n \in DOMAIN rows : m < n => row_before(w, rows[m], rows[n])

row_index_for_issue_id(rows, i) == SelectInSeq(rows, LAMBDA r : r = i)

selected_team_ticket_issue_id(w) ==
    IF w.row \in DOMAIN w.rows THEN w.rows[w.row] ELSE None

(* What the dashboard does when the table says that a row was set: the     *)
(* section becomes the team's, whichever was shown.  A refused selection   *)
(* leaves the row set.                                                     *)
RowSet(w, row) ==
    LET i == w.rows[row]
        told  == [w EXCEPT !.row = row, !.mirror = i]
        shown == IF w.selected = i THEN told ELSE choose_issue(told, i)
    IN  IF w.writing = "edit" /\ w.selected # i THEN told
        ELSE [shown EXCEPT !.section = "Team",
                           !.mobile_detail_open = w.layout = "mobile"]

(* And when it says that no row is set.                                    *)
RowCleared(w) ==
    LET told == [w EXCEPT !.row = 0, !.mirror = None]
    IN  IF /\ w.section = "Team"
           /\ w.selected \notin team_in_progress(w) \cup {None}
        THEN clear_selection_for_team_scope(told) ELSE told

(* Rows changed under the table: the issue that was selected is selected   *)
(* again at its new row.  Whether a table without a selection tells that   *)
(* it was cleared is up to the component.                                  *)
reselect(w, i, quiet) ==
    LET row == row_index_for_issue_id(w.rows, i)
    IN  IF row # 0 THEN RowSet(w, row)
        ELSE IF w.row = 0 /\ quiet THEN w ELSE RowCleared(w)

replace_team_ticket_rows(w, quiet) ==
    reselect([w EXCEPT !.rows = sort_rows(w, team_in_progress(w))],
             selected_team_ticket_issue_id(w), quiet)

sort_column_is_visible(column, layout) ==
    layout = "wide" \/ column \in {"Key", "Elapsed"}

\* Mutant: the rows are sorted and the index stays.
set_team_ticket_density_KeepIndex(w, layout, quiet) ==
    LET denser == [w EXCEPT !.layout = layout]
        sorted == [denser EXCEPT !.column = "LastUpdated", !.order = "Ascending"]
    IN  IF (w.layout = "wide") = (layout = "wide") THEN denser
        ELSE IF sort_column_is_visible(w.column, layout) THEN denser
        ELSE [sorted EXCEPT !.rows = sort_rows(sorted, ToSet(w.rows))]

(* Leaving the wide table hides columns; the rows are not left in the      *)
(* order of a hidden one.                                                  *)
set_team_ticket_density(w, layout, quiet) ==
    LET denser == [w EXCEPT !.layout = layout]
        reset  == [denser EXCEPT !.column = "LastUpdated", !.order = "Ascending"]
        sorted == IF sort_column_is_visible(w.column, layout) THEN denser
                  ELSE [reset EXCEPT !.rows = sort_rows(reset, ToSet(w.rows))]
    IN  IF (w.layout = "wide") = (layout = "wide") THEN denser
        ELSE reselect(sorted, selected_team_ticket_issue_id(w), quiet)

(* The delegate sorts by the issue the dashboard told it, not by the row.  *)
perform_sort(w, column, order) ==
    LET chosen == IF order = "Default"
                  THEN [w EXCEPT !.column = "LastUpdated", !.order = "Ascending"]
                  ELSE [w EXCEPT !.column = column, !.order = order]
        sorted == [chosen EXCEPT !.rows = sort_rows(chosen, ToSet(w.rows))]
        row    == row_index_for_issue_id(sorted.rows, w.mirror)
    IN  IF row # 0 THEN RowSet(sorted, row) ELSE sorted

apply_team_cached(w, team, quiet) ==
    replace_team_ticket_rows([w EXCEPT !.team = team], quiet)

---------------------------------------------------------------------------
(* What can be clicked *)

find_key(w) ==
    IF w.search_query # None /\ w.lookup.kind # "loading" THEN {"search-jira"} ELSE {}

clear_filters(w) == IF has_active_filters(w) THEN {"clear-filters"} ELSE {}

(* The list of a phone gives way to the detail; the table stays beside it. *)
mobile_toolbar(w) ==
    IF w.mobile_detail_open THEN {}
    ELSE {"review-updates", "show-active", "search", "status"}
             \cup find_key(w) \cup clear_filters(w)

desktop_toolbar(w) == {"search", "status"} \cup find_key(w) \cup clear_filters(w)

team_header(w) ==
    IF w.layout = "mobile" /\ w.mobile_detail_open THEN {"configure-team", "back"}
    ELSE {"configure-team"}

issue_panes(w) == IF w.mobile_detail_open THEN {"back"} ELSE {}

controls(w) ==
    CASE w.section = "Issues" ->
             issue_panes(w) \cup (IF w.layout = "mobile" THEN mobile_toolbar(w)
                                  ELSE desktop_toolbar(w))
      [] w.section = "Team" -> team_header(w)
      [] OTHER -> {}

(* The rows that select their issue when they are clicked.                 *)
issue_list(w)  == {i \in visible(w) : ~w.mobile_detail_open}
issue_table(w) == {i \in visible(w) : issue_table_row(w, i)}
team_cards(w)  == {i \in team_in_progress(w) :
                      ~(w.layout = "mobile" /\ w.mobile_detail_open)}
rows_shown(w) ==
    CASE w.section = "Issues" /\ w.layout = "mobile" -> issue_list(w)
      [] w.section = "Issues" /\ w.layout # "mobile" -> issue_table(w)
      [] w.section = "Team" /\ w.layout \in {"mobile", "cards"} -> team_cards(w)
      [] OTHER -> {}

(* The rows of the table, which the other layouts do not show.             *)
team_table(w) ==
    IF w.section = "Team" /\ w.layout \in {"dense", "wide"} THEN DOMAIN w.rows
    ELSE {}

detail_shown(w) ==
    /\ w.lookup.kind \in {"idle", "loaded"}
    /\ w.lookup.kind = "loaded" \/ (w.selected # None /\ known_issue(w, w.selected))
    /\ \/ w.section = "Issues" /\ w.mobile_detail_open
       \/ w.section = "Team" /\ (w.layout # "mobile" \/ w.mobile_detail_open)

---------------------------------------------------------------------------
SectionsInit ==
    win = [section |-> "Issues", layout |-> "wide", mobile_detail_open |-> FALSE,
           domain |-> <<>>, team |-> <<>>, core |-> None, selected |-> None,
           lookup |-> [kind |-> "idle", issue |-> None], writing |-> "none",
           search_query |-> None, search_input |-> None,
           status_filter |-> {}, combobox |-> {},
           rows |-> <<>>, row |-> 0, mirror |-> None,
           column |-> "LastUpdated", order |-> "Ascending"]

\* Mutant: an issue outside the team stays selected.
activate_section_KeepSelection(w, section) ==
    IF w.writing = "watch" /\ section # w.section THEN w
    ELSE [w EXCEPT !.section = section]

(* The navigation waits for a watch change, and the team's section for any *)
(* write of an issue outside the team.                                     *)
foreign(w, section) ==
    section = "Team" /\ w.selected \notin DOMAIN w.team \cup {None}

may_activate(w, section) ==
    /\ w.writing = "watch" => section = w.section
    /\ foreign(w, section) => w.writing = "none"

activate_section(w, section) ==
    IF ~may_activate(w, section) THEN w
    ELSE [(IF foreign(w, section) THEN clear_selection_for_team_scope(w) ELSE w)
              EXCEPT !.section = section]

NavigateSidebar ==
    /\ win.layout # "mobile"
    /\ \E section \in Names : win' = activate_section(win, section)

NavigateMobile ==
    /\ win.layout = "mobile"
    /\ \E section \in Names :
         LET moved == activate_section(win, section)
         IN  win' = IF may_activate(win, section)
                    THEN [moved EXCEPT !.mobile_detail_open = FALSE] ELSE moved

(* These two set the section themselves, whatever is under way.  One of    *)
(* the buttons leaves the detail open.                                     *)
ReviewUpdates ==
    "review-updates" \in controls(win) /\ win' = [win EXCEPT !.section = "Updates"]

ConfigureTeam ==
    /\ "configure-team" \in controls(win)
    /\ \E open \in {FALSE, win.mobile_detail_open} :
         win' = [win EXCEPT !.section = "Settings", !.mobile_detail_open = open]

Back == "back" \in controls(win) /\ win' = [win EXCEPT !.mobile_detail_open = FALSE]

ClickIssueRow ==
    \E i \in rows_shown(win) :
        win' = [choose_issue(clear_remote_lookup(win), i) EXCEPT
                   !.mobile_detail_open = TRUE]

(* The row of the lookup's result, and a row of the table of its issue.    *)
ClickLookupRow ==
    /\ win.section = "Issues" /\ win.lookup.kind = "loaded"
    /\ win.layout = "mobile" => ~win.mobile_detail_open
    /\ win' = [win EXCEPT !.mobile_detail_open = TRUE]

TypeSearch ==
    /\ "search" \in controls(win)
    /\ \E query \in SiteIssues \cup {None} :
         win' = set_search_query([win EXCEPT !.search_input = query], query)

FindKey == /\ "search-jira" \in controls(win)
           /\ win' = search_jira_for_key(win, win.search_query)

AnswerLookup ==
    /\ win.lookup.kind = "loading"
    /\ \E kind \in {"loaded", "error"} : win' = [win EXCEPT !.lookup.kind = kind]

ChooseStatus ==
    /\ "status" \in controls(win)
    /\ \E statuses \in SUBSET Categories :
         win' = set_status_filter([win EXCEPT !.combobox = statuses], statuses)

ShowActive ==
    /\ "show-active" \in controls(win)
    /\ win' = set_status_filter([win EXCEPT !.combobox = {"active"}], {"active"})

ClearFilters == "clear-filters" \in controls(win) /\ win' = clear_issue_filters(win)

OpenRelated ==
    /\ detail_shown(win) /\ win.writing = "none"
    /\ \E i \in SiteIssues :
         win' = search_jira_for_key([win EXCEPT !.section = "Issues"], i)

OpenInIssues ==
    /\ detail_shown(win)
    /\ LET i == IF win.lookup.kind = "loaded" THEN win.lookup.issue ELSE win.selected
       IN  /\ win.writing = "watch" => i = win.selected
           /\ win' = choose_issue([win EXCEPT !.section = "Issues",
                                              !.mobile_detail_open = TRUE], i)

OpenUpdate ==
    /\ win.section = "Updates"
    /\ \E i \in SiteIssues :
         /\ win.writing = "watch" => i = win.selected
         /\ win' = [choose_issue(clear_remote_lookup(win), i) EXCEPT
                       !.section = "Issues", !.mobile_detail_open = TRUE]

ClickTeamRow == \E row \in team_table(win) : win' = RowSet(win, row)

SortTeam ==
    /\ team_table(win) # {}
    /\ \E column \in Columns, order \in Orders :
         /\ sort_column_is_visible(column, win.layout)
         /\ win' = perform_sort(win, column, order)

Resize ==
    \E layout \in Layouts \ {win.layout}, quiet \in BOOLEAN :
        win' = set_team_ticket_density(win, layout, quiet)

(* The timer that keeps the ages of the team tickets current.              *)
RefreshAges ==
    \E quiet \in BOOLEAN : win' = replace_team_ticket_rows(win, quiet)

(* The detail that was read may be newer than the team's cache.            *)
ReadDetail ==
    /\ win.selected # None
    /\ LET read == [win EXCEPT !.core = win.selected]
       IN  \/ win' = read
           \/ \E team \in TeamCaches, quiet \in BOOLEAN :
                /\ DOMAIN team = DOMAIN win.team
                /\ \A i \in DOMAIN team \ {win.selected} : team[i] = win.team[i]
                /\ win' = apply_team_cached(read, team, quiet)

(* A write that marks updates read, and the runs that synchronize.         *)
ApplyCached ==
    \E cache \in DomainCaches :
        win' = rebuild_issue_views([win EXCEPT !.domain = cache])

ApplyTeam ==
    \E team \in TeamCaches, quiet \in BOOLEAN :
        win' = apply_team_cached(win, team, quiet)

ApplyBoth ==
    \E cache \in DomainCaches, team \in TeamCaches, quiet \in BOOLEAN :
        win' = apply_team_cached(rebuild_issue_views([win EXCEPT !.domain = cache]),
                                 team, quiet)

WriteBegins ==
    /\ detail_shown(win) /\ win.selected # None /\ win.writing = "none"
    /\ \E kind \in {"edit", "watch"} : win' = [win EXCEPT !.writing = kind]

WriteEnds == win.writing # "none" /\ win' = [win EXCEPT !.writing = "none"]

(* What the user and the program can do with the list and its filters, and *)
(* with the team; and what concerns both.                                  *)
ListStep ==
    \/ ClickLookupRow \/ TypeSearch \/ FindKey \/ AnswerLookup
    \/ ChooseStatus \/ ShowActive \/ ClearFilters \/ OpenRelated

TeamStep ==
    \/ ConfigureTeam \/ ClickTeamRow \/ SortTeam \/ RefreshAges
    \/ ApplyTeam \/ ApplyBoth

CommonStep ==
    \/ NavigateSidebar \/ NavigateMobile \/ ReviewUpdates \/ Back
    \/ ClickIssueRow \/ OpenInIssues \/ OpenUpdate \/ Resize
    \/ ReadDetail \/ ApplyCached \/ WriteBegins \/ WriteEnds

SectionsNext == ListStep \/ TeamStep \/ CommonStep

SectionsSpec == SectionsInit /\ [][SectionsNext]_win

---------------------------------------------------------------------------
(* Properties *)

(* A confirmed edit or watch change keeps its issue selected until it has  *)
(* ended, whatever is clicked, searched, synchronized or resized meanwhile *)
(* (choose_issue, clear_selection_for_team_scope).                         *)
WriteHoldsSelection ==
    [][win.writing # "none" /\ win'.writing # "none"
           => win'.selected = win.selected]_win

(* The issue selected in the team table stays selected while it is in the  *)
(* table, however the rows are replaced, sorted or laid out; only a click  *)
(* selects another (docs/ux-polish-roadmap.md:327).                        *)
TableKeepsItsIssue ==
    [][\/ ClickTeamRow
       \/ selected_team_ticket_issue_id(win) \in {None,
              selected_team_ticket_issue_id(win')}
       \/ selected_team_ticket_issue_id(win) \notin ToSet(win'.rows)]_win

(* The filters are what their inputs show (clear_issue_filters: "keep the  *)
(* input/combobox entities in sync with the model").                       *)
FiltersAreWhatIsShown ==
    win.search_query = win.search_input /\ win.status_filter = win.combobox

(* The team's section never opens on an issue outside the team, unless a   *)
(* watch change holds the selection (activate_section, TableEvent).        *)
TeamOpensOnItsOwn ==
    [][win.section # "Team" /\ win'.section = "Team" /\ win.writing # "watch"
           => win'.selected \in DOMAIN win'.team \cup {None}]_win

(* Rows rebuilt under the table by the timer of the ages change neither    *)
(* the section another view has taken nor the issue in its detail pane.    *)
(* The code does change them: the row that is set again counts as a click  *)
(* (docs/ux-polish-roadmap.md:327, "Keep table selection/detail identity   *)
(* consistent through sort, filter, and rebuild").                         *)
RebuildKeepsDetail ==
    [][RefreshAges /\ win.section # "Team"
           => win'.section = win.section /\ win'.selected = win.selected]_win
=============================================================================
