----------------------------- MODULE MC_Desktop -----------------------------
(* The parts of the desktop application that share no state: the caches of  *)
(* the edit controls and of the images, the download of an attachment, the  *)
(* settings transactions, the session, the sections of the window (the list *)
(* and the team's table, each with what both share), and the inbox.  Each   *)
(* behaviour moves one part.                                                *)
EXTENDS EditOptions, Media, Download, SettingsTransaction, Session, Sections,
        Inbox, TLC

CONSTANTS i1, i2, i3, a, b, c, default_scope, my_scope

MCSize == a :> 2 @@ b :> 1 @@ c :> 1
MCDetails == {<<<<a, b>>>>, <<<<a>>, <<c, a>>>>}
MCFirstCaches == {<<Row(i1, a, FALSE), Row(i2, c, TRUE)>>}

MCValues == "scope" :> {default_scope, my_scope} @@ "team" :> {{}, {"mate"}}
MCDefault == "scope" :> default_scope @@ "team" :> {}
MCFirstFiles == {None, MCDefault, "scope" :> my_scope @@ "team" :> {"mate"}}

MCLogins == {"login", "large"}
MCOversized == {"large"}
MCFirstVaults == {None, "login", Unreadable}

MCRank == i1 :> 1 @@ i2 :> 2 @@ i3 :> 3
Ticket(active, at) == [active |-> active, at |-> at]
MCDomainCaches == {<<>>, i1 :> "other" @@ i2 :> "active"}
MCTeamCaches ==
    {i2 :> Ticket(TRUE, 1) @@ i3 :> Ticket(TRUE, 2),
     i2 :> Ticket(TRUE, 2) @@ i3 :> Ticket(TRUE, 1),
     i2 :> Ticket(FALSE, 1) @@ i3 :> Ticket(TRUE, 1)}

Update(issue, at, generic, ours) ==
    [issue |-> issue, at |-> at, generic |-> generic, ours |-> ours]
MCFeedEvents ==
    "vague" :> Update(i1, 1, TRUE, TRUE) @@ "other" :> Update(i2, 2, FALSE, TRUE)
        @@ "vaguer" :> Update(i1, 3, TRUE, TRUE) @@ "mate" :> Update(i2, 4, FALSE, FALSE)
MCInboxCaches == {i1 :> "active" @@ i2 :> "other", i1 :> "other"}
MCOtherStatuses == i2 :> "active"

VARIABLE part

Init == /\ part \in {"options", "media", "download", "settings", "session",
                  "list", "team", "inbox"}
        /\ OptInit /\ MediaInit /\ DownloadInit /\ SettingsInit /\ SessionInit
        /\ SectionsInit /\ InboxInit
        /\ part # "inbox" => inbox.live /\ i2 \in DOMAIN inbox.domain
        /\ part # "media" => known = [i \in Listed |-> None]
        /\ part # "settings" => stored = None
        /\ part # "session" => vault = None

Only(p) == part = p /\ UNCHANGED part

Next ==
    \/ /\ Only("options") /\ OptNext
       /\ UNCHANGED <<mediaVars, downloadVars, settingsVars, sessionVars, win, inbox>>
    \/ /\ Only("media") /\ MediaNext
       /\ UNCHANGED <<optVars, downloadVars, settingsVars, sessionVars, win, inbox>>
    \/ /\ Only("download") /\ DownloadNext
       /\ UNCHANGED <<optVars, mediaVars, settingsVars, sessionVars, win, inbox>>
    \/ /\ Only("settings") /\ SettingsNext
       /\ UNCHANGED <<optVars, mediaVars, downloadVars, sessionVars, win, inbox>>
    \/ /\ Only("session") /\ SessionNext
       /\ UNCHANGED <<optVars, mediaVars, downloadVars, settingsVars, win, inbox>>
    \/ /\ Only("list") /\ (ListStep \/ CommonStep)
       /\ UNCHANGED <<optVars, mediaVars, downloadVars, settingsVars, sessionVars, inbox>>
    \/ /\ Only("team") /\ (TeamStep \/ CommonStep)
       /\ UNCHANGED <<optVars, mediaVars, downloadVars, settingsVars, sessionVars, inbox>>
    \/ /\ Only("inbox") /\ InboxNext
       /\ UNCHANGED <<optVars, mediaVars, downloadVars, settingsVars, sessionVars, win>>

Spec == Init /\ [][Next]_<<part, optVars, mediaVars, downloadVars, settingsVars, sessionVars,
                       win, inbox>>
=============================================================================
