------------------------------ MODULE Download ------------------------------
(***************************************************************************)
(* Saving an attachment to a file (dashboard::download_attachment,         *)
(* dashboard/media/download): the task of the dashboard asks for the       *)
(* destination, reads the content, has it written to a temporary file on a *)
(* background thread and renames that file.  A selection, a filter or a    *)
(* closed lookup invalidates the download at any moment: its token is      *)
(* cancelled and its task dropped, and what the background thread has      *)
(* begun goes on by itself.                                                *)
(***************************************************************************)
EXTENDS Naturals, Absent

CONSTANT MaxDownloads    \* bound: how often a download is begun

ASSUME DownloadAssumption == MaxDownloads \in Nat /\ None \notin Nat

Ids == 1..MaxDownloads

VARIABLES
    saving,     \* attachment_download_state: the download shown as Saving
    task,       \* attachment_download_task: its download and where it is
    cancelled,  \* the downloads whose token is cancelled
    write,      \* the background write of each download
    temporary,  \* the .part files on the disk
    file,       \* the download the destination holds, complete
    late,       \* history: downloads dropped after their write had ended
    begun       \* bound

downloadVars ==
    <<saving, task, cancelled, write, temporary, file, late, begun>>

Writes == {"none", "queued", "open", "written", "failed"}
NoTask == [id |-> None, at |-> "none"]

DownloadInit ==
    /\ saving = None /\ task = NoTask
    /\ cancelled = {} /\ late = {}
    /\ write = [d \in Ids |-> "none"]
    /\ temporary = {} /\ file = None
    /\ begun = 0

---------------------------------------------------------------------------
(* The task *)

(* One download at a time; one that is declared too large, or has no       *)
(* issue, does not begin.                                                  *)
download_attachment ==
    /\ saving = None /\ begun < MaxDownloads
    /\ begun' = begun + 1
    /\ saving' = begun + 1
    /\ task' = [id |-> begun + 1, at |-> "picking"]
    /\ UNCHANGED <<cancelled, write, temporary, file, late>>

Finish == saving' = None /\ task' = NoTask

(* A download that is not current any more cleans up and leaves the state  *)
(* of the newer one alone.                                                 *)
attachment_download_is_current(d) == saving = d /\ d \notin cancelled

PickDestination ==
    /\ task.at = "picking"
    /\ \/ task' = [task EXCEPT !.at = "reading"] /\ UNCHANGED saving
       \/ Finish
    /\ UNCHANGED <<cancelled, write, temporary, file, late, begun>>

(* Failures, and content over the limit, end it. *)
ReadContent ==
    /\ task.at = "reading"
    /\ \/ /\ task' = [task EXCEPT !.at = "writing"]
          /\ write' = [write EXCEPT ![task.id] = "queued"]
          /\ UNCHANGED saving
       \/ Finish /\ UNCHANGED write
    /\ UNCHANGED <<cancelled, temporary, file, late, begun>>

\* Mutant: what the write left is renamed, however it ended.
Commit_Always(d) ==
    \/ file' = d /\ temporary' = temporary \ {d}
    \/ temporary' = temporary \ {d} /\ UNCHANGED file

(* The file is renamed, or removed when that fails. *)
Commit(d) ==
    IF write[d] = "written" /\ attachment_download_is_current(d)
    THEN \/ file' = d /\ temporary' = temporary \ {d}
         \/ temporary' = temporary \ {d} /\ UNCHANGED file
    ELSE temporary' = temporary \ {d} /\ UNCHANGED file

Resume ==
    /\ task.at = "writing" /\ write[task.id] \in {"written", "failed"}
    /\ Commit(task.id)
    /\ Finish
    /\ UNCHANGED <<cancelled, write, late, begun>>

(* The task is dropped with the write it waits for, unless a thread has    *)
(* already taken that up.                                                  *)
invalidate_attachment_download ==
    /\ saving # None
    /\ cancelled' = cancelled \cup {saving}
    /\ write' = [d \in Ids |->
                   IF d = saving /\ write[d] = "queued" THEN "none"
                   ELSE write[d]]
    /\ late' = IF write[saving] = "written" THEN late \cup {saving} ELSE late
    /\ Finish
    /\ UNCHANGED <<temporary, file, begun>>

---------------------------------------------------------------------------
(* The background thread: write_attachment_temp *)

OpenTemporary(d) ==
    /\ write[d] = "queued"
    /\ IF d \in cancelled
       THEN write' = [write EXCEPT ![d] = "failed"] /\ UNCHANGED temporary
       ELSE \/ /\ write' = [write EXCEPT ![d] = "open"]
               /\ temporary' = temporary \cup {d}
            \/ write' = [write EXCEPT ![d] = "failed"] /\ UNCHANGED temporary
    /\ UNCHANGED <<saving, task, cancelled, file, late, begun>>

\* Mutant: the token is not looked at once the bytes are written.
EndsWell_AnyToken(d) == TRUE

EndsWell(d) == d \notin cancelled

(* The bytes are written and synced; a token cancelled meanwhile, or a     *)
(* failure, removes the file again.                                        *)
EndWrite(d) ==
    /\ write[d] = "open"
    /\ \/ /\ EndsWell(d)
          /\ write' = [write EXCEPT ![d] = "written"]
          /\ UNCHANGED temporary
       \/ /\ write' = [write EXCEPT ![d] = "failed"]
          /\ temporary' = temporary \ {d}
    /\ UNCHANGED <<saving, task, cancelled, file, late, begun>>

ThreadStep == \E d \in Ids : OpenTemporary(d) \/ EndWrite(d)

DownloadNext ==
    \/ download_attachment \/ PickDestination \/ ReadContent \/ Resume
    \/ invalidate_attachment_download
    \/ ThreadStep

DownloadSpec == DownloadInit /\ [][DownloadNext]_downloadVars

---------------------------------------------------------------------------
(* Properties *)

(* A temporary file belongs to a write under way or to the task that waits *)
(* for it, unless the download was dropped after its write had ended       *)
(* (dashboard.rs:2958-2966, 3058; download.rs:55-82).                      *)
TemporaryFilesHaveAnOwner ==
    \A d \in temporary \ late :
        write[d] = "open" \/ (task.id = d /\ write[d] = "written")

(* The destination is only ever replaced by the complete content of the    *)
(* download that is shown as Saving, never by one that was invalidated     *)
(* (dashboard.rs:2972-2985).                                               *)
OnlyTheCurrentDownloadIsSaved ==
    [][file' # file => file' = saving /\ file' \notin cancelled
                       /\ write[file'] = "written"]_file
=============================================================================
