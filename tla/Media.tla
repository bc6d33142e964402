------------------------------- MODULE Media -------------------------------
(***************************************************************************)
(* The images of a detail: the durable image cache (storage/sqlite/        *)
(* media_cache), the service over it and the gateway (application/         *)
(* issue_media), and the tasks of the dashboard that fill the image states *)
(* of the two surfaces that show a detail: the selected issue, whose       *)
(* images are first taken from the cache alone, and the looked up issue.   *)
(* Replacing a read drops its tasks, so a surface has one loader and the   *)
(* selected issue one hydrator; both belong to the ticket of the read.     *)
(***************************************************************************)
EXTENDS Naturals, Sequences, SequencesExt, FiniteSets, Functions, Absent

CONSTANTS
    Issues,
    Listed,         \* the issues the synchronized lists hold
    Images,
    Unsupported,    \* images whose metadata names no supported format
    Size,           \* the bytes of an image
    Details,        \* what Jira may answer: the images of each document
    FirstCaches,    \* what the cache may hold when the process starts
    MaxEntries,     \* MAX_CACHED_ATTACHMENT_IMAGE_ENTRIES
    MaxTotalBytes,  \* MAX_CACHED_ATTACHMENT_IMAGE_TOTAL_BYTES
    MaxRichImages,
    MaxRichImageBytes,
    MaxMediaReads

ASSUME MediaAssumption ==
    /\ Listed \subseteq Issues /\ None \notin Issues
    /\ Unsupported \subseteq Images
    /\ Size \in [Images -> Nat \ {0}]
    /\ MaxEntries \in Nat \ {0} /\ MaxTotalBytes \in Nat
    /\ MaxRichImages \in Nat \ {0} /\ MaxRichImageBytes \in Nat
    /\ MaxMediaReads \in Nat
    /\ \A d \in Details : d \in Seq(Seq(Images)) /\ d # <<>>

Surfaces == {"selected", "remote"}

VARIABLES
    cache,      \* issue_media_cache in stored_order
    known,      \* the images of the description kept with an issue of the
                \* lists, or with the selected one (selected_issue_core)
    view,       \* detail_state and remote_lookup
    images,     \* selected_image_states, remote_image_states
    loader,     \* detail_task, remote_lookup_task
    hydrator,   \* detail_cache_task
    mediaReads  \* bound

mediaVars == <<cache, known, view, images, loader, hydrator, mediaReads>>

---------------------------------------------------------------------------
(* The durable cache *)

Row(issue, image, valid) == [issue |-> issue, image |-> image, valid |-> valid]
Rows == [issue : Issues, image : Images, valid : BOOLEAN]

rows_of(rows, issue, image) ==
    {n \in DOMAIN rows : rows[n].issue = issue /\ rows[n].image = image}

(* The key of the table admits one row for an image. *)
remove_cached(rows, issue, image) ==
    LET found == rows_of(rows, issue, image)
    IN IF found = {} THEN rows ELSE RemoveAt(rows, CHOOSE n \in found : TRUE)

keys_of(rows) == {<<rows[n].issue, rows[n].image>> : n \in DOMAIN rows}
row_bytes == [k \in Issues \X Images |-> Size[k[2]]]
cache_bytes(rows) == SumFunctionOnSet(row_bytes, keys_of(rows))

(* What the cache holds at any time, as the same code left it: within both *)
(* limits, one row for an image.                                           *)
within_limits(rows) ==
    /\ Len(rows) <= MaxEntries
    /\ cache_bytes(rows) <= MaxTotalBytes
    /\ \A m, n \in DOMAIN rows :
         /\ rows[m].issue = rows[n].issue /\ rows[m].image = rows[n].image
         => m = n

ASSUME CacheAssumption ==
    \A rows \in FirstCaches : rows \in Seq(Rows) /\ within_limits(rows)

\* Mutant: the incoming image is not counted.
has_room_OffByOne(rows, image) ==
    /\ Len(rows) <= MaxEntries
    /\ cache_bytes(rows) + Size[image] <= MaxTotalBytes

has_room(rows, image) ==
    /\ Len(rows) + 1 <= MaxEntries
    /\ cache_bytes(rows) + Size[image] <= MaxTotalBytes

(* The oldest rows go, one after the other, until there is room. *)
evict(rows, image) ==
    LET enough == {n \in 0..Len(rows) :
                     \/ n = Len(rows)
                     \/ has_room(SubSeq(rows, n + 1, Len(rows)), image)}
        gone == CHOOSE n \in enough : \A m \in enough : n <= m
    IN SubSeq(rows, gone + 1, Len(rows))

(* The row of the same image goes first; an image the cache has no room    *)
(* for even when it is empty is refused, and the transaction undone.       *)
cache_attachment_image(issue, image) ==
    LET kept == evict(remove_cached(cache, issue, image), image)
    IN IF cache_bytes(kept) + Size[image] > MaxTotalBytes THEN cache
       ELSE Append(kept, Row(issue, image, TRUE))

---------------------------------------------------------------------------
(* Image states and catalogs *)

ImageState(is, of) == [is |-> is, of |-> of]
Loading == ImageState("loading", None)
Failed == ImageState("failed", None)
Ready(issue) == ImageState("ready", issue)
NoImages == [m \in {} |-> Loading]

ready_in(states) == {m \in DOMAIN states : states[m].is = "ready"}
bytes_of(set) == SumFunctionOnSet(Size, set)

loading_image_states(catalog) == [m \in ToSet(catalog) |-> Loading]

merge_preserving_ready(states, previous) ==
    [m \in DOMAIN states |->
        IF states[m] = Loading /\ m \in ready_in(previous)
        THEN previous[m] ELSE states[m]]

(* Each image once, in the order of the documents, up to the limit. *)
up_to_limit(list) ==
    SubSeq(list, 1, IF Len(list) < MaxRichImages THEN Len(list) ELSE MaxRichImages)
add_image(list, image) ==
    IF image \in ToSet(list) THEN list ELSE Append(list, image)
collect_rich_images(document) == up_to_limit(FoldLeft(add_image, <<>>, document))
add_document(list, document) ==
    FoldLeft(add_image, list, collect_rich_images(document))
collect_detail_images(documents) == up_to_limit(FoldLeft(add_document, <<>>, documents))

View(state, issue, catalog) ==
    [state |-> state, issue |-> issue, catalog |-> catalog]
NoView == View("empty", None, <<>>)

Task(phase, issue, todo, got) ==
    [phase |-> phase, issue |-> issue, todo |-> todo, got |-> got]
Idle == Task("idle", None, <<>>, NoImages)

selected_issue == view["selected"].issue

MediaInit ==
    /\ cache \in FirstCaches
    /\ known \in [Listed -> {None} \cup {d[1] : d \in Details}]
    /\ view = [s \in Surfaces |-> NoView]
    /\ images = [s \in Surfaces |-> NoImages]
    /\ loader = [s \in Surfaces |-> Idle]
    /\ hydrator = Idle
    /\ mediaReads = 0

---------------------------------------------------------------------------
(* Selecting and looking up *)

(* The description kept with the issue in the lists, or with the one that  *)
(* stays selected.                                                         *)
selected_issue_with_cached_detail(issue) ==
    IF issue \in DOMAIN known THEN known[issue] ELSE None

(* The description of an issue in no list goes with its selection. *)
leave_selected == known' = [i \in DOMAIN known \cap Listed |-> known[i]]

\* Mutant: the image states of the issue left behind are kept.
first_images_KeepStates(issue, catalog) == images["selected"]

first_images(issue, catalog) ==
    IF issue # selected_issue \/ catalog = <<>>
    THEN NoImages ELSE images["selected"]

(* The part of select_issue that concerns the detail and its images.  A    *)
(* detail that is shown or under way is read again only by force.          *)
select_issue(issue, force) ==
    LET kept == selected_issue_with_cached_detail(issue)
        catalog == IF kept = None THEN <<>>
                   ELSE collect_detail_images(<<kept>>)
    IN /\ \/ force
          \/ issue # selected_issue
          \/ view["selected"].state \in {"empty", "error"}
       /\ view' = [view EXCEPT !["selected"] =
                     View(IF kept = None THEN "loading" ELSE "refreshing",
                          issue, catalog)]
       /\ images' = [images EXCEPT !["selected"] =
                       first_images(issue, catalog)]
       /\ loader' = [loader EXCEPT !["selected"] =
                       Task("reading", issue, <<>>, NoImages)]
       /\ hydrator' = IF catalog = <<>> THEN Idle
                      ELSE Task("looking", issue, catalog,
                                loading_image_states(catalog))
       /\ mediaReads < MaxMediaReads
       /\ mediaReads' = mediaReads + 1
       /\ IF issue = selected_issue THEN UNCHANGED known ELSE leave_selected
       /\ UNCHANGED cache

remote_idle ==
    /\ view["remote"] = NoView /\ images["remote"] = NoImages
    /\ loader["remote"] = Idle

ClearRemoteLookup ==
    /\ ~remote_idle
    /\ view' = [view EXCEPT !["remote"] = NoView]
    /\ images' = [images EXCEPT !["remote"] = NoImages]
    /\ loader' = [loader EXCEPT !["remote"] = Idle]
    /\ UNCHANGED <<cache, known, hydrator, mediaReads>>

(* Rows and updates clear the lookup before they select. *)
OpenIssue(issue) == remote_idle /\ select_issue(issue, FALSE)

Reload == selected_issue # None /\ select_issue(selected_issue, TRUE)

ClearSelection ==
    /\ selected_issue # None
    /\ view' = [view EXCEPT !["selected"] = NoView]
    /\ images' = [images EXCEPT !["selected"] = NoImages]
    /\ loader' = [loader EXCEPT !["selected"] = Idle]
    /\ hydrator' = Idle
    /\ leave_selected
    /\ UNCHANGED <<cache, mediaReads>>

(* A key that neither the lists nor the selection know is looked up; one   *)
(* they know is selected by force.                                         *)
SearchJira(issue) ==
    IF issue \in DOMAIN known
    THEN remote_idle /\ select_issue(issue, TRUE)
    ELSE /\ view' = [view EXCEPT !["remote"] = View("loading", issue, <<>>)]
         /\ images' = [images EXCEPT !["remote"] = NoImages]
         /\ loader' = [loader EXCEPT !["remote"] =
                         Task("reading", issue, <<>>, NoImages)]
         /\ mediaReads < MaxMediaReads
         /\ mediaReads' = mediaReads + 1
         /\ UNCHANGED <<cache, known, hydrator>>

---------------------------------------------------------------------------
(* The tasks *)

Keep(issue, description) ==
    known' = [i \in DOMAIN known \cup {issue} |->
                IF i = issue THEN description ELSE known[i]]

DetailAnswers(s, detail) ==
    LET issue == loader[s].issue
        catalog == collect_detail_images(detail)
        fresh == loading_image_states(catalog)
    IN /\ loader[s].phase = "reading"
       /\ view' = [view EXCEPT ![s] = View("loaded", issue, catalog)]
       /\ images' = [images EXCEPT ![s] =
                       IF s = "remote" THEN fresh
                       ELSE merge_preserving_ready(fresh, images[s])]
       /\ loader' = [loader EXCEPT ![s] =
                       Task("looking", issue, catalog, NoImages)]
       /\ IF s = "remote" THEN UNCHANGED known ELSE Keep(issue, detail[1])
       /\ UNCHANGED <<cache, hydrator, mediaReads>>

(* What was shown while it was refreshed keeps its images. *)
DetailFails(s) ==
    /\ loader[s].phase = "reading"
    /\ view' = [view EXCEPT ![s] = View("error", view[s].issue, <<>>)]
    /\ images' = [images EXCEPT ![s] =
                    IF view[s].state = "refreshing" THEN images[s]
                    ELSE NoImages]
    /\ loader' = [loader EXCEPT ![s] = Idle]
    /\ UNCHANGED <<cache, known, hydrator, mediaReads>>

(* image_response_preflight: the images of one load fit together. *)
fits(states, image) ==
    bytes_of(ready_in(states)) + Size[image] <= MaxRichImageBytes

next_image(task) == Head(task.todo)
at_image(task, phase) == task.phase = phase /\ task.todo # <<>>

took(task, usable) ==
    LET state == IF usable /\ fits(task.got, next_image(task))
                 THEN Ready(task.issue) ELSE Failed
    IN Task("looking", task.issue, Tail(task.todo),
            [m \in DOMAIN task.got \cup {next_image(task)} |->
                IF m = next_image(task) THEN state ELSE task.got[m]])

Take(s, usable) == loader' = [loader EXCEPT ![s] = took(loader[s], usable)]
GoTo(s, phase) == loader' = [loader EXCEPT ![s].phase = phase]

(* A usable row answers; one that fails validation is removed, by the      *)
(* adapter or the service, and the image fetched.  A worker that fails is  *)
(* passed over.                                                            *)
LookInCache(s) ==
    LET task == loader[s]
        rows == rows_of(cache, task.issue, next_image(task))
    IN /\ at_image(task, "looking")
       /\ IF next_image(task) \in Unsupported
          THEN Take(s, FALSE) /\ UNCHANGED cache
          ELSE \/ /\ \E n \in rows : cache[n].valid
                  /\ Take(s, TRUE) /\ UNCHANGED cache
               \/ /\ \A n \in rows : ~cache[n].valid
                  /\ GoTo(s, "fetching")
                  /\ cache' = remove_cached(cache, task.issue,
                                            next_image(task))
               \/ GoTo(s, "fetching") /\ UNCHANGED cache
       /\ UNCHANGED <<known, view, images, hydrator, mediaReads>>

(* The thumbnail, or the content once it has none.  Bytes that belie their *)
(* declared type are shown, but not cached.                                *)
FetchImage(s, response) ==
    LET task == loader[s]
    IN /\ task.phase \in {"fetching", "falling back"}
       /\ CASE response = "image" -> GoTo(s, "caching")
            [] response = "belied" -> Take(s, TRUE)
            [] response = "missing" /\ task.phase = "fetching" ->
                 GoTo(s, "falling back")
            [] OTHER -> Take(s, FALSE)
       /\ UNCHANGED <<cache, known, view, images, hydrator, mediaReads>>

Responses == {"image", "belied", "missing", "refused"}

(* A cache that fails never turns the response into a failure. *)
StoreInCache(s) ==
    LET task == loader[s]
    IN /\ task.phase = "caching"
       /\ \/ UNCHANGED cache
          \/ cache' = cache_attachment_image(task.issue, next_image(task))
       /\ Take(s, TRUE)
       /\ UNCHANGED <<known, view, images, hydrator, mediaReads>>

FinishLoad(s) ==
    LET task == loader[s]
    IN /\ task.phase = "looking" /\ task.todo = <<>>
       /\ images' = [images EXCEPT ![s] =
                       IF s = "remote" THEN task.got
                       ELSE merge_preserving_ready(task.got, images[s])]
       /\ loader' = [loader EXCEPT ![s] = Idle]
       /\ UNCHANGED <<cache, known, view, hydrator, mediaReads>>

(* The hydrator reads the cache alone and leaves what it misses loading;   *)
(* it weighs each image by itself.                                         *)
Hydrate ==
    LET task == hydrator
        image == next_image(task)
        rows == rows_of(cache, task.issue, image)
        usable == \E n \in rows : cache[n].valid
    IN /\ at_image(task, "looking")
       /\ \/ hydrator' = [task EXCEPT
                !.todo = Tail(@),
                !.got[image] = IF /\ usable /\ image \notin Unsupported
                                  /\ fits(NoImages, image)
                               THEN Ready(task.issue) ELSE @]
             /\ cache' = IF usable \/ image \in Unsupported THEN cache
                         ELSE remove_cached(cache, task.issue, image)
          \/ /\ image \notin Unsupported
             /\ hydrator' = [task EXCEPT !.todo = Tail(@)]
             /\ UNCHANGED cache
       /\ UNCHANGED <<known, view, images, loader, mediaReads>>

\* Mutant: what the hydrator read is shown, however late.
ticket_is_current_Always == TRUE

(* selected_detail_ticket_is_current: the ticket of the hydrator is the    *)
(* loader's, and ends with it.                                             *)
ticket_is_current == loader["selected"] # Idle

FinishHydration ==
    /\ hydrator.phase = "looking" /\ hydrator.todo = <<>>
    /\ hydrator' = Idle
    /\ images' = IF ticket_is_current
                 THEN [images EXCEPT !["selected"] =
                         merge_preserving_ready(hydrator.got, @)]
                 ELSE images
    /\ UNCHANGED <<cache, known, view, loader, mediaReads>>

LoaderStep(s) ==
    \/ \E d \in Details : DetailAnswers(s, d)
    \/ DetailFails(s)
    \/ LookInCache(s)
    \/ \E r \in Responses : FetchImage(s, r)
    \/ StoreInCache(s)
    \/ FinishLoad(s)

HydratorStep == Hydrate \/ FinishHydration

TaskStep == HydratorStep \/ \E s \in Surfaces : LoaderStep(s)

MediaNext ==
    \/ \E i \in Issues : OpenIssue(i) \/ SearchJira(i)
    \/ Reload \/ ClearRemoteLookup \/ ClearSelection
    \/ TaskStep

MediaSpec == MediaInit /\ [][MediaNext]_mediaVars

---------------------------------------------------------------------------
(* Properties *)

(* The image cache stays under its limits of entries and bytes, and has    *)
(* one row for an image, whatever loads and hydrations interleave          *)
(* (media_cache.rs:45).                                                    *)
CacheKeepsItsLimits == within_limits(cache)

(* The bytes shown for an attachment were read for the issue on view, also *)
(* when the selection changed while they were read                         *)
(* (dashboard.rs:2559, detail_view.rs:424).                                *)
ImagesAreOfTheShownIssue ==
    \A s \in Surfaces : \A m \in ready_in(images[s]) :
        images[s][m].of = view[s].issue

(* A detail that is loaded, with no read under way, has no image that      *)
(* still spins: each is ready or failed (dashboard.rs:2788).               *)
NoImageKeepsSpinning ==
    \A s \in Surfaces :
        view[s].state = "loaded" /\ loader[s] = Idle
        => \A n \in DOMAIN view[s].catalog :
             /\ view[s].catalog[n] \in DOMAIN images[s]
             /\ images[s][view[s].catalog[n]] # Loading

(* The images of one authenticated load hold at most MAX_RICH_IMAGE_BYTES  *)
(* together, and so do those of a looked up issue (policy.rs:144).         *)
LoadsKeepTheAggregate ==
    /\ \A s \in Surfaces :
         bytes_of(ready_in(loader[s].got)) <= MaxRichImageBytes
    /\ bytes_of(ready_in(images["remote"])) <= MaxRichImageBytes

(* Both limits of images: those that are kept and those that are loaded.   *)
ImageLimitsHold == CacheKeepsItsLimits /\ LoadsKeepTheAggregate
=============================================================================
