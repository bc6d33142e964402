---------------------------- MODULE Media_proofs ----------------------------
(***************************************************************************)
(* Proofs about the images of details and the files of downloads.  For any *)
(* issues, catalogs, sizes and limits, in any interleaving of selections,  *)
(* loads and hydrations: the cache keeps its limits, the images on view    *)
(* are those of the issue on view, and none spins once its load has ended. *)
(* For any number of downloads, whenever they are invalidated: every       *)
(* temporary file has an owner.                                            *)
(***************************************************************************)
EXTENDS Media, Download, SequenceTheorems, FiniteFolds

-----------------------------------------------------------------------------
(* The invariant *)

\* The types of the state.
Phases == {"idle", "reading", "looking", "fetching", "falling back", "caching"}
States == [is : {"loading", "failed", "ready"}, of : Issues \cup {None}]
ImageStates == UNION {[shown -> States] : shown \in SUBSET Images}
Tasks == [phase : Phases, issue : Issues \cup {None}, todo : Seq(Images), got : ImageStates]
Views == [state : {"empty", "loading", "refreshing", "loaded", "error"},
          issue : Issues \cup {None}, catalog : Seq(Images)]

MediaTypes ==
    /\ cache \in Seq(Rows)
    /\ DOMAIN known \subseteq Issues
    /\ \A i \in DOMAIN known : known[i] # None => known[i] \in Seq(Images)
    /\ view \in [Surfaces -> Views]
    /\ images \in [Surfaces -> ImageStates]
    /\ loader \in [Surfaces -> Tasks]
    /\ hydrator \in Tasks

\* What a load has got so far: images of its issue, none of them still loading.
Settled(load) ==
    \A m \in DOMAIN load.got :
        /\ load.got[m].is # "loading"
        /\ load.got[m].is = "ready" => load.got[m].of = load.issue

\* A load belongs to the issue on view. What it has got and what it has still to do
\* cover the catalog on view, and the images it has got fit together.
LoadOf(load, shown) ==
    /\ load.phase = "idle" => load = Idle
    /\ load.phase # "idle" => load.issue \in Issues /\ load.issue = shown.issue
    /\ Settled(load) /\ IsFiniteSet(DOMAIN load.got)
    /\ load.phase \in {"fetching", "falling back", "caching"} => load.todo # <<>>
    /\ load.phase \notin {"idle", "reading"} =>
         ToSet(shown.catalog) \subseteq DOMAIN load.got \cup ToSet(load.todo)
    /\ bytes_of(ready_in(load.got)) <= MaxRichImageBytes

\* So does a hydration, which may leave images loading and weighs each by itself.
HydrationOf(load, shown) ==
    /\ load.phase # "idle" => load.issue \in Issues /\ load.issue = shown.issue
    /\ \A m \in ready_in(load.got) : load.got[m].of = load.issue

\* What is shown on a surface, with its load.
Shows(s, shown, states, load) ==
    /\ LoadOf(load, shown)
    /\ \A m \in ready_in(states) : states[m].of = shown.issue
    /\ shown.state = "loaded" /\ load = Idle =>
         \A n \in DOMAIN shown.catalog :
            /\ shown.catalog[n] \in DOMAIN states
            /\ states[shown.catalog[n]] # Loading
    /\ s = "remote" => bytes_of(ready_in(states)) <= MaxRichImageBytes

MediaInv ==
    /\ MediaTypes /\ within_limits(cache)
    /\ \A s \in Surfaces : Shows(s, view[s], images[s], loader[s])
    /\ HydrationOf(hydrator, view["selected"])

-----------------------------------------------------------------------------
(* Collecting the images of a detail *)

\* Adding images to a list keeps it a list of images.
LEMMA AddsImages ==
  ASSUME NEW list \in Seq(Images), NEW document \in Seq(Images)
  PROVE  FoldLeft(add_image, list, document) \in Seq(Images)
<1> DEFINE S == DOMAIN document
           V == Seq(Images)
           pick == [s \in SUBSET S |-> Max(s)]
           step == [p \in S \X V |-> add_image(p[2], document[p[1]])]
           Iter(h) == [s \in SUBSET S |->
                         IF s = {} THEN list
                         ELSE add_image(h[s \ {Max(s)}], document[Max(s)])]
           c == CHOOSE h : h = Iter(h)
<1>1. FoldLeft(add_image, list, document) = c[S]
  BY Zenon DEF FoldLeft, MapThenFoldSet
<1>2. S = 1 .. Len(document) /\ IsFiniteSet(S)
  BY FS_Interval
<1>3. \A s \in SUBSET S : s # {} => pick[s] = Max(s) /\ pick[s] \in s
  <2> SUFFICES ASSUME NEW s \in SUBSET S, s # {} PROVE Max(s) \in s
    OBVIOUS
  <2>1. Len(document) \in Nat /\ s \in SUBSET (1 .. Len(document))
    BY <1>2
  <2> QED
    BY <2>1, Greatest
<1>4. Picks(pick, S)
  BY <1>3 DEF Picks
<1>5. \A x \in S, l \in V : add_image(l, document[x]) \in V
  BY DEF add_image
<1>6. step \in [S \X V -> V] /\ \A x \in S, l \in V : step[<<x, l>>] = add_image(l, document[x])
  BY <1>5
<1> HIDE DEF step, pick, V, S
<1>7. PICK g \in [SUBSET S -> V] : IsFold(g, S, list, step, pick)
  <2>1. list \in V
    BY DEF V
  <2> QED
    BY <1>2, <1>4, <1>6, <2>1, FoldExists
<1>8. g = Iter(g)
  <2>1. ASSUME NEW s \in SUBSET S
        PROVE  g[s] = IF s = {} THEN list ELSE add_image(g[s \ {Max(s)}], document[Max(s)])
    <3>1. CASE s = {}
      BY <1>7, <3>1 DEF IsFold
    <3>2. CASE s # {}
      <4>1. g[s] = step[<<pick[s], g[s \ {pick[s]}]>>]
        BY <1>7, <3>2 DEF IsFold
      <4>2. pick[s] = Max(s) /\ pick[s] \in S /\ g[s \ {pick[s]}] \in V
        BY <1>3, <3>2
      <4> QED
        BY <1>6, <3>2, <4>1, <4>2
    <3> QED
      BY <3>1, <3>2
  <2> QED
    BY <2>1
<1>9. c = Iter(c)
  <2> HIDE DEF Iter
  <2> QED
    BY <1>8, Zenon
<1> HIDE DEF c
<1>10. \A s \in SUBSET S :
         c[s] = IF s = {} THEN list ELSE add_image(c[s \ {Max(s)}], document[Max(s)])
  BY <1>9, Zenon
<1> DEFINE P == {s \in SUBSET S : c[s] \in V}
<1>11. {} \in P
  BY <1>10 DEF V
<1>12. ASSUME NEW s \in SUBSET S, s # {}, s \ {pick[s]} \in P PROVE s \in P
  <2>1. pick[s] = Max(s) /\ pick[s] \in S
    BY <1>3, <1>12
  <2>2. c[s] = add_image(c[s \ {pick[s]}], document[pick[s]])
    BY <1>10, <1>12, <2>1
  <2> QED
    BY <1>5, <1>12, <2>1, <2>2
<1>13. S \in P
  <2>1. SUBSET S \subseteq P
    <3> HIDE DEF P
    <3> QED
      BY <1>2, <1>4, <1>11, <1>12, PickInduction
  <2> QED
    BY <2>1
<1> QED
  BY <1>1, <1>13 DEF V

\* A list up to the limit is a list of the same things.
LEMMA LimitedList ==
  ASSUME NEW X, NEW list \in Seq(X)
  PROVE  up_to_limit(list) \in Seq(X)
BY MediaAssumption DEF up_to_limit

\* So the images of a document are a list of images.
LEMMA CollectsImages ==
  ASSUME NEW document \in Seq(Images)
  PROVE  collect_rich_images(document) \in Seq(Images)
<1>1. FoldLeft(add_image, <<>>, document) \in Seq(Images)
  <2>1. <<>> \in Seq(Images)
    OBVIOUS
  <2> QED
    BY <2>1, AddsImages, Zenon
<1> QED
  BY <1>1, LimitedList DEF collect_rich_images

\* And so does adding the images of documents.
LEMMA AddsDocuments ==
  ASSUME NEW documents \in Seq(Seq(Images))
  PROVE  FoldLeft(add_document, <<>>, documents) \in Seq(Images)
<1> DEFINE S == DOMAIN documents
           V == Seq(Images)
           pick == [s \in SUBSET S |-> Max(s)]
           step == [p \in S \X V |-> add_document(p[2], documents[p[1]])]
           Iter(h) == [s \in SUBSET S |->
                         IF s = {} THEN <<>>
                         ELSE add_document(h[s \ {Max(s)}], documents[Max(s)])]
           c == CHOOSE h : h = Iter(h)
<1>1. FoldLeft(add_document, <<>>, documents) = c[S]
  BY Zenon DEF FoldLeft, MapThenFoldSet
<1>2. S = 1 .. Len(documents) /\ IsFiniteSet(S)
  BY FS_Interval
<1>3. \A s \in SUBSET S : s # {} => pick[s] = Max(s) /\ pick[s] \in s
  <2> SUFFICES ASSUME NEW s \in SUBSET S, s # {} PROVE Max(s) \in s
    OBVIOUS
  <2>1. Len(documents) \in Nat /\ s \in SUBSET (1 .. Len(documents))
    BY <1>2
  <2> QED
    BY <2>1, Greatest
<1>4. Picks(pick, S)
  BY <1>3 DEF Picks
<1>5. \A x \in S, l \in V : add_document(l, documents[x]) \in V
  <2> SUFFICES ASSUME NEW x \in S, NEW l \in V PROVE add_document(l, documents[x]) \in V
    OBVIOUS
  <2>1. documents[x] \in Seq(Images)
    OBVIOUS
  <2>2. collect_rich_images(documents[x]) \in Seq(Images)
    BY <2>1, CollectsImages
  <2> QED
    BY <2>2, AddsImages DEF add_document
<1>6. step \in [S \X V -> V] /\ \A x \in S, l \in V : step[<<x, l>>] = add_document(l, documents[x])
  BY <1>5
<1>0. <<>> \in V
  OBVIOUS
<1> HIDE DEF step, pick, V, S
<1>7. PICK g \in [SUBSET S -> V] : IsFold(g, S, <<>>, step, pick)
  BY <1>0, <1>2, <1>4, <1>6, FoldExists
<1>8. g = Iter(g)
  <2>1. ASSUME NEW s \in SUBSET S
        PROVE  g[s] = IF s = {} THEN <<>> ELSE add_document(g[s \ {Max(s)}], documents[Max(s)])
    <3>1. CASE s = {}
      BY <1>7, <3>1 DEF IsFold
    <3>2. CASE s # {}
      <4>1. g[s] = step[<<pick[s], g[s \ {pick[s]}]>>]
        BY <1>7, <3>2 DEF IsFold
      <4>2. pick[s] = Max(s) /\ pick[s] \in S /\ g[s \ {pick[s]}] \in V
        BY <1>3, <3>2
      <4> QED
        BY <1>6, <3>2, <4>1, <4>2
    <3> QED
      BY <3>1, <3>2
  <2> QED
    BY <2>1
<1>9. c = Iter(c)
  <2> HIDE DEF Iter
  <2> QED
    BY <1>8, Zenon
<1> HIDE DEF c
<1>10. \A s \in SUBSET S :
         c[s] = IF s = {} THEN <<>> ELSE add_document(c[s \ {Max(s)}], documents[Max(s)])
  BY <1>9, Zenon
<1> DEFINE P == {s \in SUBSET S : c[s] \in V}
<1>11. {} \in P
  BY <1>0, <1>10
<1>12. ASSUME NEW s \in SUBSET S, s # {}, s \ {pick[s]} \in P PROVE s \in P
  <2>1. pick[s] = Max(s) /\ pick[s] \in S
    BY <1>3, <1>12
  <2>2. c[s] = add_document(c[s \ {pick[s]}], documents[pick[s]])
    BY <1>10, <1>12, <2>1
  <2> QED
    BY <1>5, <1>12, <2>1, <2>2
<1>13. S \in P
  <2>1. SUBSET S \subseteq P
    <3> HIDE DEF P
    <3> QED
      BY <1>2, <1>4, <1>11, <1>12, PickInduction
  <2> QED
    BY <2>1
<1> QED
  BY <1>1, <1>13 DEF V

\* So the catalog of a detail is a list of images.
LEMMA CollectsDetail ==
  ASSUME NEW documents \in Seq(Seq(Images))
  PROVE  collect_detail_images(documents) \in Seq(Images)
BY AddsDocuments, LimitedList DEF collect_detail_images

-----------------------------------------------------------------------------
(* The cache under its limits *)

\* The keys of the rows are finitely many.
LEMMA KeysAreFinite ==
  ASSUME NEW rows \in Seq(Rows)
  PROVE  keys_of(rows) \in SUBSET (Issues \X Images) /\ IsFiniteSet(keys_of(rows))
<1>1. keys_of(rows) \in SUBSET (Issues \X Images)
  <2>1. \A n \in DOMAIN rows : rows[n] \in Rows
    OBVIOUS
  <2>2. \A n \in DOMAIN rows : <<rows[n].issue, rows[n].image>> \in Issues \X Images
    BY <2>1 DEF Rows
  <2> QED
    BY <2>2 DEF keys_of
<1> DEFINE key == [n \in DOMAIN rows |-> <<rows[n].issue, rows[n].image>>]
<1>2. key \in Surjection(DOMAIN rows, keys_of(rows))
  BY DEF keys_of, Surjection
<1>3. IsFiniteSet(DOMAIN rows)
  BY FS_Interval
<1> QED
  BY <1>1, <1>2, <1>3, FS_Surjection

\* A row weighs what its image does.
LEMMA RowsWeigh ==
  /\ \A k \in Issues \X Images : row_bytes[k] \in Nat
  /\ \A i \in Issues, m \in Images : row_bytes[<<i, m>>] = Size[m]
BY MediaAssumption DEF row_bytes

\* What is left of a cache when rows are taken out is within the limits.
LEMMA PartOfCache ==
  ASSUME NEW rows \in Seq(Rows), within_limits(rows), NEW part \in Seq(Rows),
         Len(part) <= Len(rows), NEW at \in [DOMAIN part -> DOMAIN rows],
         \A m, n \in DOMAIN part : at[m] = at[n] => m = n,
         \A n \in DOMAIN part : part[n] = rows[at[n]]
  PROVE  within_limits(part)
<1>1. Len(part) <= MaxEntries
  BY MediaAssumption DEF within_limits
<1>2. keys_of(part) \subseteq keys_of(rows)
  BY DEF keys_of
<1>3. cache_bytes(part) <= cache_bytes(rows)
  BY <1>2, KeysAreFinite, RowsWeigh, SumOfPart DEF cache_bytes
<1>4. cache_bytes(part) \in Nat /\ cache_bytes(rows) \in Nat
  BY KeysAreFinite, RowsWeigh, SumType DEF cache_bytes
<1>5. cache_bytes(part) <= MaxTotalBytes
  BY <1>3, <1>4, MediaAssumption DEF within_limits
<1>6. \A m, n \in DOMAIN part :
         part[m].issue = part[n].issue /\ part[m].image = part[n].image => m = n
  BY DEF within_limits
<1> QED
  BY <1>1, <1>5, <1>6 DEF within_limits

\* Removing the row of an image keeps the limits, and no row of it is left.
LEMMA RemovesFromCache ==
  ASSUME NEW rows \in Seq(Rows), within_limits(rows), NEW issue, NEW image
  PROVE  LET kept == remove_cached(rows, issue, image)
         IN  /\ kept \in Seq(Rows) /\ within_limits(kept)
             /\ \A n \in DOMAIN kept : kept[n].issue # issue \/ kept[n].image # image
<1> DEFINE found == rows_of(rows, issue, image)
           kept == remove_cached(rows, issue, image)
           goal == /\ kept \in Seq(Rows) /\ within_limits(kept)
                   /\ \A n \in DOMAIN kept : kept[n].issue # issue \/ kept[n].image # image
<1>1. CASE found = {}
  BY <1>1 DEF remove_cached, rows_of
<1>2. CASE found # {}
  <2> DEFINE k == CHOOSE n \in found : TRUE
  <2>1. k \in found
    BY <1>2
  <2>2. kept = SubSeq(rows, 1, k - 1) \o SubSeq(rows, k + 1, Len(rows))
    BY <1>2 DEF remove_cached, RemoveAt
  <2> HIDE DEF k
  <2>3. /\ k \in 1 .. Len(rows) /\ rows[k].issue = issue /\ rows[k].image = image
        /\ Len(rows) \in Nat
    BY <2>1 DEF rows_of
  <2> HIDE DEF found
  <2> DEFINE at == [n \in 1 .. Len(rows) - 1 |-> IF n < k THEN n ELSE n + 1]
  <2> DEFINE left == SubSeq(rows, 1, k - 1)
             right == SubSeq(rows, k + 1, Len(rows))
  <2>a. /\ left \in Seq(Rows) /\ Len(left) = k - 1
        /\ \A n \in 1 .. k - 1 : left[n] = rows[n]
    BY <2>3
  <2>b. /\ right \in Seq(Rows) /\ Len(right) = Len(rows) - k
        /\ \A n \in 1 .. Len(rows) - k : right[n] = rows[k + n]
    BY <2>3
  <2> HIDE DEF left, right
  <2>c. /\ left \o right \in Seq(Rows)
        /\ Len(left \o right) = Len(left) + Len(right)
        /\ \A n \in 1 .. Len(left) : (left \o right)[n] = left[n]
        /\ \A n \in 1 .. Len(right) : (left \o right)[Len(left) + n] = right[n]
    <3>1. left \in Seq(Rows) /\ right \in Seq(Rows)
      BY <2>a, <2>b
    <3> QED
      BY <3>1, ConcatProperties
  <2>d. kept = left \o right
    BY <2>2 DEF left, right
  <2> HIDE DEF kept
  <2>4. kept \in Seq(Rows) /\ Len(kept) = Len(rows) - 1
    <3>1. Len(kept) = (k - 1) + (Len(rows) - k)
      BY <2>a, <2>b, <2>c, <2>d
    <3>2. kept \in Seq(Rows)
      BY <2>c, <2>d
    <3> QED
      BY <2>3, <3>1, <3>2
  <2>5. \A n \in 1 .. Len(rows) - 1 : kept[n] = rows[at[n]]
    <3> SUFFICES ASSUME NEW n \in 1 .. Len(rows) - 1 PROVE kept[n] = rows[at[n]]
      OBVIOUS
    <3>1. CASE n < k
      BY <3>1, <2>3, <2>a, <2>c, <2>d
    <3>2. CASE ~ n < k
      <4>1. n - (k - 1) \in 1 .. Len(right) /\ Len(left) + (n - (k - 1)) = n
        BY <3>2, <2>3, <2>a, <2>b
      <4>2. kept[n] = right[n - (k - 1)]
        BY <4>1, <2>c, <2>d
      <4>3. right[n - (k - 1)] = rows[k + (n - (k - 1))] /\ k + (n - (k - 1)) = n + 1
        BY <4>1, <2>3, <2>b
      <4> QED
        BY <3>2, <4>2, <4>3
    <3> QED
      BY <3>1, <3>2
  <2>6. DOMAIN kept = 1 .. Len(rows) - 1 /\ at \in [DOMAIN kept -> DOMAIN rows]
    BY <2>3, <2>4
  <2>7. \A m, n \in DOMAIN kept : at[m] = at[n] => m = n
    BY <2>3, <2>6
  <2>8. \A n \in DOMAIN kept : at[n] # k
    BY <2>3, <2>6
  <2> HIDE DEF at
  <2>9. within_limits(kept)
    <3>1. Len(kept) <= Len(rows)
      BY <2>3, <2>4
    <3>2. \A n \in DOMAIN kept : kept[n] = rows[at[n]]
      BY <2>5, <2>6
    <3> QED
      BY <3>1, <3>2, <2>4, <2>6, <2>7, PartOfCache
  <2>10. \A n \in DOMAIN kept : kept[n].issue # issue \/ kept[n].image # image
    BY <2>3, <2>5, <2>6, <2>8 DEF within_limits
  <2> QED
    BY <2>4, <2>9, <2>10 DEF kept
<1>3. goal
  BY <1>1, <1>2
<1> QED
  BY <1>3

\* Rows leave until there is room or none is left.
LEMMA EvictionMakesRoom ==
  ASSUME NEW rows \in Seq(Rows), within_limits(rows), NEW image
  PROVE  LET kept == evict(rows, image)
         IN  /\ kept \in Seq(Rows) /\ within_limits(kept)
             /\ \A n \in DOMAIN kept : \E k \in DOMAIN rows : kept[n] = rows[k]
             /\ kept = <<>> \/ has_room(kept, image)
<1> DEFINE enough == {n \in 0 .. Len(rows) :
                        n = Len(rows) \/ has_room(SubSeq(rows, n + 1, Len(rows)), image)}
           gone == CHOOSE n \in enough : \A m \in enough : n <= m
           kept == SubSeq(rows, gone + 1, Len(rows))
           at == [n \in DOMAIN kept |-> gone + n]
<1>1. enough # {} /\ enough \in SUBSET Nat
  BY LenProperties
<1>2. gone \in enough
  <2> HIDE DEF enough
  <2>1. \E n \in enough : \A m \in enough : n <= m
    BY <1>1, Least
  <2> QED
    BY <2>1
<1>3. evict(rows, image) = kept
  BY DEF evict
<1>4. gone \in 0 .. Len(rows) /\ Len(rows) \in Nat
      /\ (gone = Len(rows) \/ has_room(kept, image))
  BY <1>2
<1> HIDE DEF gone, enough
<1>5. /\ kept \in Seq(Rows) /\ Len(kept) = Len(rows) - gone
      /\ \A n \in 1 .. Len(kept) : kept[n] = rows[gone + n]
  BY <1>4
<1> HIDE DEF kept
<1>6. ASSUME gone = Len(rows) PROVE kept = <<>>
  <2>1. Len(rows) \in Nat /\ Len(kept) = Len(rows) - Len(rows)
    BY <1>4, <1>5, <1>6, Zenon
  <2>2. PICK n \in Nat : n = Len(rows)
    BY <2>1
  <2>3. Len(kept) = n - n
    BY <2>1, <2>2, Zenon
  <2> QED
    BY <1>5, <2>3, EmptySeq
<1>7. /\ at \in [DOMAIN kept -> DOMAIN rows]
      /\ \A m, n \in DOMAIN kept : at[m] = at[n] => m = n
      /\ \A n \in DOMAIN kept : kept[n] = rows[at[n]]
  BY <1>4, <1>5
<1> HIDE DEF at
<1>8. within_limits(kept)
  <2>1. Len(kept) <= Len(rows) /\ kept \in Seq(Rows)
    BY <1>4, <1>5
  <2> QED
    BY <1>7, <2>1, PartOfCache
<1>9. \A n \in DOMAIN kept : \E k \in DOMAIN rows : kept[n] = rows[k]
  BY <1>7
<1> QED
  BY <1>3, <1>4, <1>5, <1>6, <1>8, <1>9

\* An image that is stored leaves the cache within its limits.
LEMMA StoringKeepsLimits ==
  ASSUME cache \in Seq(Rows), within_limits(cache), NEW issue \in Issues, NEW image \in Images
  PROVE  LET new == cache_attachment_image(issue, image)
         IN  new \in Seq(Rows) /\ within_limits(new)
<1> DEFINE rest == remove_cached(cache, issue, image)
           kept == evict(rest, image)
           row == Row(issue, image, TRUE)
           new == Append(kept, row)
<1>1. /\ rest \in Seq(Rows) /\ within_limits(rest)
      /\ \A n \in DOMAIN rest : rest[n].issue # issue \/ rest[n].image # image
  BY RemovesFromCache
<1>2. /\ kept \in Seq(Rows) /\ within_limits(kept)
      /\ \A n \in DOMAIN kept : \E k \in DOMAIN rest : kept[n] = rest[k]
      /\ kept = <<>> \/ has_room(kept, image)
  <2> HIDE DEF rest
  <2> QED
    BY <1>1, EvictionMakesRoom
<1>3. \A n \in DOMAIN kept : kept[n].issue # issue \/ kept[n].image # image
  BY <1>1, <1>2
<1>4. cache_attachment_image(issue, image) =
        IF cache_bytes(kept) + Size[image] > MaxTotalBytes THEN cache ELSE new
  BY DEF cache_attachment_image
<1> HIDE DEF kept, rest
<1>5. CASE cache_bytes(kept) + Size[image] > MaxTotalBytes
  BY <1>4, <1>5
<1>6. CASE ~ cache_bytes(kept) + Size[image] > MaxTotalBytes
  <2>1. row \in Rows /\ row.issue = issue /\ row.image = image
    BY DEF Row, Rows
  <2> HIDE DEF row
  <2>2. /\ new \in Seq(Rows) /\ Len(new) = Len(kept) + 1 /\ Len(kept) \in Nat
        /\ \A n \in 1 .. Len(kept) : new[n] = kept[n]
        /\ new[Len(kept) + 1] = row
    BY <1>2, <2>1
  <2> HIDE DEF new
  <2>3. Len(new) <= MaxEntries
    BY <1>2, <2>2, MediaAssumption DEF has_room
  <2>4. keys_of(new) = keys_of(kept) \cup {<<issue, image>>}
    <3>1. /\ DOMAIN new = 1 .. Len(new) /\ DOMAIN kept = 1 .. Len(kept)
          /\ \A n \in 1 .. Len(new) : n \in 1 .. Len(kept) \/ n = Len(kept) + 1
          /\ \A n \in 1 .. Len(kept) : n \in 1 .. Len(new)
          /\ Len(kept) + 1 \in 1 .. Len(new)
      BY <1>2, <2>2
    <3>2. \A n \in DOMAIN new : <<new[n].issue, new[n].image>>
                                \in keys_of(kept) \cup {<<issue, image>>}
      BY <2>1, <2>2, <3>1 DEF keys_of
    <3>3. \A n \in DOMAIN kept : <<kept[n].issue, kept[n].image>> \in keys_of(new)
      BY <2>2, <3>1 DEF keys_of
    <3>4. <<issue, image>> \in keys_of(new)
      BY <2>1, <2>2, <3>1 DEF keys_of
    <3> QED
      BY <3>2, <3>3, <3>4 DEF keys_of
  <2>5. cache_bytes(new) <= cache_bytes(kept) + Size[image]
    <3>1. IsFiniteSet(keys_of(kept)) /\ keys_of(kept) \in SUBSET (Issues \X Images)
      BY <1>2, KeysAreFinite
    <3>2. \A y \in keys_of(kept) \cup {<<issue, image>>} : row_bytes[y] \in Nat
      BY <3>1, RowsWeigh
    <3>3. cache_bytes(new) <= cache_bytes(kept) + row_bytes[<<issue, image>>]
      BY <2>4, <3>1, <3>2, SumWithOne DEF cache_bytes
    <3> QED
      BY <3>3, RowsWeigh
  <2>6. cache_bytes(new) \in Nat /\ cache_bytes(kept) \in Nat /\ Size[image] \in Nat
    BY <1>2, <2>2, KeysAreFinite, RowsWeigh, SumType, MediaAssumption DEF cache_bytes
  <2>7. cache_bytes(new) <= MaxTotalBytes
    BY <1>6, <2>5, <2>6, MediaAssumption
  <2>8. \A m, n \in DOMAIN new :
           new[m].issue = new[n].issue /\ new[m].image = new[n].image => m = n
    <3> SUFFICES ASSUME NEW m \in 1 .. Len(new), NEW n \in 1 .. Len(new),
                        new[m].issue = new[n].issue, new[m].image = new[n].image
                 PROVE  m = n
      BY <2>2
    <3>1. \A k \in 1 .. Len(new) : k \in 1 .. Len(kept) \/ k = Len(kept) + 1
      BY <2>2
    <3>2. DOMAIN kept = 1 .. Len(kept)
      BY <1>2
    <3> QED
      BY <1>2, <1>3, <2>1, <2>2, <3>1, <3>2 DEF within_limits
  <2>9. within_limits(new)
    BY <2>3, <2>7, <2>8 DEF within_limits
  <2> QED
    BY <1>4, <1>6, <2>2, <2>9
<1> QED
  BY <1>5, <1>6

-----------------------------------------------------------------------------
(* Image states, views and loads *)

\* Image states are functions on some of the images.
LEMMA ImageStatesAre ==
  /\ \A states \in ImageStates :
       DOMAIN states \in SUBSET Images /\ \A m \in DOMAIN states : states[m] \in States
  /\ \A D \in SUBSET Images : [D -> States] \subseteq ImageStates
BY DEF ImageStates

\* No images at all are image states, and weigh nothing.
LEMMA NoImagesIs ==
  /\ NoImages \in ImageStates /\ DOMAIN NoImages = {} /\ ready_in(NoImages) = {}
  /\ bytes_of({}) = 0
<1>1. NoImages \in [{} -> States]
  BY DEF NoImages
<1>2. bytes_of({}) = 0
  BY SumOfNone DEF bytes_of
<1> QED
  BY <1>1, <1>2, ImageStatesAre DEF NoImages, ready_in

LEMMA StatesAre ==
  /\ Loading \in States /\ Loading.is = "loading"
  /\ Failed \in States /\ Failed.is = "failed"
  /\ \A issue \in Issues :
       Ready(issue) \in States /\ Ready(issue).is = "ready" /\ Ready(issue).of = issue
BY DEF Loading, Failed, Ready, ImageState, States

\* The images of a catalog are finitely many.
LEMMA ToSetIs ==
  ASSUME NEW list \in Seq(Images)
  PROVE  /\ ToSet(list) \in SUBSET Images /\ IsFiniteSet(ToSet(list))
         /\ \A n \in DOMAIN list : list[n] \in ToSet(list)
<1>1. list \in Surjection(DOMAIN list, ToSet(list))
  BY DEF Surjection, ToSet
<1>2. IsFiniteSet(DOMAIN list)
  BY FS_Interval
<1>3. ToSet(list) \in SUBSET Images /\ \A n \in DOMAIN list : list[n] \in ToSet(list)
  BY DEF ToSet
<1> QED
  BY <1>1, <1>2, <1>3, FS_Surjection

\* A fresh catalog has every image loading.
LEMMA FreshIs ==
  ASSUME NEW catalog \in Seq(Images)
  PROVE  LET fresh == loading_image_states(catalog)
         IN  /\ fresh \in ImageStates /\ DOMAIN fresh = ToSet(catalog)
             /\ \A m \in ToSet(catalog) : fresh[m] = Loading
             /\ ready_in(fresh) = {}
<1>1. loading_image_states(catalog) \in [ToSet(catalog) -> States]
  BY StatesAre DEF loading_image_states
<1> QED
  BY <1>1, ToSetIs, ImageStatesAre, StatesAre DEF loading_image_states, ready_in

\* Merging keeps what is settled and adds nothing that was not ready before.
LEMMA MergeIs ==
  ASSUME NEW states \in ImageStates, NEW previous \in ImageStates
  PROVE  LET merged == merge_preserving_ready(states, previous)
         IN  /\ merged \in ImageStates /\ DOMAIN merged = DOMAIN states
             /\ \A m \in DOMAIN states : states[m] # Loading => merged[m] = states[m]
             /\ \A m \in ready_in(merged) :
                  \/ m \in ready_in(states) /\ merged[m] = states[m]
                  \/ m \in ready_in(previous) /\ merged[m] = previous[m]
<1> DEFINE merged == merge_preserving_ready(states, previous)
<1>1. /\ DOMAIN merged = DOMAIN states
      /\ \A m \in DOMAIN states :
           merged[m] = IF states[m] = Loading /\ m \in ready_in(previous)
                       THEN previous[m] ELSE states[m]
  BY DEF merge_preserving_ready
<1>2. \A m \in DOMAIN states : merged[m] \in States
  BY <1>1, ImageStatesAre DEF ready_in
<1>3. merged \in [DOMAIN states -> States]
  BY <1>2 DEF merge_preserving_ready
<1>4. merged \in ImageStates
  BY <1>3, ImageStatesAre
<1>5. \A m \in DOMAIN states : states[m] # Loading => merged[m] = states[m]
  BY <1>1
<1>6. \A m \in ready_in(merged) :
        \/ m \in ready_in(states) /\ merged[m] = states[m]
        \/ m \in ready_in(previous) /\ merged[m] = previous[m]
  BY <1>1 DEF ready_in
<1> QED
  BY <1>1, <1>4, <1>5, <1>6

LEMMA IdleIs == Idle \in Tasks /\ Idle.phase = "idle" /\ Idle.got = NoImages
BY NoImagesIs DEF Idle, Task, Tasks, Phases

\* What is ready in a load has a size.
LEMMA BytesAre ==
  ASSUME NEW states \in ImageStates, IsFiniteSet(DOMAIN states)
  PROVE  /\ IsFiniteSet(ready_in(states)) /\ ready_in(states) \in SUBSET Images
         /\ bytes_of(ready_in(states)) \in Nat
<1>1. IsFiniteSet(ready_in(states)) /\ ready_in(states) \in SUBSET Images
  BY FS_Subset, ImageStatesAre DEF ready_in
<1>2. \A m \in ready_in(states) : Size[m] \in Nat
  BY <1>1, MediaAssumption
<1> QED
  BY <1>1, <1>2, SumType DEF bytes_of

\* The load that begins, and the one that has ended, for any view.
LEMMA BeginsAndEnds ==
  ASSUME NEW shown, NEW issue \in Issues
  PROVE  /\ LoadOf(Idle, shown)
         /\ shown.issue = issue => LoadOf(Task("reading", issue, <<>>, NoImages), shown)
         /\ Task("reading", issue, <<>>, NoImages) \in Tasks
         /\ Task("reading", issue, <<>>, NoImages) # Idle
<1>1. Task("reading", issue, <<>>, NoImages) \in Tasks
  BY NoImagesIs DEF Task, Tasks, Phases
<1>2. IsFiniteSet({})
  BY FS_EmptySet
<1>3. MaxRichImageBytes \in Nat
  BY MediaAssumption
<1>4. LoadOf(Idle, shown)
  <2>1. Idle.phase = "idle" /\ Idle.got = NoImages
    BY DEF Idle, Task
  <2>2. Settled(Idle)
    BY <2>1, NoImagesIs DEF Settled
  <2> QED
    BY <1>2, <1>3, <2>1, <2>2, NoImagesIs DEF LoadOf
<1>5. shown.issue = issue => LoadOf(Task("reading", issue, <<>>, NoImages), shown)
  <2> DEFINE load == Task("reading", issue, <<>>, NoImages)
  <2>1. load.phase = "reading" /\ load.got = NoImages /\ load.issue = issue
    BY DEF Task
  <2> HIDE DEF load
  <2>2. Settled(load)
    BY <2>1, NoImagesIs DEF Settled
  <2>3. shown.issue = issue => LoadOf(load, shown)
    BY <1>2, <1>3, <2>1, <2>2, NoImagesIs DEF LoadOf
  <2> QED
    BY <2>3 DEF load
<1> QED
  BY <1>1, <1>4, <1>5 DEF Idle, Task

\* A load takes an image in: it stays settled, and within the limit.
LEMMA TookIs ==
  ASSUME NEW load \in Tasks, NEW shown, LoadOf(load, shown), NEW usable \in BOOLEAN,
         load.todo # <<>>, load.phase \notin {"idle", "reading"}
  PROVE  LET new == took(load, usable)
         IN  new \in Tasks /\ LoadOf(new, shown) /\ new # Idle
<1> DEFINE image == next_image(load)
           state == IF usable /\ fits(load.got, image) THEN Ready(load.issue) ELSE Failed
           got == [m \in DOMAIN load.got \cup {image} |->
                     IF m = image THEN state ELSE load.got[m]]
           new == took(load, usable)
<1>1. /\ load.got \in ImageStates /\ load.todo \in Seq(Images)
      /\ load.issue \in Issues /\ load.issue = shown.issue
  BY DEF Tasks, LoadOf
<1>2. image \in Images /\ Tail(load.todo) \in Seq(Images)
  BY <1>1 DEF next_image
<1>3. ToSet(load.todo) \subseteq {image} \cup ToSet(Tail(load.todo))
  <2>1. ASSUME NEW n \in DOMAIN load.todo
        PROVE  load.todo[n] \in {image} \cup ToSet(Tail(load.todo))
    <3>1. CASE n = 1
      BY <3>1, <1>1 DEF next_image
    <3>2. CASE n # 1
      <4>1. n - 1 \in DOMAIN Tail(load.todo) /\ Tail(load.todo)[n - 1] = load.todo[n]
        BY <3>2, <1>1
      <4> QED
        BY <4>1, <1>2, ToSetIs
    <3> QED
      BY <3>1, <3>2
  <2> QED
    BY <2>1 DEF ToSet
<1>4. new = [phase |-> "looking", issue |-> load.issue, todo |-> Tail(load.todo), got |-> got]
  BY DEF took, Task
<1>5. state \in States /\ state.is # "loading"
      /\ (state.is = "ready" => state.of = load.issue /\ fits(load.got, image))
  BY <1>1, StatesAre
<1> HIDE DEF image, state, new
<1>6. got \in ImageStates
  <2>1. \A m \in DOMAIN load.got \cup {image} : got[m] \in States
    BY <1>1, <1>5, ImageStatesAre
  <2>2. DOMAIN load.got \cup {image} \in SUBSET Images
    BY <1>1, <1>2, ImageStatesAre
  <2>3. got \in [DOMAIN load.got \cup {image} -> States]
    BY <2>1
  <2> QED
    BY <2>2, <2>3, ImageStatesAre
<1>7. /\ DOMAIN got = DOMAIN load.got \cup {image} /\ got[image] = state
      /\ \A m \in DOMAIN load.got : m # image => got[m] = load.got[m]
  OBVIOUS
<1> HIDE DEF got
<1>8. IsFiniteSet(DOMAIN got)
  BY <1>7, FS_AddElement DEF LoadOf
<1>9. bytes_of(ready_in(got)) <= MaxRichImageBytes
  <2>1. /\ IsFiniteSet(ready_in(load.got)) /\ ready_in(load.got) \in SUBSET Images
        /\ bytes_of(ready_in(load.got)) \in Nat
    BY <1>1, BytesAre DEF LoadOf
  <2>2. Size[image] \in Nat /\ MaxRichImageBytes \in Nat
    BY <1>2, MediaAssumption
  <2>3. bytes_of(ready_in(got)) \in Nat
    BY <1>6, <1>8, BytesAre
  <2>4. CASE state.is = "ready"
    <3>1. ready_in(got) \subseteq ready_in(load.got) \cup {image}
      BY <1>7 DEF ready_in
    <3>2. \A m \in ready_in(load.got) \cup {image} : Size[m] \in Nat
      BY <2>1, <2>2, MediaAssumption
    <3>3. IsFiniteSet(ready_in(load.got) \cup {image})
      BY <2>1, FS_AddElement
    <3>4. bytes_of(ready_in(got)) <= bytes_of(ready_in(load.got) \cup {image})
      BY <3>1, <3>2, <3>3, SumOfPart DEF bytes_of
    <3>5. bytes_of(ready_in(load.got) \cup {image}) <= bytes_of(ready_in(load.got)) + Size[image]
      BY <2>1, <3>2, SumWithOne DEF bytes_of
    <3>6. bytes_of(ready_in(load.got) \cup {image}) \in Nat
      BY <3>2, <3>3, SumType DEF bytes_of
    <3>7. bytes_of(ready_in(load.got)) + Size[image] <= MaxRichImageBytes
      BY <1>5, <2>4 DEF fits
    <3> QED
      BY <2>1, <2>2, <2>3, <3>4, <3>5, <3>6, <3>7
  <2>5. CASE state.is # "ready"
    <3>1. ready_in(got) \subseteq ready_in(load.got)
      BY <1>7, <2>5 DEF ready_in
    <3>2. \A m \in ready_in(load.got) : Size[m] \in Nat
      BY <2>1, MediaAssumption
    <3>3. bytes_of(ready_in(got)) <= bytes_of(ready_in(load.got))
      BY <2>1, <3>1, <3>2, SumOfPart DEF bytes_of
    <3>4. bytes_of(ready_in(load.got)) <= MaxRichImageBytes
      BY DEF LoadOf
    <3> QED
      BY <2>1, <2>2, <2>3, <3>3, <3>4
  <2> QED
    BY <2>4, <2>5
<1>10. Settled(new)
  BY <1>4, <1>5, <1>7 DEF Settled, LoadOf
<1>11. ToSet(shown.catalog) \subseteq DOMAIN new.got \cup ToSet(new.todo)
  BY <1>3, <1>4, <1>7 DEF LoadOf
<1>12. new \in Tasks
  BY <1>1, <1>2, <1>4, <1>6 DEF Tasks, Phases
<1>13. LoadOf(new, shown)
  BY <1>1, <1>4, <1>8, <1>9, <1>10, <1>11 DEF LoadOf
<1>14. new # Idle
  BY <1>4 DEF Idle, Task
<1> QED
  BY <1>12, <1>13, <1>14 DEF new

-----------------------------------------------------------------------------
(* The steps *)

\* A step of one surface keeps the invariant when what it leaves there is right.
LEMMA OneSurface ==
  ASSUME MediaInv, NEW s \in Surfaces, NEW shown \in Views, NEW states \in ImageStates,
         NEW load \in Tasks, Shows(s, shown, states, load),
         view' = [view EXCEPT ![s] = shown], images' = [images EXCEPT ![s] = states],
         loader' = [loader EXCEPT ![s] = load],
         cache' \in Seq(Rows), within_limits(cache'),
         DOMAIN known' \subseteq Issues,
         \A i \in DOMAIN known' : known'[i] # None => known'[i] \in Seq(Images),
         hydrator' \in Tasks, HydrationOf(hydrator', view'["selected"])
  PROVE  MediaInv'
<1>1. MediaTypes'
  BY DEF MediaInv, MediaTypes
<1>2. ASSUME NEW t \in Surfaces PROVE Shows(t, view'[t], images'[t], loader'[t])
  <2>1. CASE t = s
    <3>1. view'[s] = shown /\ images'[s] = states /\ loader'[s] = load
      BY DEF MediaInv, MediaTypes
    <3> QED
      BY <2>1, <3>1
  <2>2. CASE t # s
    <3>1. view'[t] = view[t] /\ images'[t] = images[t] /\ loader'[t] = loader[t]
      BY <2>2 DEF MediaInv, MediaTypes
    <3> QED
      BY <3>1 DEF MediaInv
  <2> QED
    BY <2>1, <2>2
<1>3. MediaInv' <=> /\ MediaTypes' /\ within_limits(cache')
                 /\ \A t \in Surfaces : Shows(t, view'[t], images'[t], loader'[t])
                 /\ HydrationOf(hydrator', view'["selected"])
  BY DEF MediaInv
<1> QED
  BY <1>1, <1>2, <1>3

\* The invariant, of one surface.
LEMMA SurfaceOf ==
  ASSUME MediaInv, NEW s \in Surfaces
  PROVE  /\ view[s] \in Views /\ images[s] \in ImageStates /\ loader[s] \in Tasks
         /\ Shows(s, view[s], images[s], loader[s])
         /\ LoadOf(loader[s], view[s])
BY DEF MediaInv, MediaTypes, Shows

\* A hydration depends on the issue on view alone.
LEMMA HydrationIsAbout ==
  ASSUME NEW load, NEW shown, NEW other, shown.issue = other.issue, HydrationOf(load, shown)
  PROVE  HydrationOf(load, other)
BY DEF HydrationOf

LEMMA ViewIs ==
  ASSUME NEW state \in {"empty", "loading", "refreshing", "loaded", "error"},
         NEW issue \in Issues \cup {None}, NEW catalog \in Seq(Images)
  PROVE  LET shown == View(state, issue, catalog)
         IN  /\ shown \in Views /\ shown.state = state /\ shown.issue = issue
             /\ shown.catalog = catalog
BY DEF View, Views

\* The idle surface.
LEMMA NothingShown ==
  ASSUME NEW s \in Surfaces
  PROVE  NoView \in Views /\ Shows(s, NoView, NoImages, Idle)
<1>1. <<>> \in Seq(Images)
  OBVIOUS
<1>2. NoView \in Views /\ NoView.state = "empty"
  BY <1>1 DEF NoView, View, Views
<1>3. LoadOf(Idle, NoView)
  <2>1. IsFiniteSet({}) /\ MaxRichImageBytes \in Nat
    BY FS_EmptySet, MediaAssumption
  <2>2. Settled(Idle)
    BY IdleIs, NoImagesIs DEF Settled
  <2> QED
    BY <2>1, <2>2, IdleIs, NoImagesIs DEF LoadOf
<1>4. MaxRichImageBytes \in Nat
  BY MediaAssumption
<1> QED
  BY <1>2, <1>3, <1>4, NoImagesIs DEF Shows

\* No hydration fits any view.
LEMMA NothingHydrates ==
  ASSUME NEW shown
  PROVE  HydrationOf(Idle, shown)
BY IdleIs, NoImagesIs DEF HydrationOf

\* The first state.
LEMMA InitOk == MediaInit => MediaInv
<1> SUFFICES ASSUME MediaInit PROVE MediaInv
  OBVIOUS
<1>1. /\ view = [s \in Surfaces |-> NoView] /\ images = [s \in Surfaces |-> NoImages]
      /\ loader = [s \in Surfaces |-> Idle] /\ hydrator = Idle /\ cache \in FirstCaches
      /\ known \in [Listed -> {None} \cup {d[1] : d \in Details}]
  BY DEF MediaInit
<1>2. cache \in Seq(Rows) /\ within_limits(cache)
  BY <1>1, CacheAssumption
<1>3. \A d \in Details : d[1] \in Seq(Images)
  BY MediaAssumption
<1>4. /\ DOMAIN known \subseteq Issues
      /\ \A i \in DOMAIN known : known[i] # None => known[i] \in Seq(Images)
  BY <1>1, <1>3, MediaAssumption
<1>5. \A s \in Surfaces : /\ view[s] = NoView /\ images[s] = NoImages /\ loader[s] = Idle
  BY <1>1
<1>6. MediaTypes
  BY <1>1, <1>2, <1>4, NothingShown, NoImagesIs, IdleIs DEF MediaTypes, Surfaces
<1> QED
  BY <1>1, <1>2, <1>5, <1>6, NothingShown, NothingHydrates DEF MediaInv

\* What is kept with the issues stays typed when a selection is left.
LEMMA LeavingKeeps ==
  ASSUME MediaInv, known' = known \/ leave_selected
  PROVE  /\ DOMAIN known' \subseteq Issues
         /\ \A i \in DOMAIN known' : known'[i] # None => known'[i] \in Seq(Images)
BY DEF leave_selected, MediaInv, MediaTypes

\* Selecting keeps the images of the same issue alone, and begins a load and a hydration of it.
LEMMA SelectStep ==
  ASSUME MediaInv, NEW issue \in Issues, NEW force \in BOOLEAN, select_issue(issue, force)
  PROVE  MediaInv'
<1> DEFINE kept == selected_issue_with_cached_detail(issue)
           catalog == IF kept = None THEN <<>> ELSE collect_detail_images(<<kept>>)
           shown == View(IF kept = None THEN "loading" ELSE "refreshing", issue, catalog)
           states == first_images(issue, catalog)
           load == Task("reading", issue, <<>>, NoImages)
           looking == Task("looking", issue, catalog, loading_image_states(catalog))
<1>1. /\ view' = [view EXCEPT !["selected"] = shown]
      /\ images' = [images EXCEPT !["selected"] = states]
      /\ loader' = [loader EXCEPT !["selected"] = load]
      /\ hydrator' = IF catalog = <<>> THEN Idle ELSE looking
      /\ cache' = cache /\ (known' = known \/ leave_selected)
  BY DEF select_issue
<1>2. catalog \in Seq(Images)
  <2>1. CASE kept = None
    BY <2>1
  <2>2. CASE kept # None
    <3>1. kept \in Seq(Images)
      BY <2>2 DEF selected_issue_with_cached_detail, MediaInv, MediaTypes
    <3>2. <<kept>> \in Seq(Seq(Images))
      BY <3>1
    <3> HIDE DEF kept
    <3> QED
      BY <2>2, <3>2, CollectsDetail
  <2> QED
    BY <2>1, <2>2
<1> HIDE DEF kept
<1>3. /\ shown \in Views /\ shown.state \in {"loading", "refreshing"} /\ shown.issue = issue
  BY <1>2 DEF View, Views
<1>4. /\ states \in ImageStates
      /\ \A m \in ready_in(states) : states[m].of = issue
  <2>1. CASE states = NoImages
    BY <2>1, NoImagesIs
  <2>2. CASE states # NoImages
    <3>1. states = images["selected"] /\ issue = view["selected"].issue
      BY <2>2 DEF first_images, selected_issue
    <3>2. "selected" \in Surfaces
      BY DEF Surfaces
    <3> QED
      BY <3>1, <3>2, SurfaceOf DEF Shows
  <2> QED
    BY <2>1, <2>2
<1>5. load \in Tasks /\ LoadOf(load, shown)
  BY <1>3, BeginsAndEnds
<1>6. hydrator' \in Tasks /\ HydrationOf(hydrator', shown)
  <2>1. CASE catalog = <<>>
    BY <1>1, <2>1, IdleIs, NothingHydrates
  <2>2. CASE catalog # <<>>
    <3>1. looking \in Tasks /\ looking.issue = issue /\ looking.got = loading_image_states(catalog)
      BY <1>2, FreshIs DEF Task, Tasks, Phases
    <3>2. HydrationOf(looking, shown)
      BY <1>2, <1>3, <3>1, FreshIs DEF HydrationOf
    <3> QED
      BY <1>1, <2>2, <3>1, <3>2
  <2> QED
    BY <2>1, <2>2
<1> HIDE DEF shown, states, load, looking, catalog
<1>7. Shows("selected", shown, states, load)
  BY <1>3, <1>4, <1>5 DEF Shows
<1>8. view'["selected"] = shown
  BY <1>1 DEF MediaInv, MediaTypes, Surfaces
<1>9. "selected" \in Surfaces
  BY DEF Surfaces
<1>10. cache' \in Seq(Rows) /\ within_limits(cache')
  BY <1>1 DEF MediaInv, MediaTypes
<1>11. /\ DOMAIN known' \subseteq Issues
       /\ \A i \in DOMAIN known' : known'[i] # None => known'[i] \in Seq(Images)
  BY <1>1, LeavingKeeps
<1> QED
  BY <1>1, <1>3, <1>4, <1>5, <1>6, <1>7, <1>8, <1>9, <1>10, <1>11, OneSurface

\* What a step of a loader that leaves the cache's side alone keeps.
RestIsTyped ==
    /\ cache \in Seq(Rows) /\ within_limits(cache)
    /\ DOMAIN known \subseteq Issues
    /\ \A i \in DOMAIN known : known[i] # None => known[i] \in Seq(Images)
    /\ hydrator \in Tasks /\ HydrationOf(hydrator, view["selected"])

LEMMA RestHolds == MediaInv => RestIsTyped
BY DEF MediaInv, MediaTypes, RestIsTyped

\* A step of one surface that leaves the rest alone.
LEMMA OneSurfaceAlone ==
  ASSUME MediaInv, NEW s \in Surfaces, NEW shown \in Views, NEW states \in ImageStates,
         NEW load \in Tasks, Shows(s, shown, states, load),
         s = "remote" \/ shown.issue = view[s].issue,
         view' = [view EXCEPT ![s] = shown], images' = [images EXCEPT ![s] = states],
         loader' = [loader EXCEPT ![s] = load],
         cache' \in Seq(Rows), within_limits(cache'),
         DOMAIN known' \subseteq Issues,
         \A i \in DOMAIN known' : known'[i] # None => known'[i] \in Seq(Images),
         hydrator' = hydrator
  PROVE  MediaInv'
<1>1. hydrator' \in Tasks /\ HydrationOf(hydrator, view["selected"])
  BY RestHolds DEF RestIsTyped
<1>2. view'["selected"].issue = view["selected"].issue
  BY DEF MediaInv, MediaTypes, Surfaces
<1>3. HydrationOf(hydrator', view'["selected"])
  BY <1>1, <1>2, HydrationIsAbout
<1> QED
  BY <1>1, <1>3, OneSurface

\* A step of the loader alone, with what it does to the cache.
LEMMA LoaderAlone ==
  ASSUME MediaInv, NEW s \in Surfaces, NEW load \in Tasks, LoadOf(load, view[s]), load # Idle,
         loader' = [loader EXCEPT ![s] = load],
         cache' \in Seq(Rows), within_limits(cache'),
         UNCHANGED <<known, view, images, hydrator>>
  PROVE  MediaInv'
<1>1. view' = [view EXCEPT ![s] = view[s]] /\ images' = [images EXCEPT ![s] = images[s]]
  BY DEF MediaInv, MediaTypes
<1>2. Shows(s, view[s], images[s], load)
  BY SurfaceOf DEF Shows
<1>3. /\ DOMAIN known' \subseteq Issues
      /\ \A i \in DOMAIN known' : known'[i] # None => known'[i] \in Seq(Images)
  BY RestHolds DEF RestIsTyped
<1> QED
  BY <1>1, <1>2, <1>3, SurfaceOf, OneSurfaceAlone

LEMMA ClearRemoteStep == ASSUME MediaInv, ClearRemoteLookup PROVE MediaInv'
<1>1. "remote" \in Surfaces
  BY DEF Surfaces
<1> QED
  BY <1>1, NothingShown, NoImagesIs, IdleIs, RestHolds, OneSurfaceAlone
     DEF ClearRemoteLookup, RestIsTyped

LEMMA ClearSelectionStep == ASSUME MediaInv, ClearSelection PROVE MediaInv'
<1>1. "selected" \in Surfaces
  BY DEF Surfaces
<1>2. hydrator' \in Tasks /\ HydrationOf(hydrator', view'["selected"])
  BY IdleIs, NothingHydrates DEF ClearSelection
<1>3. /\ DOMAIN known' \subseteq Issues
      /\ \A i \in DOMAIN known' : known'[i] # None => known'[i] \in Seq(Images)
  BY LeavingKeeps DEF ClearSelection
<1> QED
  BY <1>1, <1>2, <1>3, NothingShown, NoImagesIs, IdleIs, RestHolds, OneSurface
     DEF ClearSelection, RestIsTyped

\* Looking up shows another issue without images.
LEMMA SearchStep == ASSUME MediaInv, NEW issue \in Issues, SearchJira(issue) PROVE MediaInv'
<1> DEFINE is_known == issue \in DOMAIN known
           shown == View("loading", issue, <<>>)
           load == Task("reading", issue, <<>>, NoImages)
<1>1. CASE is_known
  <2>1. select_issue(issue, TRUE)
    BY <1>1 DEF SearchJira
  <2> QED
    BY <2>1, SelectStep
<1>2. CASE ~is_known
  <2>1. /\ view' = [view EXCEPT !["remote"] = shown]
        /\ images' = [images EXCEPT !["remote"] = NoImages]
        /\ loader' = [loader EXCEPT !["remote"] = load]
        /\ UNCHANGED <<cache, known, hydrator>>
    BY <1>2 DEF SearchJira
  <2>2. <<>> \in Seq(Images) /\ "remote" \in Surfaces /\ MaxRichImageBytes \in Nat
    BY MediaAssumption DEF Surfaces
  <2>3. shown \in Views /\ shown.state = "loading" /\ shown.issue = issue
    BY <2>2 DEF View, Views
  <2>4. load \in Tasks /\ LoadOf(load, shown)
    BY <2>3, BeginsAndEnds
  <2> HIDE DEF shown, load
  <2>5. Shows("remote", shown, NoImages, load)
    BY <2>2, <2>3, <2>4, NoImagesIs DEF Shows
  <2>6. cache' \in Seq(Rows) /\ within_limits(cache')
    BY <2>1, RestHolds DEF RestIsTyped
  <2>7. /\ DOMAIN known' \subseteq Issues
        /\ \A i \in DOMAIN known' : known'[i] # None => known'[i] \in Seq(Images)
    BY <2>1, RestHolds DEF RestIsTyped
  <2> QED
    BY <2>1, <2>2, <2>3, <2>4, <2>5, <2>6, <2>7, NoImagesIs, OneSurfaceAlone
<1> QED
  BY <1>1, <1>2

\* An answer brings a catalog and begins to look for its images.
LEMMA AnswerStep ==
  ASSUME MediaInv, NEW s \in Surfaces, NEW detail \in Details, DetailAnswers(s, detail)
  PROVE  MediaInv'
<1> DEFINE issue == loader[s].issue
           catalog == collect_detail_images(detail)
           fresh == loading_image_states(catalog)
           shown == View("loaded", issue, catalog)
           states == IF s = "remote" THEN fresh ELSE merge_preserving_ready(fresh, images[s])
           load == Task("looking", issue, catalog, NoImages)
<1>1. /\ view' = [view EXCEPT ![s] = shown] /\ images' = [images EXCEPT ![s] = states]
      /\ loader' = [loader EXCEPT ![s] = load]
      /\ loader[s].phase = "reading"
      /\ IF s = "remote" THEN UNCHANGED known ELSE Keep(issue, detail[1])
      /\ UNCHANGED <<cache, hydrator>>
  BY DEF DetailAnswers
<1>2. /\ issue \in Issues /\ issue = view[s].issue
      /\ images[s] \in ImageStates
      /\ \A m \in ready_in(images[s]) : images[s][m].of = view[s].issue
  BY <1>1, SurfaceOf DEF Shows, LoadOf
<1>3. detail \in Seq(Seq(Images)) /\ detail[1] \in Seq(Images)
  BY MediaAssumption
<1>4. catalog \in Seq(Images)
  BY <1>3, CollectsDetail
<1> HIDE DEF issue, catalog
<1>5. /\ fresh \in ImageStates /\ DOMAIN fresh = ToSet(catalog) /\ ready_in(fresh) = {}
  BY <1>4, FreshIs
<1> HIDE DEF fresh
<1>6. /\ states \in ImageStates
      /\ \A m \in ready_in(states) : states[m].of = issue
      /\ s = "remote" => ready_in(states) = {}
  <2>1. CASE s = "remote"
    BY <2>1, <1>5
  <2>2. CASE s # "remote"
    BY <2>2, <1>2, <1>5, MergeIs
  <2> QED
    BY <2>1, <2>2
<1>7. /\ shown \in Views /\ shown.issue = issue /\ shown.catalog = catalog
  BY <1>2, <1>4 DEF View, Views
<1>8. /\ load \in Tasks /\ load.phase = "looking" /\ load.issue = issue /\ load.todo = catalog
      /\ load.got = NoImages
  BY <1>2, <1>4, NoImagesIs DEF Task, Tasks, Phases
<1> HIDE DEF states, shown, load
<1>9. IsFiniteSet({}) /\ MaxRichImageBytes \in Nat
  BY FS_EmptySet, MediaAssumption
<1>10. Settled(load)
  BY <1>8, NoImagesIs DEF Settled
<1>11. LoadOf(load, shown) /\ load # Idle
  BY <1>2, <1>7, <1>8, <1>9, <1>10, NoImagesIs, IdleIs DEF LoadOf
<1>12. Shows(s, shown, states, load)
  <2>1. s = "remote" => bytes_of(ready_in(states)) = 0
    BY <1>6, NoImagesIs
  <2> QED
    BY <1>6, <1>7, <1>9, <1>11, <2>1 DEF Shows
<1>13. cache' \in Seq(Rows) /\ within_limits(cache')
  BY <1>1, RestHolds DEF RestIsTyped
<1>14. /\ DOMAIN known' \subseteq Issues
       /\ \A i \in DOMAIN known' : known'[i] # None => known'[i] \in Seq(Images)
  <2>1. /\ DOMAIN known \subseteq Issues
        /\ \A i \in DOMAIN known : known[i] # None => known[i] \in Seq(Images)
    BY RestHolds DEF RestIsTyped
  <2> QED
    BY <1>1, <1>2, <1>3, <2>1 DEF Keep
<1> QED
  BY <1>1, <1>2, <1>6, <1>7, <1>8, <1>12, <1>13, <1>14, OneSurfaceAlone

\* A failure keeps at most the images that were shown of the issue.
LEMMA FailureStep ==
  ASSUME MediaInv, NEW s \in Surfaces, DetailFails(s)
  PROVE  MediaInv'
<1> DEFINE shown == View("error", view[s].issue, <<>>)
           states == IF view[s].state = "refreshing" THEN images[s] ELSE NoImages
<1>1. /\ view' = [view EXCEPT ![s] = shown] /\ images' = [images EXCEPT ![s] = states]
      /\ loader' = [loader EXCEPT ![s] = Idle]
      /\ loader[s].phase = "reading"
      /\ UNCHANGED <<cache, known, hydrator>>
  BY DEF DetailFails
<1>2. /\ view[s].issue \in Issues
      /\ images[s] \in ImageStates
      /\ \A m \in ready_in(images[s]) : images[s][m].of = view[s].issue
      /\ s = "remote" => bytes_of(ready_in(images[s])) <= MaxRichImageBytes
  BY <1>1, SurfaceOf DEF Shows, LoadOf
<1>3. <<>> \in Seq(Images) /\ MaxRichImageBytes \in Nat
  BY MediaAssumption
<1>4. shown \in Views /\ shown.state = "error" /\ shown.issue = view[s].issue
  BY <1>2, <1>3 DEF View, Views
<1>5. /\ states \in ImageStates
      /\ \A m \in ready_in(states) : states[m].of = view[s].issue
      /\ s = "remote" => bytes_of(ready_in(states)) <= MaxRichImageBytes
  <2>1. CASE states = images[s]
    BY <1>2, <2>1
  <2>2. CASE states = NoImages
    <3>1. bytes_of(ready_in(states)) = 0
      BY <2>2, NoImagesIs
    <3> QED
      BY <1>3, <2>2, <3>1, NoImagesIs
  <2> QED
    BY <2>1, <2>2
<1>6. Idle \in Tasks /\ LoadOf(Idle, shown)
  BY <1>2, IdleIs, BeginsAndEnds
<1> HIDE DEF shown, states
<1>7. Shows(s, shown, states, Idle)
  BY <1>4, <1>5, <1>6 DEF Shows
<1> QED
  BY <1>1, <1>4, <1>5, <1>6, <1>7, RestHolds, OneSurfaceAlone DEF RestIsTyped

\* What a loader that is at an image may rely on.
LEMMA AtImage ==
  ASSUME MediaInv, NEW s \in Surfaces, loader[s].todo # <<>>,
         loader[s].phase \in {"looking", "fetching", "falling back", "caching"}
  PROVE  /\ loader[s] \in Tasks /\ LoadOf(loader[s], view[s])
         /\ loader[s].issue \in Issues /\ next_image(loader[s]) \in Images
<1>1. /\ loader[s] \in Tasks /\ LoadOf(loader[s], view[s])
      /\ loader[s].issue \in Issues
  BY SurfaceOf DEF LoadOf
<1>2. loader[s].todo \in Seq(Images)
  BY <1>1 DEF Tasks
<1>3. next_image(loader[s]) \in Images
  <2> DEFINE todo == loader[s].todo
  <2>1. todo \in Seq(Images) /\ todo # <<>>
    BY <1>2
  <2> HIDE DEF todo
  <2>2. Head(todo) \in Images
    BY <2>1, HeadTailProperties
  <2> QED
    BY <2>2 DEF todo, next_image
<1> QED
  BY <1>1, <1>3

\* A step that takes an image in.
LEMMA Takes ==
  ASSUME MediaInv, NEW s \in Surfaces, loader[s].todo # <<>>,
         loader[s].phase \in {"looking", "fetching", "falling back", "caching"},
         NEW usable \in BOOLEAN, Take(s, usable),
         cache' \in Seq(Rows), within_limits(cache'),
         UNCHANGED <<known, view, images, hydrator>>
  PROVE  MediaInv'
<1> DEFINE load == took(loader[s], usable)
<1>1. load \in Tasks /\ LoadOf(load, view[s]) /\ load # Idle
  BY AtImage, TookIs
<1>2. loader' = [loader EXCEPT ![s] = load]
  BY DEF Take
<1> HIDE DEF load
<1> QED
  BY <1>1, <1>2, LoaderAlone

\* A step that goes on with the same image.
LEMMA Goes ==
  ASSUME MediaInv, NEW s \in Surfaces, loader[s].todo # <<>>,
         loader[s].phase \in {"looking", "fetching", "falling back", "caching"},
         NEW phase \in {"fetching", "falling back", "caching"}, GoTo(s, phase),
         cache' \in Seq(Rows), within_limits(cache'),
         UNCHANGED <<known, view, images, hydrator>>
  PROVE  MediaInv'
<1> DEFINE old == loader[s]
           load == [old EXCEPT !.phase = phase]
<1>1. old \in Tasks /\ LoadOf(old, view[s]) /\ old.todo # <<>>
      /\ old.phase \notin {"idle", "reading"}
  BY AtImage
<1>2. loader' = [loader EXCEPT ![s] = load]
  BY DEF GoTo
<1> HIDE DEF old
<1>3. /\ load \in Tasks /\ load.phase = phase /\ load.issue = old.issue
      /\ load.todo = old.todo /\ load.got = old.got
  BY <1>1 DEF Tasks, Phases
<1> HIDE DEF load
<1>4. LoadOf(load, view[s]) /\ load # Idle
  BY <1>1, <1>3, IdleIs DEF LoadOf, Settled
<1> QED
  BY <1>2, <1>3, <1>4, LoaderAlone

\* The cache answers or loses a row.
LEMMA LookStep ==
  ASSUME MediaInv, NEW s \in Surfaces, LookInCache(s)
  PROVE  MediaInv'
<1> DEFINE image == next_image(loader[s])
           smaller == remove_cached(cache, loader[s].issue, image)
<1>1. /\ loader[s].phase = "looking" /\ loader[s].todo # <<>>
      /\ UNCHANGED <<known, view, images, hydrator>>
  BY DEF LookInCache, at_image
<1>2. /\ cache \in Seq(Rows) /\ within_limits(cache)
      /\ smaller \in Seq(Rows) /\ within_limits(smaller)
  BY RestHolds, RemovesFromCache DEF RestIsTyped
<1>3. \/ Take(s, FALSE) /\ UNCHANGED cache
      \/ Take(s, TRUE) /\ UNCHANGED cache
      \/ GoTo(s, "fetching") /\ cache' = smaller
      \/ GoTo(s, "fetching") /\ UNCHANGED cache
  BY DEF LookInCache
<1> HIDE DEF smaller
<1>4. cache' \in Seq(Rows) /\ within_limits(cache')
  BY <1>2, <1>3
<1>5. CASE Take(s, FALSE) \/ Take(s, TRUE)
  BY <1>1, <1>4, <1>5, Takes
<1>6. CASE GoTo(s, "fetching")
  BY <1>1, <1>4, <1>6, Goes
<1> QED
  BY <1>3, <1>5, <1>6

LEMMA FetchStep ==
  ASSUME MediaInv, NEW s \in Surfaces, NEW response \in Responses, FetchImage(s, response)
  PROVE  MediaInv'
<1>1. /\ loader[s].phase \in {"fetching", "falling back"}
      /\ UNCHANGED <<cache, known, view, images, hydrator>>
  BY DEF FetchImage
<1>2. loader[s].todo # <<>>
  BY <1>1, SurfaceOf DEF LoadOf
<1>3. cache' \in Seq(Rows) /\ within_limits(cache')
  BY <1>1, RestHolds DEF RestIsTyped
<1>4. \/ GoTo(s, "caching") \/ GoTo(s, "falling back")
      \/ Take(s, TRUE) \/ Take(s, FALSE)
  BY DEF FetchImage
<1>5. CASE Take(s, FALSE) \/ Take(s, TRUE)
  BY <1>1, <1>2, <1>3, <1>5, Takes
<1>6. CASE GoTo(s, "caching") \/ GoTo(s, "falling back")
  BY <1>1, <1>2, <1>3, <1>6, Goes
<1> QED
  BY <1>4, <1>5, <1>6

\* The cache takes the image or leaves it.
LEMMA StoreStep ==
  ASSUME MediaInv, NEW s \in Surfaces, StoreInCache(s)
  PROVE  MediaInv'
<1> DEFINE larger == cache_attachment_image(loader[s].issue, next_image(loader[s]))
<1>1. /\ loader[s].phase = "caching" /\ Take(s, TRUE)
      /\ (UNCHANGED cache \/ cache' = larger)
      /\ UNCHANGED <<known, view, images, hydrator>>
  BY DEF StoreInCache
<1>2. loader[s].todo # <<>>
  BY <1>1, SurfaceOf DEF LoadOf
<1>3. cache \in Seq(Rows) /\ within_limits(cache)
  BY RestHolds DEF RestIsTyped
<1>4. larger \in Seq(Rows) /\ within_limits(larger)
  BY <1>1, <1>2, <1>3, AtImage, StoringKeepsLimits
<1> HIDE DEF larger
<1>5. cache' \in Seq(Rows) /\ within_limits(cache')
  BY <1>1, <1>3, <1>4
<1> QED
  BY <1>1, <1>2, <1>5, Takes

\* A load that has ended has settled the whole catalog.
LEMMA FinishLoadStep ==
  ASSUME MediaInv, NEW s \in Surfaces, FinishLoad(s)
  PROVE  MediaInv'
<1> DEFINE load == loader[s]
           states == IF s = "remote" THEN load.got
                     ELSE merge_preserving_ready(load.got, images[s])
<1>1. /\ load.phase = "looking" /\ load.todo = <<>>
      /\ images' = [images EXCEPT ![s] = states]
      /\ loader' = [loader EXCEPT ![s] = Idle]
      /\ UNCHANGED <<cache, known, view, hydrator>>
  BY DEF FinishLoad
<1>2. /\ load \in Tasks /\ LoadOf(load, view[s]) /\ Settled(load)
      /\ load.issue \in Issues /\ load.issue = view[s].issue
      /\ view[s] \in Views /\ images[s] \in ImageStates
      /\ \A m \in ready_in(images[s]) : images[s][m].of = view[s].issue
      /\ bytes_of(ready_in(load.got)) <= MaxRichImageBytes
      /\ ToSet(view[s].catalog) \subseteq DOMAIN load.got
  <2>1. ToSet(<<>>) = {}
    BY DEF ToSet
  <2> QED
    BY <1>1, <2>1, SurfaceOf DEF Shows, LoadOf
<1> HIDE DEF load
<1>3. load.got \in ImageStates
  BY <1>2 DEF Tasks
<1>4. \A m \in DOMAIN load.got : load.got[m] # Loading
  BY <1>2, StatesAre DEF Settled
<1>5. \A m \in ready_in(load.got) : load.got[m].of = view[s].issue
  BY <1>2 DEF Settled, ready_in
<1>6. /\ states \in ImageStates /\ DOMAIN states = DOMAIN load.got
      /\ \A m \in DOMAIN states : states[m] # Loading
      /\ \A m \in ready_in(states) : states[m].of = view[s].issue
      /\ s = "remote" => states = load.got
  <2>1. CASE s = "remote"
    BY <2>1, <1>3, <1>4, <1>5
  <2>2. CASE s # "remote"
    BY <2>2, <1>2, <1>3, <1>4, <1>5, MergeIs
  <2> QED
    BY <2>1, <2>2
<1> HIDE DEF states
<1>7. LoadOf(Idle, view[s])
  BY <1>2, BeginsAndEnds
<1>8. \A n \in DOMAIN view[s].catalog : view[s].catalog[n] \in DOMAIN states
  BY <1>2, <1>6, ToSetIs DEF Views
<1>9. Shows(s, view[s], states, Idle)
  BY <1>2, <1>6, <1>7, <1>8 DEF Shows
<1>10. view' = [view EXCEPT ![s] = view[s]]
  BY <1>1 DEF MediaInv, MediaTypes
<1> QED
  BY <1>1, <1>2, <1>6, <1>9, <1>10, IdleIs, RestHolds, OneSurfaceAlone DEF RestIsTyped

\* The hydrator and the cache change alone.
LEMMA HydratorAlone ==
  ASSUME MediaInv, hydrator' \in Tasks, HydrationOf(hydrator', view["selected"]),
         cache' \in Seq(Rows), within_limits(cache'),
         UNCHANGED <<known, view, images, loader>>
  PROVE  MediaInv'
<1>1. "selected" \in Surfaces
  BY DEF Surfaces
<1>2. /\ view' = [view EXCEPT !["selected"] = view["selected"]]
      /\ images' = [images EXCEPT !["selected"] = images["selected"]]
      /\ loader' = [loader EXCEPT !["selected"] = loader["selected"]]
  BY DEF MediaInv, MediaTypes
<1>3. /\ DOMAIN known' \subseteq Issues
      /\ \A i \in DOMAIN known' : known'[i] # None => known'[i] \in Seq(Images)
  BY RestHolds DEF RestIsTyped
<1>4. HydrationOf(hydrator', view'["selected"])
  OBVIOUS
<1>5. /\ view["selected"] \in Views /\ images["selected"] \in ImageStates
      /\ loader["selected"] \in Tasks
      /\ Shows("selected", view["selected"], images["selected"], loader["selected"])
  BY <1>1, SurfaceOf
<1> QED
  BY <1>1, <1>2, <1>3, <1>4, <1>5, OneSurface

\* A hydration takes what is usable, with the issue it is of.
LEMMA HydrateStep == ASSUME MediaInv, Hydrate PROVE MediaInv'
<1> DEFINE load == hydrator
           image == next_image(load)
           smaller == remove_cached(cache, load.issue, image)
<1>1. /\ load \in Tasks /\ HydrationOf(load, view["selected"])
      /\ cache \in Seq(Rows) /\ within_limits(cache)
      /\ smaller \in Seq(Rows) /\ within_limits(smaller)
  BY RestHolds, RemovesFromCache DEF RestIsTyped
<1>2. /\ load.phase = "looking" /\ load.todo # <<>>
      /\ UNCHANGED <<known, view, images, loader>>
      /\ cache' \in {cache, smaller}
      /\ \/ hydrator' = [load EXCEPT !.todo = Tail(load.todo),
                                     !.got = [load.got EXCEPT ![image] = Ready(load.issue)]]
         \/ hydrator' = [load EXCEPT !.todo = Tail(load.todo)]
         \/ hydrator' = [load EXCEPT !.todo = Tail(load.todo),
                                     !.got = [load.got EXCEPT ![image] = load.got[image]]]
  BY DEF Hydrate, at_image
<1> HIDE DEF image, smaller, load
<1>3. /\ load.issue \in Issues /\ load.issue = view["selected"].issue
      /\ load.got \in ImageStates /\ load.todo \in Seq(Images)
      /\ Tail(load.todo) \in Seq(Images)
  BY <1>1, <1>2 DEF HydrationOf, Tasks
<1>4. cache' \in Seq(Rows) /\ within_limits(cache')
  BY <1>1, <1>2
<1>5. ASSUME NEW got \in ImageStates, \A m \in ready_in(got) : got[m].of = load.issue,
             NEW new, new = [load EXCEPT !.todo = Tail(load.todo), !.got = got]
      PROVE  new \in Tasks /\ HydrationOf(new, view["selected"])
  <2>1. new \in Tasks /\ new.issue = load.issue /\ new.got = got
    BY <1>1, <1>3, <1>5 DEF Tasks
  <2> QED
    BY <1>3, <1>5, <2>1 DEF HydrationOf
<1>6. \A m \in ready_in(load.got) : load.got[m].of = load.issue
  BY <1>1 DEF HydrationOf
<1>7. [load.got EXCEPT ![image] = load.got[image]] = load.got
  <2>1. load.got \in [DOMAIN load.got -> States]
    BY <1>3 DEF ImageStates
  <2> QED
    BY <2>1
<1>8. CASE hydrator' = [load EXCEPT !.todo = Tail(load.todo),
                                    !.got = [load.got EXCEPT ![image] = Ready(load.issue)]]
  <2> DEFINE got == [load.got EXCEPT ![image] = Ready(load.issue)]
  <2>1. /\ DOMAIN got = DOMAIN load.got
        /\ \A m \in DOMAIN got : got[m] = load.got[m] \/ got[m] = Ready(load.issue)
    OBVIOUS
  <2>2. got \in [DOMAIN load.got -> States]
    BY <1>3, <2>1, StatesAre, ImageStatesAre
  <2>3. got \in ImageStates
    BY <1>3, <2>2, ImageStatesAre
  <2> HIDE DEF got
  <2>4. \A m \in ready_in(got) : got[m].of = load.issue
    BY <1>3, <1>6, <2>1, StatesAre DEF ready_in
  <2>5. hydrator' = [load EXCEPT !.todo = Tail(load.todo), !.got = got]
    BY <1>8 DEF got
  <2> QED
    BY <1>2, <1>4, <1>5, <2>3, <2>4, <2>5, HydratorAlone
<1>9. CASE hydrator' = [load EXCEPT !.todo = Tail(load.todo)]
  <2>1. hydrator' = [load EXCEPT !.todo = Tail(load.todo), !.got = load.got]
    BY <1>1, <1>9 DEF Tasks
  <2> QED
    BY <1>2, <1>3, <1>4, <1>5, <1>6, <2>1, HydratorAlone
<1>10. CASE hydrator' = [load EXCEPT !.todo = Tail(load.todo),
                                     !.got = [load.got EXCEPT ![image] = load.got[image]]]
  <2>1. hydrator' = [load EXCEPT !.todo = Tail(load.todo), !.got = load.got]
    BY <1>7, <1>10
  <2> QED
    BY <1>2, <1>3, <1>4, <1>5, <1>6, <2>1, HydratorAlone
<1> QED
  BY <1>2, <1>8, <1>9, <1>10

\* A hydration that is still wanted adds images of the issue on view.
LEMMA FinishHydrationStep == ASSUME MediaInv, FinishHydration PROVE MediaInv'
<1> DEFINE merged == merge_preserving_ready(hydrator.got, images["selected"])
<1>1. /\ hydrator.phase = "looking" /\ hydrator' = Idle
      /\ UNCHANGED <<cache, known, view, loader>>
      /\ \/ loader["selected"] # Idle /\ images' = [images EXCEPT !["selected"] = merged]
         \/ images' = images
  BY DEF FinishHydration, ticket_is_current
<1>2. "selected" \in Surfaces
  BY DEF Surfaces
<1>3. cache' \in Seq(Rows) /\ within_limits(cache')
  BY <1>1, RestHolds DEF RestIsTyped
<1>4. hydrator' \in Tasks
  BY <1>1, IdleIs
<1>5. HydrationOf(hydrator', view["selected"])
  BY <1>1, NothingHydrates
<1>6. CASE images' = images
  BY <1>1, <1>3, <1>4, <1>5, <1>6, HydratorAlone
<1>7. CASE loader["selected"] # Idle /\ images' = [images EXCEPT !["selected"] = merged]
  <2>1. /\ hydrator.got \in ImageStates
        /\ \A m \in ready_in(hydrator.got) : hydrator.got[m].of = view["selected"].issue
    BY <1>1, RestHolds DEF RestIsTyped, HydrationOf, Tasks
  <2>2. /\ merged \in ImageStates
        /\ \A m \in ready_in(merged) : merged[m].of = view["selected"].issue
    BY <1>2, <2>1, SurfaceOf, MergeIs DEF Shows
  <2> HIDE DEF merged
  <2>3. Shows("selected", view["selected"], merged, loader["selected"])
    BY <1>2, <1>7, <2>2, SurfaceOf DEF Shows
  <2>4. /\ view' = [view EXCEPT !["selected"] = view["selected"]]
        /\ loader' = [loader EXCEPT !["selected"] = loader["selected"]]
    BY <1>1 DEF MediaInv, MediaTypes
  <2>5. /\ DOMAIN known' \subseteq Issues
        /\ \A i \in DOMAIN known' : known'[i] # None => known'[i] \in Seq(Images)
    BY <1>1, RestHolds DEF RestIsTyped
  <2>6. HydrationOf(hydrator', view'["selected"])
    BY <1>1, <1>5
  <2> QED
    BY <1>2, <1>3, <1>4, <1>7, <2>2, <2>3, <2>4, <2>5, <2>6, SurfaceOf, OneSurface
<1> QED
  BY <1>1, <1>6, <1>7

LEMMA MediaUnchanged == ASSUME MediaInv, UNCHANGED mediaVars PROVE MediaInv'
<1>1. UNCHANGED <<known, view, images, loader>> /\ hydrator' = hydrator /\ cache' = cache
  BY DEF mediaVars
<1> QED
  BY <1>1, RestHolds, HydratorAlone DEF RestIsTyped

LEMMA LoaderSteps == ASSUME MediaInv, NEW s \in Surfaces, LoaderStep(s) PROVE MediaInv'
<1>1. CASE \E d \in Details : DetailAnswers(s, d)
  BY <1>1, AnswerStep
<1>2. CASE DetailFails(s)
  BY <1>2, FailureStep
<1>3. CASE LookInCache(s)
  BY <1>3, LookStep
<1>4. CASE \E r \in Responses : FetchImage(s, r)
  BY <1>4, FetchStep
<1>5. CASE StoreInCache(s)
  BY <1>5, StoreStep
<1>6. CASE FinishLoad(s)
  BY <1>6, FinishLoadStep
<1> QED
  BY <1>1, <1>2, <1>3, <1>4, <1>5, <1>6 DEF LoaderStep

\* Every step keeps the invariant.
LEMMA MediaStep == MediaInv /\ [MediaNext]_mediaVars => MediaInv'
<1> SUFFICES ASSUME MediaInv, [MediaNext]_mediaVars PROVE MediaInv'
  OBVIOUS
<1>1. CASE \E i \in Issues : OpenIssue(i)
  BY <1>1, SelectStep DEF OpenIssue
<1>2. CASE \E i \in Issues : SearchJira(i)
  BY <1>2, SearchStep
<1>3. CASE Reload
  <2>1. view["selected"] \in Views
    BY DEF MediaInv, MediaTypes, Surfaces
  <2>2. selected_issue \in Issues
    BY <1>3, <2>1 DEF Reload, selected_issue, Views
  <2> QED
    BY <1>3, <2>2, SelectStep DEF Reload
<1>4. CASE ClearRemoteLookup
  BY <1>4, ClearRemoteStep
<1>5. CASE ClearSelection
  BY <1>5, ClearSelectionStep
<1>6. CASE \E s \in Surfaces : LoaderStep(s)
  BY <1>6, LoaderSteps
<1>7. CASE Hydrate
  BY <1>7, HydrateStep
<1>8. CASE FinishHydration
  BY <1>8, FinishHydrationStep
<1>9. CASE UNCHANGED mediaVars
  BY <1>9, MediaUnchanged
<1> QED
  BY <1>1, <1>2, <1>3, <1>4, <1>5, <1>6, <1>7, <1>8, <1>9 DEF MediaNext, TaskStep, HydratorStep

\* The inductive invariant holds: types, one load for a surface, of the issue on
\* view and covering its catalog, and a cache within its limits (dashboard.rs:2559).
THEOREM MediaInvHolds == MediaSpec => []MediaInv
<1>1. MediaInit => MediaInv
  BY InitOk
<1>2. MediaInv /\ [MediaNext]_mediaVars => MediaInv'
  BY MediaStep
<1> QED
  BY <1>1, <1>2, PTL DEF MediaSpec

\* For any catalogs, sizes and limits, the cache of images keeps to its entries and
\* bytes and each load to the aggregate (media_cache.rs:45, policy.rs:144).
THEOREM ImagesKeepLimits == MediaSpec => []ImageLimitsHold
<1>1. MediaInv => ImageLimitsHold
  <2> SUFFICES ASSUME MediaInv PROVE ImageLimitsHold
    OBVIOUS
  <2>1. \A s \in Surfaces : bytes_of(ready_in(loader[s].got)) <= MaxRichImageBytes
    BY SurfaceOf DEF LoadOf
  <2>2. bytes_of(ready_in(images["remote"])) <= MaxRichImageBytes
    BY SurfaceOf DEF Shows, Surfaces
  <2>3. within_limits(cache)
    BY DEF MediaInv
  <2> QED
    BY <2>1, <2>2, <2>3 DEF ImageLimitsHold, CacheKeepsItsLimits, LoadsKeepTheAggregate
<1> QED
  BY <1>1, MediaInvHolds, PTL

\* Whatever is selected, looked up or hydrated meanwhile, the images on view are those
\* of the issue on view (dashboard.rs:2559, detail_view.rs:424).
THEOREM ImagesAreTheIssues == MediaSpec => []ImagesAreOfTheShownIssue
<1>1. MediaInv => ImagesAreOfTheShownIssue
  BY DEF MediaInv, Shows, ImagesAreOfTheShownIssue
<1> QED
  BY <1>1, MediaInvHolds, PTL

\* A loaded detail without a load has settled every image of its catalog
\* (dashboard.rs:2788).
THEOREM SpinnersEnd == MediaSpec => []NoImageKeepsSpinning
<1>1. MediaInv => NoImageKeepsSpinning
  BY DEF MediaInv, Shows, NoImageKeepsSpinning
<1> QED
  BY <1>1, MediaInvHolds, PTL

-----------------------------------------------------------------------------
(* Downloads *)

\* The types of the state of a download.
Types ==
    /\ saving \in Ids \cup {None}
    /\ task \in [id : Ids \cup {None}, at : {"none", "picking", "reading", "writing"}]
    /\ cancelled \in SUBSET Ids /\ temporary \in SUBSET Ids
    /\ write \in [Ids -> Writes]
    /\ begun \in 0..MaxDownloads

\* There is a task exactly while a download is shown as Saving, the newest one.
OneTask ==
    /\ task.id = saving
    /\ saving = None <=> task.at = "none"
    /\ saving # None => saving <= begun
    /\ \A d \in cancelled : d <= begun /\ d # saving

\* A write is queued by the task that waits for it, and one that is open is
\* the current one or will see that its token is cancelled.
WritesAreWatched ==
    /\ task.at \in {"picking", "reading"} => write[saving] = "none"
    /\ \A d \in Ids :
          /\ d > begun => write[d] = "none"
          /\ write[d] = "queued" => task.id = d
          /\ write[d] = "open" => task.id = d \/ d \in cancelled

DownloadInv == Types /\ OneTask /\ WritesAreWatched /\ TemporaryFilesHaveAnOwner

LEMMA DownloadInitOk == DownloadInit => DownloadInv
  BY DownloadAssumption
     DEF DownloadInit, DownloadInv, Types, OneTask, WritesAreWatched,
         TemporaryFilesHaveAnOwner, Ids, NoTask, Writes

LEMMA NoTaskIsTyped == NoTask.id = None /\ NoTask.at = "none"
                       /\ NoTask \in [id : Ids \cup {None}, at : {"none"}]
  BY DEF NoTask

LEMMA BeginStep == ASSUME DownloadInv, download_attachment PROVE DownloadInv'
<1>1. /\ saving = None /\ begun < MaxDownloads /\ begun' = begun + 1
      /\ saving' = begun + 1 /\ task' = [id |-> begun + 1, at |-> "picking"]
      /\ UNCHANGED <<cancelled, write, temporary, late>>
  BY DEF download_attachment
<1>2. begun \in Nat /\ begun + 1 \in Ids /\ \A d \in Ids : d \in Nat
  BY <1>1, DownloadAssumption DEF DownloadInv, Types, Ids
<1>3. begun + 1 # None
  BY <1>2, DownloadAssumption
<1>4. Types'
  BY <1>1, <1>2, DownloadAssumption DEF DownloadInv, Types
<1>5. OneTask'
  BY <1>1, <1>2, <1>3 DEF DownloadInv, Types, OneTask
<1>6. WritesAreWatched'
  <2>1. \A d \in Ids : task.id # d
    BY <1>1, <1>2, DownloadAssumption DEF DownloadInv, OneTask
  <2>2. write[begun + 1] = "none"
    BY <1>2 DEF DownloadInv, WritesAreWatched
  <2> QED
    BY <1>1, <1>2, <2>1, <2>2 DEF DownloadInv, WritesAreWatched
<1>7. TemporaryFilesHaveAnOwner'
  <2>1. \A d \in Ids : task.id # d
    BY <1>1, <1>2, DownloadAssumption DEF DownloadInv, OneTask
  <2>2. \A d \in temporary \ late : write[d] = "open"
    BY <2>1 DEF DownloadInv, TemporaryFilesHaveAnOwner, Types
  <2> QED
    BY <1>1, <2>2 DEF TemporaryFilesHaveAnOwner
<1> QED
  BY <1>4, <1>5, <1>6, <1>7 DEF DownloadInv

\* The task ends before it has begun a write, or goes on.
LEMMA BeforeTheWrite ==
  ASSUME DownloadInv, PickDestination \/ ReadContent
  PROVE  DownloadInv'
<1>1. /\ task.at \in {"picking", "reading"} /\ saving # None /\ saving \in Ids
      /\ write[saving] = "none"
      /\ UNCHANGED <<cancelled, temporary, late, begun>>
  BY DEF PickDestination, ReadContent, DownloadInv, Types, OneTask, WritesAreWatched
<1>2. CASE Finish /\ UNCHANGED write
  <2>0. saving' = None /\ task' = NoTask
    BY <1>2 DEF Finish
  <2>1. Types' /\ OneTask'
    <3>1. Types'
      BY <1>1, <1>2, <2>0, NoTaskIsTyped DEF DownloadInv, Types
    <3>2. OneTask'
      BY <1>1, <2>0, NoTaskIsTyped, DownloadAssumption DEF DownloadInv, Types, OneTask, Ids
    <3> QED
      BY <3>1, <3>2
  <2>2. WritesAreWatched'
    BY <1>1, <1>2, NoTaskIsTyped DEF DownloadInv, OneTask, WritesAreWatched, Finish
  <2>3. TemporaryFilesHaveAnOwner'
    BY <1>1, <1>2 DEF DownloadInv, OneTask, TemporaryFilesHaveAnOwner
  <2> QED
    BY <2>1, <2>2, <2>3 DEF DownloadInv
<1>3. CASE task' = [task EXCEPT !.at = "reading"] /\ UNCHANGED <<saving, write>>
  <2>1. task'.id = saving /\ task'.at = "reading"
        /\ task' \in [id : Ids \cup {None}, at : {"reading"}]
    BY <1>3 DEF DownloadInv, Types, OneTask
  <2> QED
    BY <1>1, <1>3, <2>1
       DEF DownloadInv, Types, OneTask, WritesAreWatched, TemporaryFilesHaveAnOwner
<1>4. CASE /\ task' = [task EXCEPT !.at = "writing"] /\ UNCHANGED saving
           /\ write' = [write EXCEPT ![task.id] = "queued"]
  <2>1. task'.id = saving /\ task.id = saving /\ task'.at = "writing"
        /\ task' \in [id : Ids \cup {None}, at : {"writing"}]
    BY <1>4 DEF DownloadInv, Types, OneTask
  <2>2. /\ write' \in [Ids -> Writes] /\ write'[saving] = "queued"
        /\ \A d \in Ids \ {saving} : write'[d] = write[d]
    BY <1>1, <1>4, <2>1 DEF DownloadInv, Types, Writes
  <2>3. Types' /\ OneTask'
    BY <1>1, <1>4, <2>1, <2>2 DEF DownloadInv, Types, OneTask
  <2>4. WritesAreWatched'
    BY <1>1, <1>4, <2>1, <2>2, DownloadAssumption
       DEF DownloadInv, Types, OneTask, WritesAreWatched, Ids
  <2>5. TemporaryFilesHaveAnOwner'
    <3> SUFFICES ASSUME NEW d \in temporary \ late
                 PROVE  write'[d] = "open" \/ (task'.id = d /\ write'[d] = "written")
      BY <1>1 DEF TemporaryFilesHaveAnOwner
    <3>1. write[d] = "open"
      BY <1>1, <2>1 DEF DownloadInv, TemporaryFilesHaveAnOwner
    <3>2. write' = [write EXCEPT ![saving] = "queued"] /\ d # saving
      BY <1>1, <1>4, <2>1, <3>1
    <3>3. write'[d] = write[d]
      BY <3>2 DEF DownloadInv, Types
    <3> QED
      BY <3>1, <3>3
  <2> QED
    BY <2>3, <2>4, <2>5 DEF DownloadInv
<1> QED
  BY <1>2, <1>3, <1>4 DEF PickDestination, ReadContent

LEMMA ResumeStep == ASSUME DownloadInv, Resume PROVE DownloadInv'
<1>1. /\ task.at = "writing" /\ write[task.id] \in {"written", "failed"}
      /\ task.id = saving /\ saving \in Ids
      /\ saving' = None /\ task' = NoTask
      /\ UNCHANGED <<cancelled, write, late, begun>>
  BY DEF Resume, Finish, DownloadInv, Types, OneTask
<1>2. temporary' = temporary \ {saving}
  BY <1>1 DEF Resume, Commit
<1>3. Types'
  BY <1>1, <1>2, NoTaskIsTyped DEF DownloadInv, Types
<1>4. OneTask'
  BY <1>1, NoTaskIsTyped, DownloadAssumption DEF DownloadInv, Types, OneTask, Ids
<1>5. WritesAreWatched'
  BY <1>1, NoTaskIsTyped DEF DownloadInv, WritesAreWatched
<1>6. TemporaryFilesHaveAnOwner'
  BY <1>1, <1>2 DEF DownloadInv, TemporaryFilesHaveAnOwner
<1> QED
  BY <1>3, <1>4, <1>5, <1>6 DEF DownloadInv

LEMMA InvalidateStep ==
  ASSUME DownloadInv, invalidate_attachment_download
  PROVE  DownloadInv'
<1>1. /\ saving # None /\ saving \in Ids /\ task.id = saving
      /\ cancelled' = cancelled \cup {saving}
      /\ saving' = None /\ task' = NoTask
      /\ late' = IF write[saving] = "written" THEN late \cup {saving} ELSE late
      /\ UNCHANGED <<temporary, begun>>
  BY DEF invalidate_attachment_download, Finish, DownloadInv, Types, OneTask
<1>2. /\ write' \in [Ids -> Writes]
      /\ \A d \in Ids : write'[d] = IF d = saving /\ write[d] = "queued" THEN "none"
                                    ELSE write[d]
  BY DEF invalidate_attachment_download, DownloadInv, Types, Writes
<1>3. Types'
  BY <1>1, <1>2, NoTaskIsTyped DEF DownloadInv, Types
<1>4. OneTask'
  BY <1>1, NoTaskIsTyped, DownloadAssumption DEF DownloadInv, Types, OneTask, Ids
<1>5. WritesAreWatched'
  BY <1>1, <1>2, NoTaskIsTyped DEF DownloadInv, WritesAreWatched
<1>6. TemporaryFilesHaveAnOwner'
  <2> SUFFICES ASSUME NEW d \in temporary \ late' PROVE write'[d] = "open"
    BY <1>1 DEF TemporaryFilesHaveAnOwner
  <2>1. d \in Ids /\ d \notin late /\ ~(d = saving /\ write[d] = "written")
    BY <1>1 DEF DownloadInv, Types
  <2>2. write[d] = "open"
    BY <1>1, <2>1 DEF DownloadInv, TemporaryFilesHaveAnOwner
  <2> QED
    BY <1>2, <2>1, <2>2
<1> QED
  BY <1>3, <1>4, <1>5, <1>6 DEF DownloadInv

LEMMA ThreadStepOk == ASSUME DownloadInv, ThreadStep PROVE DownloadInv'
<1>1. PICK d \in Ids : OpenTemporary(d) \/ EndWrite(d)
  BY DEF ThreadStep
<1>2. UNCHANGED <<saving, task, cancelled, late, begun>>
  BY <1>1 DEF OpenTemporary, EndWrite
<1>3. PICK how \in Writes \ {"none", "queued"} :
         /\ write' = [write EXCEPT ![d] = how]
         /\ how = "open" => write[d] = "queued" /\ temporary' = temporary \cup {d}
         /\ how = "written" =>
               write[d] = "open" /\ d \notin cancelled /\ UNCHANGED temporary
         /\ how = "failed" =>
               \/ write[d] = "queued" /\ UNCHANGED temporary
               \/ write[d] = "open" /\ temporary' = temporary \ {d}
  BY <1>1 DEF OpenTemporary, EndWrite, EndsWell, Writes
<1>4. /\ write' \in [Ids -> Writes] /\ write'[d] = how
      /\ \A e \in Ids \ {d} : write'[e] = write[e]
      /\ how \in {"open", "written", "failed"}
      /\ write[d] \in {"queued", "open"}
  BY <1>3 DEF DownloadInv, Types, Writes
<1>5. Types'
  BY <1>2, <1>3, <1>4 DEF DownloadInv, Types
<1>6. OneTask'
  BY <1>2 DEF DownloadInv, OneTask
<1>7. WritesAreWatched'
  <2>1. task.at \in {"picking", "reading"} => d # saving
    BY <1>4 DEF DownloadInv, WritesAreWatched
  <2>2. \A e \in Ids : /\ e > begun' => write'[e] = "none"
                       /\ write'[e] = "queued" => task'.id = e
                       /\ write'[e] = "open" => task'.id = e \/ e \in cancelled'
    BY <1>2, <1>3, <1>4 DEF DownloadInv, WritesAreWatched
  <2>3. task'.at \in {"picking", "reading"} => write'[saving'] = "none"
    <3> SUFFICES ASSUME task.at \in {"picking", "reading"} PROVE write'[saving] = "none"
      BY <1>2
    <3>1. saving \in Ids \ {d} /\ write[saving] = "none"
      BY <2>1 DEF DownloadInv, Types, OneTask, WritesAreWatched
    <3> QED
      BY <1>4, <3>1
  <2> QED
    BY <2>2, <2>3 DEF WritesAreWatched
<1>8. TemporaryFilesHaveAnOwner'
  <2> SUFFICES ASSUME NEW e \in temporary' \ late
               PROVE  write'[e] = "open" \/ (task.id = e /\ write'[e] = "written")
    BY <1>2 DEF TemporaryFilesHaveAnOwner
  <2>1. e \in Ids
    BY <1>5 DEF Types
  <2>2. CASE e # d
    <3>1. e \in temporary
      BY <1>3, <1>4, <2>2
    <3> QED
      BY <1>4, <2>1, <2>2, <3>1 DEF DownloadInv, TemporaryFilesHaveAnOwner
  <2>3. CASE e = d
    <3>1. CASE how = "open"
      BY <1>4, <2>3, <3>1
    <3>2. CASE how = "written"
      BY <1>3, <1>4, <2>3, <3>2 DEF DownloadInv, WritesAreWatched
    <3>3. CASE how = "failed"
      <4>1. write[d] = "queued" /\ d \in temporary
        BY <1>3, <2>3, <3>3
      <4> QED
        BY <2>3, <4>1 DEF DownloadInv, TemporaryFilesHaveAnOwner
    <3> QED
      BY <1>4, <3>1, <3>2, <3>3
  <2> QED
    BY <2>2, <2>3
<1> QED
  BY <1>5, <1>6, <1>7, <1>8 DEF DownloadInv

LEMMA DownloadNextOk == DownloadInv /\ [DownloadNext]_downloadVars => DownloadInv'
<1> SUFFICES ASSUME DownloadInv, [DownloadNext]_downloadVars PROVE DownloadInv'
  OBVIOUS
<1>1. CASE UNCHANGED downloadVars
  BY <1>1 DEF downloadVars, DownloadInv, Types, OneTask, WritesAreWatched,
              TemporaryFilesHaveAnOwner
<1>2. CASE DownloadNext
  BY <1>2, BeginStep, BeforeTheWrite, ResumeStep, InvalidateStep, ThreadStepOk
     DEF DownloadNext
<1> QED
  BY <1>1, <1>2

-----------------------------------------------------------------------------
\* Every temporary file belongs to a write under way or to the task that waits
\* for it, at whatever moment a download is invalidated or replaced, unless it
\* was dropped after its write had ended (dashboard.rs and media/download.rs).
THEOREM NoFileIsForgotten == DownloadSpec => []TemporaryFilesHaveAnOwner
<1>1. DownloadInv => TemporaryFilesHaveAnOwner
  BY DEF DownloadInv
<1> QED
  BY <1>1, DownloadInitOk, DownloadNextOk, PTL DEF DownloadSpec

\* However downloads begin, end and are invalidated, the destination is only replaced by
\* the complete file of the download shown as being saved (dashboard.rs:2972).
THEOREM OnlyTheCurrentIsSaved == DownloadSpec => OnlyTheCurrentDownloadIsSaved
<1> DEFINE Replaced == file' = saving /\ file' \notin cancelled /\ write[file'] = "written"
<1>1. ASSUME DownloadNext, file' # file PROVE Replaced
  <2>1. Resume
    BY <1>1 DEF DownloadNext, download_attachment, PickDestination, ReadContent,
                invalidate_attachment_download, ThreadStep, OpenTemporary, EndWrite
  <2> QED
    BY <1>1, <2>1 DEF Resume, Commit, attachment_download_is_current
<1>2. [DownloadNext]_downloadVars => [file' # file => Replaced]_file
  BY <1>1 DEF downloadVars
<1> QED
  BY <1>2, PTL DEF DownloadSpec, OnlyTheCurrentDownloadIsSaved

=============================================================================
