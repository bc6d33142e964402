------------------------------- MODULE Content -------------------------------
(***************************************************************************)
(* What becomes of a document Jira sends: the parser of the Jira adapter   *)
(* (jira::adf) turns it into a RichTextDocument, the domain projects that  *)
(* to plain text (domain::rich_text), the desktop renders it               *)
(* (rich_text_view).  Each of the three has limits of its own.             *)
(*                                                                         *)
(* A node of the source is [type, ok, content, text, ref]: ok says whether *)
(* its attributes have the form the parser wants, content is the sequence  *)
(* of its children or None, text the length of the text it carries, ref    *)
(* what a media node or a card points at or None.  "scalar" is a value     *)
(* that is no object.  A node of the result is [kind, size, id, children]. *)
(***************************************************************************)
EXTENDS Naturals, Sequences, FiniteSets, Absent

CONSTANTS
    Nodes,          \* the JSON values that occur in documents
    Documents,      \* the documents to try: records [ok, content]
    Attachments,    \* records [id, name, image]
    AttachmentLists,\* sequences of them, and None
    MaxDepth, MaxNodes, MaxText,           \* MAX_ADF_*
    MaxTableRows, MaxTableCells,           \* MAX_TABLE_*
    MaxFallback,                           \* MAX_FALLBACK_IMAGES
    MaxPlainDepth, MaxPlainNodes, MaxPlain,\* MAX_PLAIN_TEXT_*
    MarkerSize,                            \* the length of the marker
    MaxRenderDepth, MaxRenderNodes, MaxRenderText, MaxChildren, \* MAX_RENDER_*
    LabelSize       \* the length of an image's label

ASSUME ContentAssumption ==
    /\ \A v \in Nodes : v.text \in Nat /\ v.content \in Seq(Nodes) \cup {None}
    /\ \A d \in Documents : d.content \in Seq(Nodes)
    /\ AttachmentLists \subseteq Seq(Attachments) \cup {None}
    /\ \A a \in Attachments : a.image \in BOOLEAN
    /\ \A l \in AttachmentLists \ {None} : \A i, j \in DOMAIN l :
          l[i].id = l[j].id => l[i].image = l[j].image
    /\ {MaxDepth, MaxText, MaxTableRows, MaxTableCells, MaxFallback} \subseteq Nat
    /\ MarkerSize <= MaxPlain

VARIABLES
    adf,          \* the JSON document
    attachments,  \* the attachments of the issue; None when not known
    rich,         \* RichTextDocument; None before the parse or without one
    plain,        \* its plain text; None before
    view          \* what is on the screen; None before

contentVars == <<adf, attachments, rich, plain, view>>

ContentInit ==
    /\ adf \in Documents /\ attachments \in AttachmentLists
    /\ rich = None /\ plain = None /\ view = None

---------------------------------------------------------------------------
(* The parser's state and results: what was parsed and the state after it. *)

AdfParserState == [nodes : Nat, text : 0..MaxText, truncated : BOOLEAN,
                   unresolved : BOOLEAN]

Out(kind, children) == [kind |-> kind, size |-> 0, id |-> None,
                        children |-> children]
Leaf(kind, size)    == [Out(kind, <<>>) EXCEPT !.size = size]
Pointing(kind, id)  == [Out(kind, <<>>) EXCEPT !.id = id]
Placeholder         == Out("Placeholder", <<>>)

Gives(nodes, st)   == [out |-> nodes, st |-> st]
Wrapped(kind, r)   == Gives(<<Out(kind, r.out)>>, r.st)
Cut(st)            == [st EXCEPT !.truncated = TRUE]
refused(depth, st) == depth > MaxDepth \/ st.nodes >= MaxNodes
visited(st)        == [st EXCEPT !.nodes = @ + 1]
Unsupported(st)    == Gives(<<Placeholder>>, st)
malformed(st)      == Gives(<<Placeholder>>, Cut(st))
Nothing(st)        == Gives(<<>>, Cut(st))

(* Text is taken until the limit of the document. *)
said(n, st) ==
    LET room == MaxText - st.text
        take == IF n <= room THEN n ELSE room
    IN  Gives(<<Leaf("Text", take)>>,
              [st EXCEPT !.text = @ + take,
                         !.truncated = @ \/ room = 0 \/ take < n])

(* A text that is not plain text. *)
Named(kind, r) == [r EXCEPT !.out[1].kind = kind]

(* Each value in turn is parsed by op from the state the one before left;  *)
(* its nodes are added to the earlier ones by Add.                         *)
Steps(op(_, _)) == [v \in Nodes |-> [s \in AdfParserState |-> op(v, s)]]

InTurn(steps, Add(_, _), values, st) ==
    LET upto[i \in 0..Len(values)] ==
            IF i = 0 THEN Gives(<<>>, st)
            ELSE LET before == upto[i - 1]
                     here   == steps[values[i]][before.st]
                 IN  Gives(Add(before.out, here.out), here.st)
    IN  upto[Len(values)]

EachWith(op(_, _), Add(_, _), values, st) == InTurn(Steps(op), Add, values, st)
Each(op(_, _), values, st) == EachWith(op, LAMBDA a, b : a \o b, values, st)

(* The same for values that must all be parsed: it stops at one that is    *)
(* not, and has then fewer nodes than there are values.                    *)
UntilStopped(steps, values, st) ==
    LET upto[i \in 0..Len(values)] ==
            IF i = 0 THEN Gives(<<>>, st)
            ELSE LET before == upto[i - 1]
                     here   == steps[values[i]][before.st]
                 IN  IF Len(before.out) < i - 1 THEN before
                     ELSE Gives(before.out \o here.out, here.st)
    IN  upto[Len(values)]

EachOrStop(op(_, _), values, st) == UntilStopped(Steps(op), values, st)

Empty(node) == IF node.content = None THEN TRUE ELSE node.content = <<>>

---------------------------------------------------------------------------
(* Media *)

(* The number of file media, counted over JSON values up to limits of its  *)
(* own: a node is an object with its type, its children are two levels     *)
(* further down, its attributes are values too.  It stops at two.          *)
IsFileMedia(node) ==
    node.type \in {"media", "mediaInline"} /\ node.ref # None
        /\ node.ref.target = "file"

out_of_reach(depth, c) == depth > MaxDepth \/ c.count >= 2 \/ c.visited >= MaxNodes
value(depth, c) == IF out_of_reach(depth, c) THEN c ELSE [c EXCEPT !.visited = @ + 1]
object(node, c) == IF IsFileMedia(node) THEN [c EXCEPT !.count = @ + 1] ELSE c
attrs(node, depth, c) ==
    IF node.ref = None THEN c ELSE value(depth + 2, value(depth + 1, c))

counted_items(within, items, depth, c) ==
    LET upto[i \in 0..Len(items)] ==
            IF i = 0 THEN value(depth, c) ELSE within[items[i]][depth + 1][upto[i - 1]]
    IN  IF out_of_reach(depth, c) THEN c ELSE upto[Len(items)]

counted[node \in Nodes] ==
    [depth \in Nat |-> [c \in [count : Nat, visited : Nat] |->
        LET own   == attrs(node, depth, object(node, value(depth, c)))
            items == counted_items(counted, node.content, depth + 1, own)
        IN  IF out_of_reach(depth, c) THEN c
            ELSE value(depth + 1, IF node.content = None THEN own ELSE items)]]

(* The document is an object itself. *)
count_file_media_references ==
    LET root  == value(0, [count |-> 0, visited |-> 0])
        items == counted_items(counted, adf.content, 1, root)
    IN  (IF out_of_reach(0, [count |-> 0, visited |-> 0]) THEN root
         ELSE value(1, items)).count

WithId(id)     == {i \in DOMAIN attachments : attachments[i].id = id}
WithName(name) == {i \in DOMAIN attachments : attachments[i].name = name}
Images         == {i \in DOMAIN attachments : attachments[i].image}

only(places) == IF Cardinality(places) = 1
                THEN attachments[CHOOSE i \in places : TRUE] ELSE None

(* By its id, by its file name, or because there is only one of each. *)
alt_or_fallback(alt) ==
    IF alt # None /\ WithName(alt) # {} THEN only(WithName(alt))
    ELSE IF count_file_media_references = 1 THEN only(Images) ELSE None

only_an_image(found) == IF found = None THEN None ELSE IF found.image THEN found ELSE None

resolve_media_image(ref) ==
    only_an_image(IF ref.id # None /\ WithId(ref.id) # {} THEN only(WithId(ref.id))
                  ELSE alt_or_fallback(ref.alt))

Shows(image, st) == IF image = None THEN Unsupported([st EXCEPT !.unresolved = TRUE])
                    ELSE Gives(<<Pointing("Image", image.id)>>, st)

parse_media_node(node, st) ==
    IF attachments = None THEN Unsupported(st)
    ELSE IF node.ref = None THEN malformed(st)
    ELSE IF node.ref.target # "file" THEN Unsupported(st)
    ELSE Shows(resolve_media_image(node.ref), st)

parse_media_container(values, depth, st) ==
    LET op(v, s) == IF refused(depth, s) THEN malformed(s)
                    ELSE IF v.type # "media" THEN malformed(visited(s))
                    ELSE parse_media_node(v, visited(s))
    IN  IF values = <<>> THEN malformed(st) ELSE Each(op, values, st)

Card(attachment, st) ==
    IF attachment = None THEN Unsupported(st)
    ELSE Gives(<<Pointing("AttachmentCard", attachment.id)>>, st)

parse_media_inline(node, st) ==
    IF attachments = None \/ node.ref = None THEN Unsupported(st)
    ELSE IF node.ref.target # "file" THEN Unsupported(st)
    ELSE IF node.ref.id # None /\ WithId(node.ref.id) # {}
         THEN Card(only(WithId(node.ref.id)), st)
    ELSE IF node.ref.alt # None /\ Cardinality(WithName(node.ref.alt)) = 1
         THEN Card(only(WithName(node.ref.alt)), st)
    ELSE Card(IF count_file_media_references = 1 THEN only(DOMAIN attachments)
              ELSE None, st)

(* What the address of a card or a link leads to. *)
attachment_id_from_inline_card_url(ref) ==
    IF ref.target = "attachment" THEN ref.id ELSE None
confluence_card_url(ref)    == ref.target = "page"
jira_browse_issue_link(ref) == ref.target = "issue"

parse_inline_card(node, st) ==
    IF node.ref = None THEN Unsupported(st)
    ELSE IF attachments # None /\ attachment_id_from_inline_card_url(node.ref) # None
         THEN Card(only(WithId(node.ref.id)), st)
    ELSE IF confluence_card_url(node.ref) THEN Gives(<<Leaf("Text", 0)>>, st)
    ELSE IF jira_browse_issue_link(node.ref) THEN Gives(<<Leaf("IssueLink", 0)>>, st)
    ELSE Unsupported(st)

---------------------------------------------------------------------------
(* Inlines *)

(* A text with a link mark whose address is safe is an element of its own. *)
parse_text(node, st) ==
    IF ~node.ok THEN malformed(st)
    ELSE IF node.ref = None THEN said(node.text, st)
    ELSE Named("Link", said(node.text, st))

(* Someone without a usable label is "Mentioned user". *)
parse_mention(node, st) ==
    IF node.text > 0 THEN said(node.text, st) ELSE Gives(<<Leaf("Text", 0)>>, st)

parse_emoji_inline(node, st) == IF node.ok THEN said(node.text, st) ELSE malformed(st)
parse_date_inline(node, st)  == IF node.ok THEN said(node.text, st) ELSE malformed(st)
parse_status_inline(node, st) ==
    IF node.ok THEN Named("Status", said(node.text, st)) ELSE malformed(st)

parse_inline(node, depth, st) ==
    LET s == visited(st) IN
    IF refused(depth, st) THEN Nothing(st) ELSE
    CASE node.type = "scalar"      -> malformed(s)
      [] node.type = "text"        -> parse_text(node, s)
      [] node.type = "mention"     -> parse_mention(node, s)
      [] node.type = "emoji"       -> parse_emoji_inline(node, s)
      [] node.type = "date"        -> parse_date_inline(node, s)
      [] node.type = "status"      -> parse_status_inline(node, s)
      [] node.type = "hardBreak"   -> Gives(<<Leaf("HardBreak", 0)>>, s)
      [] node.type = "mediaInline" -> parse_media_inline(node, s)
      [] node.type = "inlineCard"  -> parse_inline_card(node, s)
      [] OTHER                     -> Unsupported(s)

parse_inlines(values, depth, st) ==
    Each(LAMBDA v, s : parse_inline(v, depth, s), values, st)

(* The text nodes of a code block; anything else is left out. *)
parse_code_text(values, depth, st) ==
    LET op(v, s) == IF refused(depth, s) THEN Nothing(s)
                    ELSE IF v.type # "text" THEN Nothing(visited(s))
                    ELSE IF v.ok THEN said(v.text, visited(s))
                    ELSE Gives(<<>>, visited(s))
    IN  Each(op, values, st)

---------------------------------------------------------------------------
(* Blocks *)

(* What parses a block that lies deeper is handed down as within: a        *)
(* function of the node, its depth and the state.                          *)

MediaContainers == {"mediaSingle", "mediaGroup"}

parse_blocks(within, values, depth, st) ==
    LET op(v, s) ==
            IF attachments = None \/ v.type \notin MediaContainers
            THEN within[v][depth][s]
            ELSE IF refused(depth, s) THEN malformed(s)
            ELSE IF v.content = None THEN malformed(visited(s))
            ELSE parse_media_container(v.content, depth + 1, visited(s))
    IN  Each(op, values, st)

(* A heading, a code block or a paragraph. *)
TextBlocks == {"paragraph", "heading", "codeBlock"}
parse_text_block(node, depth, st) ==
    IF ~node.ok THEN malformed(st)
    ELSE IF node.type = "paragraph" /\ node.content = None
    THEN Gives(<<Out("Paragraph", <<>>)>>, st)
    ELSE IF node.content = None THEN malformed(st) ELSE
    CASE node.type = "codeBlock" ->
            LET language == IF node.text = 0 THEN Gives(<<>>, st)
                            ELSE Named("Language", said(node.text, st))
                code == parse_code_text(node.content, depth + 1, language.st)
                label == IF language.st.text > st.text THEN language.out ELSE <<>>
            IN  Gives(<<Out("CodeBlock", label \o code.out)>>, code.st)
      [] OTHER -> Wrapped(IF node.type = "paragraph" THEN "Paragraph" ELSE "Heading",
                          parse_inlines(node.content, depth + 1, st))

parse_list_items(within, values, depth, st) ==
    LET item(r) == Wrapped("ListItem", r)
        op(v, s) ==
            IF v.type # "listItem" THEN item(malformed(s))
            ELSE IF refused(depth, s) THEN Nothing(s)
            ELSE IF v.content = None THEN item(malformed(visited(s)))
            ELSE item(parse_blocks(within, v.content, depth + 1, visited(s)))
    IN  Each(op, values, st)

parse_task_item(within, node, depth, st) ==
    IF ~node.ok THEN malformed(st)
    ELSE IF node.type = "taskItem"
    THEN IF node.content = None THEN Gives(<<>>, st)
         ELSE Wrapped("Paragraph", parse_inlines(node.content, depth + 1, st))
    ELSE IF Empty(node) THEN malformed(st)
    ELSE parse_blocks(within, node.content, depth, st)

(* A nested list, which is parsed like any block, belongs to the item      *)
(* before it, if there is one.                                             *)
Nested(out) == out # <<>> /\ out[1].kind # "TaskItem"
AddTask(items, out) ==
    IF ~Nested(out) THEN items \o out
    ELSE IF items = <<>> THEN <<Out("TaskItem", out)>>
    ELSE [items EXCEPT ![Len(items)].children = @ \o out]

parse_task_list(within, node, depth, st) ==
    LET op(v, s) ==
            IF refused(depth + 1, s) THEN Nothing(s) ELSE
            CASE v.type = "taskItem" ->
                    Wrapped("TaskItem", parse_task_item(within, v, depth + 1, visited(s)))
              [] v.type = "blockTaskItem" ->
                    Wrapped("TaskItem", parse_task_item(within, v, depth + 2, visited(s)))
              [] v.type = "taskList" -> within[v][depth + 1][s]
              [] OTHER -> Wrapped("TaskItem", malformed(visited(s)))
    IN  IF ~node.ok \/ Empty(node) THEN malformed(st)
        ELSE Wrapped("TaskList", EachWith(op, AddTask, node.content, st))

parse_decision_list(node, depth, st) ==
    LET item(r) == Wrapped("DecisionItem", r)
        op(v, s) ==
            IF refused(depth + 1, s) THEN Nothing(s)
            ELSE IF v.type # "decisionItem" THEN item(malformed(visited(s)))
            ELSE IF ~v.ok THEN item(malformed(visited(s)))
            ELSE IF v.content = None THEN item(Gives(<<>>, visited(s)))
            ELSE item(parse_inlines(v.content, depth + 2, visited(s)))
    IN  IF ~node.ok \/ Empty(node) THEN malformed(st)
        ELSE Wrapped("DecisionList", Each(op, node.content, st))

(* A row or a cell that cannot be parsed spoils the whole table; rows and  *)
(* cells beyond the limits are left out.                                   *)
(* n values gave as many nodes. *)
Whole(form, n, Otherwise(_), r) ==
    IF Len(r.out) < n THEN Otherwise(r.st) ELSE Wrapped(form, r)

AtMost(n, s) == IF Len(s) <= n THEN s ELSE SubSeq(s, 1, n)

parse_table_cell(within, node, depth, st) ==
    IF refused(depth, st) THEN Nothing(st)
    ELSE IF node.type \notin {"tableCell", "tableHeader"} \/ ~node.ok \/ Empty(node)
    THEN Nothing(visited(st))
    ELSE Whole("Cell", Len(node.content), Nothing,
               EachOrStop(LAMBDA v, s : within[v][depth + 1][s], node.content, visited(st)))

\* Mutant: cells beyond the limit are left out without a word.
parse_table_row_Silent(within, node, depth, st) ==
    LET cells == AtMost(MaxTableCells, node.content)
    IN  IF refused(depth, st) THEN Nothing(st)
        ELSE IF node.type # "tableRow" \/ ~node.ok \/ Empty(node)
        THEN Nothing(visited(st))
        ELSE Whole("Row", Len(cells), LAMBDA s : Gives(<<>>, s),
                   EachOrStop(LAMBDA v, s : parse_table_cell(within, v, depth + 1, s),
                              cells, visited(st)))

parse_table_row(within, node, depth, st) ==
    LET cells == AtMost(MaxTableCells, node.content)
        s0    == visited(st)
        s1    == IF Len(node.content) > MaxTableCells THEN Cut(s0) ELSE s0
    IN  IF refused(depth, st) THEN Nothing(st)
        ELSE IF node.type # "tableRow" \/ ~node.ok \/ Empty(node) THEN Nothing(s0)
        ELSE Whole("Row", Len(cells), LAMBDA s : Gives(<<>>, s),
                   EachOrStop(LAMBDA v, s : parse_table_cell(within, v, depth + 1, s),
                              cells, s1))

parse_table(within, node, depth, st) ==
    LET rows == AtMost(MaxTableRows, node.content)
        s1   == IF Len(node.content) > MaxTableRows THEN Cut(st) ELSE st
    IN  IF ~node.ok \/ Empty(node) THEN malformed(st)
        ELSE Whole("Table", Len(rows), malformed,
                   EachOrStop(LAMBDA v, s : parse_table_row(within, v, depth + 1, s),
                              rows, s1))

Lists  == {"bulletList", "orderedList"}
Quotes == {"listItem", "blockquote"}

(* A list, a panel or a quote. *)
parse_content_block(within, node, depth, st) ==
    IF node.content = None \/ (node.type = "panel" /\ ~node.ok) THEN malformed(st)
    ELSE
    CASE node.type = "bulletList" ->
            Wrapped("BulletList", parse_list_items(within, node.content, depth + 1, st))
      [] node.type = "orderedList" ->
            Wrapped("OrderedList", parse_list_items(within, node.content, depth + 1, st))
      [] OTHER -> Wrapped(IF node.type = "panel" THEN "Panel" ELSE "BlockQuote",
                          parse_blocks(within, node.content, depth + 1, st))

parse_container_block(within, node, depth, st) ==
    CASE node.type = "taskList"     -> parse_task_list(within, node, depth, st)
      [] node.type = "decisionList" -> parse_decision_list(node, depth, st)
      [] node.type = "table"        -> parse_table(within, node, depth, st)
      [] OTHER -> parse_content_block(within, node, depth, st)

(* The title counts before the content is looked at. *)
parse_expand_block(within, node, depth, st) ==
    LET title == IF node.text = 0 THEN Gives(<<>>, st) ELSE said(node.text, st)
        body  == parse_blocks(within, node.content, depth + 1, title.st)
    IN  IF ~node.ok THEN malformed(st)
        ELSE IF Empty(node) THEN malformed(title.st)
        ELSE Gives(<<Out("Expand", title.out \o body.out)>>, body.st)

(* An inline that stands as a block of its own. *)
as_block(r) == IF r.out = <<Placeholder>> THEN r ELSE Wrapped("Paragraph", r)

parse_embedded_block(within, node, depth, st) ==
    CASE node.type \in {"expand", "nestedExpand"} ->
            parse_expand_block(within, node, depth, st)
      [] node.type = "media" -> parse_media_node(node, st)
      [] node.type \in MediaContainers ->
            IF node.content = None \/ attachments = None THEN Unsupported(st)
            ELSE LET r == parse_media_container(node.content, depth, st)
                 IN  IF Len(r.out) = 1 THEN r ELSE Wrapped("BlockQuote", r)
      [] node.type = "mediaInline" -> as_block(parse_media_inline(node, st))
      [] node.type = "rule" -> IF node.ok THEN Gives(<<Out("Rule", <<>>)>>, st)
                               ELSE malformed(st)

parse_card_or_status_block(node, st) ==
    IF node.type = "status"
    THEN Wrapped("Paragraph", parse_status_inline(node, st))
    ELSE as_block(parse_inline_card(node, st))

parse_block(within, node, depth, st) ==
    LET s == visited(st) IN
    IF refused(depth, st) THEN Nothing(st) ELSE
    CASE node.type = "scalar"     -> malformed(s)
      [] node.type \in TextBlocks -> parse_text_block(node, depth, s)
      [] node.type \in Lists \cup Quotes
            \cup {"panel", "taskList", "decisionList", "table"} ->
            parse_container_block(within, node, depth, s)
      [] node.type \in MediaContainers
            \cup {"expand", "nestedExpand", "media", "mediaInline", "rule"} ->
            parse_embedded_block(within, node, depth, s)
      [] node.type \in {"status", "inlineCard", "blockCard"} ->
            parse_card_or_status_block(node, s)
      [] OTHER -> Unsupported(s)

---------------------------------------------------------------------------
(* The document *)

(* Every block may hold deeper ones, down to MaxDepth. *)
parsing[deeper \in 0..MaxDepth] ==
    [v \in Nodes |-> [depth \in Nat |-> [s \in AdfParserState |->
        IF deeper = 0 THEN Nothing(s)
        ELSE parse_block(parsing[deeper - 1], v, depth, s)]]]

(* What is in S or in a part of something in it, and so on: n times.       *)
Within(n, Parts(_), S) ==
    LET upto[k \in 0..n] ==
            IF k = 0 THEN S
            ELSE LET before == upto[k - 1]
                 IN  before \cup UNION {Parts(x) : x \in before}
    IN  upto[n]

Elements(s) == {s[i] : i \in DOMAIN s}

(* A result nests at most twice as deep as what it was parsed from.        *)
Levels == 2 * MaxDepth + 2

all_blocks(blocks) == Within(Levels, LAMBDA b : Elements(b.children), Elements(blocks))
images_of(blocks)  == {b \in blocks : b.kind = "Image"}

\* Mutant: the images in a table are forgotten.
collect_resolved_image_ids_NoTables(blocks) ==
    LET inside(b) == IF b.kind = "Table" THEN {} ELSE Elements(b.children)
    IN  {b.id : b \in images_of(Within(Levels, inside, Elements(blocks)))}

collect_resolved_image_ids(blocks) == {b.id : b \in images_of(all_blocks(blocks))}

(* The image attachments the document does not show, each once. *)
collect_fallback_images(blocks) ==
    LET shown == collect_resolved_image_ids(blocks)
        candidate(i) == /\ attachments[i].image /\ attachments[i].id \notin shown
                        /\ \A j \in 1..(i - 1) : attachments[j].id # attachments[i].id
        upto[i \in 0..Len(attachments)] ==
            IF i = 0 THEN <<>>
            ELSE IF candidate(i) THEN Append(upto[i - 1], attachments[i].id)
            ELSE upto[i - 1]
    IN  AtMost(MaxFallback, upto[Len(attachments)])

Document(r) ==
    [blocks |-> r.out, truncated |-> r.st.truncated,
     fallback_images |-> IF r.st.unresolved THEN collect_fallback_images(r.out) ELSE <<>>]

parse_adf ==
    Document(parse_blocks(parsing[MaxDepth], adf.content, 1,
                 [nodes |-> 0, text |-> 0, truncated |-> FALSE, unresolved |-> FALSE]))

Parse == /\ rich = None /\ adf.ok
         /\ rich' = parse_adf
         /\ UNCHANGED <<adf, attachments, plain, view>>

---------------------------------------------------------------------------
(* The plain text: the texts in order, and the marker that ends them when  *)
(* something does not fit.                                                 *)

(* Blocks that hold blocks.  What treats those is handed down as within.   *)
Trees[h \in 0..Levels] ==
    [kind : STRING, size : Nat, id : {a.id : a \in Attachments} \cup {None},
     children : IF h = 0 THEN {<<>>} ELSE Seq(Trees[h - 1])]
Blocks == Trees[Levels]

PlainTextBuilder == [texts : Seq(Nat), bytes : Nat, nodes : Nat, truncated : BOOLEAN,
                     stopped : BOOLEAN]

Fold(op(_, _), values, st) ==
    LET upto[i \in 0..Len(values)] ==
            IF i = 0 THEN st ELSE op(values[i], upto[i - 1])
    IN  upto[Len(values)]

truncate(p) ==
    IF p.truncated THEN p
    ELSE [p EXCEPT !.truncated = TRUE,
                   !.bytes = (IF @ > MaxPlain - MarkerSize THEN MaxPlain - MarkerSize
                              ELSE @) + MarkerSize]

plain_refused(depth, p) == depth > MaxPlainDepth \/ p.nodes >= MaxPlainNodes
plain_visited(p)        == [p EXCEPT !.nodes = @ + 1]

push(n, p) ==
    IF p.truncated \/ n = 0 THEN p
    ELSE IF p.bytes + n <= MaxPlain
    THEN [p EXCEPT !.bytes = @ + n, !.texts = Append(@, n)]
    ELSE LET limit == MaxPlain - MarkerSize
         IN  truncate([p EXCEPT !.bytes = IF @ > limit THEN @ ELSE limit])

append_inline_text(values, depth, p) ==
    LET op(v, q) == IF q.stopped THEN q
                    ELSE IF plain_refused(depth, q)
                    THEN [truncate(q) EXCEPT !.stopped = TRUE]
                    ELSE push(v.size, plain_visited(q))
    IN  [Fold(op, values, [p EXCEPT !.stopped = FALSE]) EXCEPT !.stopped = FALSE]

append_blocks(within, values, depth, p) ==
    Fold(LAMBDA v, q : within[v][depth][q], values, p)

(* Blocks after the truncation are visited or not; nothing is added.       *)
append_nested_blocks_text(within, values, depth, p) ==
    Fold(LAMBDA v, q : IF q.truncated THEN q ELSE within[v][depth][q], values, p)

append_list_item_text(within, item, depth, p) ==
    IF plain_refused(depth, p) THEN truncate(p)
    ELSE append_nested_blocks_text(within, item.children, depth + 1, plain_visited(p))

append_list_text(within, items, depth, p) ==
    Fold(LAMBDA v, q : IF q.truncated THEN q
                       ELSE append_list_item_text(within, v, depth, q), items, p)

append_task_list_text(within, items, depth, p) ==
    Fold(LAMBDA v, q : IF q.truncated THEN q
                       ELSE append_blocks(within, v.children, depth, q), items, p)

append_decision_list_text(items, depth, p) ==
    Fold(LAMBDA v, q : IF q.truncated THEN q
                       ELSE append_inline_text(v.children, depth, q), items, p)

append_expand_text(within, children, depth, p) ==
    LET title == children # <<>> /\ children[1].kind = "Text"
    IN  IF title THEN append_nested_blocks_text(within, Tail(children), depth,
                                                push(children[1].size, p))
        ELSE append_nested_blocks_text(within, children, depth, p)

append_table_text(within, rows, depth, p) ==
    LET cell(c, q) == IF q.truncated THEN q
                      ELSE IF plain_refused(depth + 2, q) THEN truncate(q)
                      ELSE append_nested_blocks_text(within, c.children, depth + 3,
                                                     plain_visited(q))
        row(r, q)  == IF q.truncated THEN q
                      ELSE IF plain_refused(depth + 1, q) THEN truncate(q)
                      ELSE Fold(cell, r.children, plain_visited(q))
    IN  IF plain_refused(depth, p) THEN truncate(p)
        ELSE Fold(row, rows, plain_visited(p))

append_block(within, block, depth, p) ==
    LET q == plain_visited(p)  inside == block.children  d == depth + 1 IN
    IF plain_refused(depth, p) THEN truncate(p)
    ELSE CASE block.kind \in {"Paragraph", "Heading"} ->
                 append_inline_text(inside, d, q)
           [] block.kind \in {"BulletList", "OrderedList"} ->
                 append_list_text(within, inside, d, q)
           [] block.kind = "TaskList"     -> append_task_list_text(within, inside, d, q)
           [] block.kind = "DecisionList" -> append_decision_list_text(inside, d, q)
           [] block.kind = "CodeBlock"    ->
                 Fold(LAMBDA v, r : IF v.kind = "Language" THEN r ELSE push(v.size, r),
                      inside, q)
           [] block.kind \in {"BlockQuote", "Panel"} ->
                 append_nested_blocks_text(within, inside, d, q)
           [] block.kind = "Expand"       -> append_expand_text(within, inside, d, q)
           [] block.kind = "Table"        -> append_table_text(within, inside, d, q)
           [] OTHER                       -> q

append_block_text[block \in Blocks] ==
    [depth \in Nat |-> [p \in PlainTextBuilder |->
        append_block(append_block_text, block, depth, p)]]

plain_text ==
    LET p == append_nested_blocks_text(append_block_text, rich.blocks, 0,
                 [texts |-> <<>>, bytes |-> 0, nodes |-> 0, truncated |-> FALSE,
                  stopped |-> FALSE])
    IN  IF rich.truncated THEN truncate(p) ELSE p

Project == /\ rich # None /\ plain = None
           /\ plain' = plain_text
           /\ UNCHANGED <<adf, attachments, rich, view>>

---------------------------------------------------------------------------
(* The rendering: the leaves on the screen, and whether the budget left    *)
(* something out.                                                          *)

RenderBudget == [nodes : Nat, text : Nat, omitted : BOOLEAN, shown : Seq(Blocks)]

render_refused(depth, b) == depth > MaxRenderDepth \/ b.nodes >= MaxRenderNodes
entered(b) == [b EXCEPT !.nodes = @ + 1]
Omit(b)    == [b EXCEPT !.omitted = TRUE]

rendered_text(n, b) ==
    IF b.text + n <= MaxRenderText THEN [b EXCEPT !.text = @ + n]
    ELSE Omit([b EXCEPT !.text = MaxRenderText])

show(leaf, b) == [rendered_text(leaf.size, b) EXCEPT !.shown = Append(@, leaf)]

(* op on the first MaxChildren values, until something is left out.        *)
Shown(op(_, _), values, b) ==
    LET upto[i \in 0..Len(AtMost(MaxChildren, values))] ==
            IF i = 0 THEN b
            ELSE LET before == upto[i - 1]
                 IN  IF i > 1 /\ before.omitted THEN before ELSE op(values[i], before)
        r == upto[Len(AtMost(MaxChildren, values))]
    IN  IF Len(values) > MaxChildren THEN Omit(r) ELSE r

render_blocks(within, values, depth, b) ==
    Shown(LAMBDA v, c : within[v][depth + 1][c], values, b)

(* Cards, links and statuses are elements of their own between runs of     *)
(* text.  An omission ends its run, a refused element ends the line.       *)
inline_requires_element(leaf) ==
    leaf.kind \in {"Status", "AttachmentCard", "IssueLink", "Link"}

render_line(values, depth, b) ==
    LET last_run(i) == ~\E j \in i..Len(values) : inline_requires_element(values[j])
        one(v, c)   == IF render_refused(depth + 1, c) THEN Omit(c)
                       ELSE show(v, entered(c))
        (* state: the budget, whether the run is over, whether the line is *)
        upto[i \in 0..Len(values)] ==
            IF i = 0 THEN <<b, FALSE, FALSE>>
            ELSE LET l == upto[i - 1]
                     c == one(values[i], l[1])
                 IN  IF l[3] THEN l
                     ELSE IF inline_requires_element(values[i])
                     THEN <<c, c.omitted /\ last_run(i + 1),
                            render_refused(depth + 1, l[1])>>
                     ELSE IF l[2] THEN l ELSE <<c, c.omitted, FALSE>>
    IN  upto[Len(values)][1]

render_inlines(values, depth, b) ==
    LET r == render_line(AtMost(MaxChildren, values), depth, b)
    IN  IF Len(values) > MaxChildren THEN Omit(r) ELSE r

render_list(within, values, depth, b) ==
    Shown(LAMBDA v, c : IF render_refused(depth + 1, c) THEN Omit(c)
                        ELSE render_blocks(within, v.children, depth, entered(c)),
          values, b)

render_decision_list(values, depth, b) ==
    Shown(LAMBDA v, c : IF render_refused(depth + 1, c) THEN Omit(c)
                        ELSE render_inlines(v.children, depth, entered(c)),
          values, b)

render_expand(within, children, depth, b) ==
    LET title == children # <<>> /\ children[1].kind = "Text"
    IN  IF title THEN render_blocks(within, Tail(children), depth, show(children[1], b))
        ELSE render_blocks(within, children, depth, b)

render_table(within, rows, depth, b) ==
    LET cell(v, c) == IF render_refused(depth + 2, c) THEN Omit(c)
                      ELSE render_blocks(within, v.children, depth + 1, entered(c))
        cells(v, c) == Fold(cell, AtMost(MaxChildren, v), c)
        row(v, c)  == IF render_refused(depth + 1, c) THEN Omit(c)
                      ELSE IF Len(v.children) > MaxChildren
                      THEN Omit(cells(v.children, entered(c)))
                      ELSE cells(v.children, entered(c))
    IN  Shown(row, rows, b)

(* An image takes the text of its label, whatever its state.               *)
render_image(image, b) ==
    [rendered_text(LabelSize, b) EXCEPT !.shown = Append(@, image)]

render_one(within, block, depth, b) ==
    LET c == entered(b)  inside == block.children IN
    IF render_refused(depth, b) THEN Omit(b)
    ELSE CASE block.kind \in {"Paragraph", "Heading"} ->
                 render_inlines(inside, depth, c)
           [] block.kind \in {"BulletList", "OrderedList", "TaskList"} ->
                 render_list(within, inside, depth, c)
           [] block.kind = "DecisionList" ->
                 render_decision_list(inside, depth, c)
           [] block.kind = "CodeBlock" -> Fold(show, inside, c)
           [] block.kind \in {"BlockQuote", "Panel"} ->
                 render_blocks(within, inside, depth, c)
           [] block.kind = "Expand" -> render_expand(within, inside, depth, c)
           [] block.kind = "Table"  -> render_table(within, inside, depth, c)
           [] block.kind = "Image"  -> render_image(block, c)
           [] OTHER -> [c EXCEPT !.shown = Append(@, block)]

render_block[block \in Blocks] ==
    [depth \in Nat |-> [b \in RenderBudget |-> render_one(render_block, block, depth, b)]]

(* The gallery of candidates comes after the note on omissions.            *)
render_rich_text ==
    LET b == Shown(LAMBDA v, c : render_block[v][0][c], rich.blocks,
                   [nodes |-> 0, text |-> 0, omitted |-> FALSE, shown |-> <<>>])
        room == MaxRenderNodes - b.nodes
    IN  [shown |-> b.shown, note |-> rich.truncated \/ b.omitted,
         gallery |-> IF b.omitted THEN <<>>
                     ELSE AtMost(room, rich.fallback_images)]

Render == /\ rich # None /\ view = None
          /\ view' = render_rich_text
          /\ UNCHANGED <<adf, attachments, rich, plain>>

ContentNext == Parse \/ Project \/ Render
ContentSpec == ContentInit /\ [][ContentNext]_contentVars

---------------------------------------------------------------------------
Concat(of, values) ==
    LET upto[i \in 0..Len(values)] ==
            IF i = 0 THEN <<>> ELSE upto[i - 1] \o of[values[i]]
    IN  upto[Len(values)]

(* The lengths of the texts of the source, in order. *)
node_texts[v \in Nodes] ==
    (IF v.text > 0 THEN <<v.text>> ELSE <<>>)
    \o (IF v.content = None THEN <<>> ELSE Concat(node_texts, v.content))
source_texts == Concat(node_texts, adf.content)

(* The nodes of the source, as deep as it is parsed. *)
Parts(v)  == IF v.content = None THEN {} ELSE Elements(v.content)
all_nodes == Within(MaxDepth + 2, Parts, Elements(adf.content))

LeafKinds == {"Text", "Link", "Status", "Language", "HardBreak", "AttachmentCard",
              "IssueLink", "Image", "Placeholder", "Rule"}

(* The leaves of the result, in order. *)
block_leaves[b \in Blocks] ==
    IF b.kind \in LeafKinds THEN <<b>> ELSE Concat(block_leaves, b.children)
leaves == Concat(block_leaves, rich.blocks)

HasText(leaf)   == leaf.size > 0
sizes(leaf_seq) == [i \in DOMAIN leaf_seq |-> leaf_seq[i].size]
HasPlaceholder  == \E leaf \in Elements(leaves) : leaf.kind = "Placeholder"

(* A document that shows no sign of a loss has every text of the source, in *)
(* its order (adf.rs, AdfParserState::truncated and the placeholders).      *)
ParsedIsWhole ==
    rich # None => (~rich.truncated /\ ~HasPlaceholder =>
        sizes(SelectSeq(leaves, HasText)) = source_texts)

(* A plain text without the marker has every text of the document, and the *)
(* marker is within the limit (rich_text.rs, PlainTextBuilder).            *)
PlainIsWhole ==
    plain # None =>
        /\ ~plain.truncated =>
              /\ ~rich.truncated
              /\ plain.texts = sizes(SelectSeq(leaves,
                    LAMBDA l : HasText(l) /\ l.kind # "Language"))
        /\ plain.bytes <= MaxPlain

(* A document rendered without the note is on the screen leaf for leaf     *)
(* (rich_text_view.rs, RenderBudget::omitted).                             *)
RenderedIsWhole ==
    view # None => (~view.note => view.shown = leaves)

(* Wherever one of the three limits leaves something out, that is said.    *)
LeftOutIsSaid == ParsedIsWhole /\ PlainIsWhole /\ RenderedIsWhole

(* The gallery has the image attachments the document does not show, each  *)
(* once (adf.rs, collect_fallback_images).                                 *)
GalleryComplements ==
    rich # None /\ attachments # None =>
        LET gallery == rich.fallback_images
            ids     == Elements(gallery)
            inside  == all_blocks(rich.blocks)
        IN  /\ Cardinality(ids) = Len(gallery) /\ Len(gallery) <= MaxFallback
            /\ ids \cap {b.id : b \in images_of(inside)} = {}
            /\ gallery # <<>> /\ Len(gallery) < MaxFallback =>
                  {attachments[i].id : i \in Images} \subseteq ids \cup {b.id : b \in inside}

(* An image that is shown is the one a media node names, or the only image *)
(* of a document with a single file media, as far as the count, with its   *)
(* own limits, can see (adf.rs, alt_or_fallback).                          *)
NamedBy(n, image) ==
    \/ n.ref.id = image.id
    \/ \E a \in WithId(image.id) : n.ref.alt = attachments[a].name

MediaIsNotGuessed ==
    rich # None =>
        \A image \in images_of(all_blocks(rich.blocks)) :
            \/ \E n \in all_nodes : IsFileMedia(n) /\ NamedBy(n, image)
            \/ Cardinality(Images) = 1 /\ count_file_media_references = 1

(* What the document shows of the attachments is theirs, and the gallery   *)
(* has the rest.                                                           *)
ImagesAreAccounted == GalleryComplements /\ MediaIsNotGuessed
=============================================================================
