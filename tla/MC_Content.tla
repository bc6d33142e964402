----------------------------- MODULE MC_Content -----------------------------
(* Documents for Content: one block with one line, one container with two   *)
(* blocks, tables that are too large or malformed, nestings and sequences   *)
(* beyond the limits; each with several lists of attachments.               *)
EXTENDS Content

N(type, content)  == [type |-> type, ok |-> TRUE, content |-> content, text |-> 0,
                      ref |-> None]
T(n)              == [N("text", None) EXCEPT !.text = n]
Says(type, n)     == [N(type, None) EXCEPT !.text = n]
Bad(node)         == [node EXCEPT !.ok = FALSE]
Ref(node, target, id, alt) ==
    [node EXCEPT !.ref = [target |-> target, id |-> id, alt |-> alt]]
Media(type) == {Ref(N(type, None), "file", "a", None),
                Ref(N(type, None), "file", "z", "B"),
                Ref(N(type, None), "file", None, None)}

Inlines ==
    {T(1), T(3), Bad(N("text", None)), N("mention", None), Says("mention", 2),
     N("hardBreak", None), Says("date", 1), Bad(N("emoji", None)), Says("status", 2),
     Ref(T(2), "link", None, None), N("mediaInline", None), N("other", None),
     N("scalar", None), N("inlineCard", None),
     Ref(N("mediaInline", None), "external", None, None),
     Ref(N("inlineCard", None), "page", None, None),
     Ref(N("inlineCard", None), "issue", None, None),
     Ref(N("inlineCard", None), "attachment", "a", None)} \cup Media("mediaInline")

LineSet ==
    {<<>>, <<T(1), T(1), T(1), T(1)>>} \cup {<<x>> : x \in Inlines}
    \cup {<<T(1), x, T(3)>> : x \in Inlines} \cup {<<T(3), T(3), x>> : x \in Inlines}

Para == N("paragraph", <<T(1)>>)
Leaves ==
    {Para, N("paragraph", <<T(3), T(2)>>), N("paragraph", None), N("heading", None),
     N("rule", None), Bad(N("rule", None)), Says("status", 1), N("scalar", None),
     N("mediaSingle", None), N("mediaGroup", <<>>), N("other", None), N("media", None),
     N("mediaGroup", <<N("media", None), Para>>), N("codeBlock", <<T(1), Bad(N("text", None))>>),
     [N("codeBlock", <<T(3)>>) EXCEPT !.text = 2], N("codeBlock", <<Para>>),
     Ref(N("blockCard", None), "issue", None, None),
     Ref(N("mediaInline", None), "file", "b", None),
     Ref(N("media", None), "external", None, None)}
    \cup Media("media") \cup {N("mediaSingle", <<m>>) : m \in Media("media")}

Few == {Para, N("rule", None), N("scalar", None), N("mediaSingle", None), N("other", None),
        N("bulletList", <<N("listItem", <<Para, Para>>)>>)} \cup Media("media")

Cell(x)  == N("tableCell", <<x>>)
Row(s)   == N("tableRow", s)
Item(x)  == N("listItem", <<x>>)

Containers(x, y) ==
    {N("blockquote", <<x, y>>), N("panel", <<x, y>>), Bad(N("panel", <<x>>)),
     N("panel", None), N("bulletList", <<Item(x), Item(y)>>),
     N("orderedList", <<x, Item(y)>>), N("bulletList", <<N("listItem", None), Item(y)>>),
     N("taskList", <<N("taskItem", <<T(1)>>), N("blockTaskItem", <<x, y>>)>>),
     N("taskList", <<N("taskList", <<N("blockTaskItem", <<x>>)>>), N("taskItem", None),
                     N("taskList", <<N("blockTaskItem", <<y>>)>>)>>),
     N("taskList", <<Bad(N("taskItem", None)), N("blockTaskItem", None), x>>),
     Bad(N("taskList", <<x>>)), N("decisionList", <<N("decisionItem", <<T(2), x>>), y>>),
     N("decisionList", <<N("decisionItem", None), Bad(N("decisionItem", None))>>),
     [N("expand", <<x, y>>) EXCEPT !.text = 1], [N("nestedExpand", <<>>) EXCEPT !.text = 1],
     Bad(N("expand", <<x>>)),
     N("table", <<Row(<<Cell(x), Cell(y)>>), Row(<<Cell(y)>>)>>),
     N("table", <<Row(<<N("tableHeader", <<x, y>>)>>), y>>),
     N("table", <<Row(<<Cell(x), N("tableCell", <<>>)>>)>>),
     N("table", <<Row(<<Cell(x), Cell(y), Cell(Para)>>)>>),
     N("table", <<Row(<<Cell(x)>>), Row(<<Cell(y)>>), Row(<<Cell(Para)>>)>>),
     N("table", <<Row(<<Cell(x)>>), Bad(Row(<<Cell(y)>>))>>), N("table", <<>>)}

NestedIn(block) ==
    LET in[i \in 0..12] == IF i = 0 THEN block ELSE N("blockquote", <<in[i - 1]>>)
    IN  {in[i] : i \in 1..12}

DocumentBodies ==
    {<<N("paragraph", l)>> : l \in LineSet} \cup {<<N("heading", <<T(2)>>), x>> : x \in Leaves}
    \cup {<<c>> : c \in UNION {Containers(x, y) : x \in Leaves, y \in Few}}
    \cup {<<c, x>> : c \in Containers(Para, CHOOSE m \in Media("media") : m.ref.id = "a"),
                     x \in Leaves}
    \cup {<<b>> : b \in UNION {NestedIn(x) : x \in Few}}
    \cup {[i \in 1..n |-> x] : n \in 2..9, x \in Few}
    \cup {<<N("bulletList", [i \in 1..n |-> Item(Para)])>> : n \in 3..5}

MCDocuments == {[ok |-> TRUE, content |-> b] : b \in DocumentBodies}
               \cup {[ok |-> FALSE, content |-> <<Para>>]}

MCAttachmentLists ==
    LET A(id, name, image) == [id |-> id, name |-> name, image |-> image]
    IN  {None, <<>>, <<A("a", "A", TRUE)>>, <<A("b", "B", FALSE)>>,
         <<A("a", "A", FALSE), A("b", "B", TRUE)>>,
         <<A("a", "B", TRUE), A("b", "B", TRUE), A("a", "B", TRUE), A("c", "C", TRUE)>>}

MCAttachments == UNION {{l[i] : i \in DOMAIN l} : l \in MCAttachmentLists \ {None}}

(* The nodes of the documents, which nest at most 14 deep and have at most  *)
(* nine parts.                                                              *)
PartsOf(seqs) == {p[1][p[2]] : p \in {q \in seqs \X (1..9) : q[2] \in DOMAIN q[1]}}
nodes_to[k \in 0..13] ==
    IF k = 0 THEN PartsOf({d.content : d \in MCDocuments})
    ELSE LET before == nodes_to[k - 1]
         IN  before \cup PartsOf({v.content : v \in before} \ {None})
document_nodes == nodes_to[13]
MCNodes == document_nodes
=============================================================================
