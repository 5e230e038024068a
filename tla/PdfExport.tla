------------------------------ MODULE PdfExport ------------------------------
(* markdown_pdf_export.cpp, with the parts of markdown_layout.cpp and       *)
(* markdown_ast.cpp it needs: a note is laid out as blocks, the blocks are  *)
(* cut into pages, and the table of contents and the outline name headings  *)
(* by anchors and pages.                                                    *)
(*                                                                          *)
(* A note is a sequence of nodes.  "heading" has a level and the slug of    *)
(* its text; "quoted" is a block quote with a heading beside its text;      *)
(* "text" stands for every other node that makes a block; "break" is a page *)
(* break and "toc" is [[TOC]].  A slug is a sequence, so that the slug of   *)
(* the title "a 2" is what headings() makes of a second "a".                *)
EXTENDS Integers, Sequences, SequencesExt, FiniteSetsExt, SeqFilter

CONSTANTS
    Nodes,       \* what a note can hold: kind, level, slug, height
    Gap,         \* margins between two blocks
    PageHeight,  \* content_bottom - content_top
    RowHeight,   \* height of a row of the table of contents
    MaxNodes,    \* bound on the length of a note
    NoPdf        \* no file was written

\* md4c gives a heading a level from 1 to 6.
ASSUME PdfAssumption ==
    \A n \in Nodes : /\ n.kind \in {"heading", "quoted", "text", "break", "toc"}
                     /\ n.kind \in {"heading", "quoted"} => n.level \in 1..6

VARIABLES
    ast,   \* the note
    pdf    \* the file written: its note, blocks, pages and outline

pdfVars == <<ast, pdf>>

-----------------------------------------------------------------------------
\* collect_headings finds every heading, nested ones too.
Places(doc, kinds) ==
    Only([i \in DOMAIN doc |-> i], {i \in DOMAIN doc : doc[i].kind \in kinds})
headings(doc) ==
    LET at == Places(doc, {"heading", "quoted"}) IN [k \in DOMAIN at |-> doc[at[k]]]

\* MarkdownAst::headings: a slug seen before gets a number.
anchor(hs, i) ==
    LET used == Cardinality({j \in 1..(i - 1) : hs[j].slug = hs[i].slug})
    IN  IF used > 0 THEN Append(hs[i].slug, used + 1) ELSE hs[i].slug

\* heading_anchor: the layout counts the headings it visits, and a quote is
\* flattened without a visit to the heading in it.
heading_anchor(doc, i) ==
    anchor(headings(doc), Cardinality({j \in 1..i : doc[j].kind = "heading"}))

\* counters: one per level, cut by a higher heading and grown with zeros.
toc_number(hs, i) ==
    [l \in 1..hs[i].level |->
        Cardinality({j \in 1..i : hs[j].level = l /\ \A m \in j..i : hs[m].level >= l})]

\* Mutant: a page number that takes room from the title makes it wrap.
RowWithNumber(hs, i, page) ==
    [kind |-> "row", h |-> IF page > 0 THEN RowHeight + 1 ELSE RowHeight,
     anchor |-> anchor(hs, i), of |-> i, number |-> toc_number(hs, i), page |-> page]

\* A row of the contents is measured without its page number.
TocRow(hs, i, page) ==
    [kind |-> "row", h |-> RowHeight, anchor |-> anchor(hs, i), of |-> i,
     number |-> toc_number(hs, i), page |-> page]

\* emit_node: the blocks of node i.  toc_pages has the page of each
\* heading's anchor, 0 where it is not known; "of" says what a block was
\* made from.
emit_node(doc, toc_pages, i) ==
    LET hs == headings(doc)
    IN  CASE doc[i].kind = "toc" -> [k \in DOMAIN hs |-> TocRow(hs, k, toc_pages[k])]
          [] doc[i].kind = "heading" ->
                <<[kind |-> "heading", h |-> doc[i].height,
                   anchor |-> heading_anchor(doc, i), of |-> i]>>
          [] OTHER -> <<[kind |-> doc[i].kind, h |-> doc[i].height, of |-> i]>>

\* layout_document: the blocks of one node after those of the other.
layout_document(doc, toc_pages) ==
    LET blocks[i \in 0..Len(doc)] ==
            IF i = 0 THEN <<>> ELSE blocks[i - 1] \o emit_node(doc, toc_pages, i)
    IN  blocks[Len(doc)]

-----------------------------------------------------------------------------
Heights(blocks) == [k \in DOMAIN blocks |-> blocks[k].h]
Top(heights, k) == MapThenSumSet(LAMBDA j : heights[j] + Gap, 1..(k - 1))
FitsFrom(blocks, c, k) ==
    Top(Heights(blocks), k) - Top(Heights(blocks), c) + blocks[k].h <= PageHeight
IsBreak(blocks, k) == blocks[k].kind = "break"

\* The last block that fits on a page that starts with block c, or stands
\* before a break.
FillPage(blocks, c) ==
    Min({k \in c..Len(blocks) : \/ k = Len(blocks)
                                \/ IsBreak(blocks, k + 1)
                                \/ ~FitsFrom(blocks, c, k + 1)})

\* The inner loop of paginate_blocks, which takes block c whatever its height.
\* A heading whose next block does not fit moves to the next
\* page, unless it is block c.
PageEnd(blocks, c) ==
    LET n == Len(blocks)
        last == FillPage(blocks, c)
        apart == last < n /\ ~IsBreak(blocks, last + 1) /\ blocks[last].kind = "heading"
    IN  IF apart /\ last > c THEN last - 1 ELSE last

\* The outer loop of paginate_blocks: one more page, from the first block
\* that is no break on, if there is one.
AddPage(blocks, pages) ==
    LET cursor == IF pages = <<>> THEN 1 ELSE pages[Len(pages)].last + 1
        content == {k \in cursor..Len(blocks) : ~IsBreak(blocks, k)}
    IN  IF content = {} THEN pages
        ELSE Append(pages, [first |-> Min(content), last |-> PageEnd(blocks, Min(content))])

\* A page takes a block, so there are no more pages than blocks.  A note of
\* breaks alone gets a page that shows the first of them.
paginate_blocks(blocks) ==
    LET pages[i \in 0..Len(blocks)] ==
            IF i = 0 THEN <<>> ELSE AddPage(blocks, pages[i - 1])
        cut == pages[Len(blocks)]
    IN  IF cut = <<>> THEN <<[first |-> 1, last |-> 1]>> ELSE cut

\* anchor_page: the last page that has a heading with the anchor.
anchor_page(blocks, pages, a) ==
    Max({0} \cup {p \in DOMAIN pages :
                    \E k \in pages[p].first..pages[p].last :
                        blocks[k].kind = "heading" /\ blocks[k].anchor = a})

\* The outline parent of each heading: the latest heading one level up, 0
\* for the root.
outline(hs) ==
    [i \in DOMAIN hs |-> Max({0} \cup {j \in 1..(i - 1) : hs[j].level = hs[i].level - 1})]

-----------------------------------------------------------------------------
PdfInit == ast = <<>> /\ pdf = NoPdf

Write(n) ==
    /\ Len(ast) < MaxNodes /\ ast' = Append(ast, n)
    /\ UNCHANGED pdf

\* The pages of the headings in a layout that does not know them yet.
Drafted(doc) == layout_document(doc, [k \in DOMAIN headings(doc) |-> 0])
TocPages(doc) ==
    LET hs == headings(doc)
        drafted == Drafted(doc)
        pages == paginate_blocks(drafted)
    IN  [k \in DOMAIN hs |-> anchor_page(drafted, pages, anchor(hs, k))]

\* export_pdf: the second layout fills the pages of the first into the
\* contents, and is paginated again.  Without a block, or when the file
\* cannot be created, it returns before it changes anything.
export_pdf ==
    LET blocks == layout_document(ast, TocPages(ast))
    IN  /\ Drafted(ast) # <<>>
        /\ pdf' = [ast |-> ast, blocks |-> blocks, pages |-> paginate_blocks(blocks),
                   outline |-> outline(headings(ast))]
        /\ UNCHANGED ast

PdfNext == (\E n \in Nodes : Write(n)) \/ export_pdf

PdfSpec == PdfInit /\ [][PdfNext]_pdfVars

-----------------------------------------------------------------------------
(* The pages hold every block except the breaks, once and in order.  What  *)
(* is on a page fits, unless it is a single block.  A page ends only       *)
(* because the note ends, a break follows, the next block does not fit, or *)
(* the next block is a heading that is kept with what follows it; and a    *)
(* heading ends a page only at its top or before another heading.          *)
PagesComplete ==
    (pdf # NoPdf /\ \E k \in DOMAIN pdf.blocks : ~IsBreak(pdf.blocks, k)) =>
        LET b == pdf.blocks
            n == Len(b)
            Page(p) == pdf.pages[p].first..pdf.pages[p].last
        IN  /\ \A k \in 1..n : Cardinality({p \in DOMAIN pdf.pages : k \in Page(p)}) =
                                   IF IsBreak(b, k) THEN 0 ELSE 1
            /\ \A p, q \in DOMAIN pdf.pages : p < q => pdf.pages[p].last < pdf.pages[q].first
            /\ \A p \in DOMAIN pdf.pages :
                LET first == pdf.pages[p].first
                    last == pdf.pages[p].last
                    Runs(k) == k < n /\ ~IsBreak(b, k + 1)
                IN  /\ first < last => FitsFrom(b, first, last)
                    /\ (Runs(last) /\ FitsFrom(b, first, last + 1)) =>
                            b[last + 1].kind = "heading" /\ Runs(last + 1)
                                /\ ~FitsFrom(b, first, last + 2)
                    /\ (Runs(last) /\ b[last].kind = "heading") =>
                            first = last \/ b[last + 1].kind = "heading"

(* In a note whose headings have different anchors and are not inside      *)
(* quotes, each row of the table of contents has the number of no other    *)
(* heading and names the page its heading is on in the file, although the  *)
(* page was looked up before the second layout.  If no level is skipped,   *)
(* the outline puts each heading under the section it stands in.           *)
ContentsRight ==
    pdf # NoPdf =>
        LET hs == headings(pdf.ast)
            rows == {k \in DOMAIN pdf.blocks : pdf.blocks[k].kind = "row"}
            places == Places(pdf.ast, {"heading"})
            Plain == /\ \A n \in ToSet(pdf.ast) : n.kind # "quoted"
                     /\ \A i, j \in DOMAIN hs : anchor(hs, i) = anchor(hs, j) => i = j
            Section(i) == Max({0} \cup {j \in 1..(i - 1) : hs[j].level < hs[i].level})
            LevelOf(i) == IF i = 0 THEN 0 ELSE hs[i].level
        IN  /\ \A r, s \in rows : (pdf.blocks[r].number = pdf.blocks[s].number) =>
                    pdf.blocks[r].of = pdf.blocks[s].of
            /\ Plain => \A r \in rows :
                    LET page == pdf.blocks[r].page
                    IN  /\ page \in DOMAIN pdf.pages
                        /\ \E k \in pdf.pages[page].first..pdf.pages[page].last :
                            /\ pdf.blocks[k].kind = "heading"
                            /\ pdf.blocks[k].of = places[pdf.blocks[r].of]
            /\ (\A i \in DOMAIN hs : hs[i].level <= LevelOf(Section(i)) + 1) =>
                    \A i \in DOMAIN hs : pdf.outline[i] = Section(i)
=============================================================================
