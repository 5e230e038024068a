------------------------------ MODULE MCWidgets ------------------------------
(* The parts of the window that share no state, one at a time: one of them  *)
(* runs and the others stay as they started.  Five parts run in two         *)
(* instances each: the tabs with all windows and restarts, or with the find *)
(* bar; the command list with searches or with pins; the tree with every    *)
(* root, filter and restart, or with renames of directories that have       *)
(* entries; the editor with searches or with pastes; and the preview with   *)
(* one pasted image, or closed with MaxPics of them.  A note is exported as *)
(* PDF once.                                                                *)
EXTENDS MainWindow, TerminalTab, TerminalPane, CommandsPage, Sidebar, DirectoryTree,
        NoteEditor, NotePreview, PdfExport

CONSTANT Narrow   \* a divider ratio

VARIABLE part   \* the part that runs

MCContents == {<<>>, <<"x">>, <<"open", "gt">>}
MCClips == {<<"x">>, <<"open", "gt">>}
MCPaths == {<<"a">>, <<"a", "c">>, <<"a", "d">>, <<"a", "c", "e">>, <<"a", "d", "e">>}
KindsByDepth(f) ==
    \A p \in DOMAIN f : /\ Len(p) = 1 => f[p] = "dir"
                        /\ Len(p) = 3 => f[p] = "file"
Node(kind, level, slug, height) ==
    [kind |-> kind, level |-> level, slug |-> slug, height |-> height]
MCNodes ==
    {Node("heading", l, <<"a">>, 1) : l \in 1..3}
        \cup {Node("heading", 1, <<"a", 2>>, 1), Node("quoted", 1, <<"b">>, 2),
              Node("text", 0, <<>>, 1), Node("text", 0, <<>>, PageHeight + 1),
              Node("break", 0, <<>>, 1), Node("toc", 0, <<>>, 0)}
MCTerms == {Win, {CHOOSE w \in Win : TRUE}}

\* Fresh tabs split, and restored ones that are a nested split on their
\* first or second side.
MCRatios == {HalfRatio, Narrow}
MCSavedTrees ==
    {SplitAt(SplitAt(LeafTree(1), Root, "vertical", Narrow, 2), at, "horizontal", HalfRatio, 3) :
        at \in {First(Root), Second(Root)}}

Init ==
    /\ part \in {"window", "find", "tab", "pane", "filter", "pin", "sidebar", "tree", "rename",
                 "search", "paste", "preview", "images", "pdf"}
    /\ WindowInit /\ TabInit /\ PaneInit /\ PageInit /\ SidebarInit /\ TreeInit
    /\ EditorInit /\ PreviewInit /\ PdfInit
    /\ part # "tab" => Fresh(1) /\ focusPane = None
    /\ part # "pane" => reports
    /\ part # "sidebar" => side.open /\ coreWins = Win

noteVars == <<editorVars, previewVars, pdfVars>>

WindowPart ==
    /\ part = "window" /\ WindowNext /\ UNCHANGED findVars
    /\ UNCHANGED <<part, tabVars, paneVars, pageVars, sideVars, treeVars, noteVars>>
FindPart ==
    /\ part = "find" /\ WindowNext /\ up' /\ ws'.windows = ws.windows /\ UNCHANGED persist
    /\ UNCHANGED <<part, tabVars, paneVars, pageVars, sideVars, treeVars, noteVars>>
TabPart ==
    /\ part = "tab" /\ TabNext
    /\ UNCHANGED <<part, windowVars, paneVars, pageVars, sideVars, treeVars, noteVars>>
PanePart ==
    /\ part = "pane" /\ PaneNext
    /\ UNCHANGED <<part, windowVars, tabVars, pageVars, sideVars, treeVars, noteVars>>
FilterPart ==
    /\ part = "filter" /\ PageNext /\ menu' = NoMenu
    /\ UNCHANGED <<part, windowVars, tabVars, paneVars, sideVars, treeVars, noteVars>>
PinPart ==
    /\ part = "pin" /\ PageNext /\ page'.term = NoCmd
    /\ UNCHANGED <<part, windowVars, tabVars, paneVars, sideVars, treeVars, noteVars>>
SidebarPart ==
    /\ part = "sidebar" /\ SidebarNext
    /\ UNCHANGED <<part, windowVars, tabVars, paneVars, pageVars, treeVars, noteVars>>
TreePart ==
    /\ part = "tree" /\ TreeNext /\ KindsByDepth(fs') /\ <<"a", "d", "e">> \notin DOMAIN fs'
    /\ UNCHANGED <<part, windowVars, tabVars, paneVars, pageVars, sideVars, noteVars>>
RenamePart ==
    /\ part = "rename" /\ TreeNext /\ KindsByDepth(fs') /\ root' = TopDir /\ ~filtering'
    /\ UNCHANGED <<part, windowVars, tabVars, paneVars, pageVars, sideVars, noteVars>>
SearchPart ==
    /\ part = "search" /\ EditorNext /\ ~pasting'
    /\ UNCHANGED <<part, windowVars, tabVars, paneVars, pageVars, sideVars, treeVars, previewVars,
                   pdfVars>>
PastePart ==
    /\ part = "paste" /\ EditorNext /\ ~term'
    /\ UNCHANGED <<part, windowVars, tabVars, paneVars, pageVars, sideVars, treeVars, previewVars,
                   pdfVars>>
PreviewPart ==
    /\ part = "preview" /\ PreviewNext /\ pics' <= 1 /\ files' = refs' /\ folder' = folder
    /\ UNCHANGED <<part, windowVars, tabVars, paneVars, pageVars, sideVars, treeVars, editorVars,
                   pdfVars>>
ImagesPart ==
    /\ part = "images" /\ PreviewNext /\ UNCHANGED <<preview, scrolled, dark>>
    /\ UNCHANGED <<part, windowVars, tabVars, paneVars, pageVars, sideVars, treeVars, editorVars,
                   pdfVars>>
PdfPart ==
    /\ part = "pdf" /\ pdf = NoPdf /\ PdfNext
    /\ UNCHANGED <<part, windowVars, tabVars, paneVars, pageVars, sideVars, treeVars, editorVars,
                   previewVars>>

Next ==
    \/ WindowPart \/ FindPart \/ TabPart \/ PanePart \/ FilterPart \/ PinPart
    \/ SidebarPart \/ TreePart \/ RenamePart \/ SearchPart \/ PastePart
    \/ PreviewPart \/ ImagesPart \/ PdfPart

Spec == Init /\ [][Next]_<<part, windowVars, tabVars, editorVars, treeVars, paneVars, pageVars,
                          sideVars, previewVars, pdfVars>>
=============================================================================
