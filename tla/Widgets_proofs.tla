-------------------------- MODULE Widgets_proofs --------------------------
(***************************************************************************)
(* Proofs about the parts of the window that share no state, each of its   *)
(* own specification and for every value of its constants.                 *)
(***************************************************************************)
EXTENDS Sidebar, TerminalPane, NotePreview, NoteEditor, DirectoryTree, TerminalTab, Autosave,
        MainWindow, CommandsPage, PdfExport, Operators_proofs, FiniteSetTheorems

-----------------------------------------------------------------------------
(* Sidebar: the list of windows                                            *)

SidebarInv ==
    /\ listed \in [Win -> Nat] /\ coreWins \subseteq Win
    /\ WindowRowsCurrent

LEMMA SidebarStep ==
    ASSUME SidebarInv, [SidebarNext]_sideVars
    PROVE  SidebarInv'
<1> USE DEF SidebarInv, WindowRowsCurrent
<1>1. ASSUME NEW p \in Pages, SetMode(p) PROVE SidebarInv'
  BY <1>1 DEF SetMode, winList
<1>2. ASSUME NEW v \in Views, set_history_sub_mode(v) PROVE SidebarInv'
  BY <1>2 DEF set_history_sub_mode, winList
<1>3. CASE toggle_history_sidebar \/ open_history_panel
  BY <1>3 DEF toggle_history_sidebar, open_history_panel, winList
<1>4. ASSUME NEW t \in Terms, ChangeSearch(t) PROVE SidebarInv'
  BY <1>4 DEF ChangeSearch
<1>5. CASE do_update_history_windows_list
  <2>1. fill' = [term |-> searched, wins |-> coreWins \cap searched]
    BY <1>5 DEF do_update_history_windows_list, Fill
  <2>2. listed' = [w \in Win |-> listed[w] + IF w \in fill'.wins THEN 1 ELSE 0]
    BY <1>5 DEF do_update_history_windows_list
  <2>3. fill'.wins \subseteq Win
    BY <2>1
  <2> QED
    BY <1>5, <2>1, <2>2, <2>3 DEF do_update_history_windows_list
<1>6. CASE CloseWindowMenu \/ DeleteListed
  BY <1>6 DEF CloseWindowMenu, DeleteListed
<1>7. ASSUME NEW w \in Win, show_window_context_menu(w) PROVE SidebarInv'
  BY <1>7 DEF show_window_context_menu
<1>8. ASSUME NEW w \in Win, EnsureWindow(w) PROVE SidebarInv'
  BY <1>8 DEF EnsureWindow
<1>9. CASE UNCHANGED sideVars
  BY <1>9 DEF sideVars
<1> QED BY <1>1, <1>2, <1>3, <1>4, <1>5, <1>6, <1>7, <1>8, <1>9 DEF SidebarNext

(* The newest fill of the list: once no idle callback is due, it answers   *)
(* the text in the entry, with a row for each window it found, all of them *)
(* still there: a deletion always schedules another fill.                  *)
THEOREM NewestFillCurrent == SidebarSpec => []WindowRowsCurrent
<1>1. SidebarInit => SidebarInv
  BY SidebarAssumption DEF SidebarInit, SidebarInv, WindowRowsCurrent
<1>2. SidebarInv => WindowRowsCurrent
  BY DEF SidebarInv
<1> QED BY <1>1, <1>2, SidebarStep, PTL DEF SidebarSpec

-----------------------------------------------------------------------------
(* TerminalPane: the working directory                                     *)

\* While the pane exists cached_cwd_ is the directory that was saved last;
\* the close handler runs only while it does.
CwdCached ==
    /\ object /\ saved # NoDir => cached = saved
    /\ closing => object

LEMMA CwdCachedStep ==
    ASSUME CwdCached, [PaneNext]_paneVars
    PROVE  CwdCached'
<1> USE DEF CwdCached
<1>1. CASE NewPane \/ runtime_restore \/ SpawnedTooLate
  BY <1>1 DEF NewPane, runtime_restore, SpawnedTooLate
<1>2. CASE Prompt \/ ShellExits
  BY <1>2 DEF Prompt, ShellExits
<1>3. ASSUME NEW ok \in BOOLEAN, on_spawned(ok) PROVE CwdCached'
  BY <1>3 DEF on_spawned
<1>4. ASSUME NEW d \in Dirs, Cd(d) \/ Mount(d) PROVE CwdCached'
  BY <1>4 DEF Cd, Mount
<1>5. CASE Autosaved \/ terminate_and_wait
  BY <1>5 DEF Autosaved, terminate_and_wait, runtime_capture
<1>6. CASE FinalCapture \/ Killed \/ ClosePane
  BY <1>6 DEF FinalCapture, Killed, ClosePane
<1>7. CASE UNCHANGED paneVars
  BY <1>7 DEF paneVars
<1> QED BY <1>1, <1>2, <1>3, <1>4, <1>5, <1>6, <1>7 DEF PaneNext

\* What a capture saves once a directory was saved.
LEMMA CaptureFacts ==
    ASSUME CwdCached, object, saved # NoDir, runtime_capture
    PROVE  saved' \in {saved, uri} \/ (tracked = "live" /\ saved' = pwd)
BY DEF CwdCached, runtime_capture, resolve_capture_cwd, pick_capture_cwd, read_proc_cwd

KeepsDirectory ==
    \/ saved = NoDir \/ saved' \in {saved, uri}
    \/ tracked = "live" /\ saved' = pwd
    \/ saved' = NoDir /\ ~object'

LEMMA KeepsDirectoryStep ==
    ASSUME CwdCached, [PaneNext]_paneVars
    PROVE  [KeepsDirectory]_paneVars
<1>1. CASE Autosaved \/ FinalCapture
  BY <1>1, CaptureFacts DEF Autosaved, FinalCapture, KeepsDirectory, CwdCached
<1>2. CASE ClosePane
  BY <1>2 DEF ClosePane, KeepsDirectory
<1>3. CASE UNCHANGED saved
  BY <1>3 DEF KeepsDirectory
<1>4. CASE UNCHANGED paneVars
  BY <1>4
<1> QED BY <1>1, <1>2, <1>3, <1>4
        DEF PaneNext, NewPane, runtime_restore, SpawnedTooLate, Prompt, ShellExits, on_spawned,
            Cd, Mount, terminate_and_wait, Killed

(* A saved directory is replaced only by what OSC 7 or a living shell      *)
(* said, over any number of runs, failed spawns and captures after the     *)
(* shell was ended: the cached directory stands in for both.               *)
THEOREM PaneKeepsDirectory == PaneSpec => DirectoryKept
<1>1. PaneInit => CwdCached
  BY DEF PaneInit, CwdCached
<1>2. PaneSpec => []CwdCached
  BY <1>1, CwdCachedStep, PTL DEF PaneSpec
<1>3. CwdCached /\ [PaneNext]_paneVars => [KeepsDirectory]_paneVars
  BY KeepsDirectoryStep
<1>4. PaneSpec => [][KeepsDirectory]_paneVars
  BY <1>2, <1>3, PTL DEF PaneSpec
<1> QED BY <1>4 DEF DirectoryKept, KeepsDirectory

-----------------------------------------------------------------------------
(* Largest numbers                                                         *)

LEMMA MaxFacts ==
    ASSUME NEW b \in Nat, NEW X \in SUBSET (0..b), X # {}
    PROVE  Max(X) \in X /\ \A y \in X : y <= Max(X)
<1> DEFINE T == {n \in Nat : \E x \in X : x = b - n}
<1>1. T # {}
  <2>1. PICK x \in X : TRUE
    OBVIOUS
  <2>2. b - x \in T
    BY <2>1
  <2> QED BY <2>2
<1>2. PICK n \in T : \A m \in T : n <= m
  BY <1>1, LeastExists
<1>3. b - n \in X
  BY <1>2
<1>4. ASSUME NEW y \in X PROVE y <= b - n
  <2>1. b - y \in T
    OBVIOUS
  <2> QED BY <1>2, <2>1
<1>5. \E x \in X : \A y \in X : x >= y
  BY <1>3, <1>4
<1> HIDE DEF T
<1> QED BY <1>5 DEF Max

-----------------------------------------------------------------------------
(* NotePreview: pasted images                                              *)

Image == [dir : Folders, number : Nat, pic : Nat]

\* Every reference of a numbered image still has its file, and no folder
\* holds two files of one number.
ImagesInv ==
    /\ folder \in Folders /\ pics \in Nat
    /\ files \subseteq Image /\ refs \subseteq Image
    /\ \A r \in refs : r.number <= LastNumber => r \in files
    /\ \A f, g \in files : f.dir = g.dir /\ f.number = g.number => f = g

\* The next number is one no file of the folder has, unless that file's name
\* is beyond the pattern.
LEMMA NextNumberFacts ==
    ASSUME ImagesInv
    PROVE  /\ NextNumber(NumbersIn(folder)) \in Nat
           /\ \A f \in files : f.dir = folder /\ f.number <= LastNumber
                => f.number < NextNumber(NumbersIn(folder))
<1> DEFINE ns == NumbersIn(folder)
           X == {n \in ns : n <= LastNumber} \cup {0}
<1>1. ns \subseteq Nat
  BY DEF NumbersIn, ImagesInv, Image
<1>2. X \in SUBSET (0..LastNumber) /\ X \subseteq Nat /\ X # {} /\ LastNumber \in Nat
  BY <1>1, PreviewAssumption
<1>3. \A f \in files : f.dir = folder => f.number \in ns
  BY DEF NumbersIn
<1> HIDE DEF ns
<1>4. \A f \in files : f.dir = folder /\ f.number <= LastNumber => f.number \in X
  BY <1>3
<1> HIDE DEF X
<1>5. Max(X) \in X /\ \A y \in X : y <= Max(X)
  BY <1>2, MaxFacts
<1>6. NextNumber(ns) = Max(X) + 1
  BY DEF NextNumber, X
<1>7. Max(X) \in Nat
  BY <1>2, <1>5
<1>8. NextNumber(ns) \in Nat
  BY <1>6, <1>7
<1>9. ASSUME NEW f \in files, f.dir = folder, f.number <= LastNumber
      PROVE  f.number < NextNumber(ns)
  <2>1. f.number \in X /\ f.number \in Nat
    BY <1>2, <1>4, <1>9
  <2> QED BY <1>5, <1>6, <1>7, <2>1
<1> QED BY <1>8, <1>9 DEF ns

\* A paste that succeeds, or fails after the file was made.
LEMMA PasteImages ==
    ASSUME ImagesInv, folder' = folder, pics' = pics + 1,
           NEW n, n = NextNumber(NumbersIn(folder)),
           NEW new, new = [dir |-> folder, number |-> n, pic |-> pics + 1],
           files' = {f \in files : f.dir # folder \/ f.number # n} \cup {new},
           refs' \in {refs, refs \cup {new}}
    PROVE  ImagesInv'
<1>1. n \in Nat /\ \A f \in files : f.dir = folder /\ f.number <= LastNumber => f.number < n
  BY NextNumberFacts
<1>2. new \in Image /\ new.dir = folder /\ new.number = n
  BY <1>1 DEF Image, ImagesInv
<1>3. files' \subseteq Image /\ refs' \subseteq Image /\ folder' \in Folders /\ pics' \in Nat
  BY <1>2 DEF ImagesInv
<1>4. ASSUME NEW r \in refs', r.number <= LastNumber PROVE r \in files'
  <2>1. CASE r = new
    BY <2>1
  <2>2. CASE r \in refs
    <3>1. r \in files /\ r.number \in Nat
      BY <1>4, <2>2 DEF ImagesInv, Image
    <3>2. r.dir # folder \/ r.number # n
      BY <1>1, <1>4, <3>1
    <3> QED BY <3>1, <3>2
  <2> QED BY <2>1, <2>2
<1>5. ASSUME NEW f \in files', NEW g \in files', f.dir = g.dir, f.number = g.number PROVE f = g
  BY <1>2, <1>5 DEF ImagesInv
<1> QED BY <1>3, <1>4, <1>5 DEF ImagesInv

LEMMA ImagesStep ==
    ASSUME ImagesInv, [PreviewNext]_previewVars
    PROVE  ImagesInv'
<1>1. ASSUME NEW t \in Draft, on_image_paste(t) PROVE ImagesInv'
  BY <1>1, PasteImages DEF on_image_paste
<1>2. CASE PasteFails
  BY <1>2, PasteImages DEF PasteFails
<1>3. ASSUME NEW f \in files, DeleteImage(f) PROVE ImagesInv'
  BY <1>3 DEF DeleteImage, ImagesInv
<1>4. ASSUME NEW d \in Folders, MoveNote(d) PROVE ImagesInv'
  BY <1>4 DEF MoveNote, ImagesInv
<1>5. CASE UNCHANGED images
  BY <1>5 DEF images, ImagesInv
<1> QED BY <1>1, <1>2, <1>3, <1>4, <1>5
        DEF PreviewNext, Edit, reload_from_disk, PreviewTick, RenderIdle, on_canvas_draw,
            toggle_preview, Resize, refresh_preview_settings, ToggleSync, Reopen,
            on_editor_scroll, on_preview_scroll, previewVars, images

(* No paste overwrites an image a note refers to, in whichever folder and  *)
(* whatever was deleted or failed to be written before: the next number is *)
(* above every one in use.                                                 *)
THEOREM PastesNeverOverwrite == PreviewSpec => []PastesKept
<1>1. PreviewInit => ImagesInv
  BY PreviewAssumption DEF PreviewInit, ImagesInv
<1>2. ImagesInv => PastesKept
  BY DEF ImagesInv, PastesKept
<1>3. PreviewSpec => []ImagesInv
  BY <1>1, ImagesStep, PTL DEF PreviewSpec
<1> QED BY <1>2, <1>3, PTL

-----------------------------------------------------------------------------
(* NotePreview: the canvas                                                 *)

LayoutType == [source : Draft \cup {"none"}, width : Widths \cup {0}, dark : BOOLEAN, dir : Folders]
PreviewType ==
    [open : BOOLEAN, source : Draft \cup {"none"}, dirty : BOOLEAN, dark : BOOLEAN,
     dir : Folders, laid : LayoutType, draw : BOOLEAN]

\* A layout that is not dirty was made from what the preview shows, at some
\* width; one that was drawn, at the canvas's; and the source is the
\* editor's text unless a render waits or the text was reloaded.
PreviewInv ==
    /\ preview \in PreviewType /\ body \in Draft /\ canvas \in Widths /\ folder \in Folders
    /\ renderIdles \in Nat /\ dark \in BOOLEAN
    /\ preview.open /\ ~preview.dirty /\ preview.source # "none"
          => preview.laid = Layout(preview, preview.laid.width)
    /\ preview.open /\ ~preview.draw => preview.laid = Layout(preview, canvas)
    /\ preview.open /\ ~tickDue /\ renderIdles = 0 /\ ~reloaded => preview.source = body

LEMMA ClosedType == Closed \in PreviewType /\ ~Closed.open
BY PreviewAssumption DEF Closed, NoLayout, PreviewType, LayoutType

\* Rendering t leaves a dirty preview of t that a draw is due for.
LEMMA RenderFacts ==
    ASSUME NEW pv \in PreviewType, NEW t \in Draft
    PROVE  /\ render(pv, t) \in PreviewType
           /\ render(pv, t).source = t /\ render(pv, t).dirty /\ render(pv, t).draw
BY DEF render, PreviewType

\* A step that renders the new text, or keeps a closed preview.
LEMMA RenderStep ==
    ASSUME PreviewInv, NEW pv \in PreviewType, pv.open = preview.open,
           body' \in Draft, preview' = IF preview.open THEN render(pv, body') ELSE preview,
           canvas' = canvas, folder' = folder, renderIdles' \in Nat, dark' \in BOOLEAN
    PROVE  PreviewInv'
<1>1. CASE preview.open
  <2>1. /\ preview' \in PreviewType /\ preview'.source = body' /\ preview'.dirty /\ preview'.draw
    BY <1>1, RenderFacts
  <2> QED BY <2>1 DEF PreviewInv
<1>2. CASE ~preview.open
  BY <1>2 DEF PreviewInv
<1> QED BY <1>1, <1>2

LEMMA DrawStep == ASSUME PreviewInv, on_canvas_draw PROVE PreviewInv'
<1>1. preview \in PreviewType /\ canvas \in Widths /\ preview.open
  BY DEF PreviewInv, on_canvas_draw
<1>2. UNCHANGED <<body, tickDue, reloaded, renderIdles, canvas, dark, folder>>
  BY DEF on_canvas_draw, screen, images
<1> DEFINE next == relayout_if_needed(preview, canvas)
<1>3. /\ next \in PreviewType /\ next.open /\ next.source = preview.source
      /\ next.dark = preview.dark /\ next.dir = preview.dir
      /\ next.laid = Layout(preview, canvas)
  <2>1. CASE ~preview.dirty /\ preview.source # "none" /\ preview.laid.width = canvas
    BY <1>1, <2>1 DEF relayout_if_needed, PreviewInv
  <2>2. CASE ~(~preview.dirty /\ preview.source # "none" /\ preview.laid.width = canvas)
    <3>1. Layout(preview, canvas) \in LayoutType
      BY <1>1 DEF Layout, LayoutType, PreviewType
    <3> HIDE DEF Layout
    <3> QED BY <1>1, <2>2, <3>1 DEF relayout_if_needed, PreviewType
  <2> QED BY <2>1, <2>2
<1>4. preview' = [next EXCEPT !.draw = FALSE]
  BY DEF on_canvas_draw
<1> HIDE DEF next
<1>5. /\ preview' \in PreviewType /\ preview'.open /\ preview'.source = preview.source
      /\ preview'.dark = preview.dark /\ preview'.dir = preview.dir
      /\ preview'.laid = Layout(preview, canvas)
  BY <1>3, <1>4 DEF PreviewType
<1>6. preview'.laid = Layout(preview', canvas) /\ preview'.laid.width = canvas
  BY <1>5 DEF Layout
<1> QED BY <1>1, <1>2, <1>5, <1>6 DEF PreviewInv

LEMMA PreviewStep ==
    ASSUME PreviewInv, [PreviewNext]_previewVars
    PROVE  PreviewInv'
<1> USE DEF PreviewInv
<1>1. ASSUME NEW t \in Draft, Edit(t) PROVE PreviewInv'
  BY <1>1 DEF Edit, screen, images
<1>2. ASSUME NEW t \in Draft, reload_from_disk(t) PROVE PreviewInv'
  BY <1>2 DEF reload_from_disk, screen, images
<1>3. ASSUME NEW t \in Draft, on_image_paste(t) PROVE PreviewInv'
  BY <1>3, RenderStep DEF on_image_paste, screen
<1>4. CASE PreviewTick \/ RenderIdle
  BY <1>4, RenderStep DEF PreviewTick, RenderIdle, screen, images
<1>5. CASE on_canvas_draw
  BY <1>5, DrawStep
<1>6. CASE toggle_preview
  <2>1. CASE preview.open
    BY <1>6, <2>1, ClosedType DEF toggle_preview, screen, images
  <2>2. CASE ~preview.open
    <3>1. preview' \in PreviewType /\ preview'.source = "none" /\ preview'.draw
      BY <1>6, <2>2, ClosedType DEF toggle_preview, Closed, PreviewType
    <3> QED BY <1>6, <2>2, <3>1 DEF toggle_preview, screen, images
  <2> QED BY <2>1, <2>2
<1>7. ASSUME NEW w \in Widths, Resize(w) PROVE PreviewInv'
  <2>1. /\ preview' \in PreviewType /\ preview'.draw
        /\ preview'.laid = preview.laid /\ preview'.dirty = preview.dirty
        /\ preview'.open /\ preview.open /\ preview'.source = preview.source
        /\ preview'.dark = preview.dark /\ preview'.dir = preview.dir
    BY <1>7 DEF Resize, PreviewType
  <2> QED BY <1>7, <2>1 DEF Resize, images, Layout
<1>8. CASE refresh_preview_settings
  <2> DEFINE pv == [preview EXCEPT !.dark = dark']
  <2>1. pv \in PreviewType /\ pv.open = preview.open /\ dark' \in BOOLEAN
    BY <1>8 DEF refresh_preview_settings, PreviewType
  <2>2. preview' = (IF preview.open THEN render(pv, body') ELSE preview) /\ body' \in Draft
        /\ canvas' = canvas /\ folder' = folder /\ renderIdles' \in Nat
    BY <1>8 DEF refresh_preview_settings, images
  <2> HIDE DEF pv
  <2> QED BY <2>1, <2>2, RenderStep
<1>9. CASE ToggleSync \/ PasteFails
  BY <1>9 DEF ToggleSync, PasteFails, screen, images
<1>10. CASE Reopen
  BY <1>10, ClosedType DEF Reopen, screen, images
<1>11. ASSUME NEW f \in 0..Bottom, on_editor_scroll(f) \/ on_preview_scroll(f) PROVE PreviewInv'
  BY <1>11 DEF on_editor_scroll, on_preview_scroll, screen, images
<1>12. ASSUME NEW f \in files, DeleteImage(f) PROVE PreviewInv'
  BY <1>12 DEF DeleteImage, screen
<1>13. ASSUME NEW d \in Folders, MoveNote(d) PROVE PreviewInv'
  BY <1>13 DEF MoveNote, screen
<1>14. CASE UNCHANGED previewVars
  BY <1>14 DEF previewVars
<1> QED BY <1>1, <1>2, <1>3, <1>4, <1>5, <1>6, <1>7, <1>8, <1>9, <1>10, <1>11, <1>12, <1>13, <1>14
        DEF PreviewNext

(* With no timer, idle callback or draw due, the canvas shows the editor's *)
(* text (a reload apart) at its own width: every change of an input of the *)
(* layout marks it dirty, is compared with it or renders.                  *)
THEOREM PreviewCatchesUp == PreviewSpec => []PreviewDrawn
<1>1. PreviewInit => PreviewInv
  <2> SUFFICES ASSUME PreviewInit PROVE PreviewInv
    OBVIOUS
  <2>1. body \in Draft /\ canvas \in Widths
    BY PreviewAssumption DEF PreviewInit
  <2>2. preview \in PreviewType /\ ~preview.open /\ folder \in Folders
    BY PreviewAssumption, ClosedType DEF PreviewInit
  <2>3. renderIdles \in Nat /\ dark \in BOOLEAN
    BY DEF PreviewInit
  <2> QED BY <2>1, <2>2, <2>3 DEF PreviewInv
<1>2. PreviewInv => PreviewDrawn
  BY DEF PreviewInv, PreviewDrawn, Settled, Layout
<1>3. PreviewSpec => []PreviewInv
  BY <1>1, PreviewStep, PTL DEF PreviewSpec
<1> QED BY <1>2, <1>3, PTL

-----------------------------------------------------------------------------
(* NoteEditor: tags, find bar and preview                                  *)

\* A buffer: both marks are in the text, the insert mark first.
IsBuffer(b) ==
    /\ b = [text |-> b.text, lo |-> b.lo, hi |-> b.hi, tags |-> b.tags, cur |-> b.cur]
    /\ b.text \in Seq(Pieces)
    /\ b.lo \in Nat /\ b.hi \in Nat /\ b.lo <= b.hi /\ b.hi <= Len(b.text)

LEMMA InsertKeeps ==
    ASSUME NEW b, IsBuffer(b), NEW p \in 0..Len(b.text), NEW s \in Seq(Pieces)
    PROVE  IsBuffer(Insert(b, p, s)) /\ Len(Insert(b, p, s).text) = Len(b.text) + Len(s)
<1> DEFINE l == SubSeq(b.text, 1, p)
           r == SubSeq(b.text, p + 1, Len(b.text))
           move(i) == IF i > p THEN i + Len(s) ELSE i
           tg == {move(i) : i \in b.tags}
           cr == {move(i) : i \in b.cur}
           tx == l \o s \o r
           lo == IF b.lo >= p THEN b.lo + Len(s) ELSE b.lo
           hi == IF b.hi >= p THEN b.hi + Len(s) ELSE b.hi
<1>1. /\ b.text \in Seq(Pieces) /\ Len(b.text) \in Nat /\ Len(s) \in Nat
      /\ b.lo \in Nat /\ b.hi \in Nat /\ b.lo <= b.hi /\ b.hi <= Len(b.text)
  BY DEF IsBuffer
<1>2. l \in Seq(Pieces) /\ r \in Seq(Pieces) /\ Len(l) = p /\ Len(r) = Len(b.text) - p
  BY <1>1
<1>3. tx \in Seq(Pieces) /\ Len(tx) = Len(b.text) + Len(s)
  <2> HIDE DEF l, r
  <2> DEFINE ls == l \o s
  <2>1. ls \in Seq(Pieces) /\ Len(ls) = Len(l) + Len(s)
    BY <1>2, ConcatProperties, Zenon
  <2> HIDE DEF ls
  <2>2. ls \o r \in Seq(Pieces) /\ Len(ls \o r) = Len(ls) + Len(r)
    BY <1>2, <2>1, ConcatProperties, Zenon
  <2>3. Len(ls) + Len(r) = Len(b.text) + Len(s)
    <3>1. \A n, k, q \in Nat : (q + k) + (n - q) = n + k
      OBVIOUS
    <3>2. Len(ls) = p + Len(s) /\ Len(r) = Len(b.text) - p
      BY <1>2, <2>1, Zenon
    <3>3. p \in Nat
      BY <1>1
    <3>4. (p + Len(s)) + (Len(b.text) - p) = Len(b.text) + Len(s)
      BY <1>1, <3>1, <3>3
    <3> QED BY <3>2, <3>4, Zenon
  <2> QED BY <2>2, <2>3 DEF ls
<1>4. lo \in Nat /\ hi \in Nat /\ lo <= hi /\ hi <= Len(b.text) + Len(s)
  BY <1>1
<1>5. Insert(b, p, s) = [text |-> tx, lo |-> lo, hi |-> hi, tags |-> tg, cur |-> cr]
  BY DEF Insert
<1> HIDE DEF tx, lo, hi, tg, cr
<1> QED BY <1>3, <1>4, <1>5 DEF IsBuffer

LEMMA DeleteKeeps ==
    ASSUME NEW b, IsBuffer(b), NEW p \in Nat, p < Len(b.text)
    PROVE  IsBuffer(Delete(b, p)) /\ Len(Delete(b, p).text) = Len(b.text) - 1
<1> DEFINE l == SubSeq(b.text, 1, (p + 1) - 1)
           r == SubSeq(b.text, (p + 1) + 1, Len(b.text))
           move(i) == IF i > p + 1 THEN i - 1 ELSE i
           tg == {move(i) : i \in b.tags \ {p + 1}}
           cr == {move(i) : i \in b.cur \ {p + 1}}
           tx == l \o r
           lo == IF b.lo > p THEN b.lo - 1 ELSE b.lo
           hi == IF b.hi > p THEN b.hi - 1 ELSE b.hi
<1>1. /\ b.text \in Seq(Pieces) /\ Len(b.text) \in Nat
      /\ b.lo \in Nat /\ b.hi \in Nat /\ b.lo <= b.hi /\ b.hi <= Len(b.text)
  BY DEF IsBuffer
<1>2. l \in Seq(Pieces) /\ r \in Seq(Pieces) /\ Len(l) = p /\ Len(r) = Len(b.text) - p - 1
  BY <1>1
<1>3. tx \in Seq(Pieces) /\ Len(tx) = Len(b.text) - 1
  <2> HIDE DEF l, r
  <2> QED BY <1>1, <1>2, ConcatProperties
<1>4. lo \in Nat /\ hi \in Nat /\ lo <= hi /\ hi <= Len(b.text) - 1
  BY <1>1
<1>5. Delete(b, p) = [text |-> tx, lo |-> lo, hi |-> hi, tags |-> tg, cur |-> cr]
  BY DEF Delete, RemoveAt
<1> HIDE DEF tx, lo, hi, tg, cr
<1> QED BY <1>3, <1>4, <1>5 DEF IsBuffer

LEMMA MarksKeep ==
    ASSUME NEW b, IsBuffer(b), NEW lo \in Nat, NEW hi \in Nat, lo <= hi, hi <= Len(b.text)
    PROVE  LET d == [b EXCEPT !.lo = lo, !.hi = hi] IN
           IsBuffer(d) /\ d.text = b.text /\ d.tags = b.tags /\ d.cur = b.cur
<1> DEFINE d == [b EXCEPT !.lo = lo, !.hi = hi]
<1>1. PICK t, l, h, g, k : b = [text |-> t, lo |-> l, hi |-> h, tags |-> g, cur |-> k]
  BY DEF IsBuffer
<1>2. d = [text |-> t, lo |-> lo, hi |-> hi, tags |-> g, cur |-> k]
  <2>1. d = [b EXCEPT !.lo = lo, !.hi = hi]
    OBVIOUS
  <2> HIDE DEF d
  <2> QED BY <1>1, <2>1
<1>3. b.text = t /\ b.tags = g /\ b.cur = k /\ b.text \in Seq(Pieces)
  BY <1>1 DEF IsBuffer
<1> HIDE DEF d
<1>4. d.text = t /\ d.lo = lo /\ d.hi = hi /\ d.tags = g /\ d.cur = k
  BY <1>2
<1> QED BY <1>2, <1>3, <1>4 DEF IsBuffer, d

LEMMA AutoCloseKeeps ==
    ASSUME NEW b, IsBuffer(b), NEW skip
    PROVE  IsBuffer(AutoClose(b, skip))
<1> DEFINE c == Insert(b, b.lo, <<"close">>)
           d == [c EXCEPT !.lo = b.lo, !.hi = b.lo]
<1>1. b.lo \in 0..Len(b.text) /\ <<"close">> \in Seq(Pieces)
  <2>1. "close" \in Pieces
    BY DEF Pieces
  <2>2. <<"close">> \in Seq(Pieces)
    BY <2>1
  <2>3. b.lo \in 0..Len(b.text)
    BY DEF IsBuffer
  <2> QED BY <2>2, <2>3
<1>2. IsBuffer(c) /\ Len(c.text) = Len(b.text) + Len(<<"close">>)
  BY <1>1, InsertKeeps
<1> HIDE DEF c
<1>3. IsBuffer(d)
  <2>1. b.lo <= Len(c.text) /\ b.lo \in Nat
    <3>1. Len(<<"close">>) = 1
      OBVIOUS
    <3>2. Len(c.text) = Len(b.text) + 1
      BY <1>2, <3>1, Zenon
    <3>3. Len(b.text) \in Nat
      BY DEF IsBuffer
    <3> QED BY <1>1, <3>2, <3>3
  <2>2. b.lo <= b.lo
    BY <2>1
  <2> QED BY <1>2, <2>1, <2>2, MarksKeep, Zenon
<1>4. AutoClose(b, skip) \in {b, d}
  BY DEF AutoClose, c
<1> QED BY <1>3, <1>4

\* r is b with the tags of its matches in the window at the offset at.
Painted(r, b, on, at, start) ==
    /\ IsBuffer(r) /\ r.text = b.text
    /\ r.tags = {i \in Matches(b.text) : on /\ InWindow(i, at)}
    /\ r.cur \subseteq {start + 1}

LEMMA RenderKeeps ==
    ASSUME NEW b, IsBuffer(b), NEW on, NEW at, NEW start
    PROVE  Painted(render_search_highlights(b, on, at, start), b, on, at, start)
<1> DEFINE tg == {i \in Matches(b.text) : on /\ InWindow(i, at)}
           cr == IF on /\ start >= 0 /\ start <= at + ViewSize /\ start + 1 >= at
                 THEN {start + 1} ELSE {}
           r == render_search_highlights(b, on, at, start)
<1>1. r = [b EXCEPT !.tags = tg, !.cur = cr]
  BY DEF render_search_highlights
<1>2. cr \subseteq {start + 1}
  OBVIOUS
<1> HIDE DEF tg, cr, r
<1>3. IsBuffer(r) /\ r.text = b.text /\ r.tags = tg /\ r.cur = cr
  BY <1>1 DEF IsBuffer
<1> QED BY <1>2, <1>3 DEF tg, r, Painted

LEMMA FoundFacts ==
    ASSUME NEW b, b.text \in Seq(Pieces), Matches(b.text) # {}, NEW forward \in BOOLEAN
    PROVE  Found(b, forward) \in Matches(b.text)
<1> DEFINE m == Matches(b.text)
           ahead == IF forward THEN {i \in m : i > b.hi} ELSE {i \in m : i <= b.lo}
           from == IF ahead = {} THEN m ELSE ahead
<1>1. from # {} /\ from \subseteq m
  OBVIOUS
<1>2. Len(b.text) \in Nat /\ m \subseteq 0..Len(b.text) /\ m \subseteq Nat
  BY DEF Matches
<1>3. Found(b, forward) = IF forward THEN CHOOSE i \in from : \A j \in from : i <= j
                          ELSE CHOOSE i \in from : \A j \in from : j <= i
  BY DEF Found
<1> HIDE DEF m, from
<1>4. \E i \in from : \A j \in from : i <= j
  BY <1>1, <1>2, LeastExists
<1>5. \E i \in from : \A j \in from : j <= i
  <2>1. from \in SUBSET (0..Len(b.text))
    BY <1>1, <1>2
  <2> QED BY <1>1, <1>2, <2>1, MaxFacts
<1>6. CASE forward
  BY <1>1, <1>3, <1>4, <1>6 DEF m
<1>7. CASE ~forward
  BY <1>1, <1>3, <1>5, <1>7 DEF m
<1> QED BY <1>6, <1>7

LEMMA MatchesFinite ==
    ASSUME NEW t \in Seq(Pieces), NEW i \in Int
    PROVE  /\ IsFiniteSet({j \in Matches(t) : j < i}) /\ Rank(t, i) \in Nat
           /\ i \in Matches(t) =>
                Cardinality({j \in Matches(t) : j - 1 <= i - 1}) = Rank(t, i) + 1
<1> DEFINE T == {j \in Matches(t) : j < i}
<1>1. Len(t) \in Nat /\ Matches(t) \subseteq 1..Len(t)
  BY DEF Matches
<1>2. IsFiniteSet(1..Len(t))
  BY <1>1, FS_Interval
<1>3. IsFiniteSet(T)
  <2>1. T \in SUBSET (1..Len(t))
    BY <1>1
  <2> QED BY <1>2, <2>1, FS_Subset
<1>4. Rank(t, i) \in Nat
  BY <1>3, FS_CardinalityType DEF Rank
<1>5. ASSUME i \in Matches(t)
      PROVE  Cardinality({j \in Matches(t) : j - 1 <= i - 1}) = Rank(t, i) + 1
  <2>1. {j \in Matches(t) : j - 1 <= i - 1} = T \cup {i}
    BY <1>1, <1>5
  <2>2. i \notin T
    OBVIOUS
  <2> HIDE DEF T
  <2>3. Cardinality(T \cup {i}) = Cardinality(T) + 1
    BY <1>3, <2>2, FS_AddElement
  <2> QED BY <2>1, <2>3 DEF Rank, T
<1> QED BY <1>3, <1>4, <1>5

LEMMA DeleteSelectionKeeps ==
    ASSUME NEW b, IsBuffer(b) PROVE IsBuffer(DeleteSelection(b))
<1>1. ASSUME b.lo # b.hi PROVE b.lo \in Nat /\ b.lo < Len(b.text)
  BY <1>1 DEF IsBuffer
<1> QED BY <1>1, DeleteKeeps DEF DeleteSelection

\* What typing and pasting do to the buffer.
LEMMA TypedKeeps ==
    ASSUME NEW b, IsBuffer(b), NEW s \in Seq(Pieces), NEW skip
    PROVE  LET c == IF b.lo = b.hi THEN b ELSE AutoClose(DeleteSelection(b), skip)
           IN  IsBuffer(AutoClose(Insert(c, c.lo, s), skip))
<1> DEFINE c == IF b.lo = b.hi THEN b ELSE AutoClose(DeleteSelection(b), skip)
<1>1. IsBuffer(c)
  BY DeleteSelectionKeeps, AutoCloseKeeps
<1> HIDE DEF c
<1>2. c.lo \in 0..Len(c.text)
  BY <1>1 DEF IsBuffer
<1>3. IsBuffer(AutoClose(Insert(c, c.lo, s), skip))
  BY <1>1, <1>2, InsertKeeps, AutoCloseKeeps
<1> QED BY <1>3 DEF c

\* r is a result of do_search on b.
Searched(r, b, index, upto) ==
    /\ IsBuffer(r.buf) /\ r.buf.text = b.text
    /\ Matches(b.text) = {} => r.buf = b /\ r.start = -1 /\ r.index = index
    /\ Matches(b.text) # {} =>
          /\ r.start \in Nat /\ r.start + 1 \in Matches(b.text)
          /\ r.index = IF r.start + 1 <= upto THEN Rank(b.text, r.start + 1) ELSE index
          /\ r.buf.tags = {i \in Matches(b.text) : InWindow(i, top)}
          /\ r.buf.cur \subseteq {r.start + 1}

LEMMA SearchFacts ==
    ASSUME NEW b, IsBuffer(b), NEW forward \in BOOLEAN, NEW index, NEW upto
    PROVE  Searched(do_search(b, forward, index, upto), b, index, upto)
<1> DEFINE r == do_search(b, forward, index, upto)
           i == Found(b, forward)
           c == [b EXCEPT !.lo = i - 1, !.hi = i]
           d == render_search_highlights(c, TRUE, top, i - 1)
<1>1. CASE Matches(b.text) = {}
  <2>1. r = [buf |-> b, start |-> -1, index |-> index]
    BY <1>1 DEF do_search
  <2> HIDE DEF r
  <2>2. IsBuffer(r.buf) /\ r.buf.text = b.text /\ r.buf = b /\ r.start = -1 /\ r.index = index
    BY <2>1
  <2> QED BY <1>1, <2>2 DEF r, Searched
<1>2. CASE Matches(b.text) # {}
  <2>1. i \in Matches(b.text)
    BY <1>2, FoundFacts DEF IsBuffer
  <2>2. i \in Nat /\ i - 1 \in Nat /\ i - 1 <= i /\ i <= Len(b.text) /\ (i - 1) + 1 = i
    <3>1. Len(b.text) \in Nat
      BY DEF IsBuffer
    <3> HIDE DEF i
    <3> QED BY <2>1, <3>1 DEF Matches
  <2>3. r = [buf |-> d, start |-> i - 1,
             index |-> IF i <= upto THEN Rank(b.text, i) ELSE index]
    BY <1>2 DEF do_search
  <2> HIDE DEF i
  <2>4. IsBuffer(c) /\ c.text = b.text
    BY <2>2, MarksKeep
  <2> HIDE DEF c
  <2>5. /\ IsBuffer(d) /\ d.text = c.text
        /\ d.tags = {j \in Matches(c.text) : TRUE /\ InWindow(j, top)}
        /\ d.cur \subseteq {(i - 1) + 1}
    <3>1. Painted(d, c, TRUE, top, i - 1)
      BY <2>4, RenderKeeps, Zenon
    <3> QED BY <3>1 DEF Painted
  <2> HIDE DEF d, r
  <2>6. /\ r.buf = d /\ r.start = i - 1
        /\ r.index = IF i <= upto THEN Rank(b.text, i) ELSE index
    BY <2>3
  <2>7. d.tags = {j \in Matches(b.text) : InWindow(j, top)} /\ d.text = b.text
    BY <2>4, <2>5
  <2>8. r.start \in Nat /\ r.start + 1 = i
    BY <2>2, <2>6
  <2>9. /\ r.index = IF r.start + 1 <= upto THEN Rank(b.text, r.start + 1) ELSE index
        /\ r.buf.cur \subseteq {r.start + 1}
    <3>1. d.cur \subseteq {i}
      BY <2>2, <2>5
    <3> QED BY <2>6, <2>8, <3>1, Zenon
  <2> QED BY <1>2, <2>1, <2>5, <2>6, <2>7, <2>8, <2>9 DEF r, Searched
<1> QED BY <1>1, <1>2

\* current_match_start_ is a match of the text as it is now, and the index
\* kept with it is that match's.
MatchKnown ==
    /\ curStart \in Int /\ curIndex \in Int
    /\ curStart # -1 => curStart >= 0 /\ curStart + 1 \in Matches(buf.text)
    /\ curIndex # -1 => curStart # -1 /\ curIndex = Rank(buf.text, curStart + 1)

EditorInv == IsBuffer(buf) /\ HighlightsCurrent /\ PreviewCaughtUp /\ MatchKnown

\* A change of the text: the match is forgotten, repaint and preview are due.
LEMMA ChangedStep ==
    ASSUME IsBuffer(buf'), hlPending', pvPending', pvTimer', curStart' = -1, curIndex' = -1
    PROVE  EditorInv'
BY DEF EditorInv, HighlightsCurrent, PreviewCaughtUp, MatchKnown

\* A step that only paints or moves the cursor.
LEMMA PaintStep ==
    ASSUME EditorInv, IsBuffer(buf'), buf'.text = buf.text, HighlightsCurrent',
           UNCHANGED <<curStart, curIndex, loaded, pvPending, pvTimer, previewed, alive>>
    PROVE  EditorInv'
BY DEF EditorInv, PreviewCaughtUp, MatchKnown

LEMMA EditorStep ==
    ASSUME EditorInv, [EditorNext]_editorVars
    PROVE  EditorInv'
<1> USE EditorAssumption
<1>0. IsBuffer(buf)
  BY DEF EditorInv
<1>1. ASSUME NEW k \in Keys, Type(k) PROVE EditorInv'
  <2>1. <<k>> \in Seq(Pieces)
    OBVIOUS
  <2>2. IsBuffer(buf')
    BY <1>0, <1>1, <2>1, TypedKeeps DEF Type
  <2> QED BY <1>1, <2>2, ChangedStep DEF Type, Changed
<1>2. CASE Erase
  <2>1. ASSUME buf.lo > 0 PROVE IsBuffer(Delete(buf, buf.lo - 1))
    <3>1. buf.lo - 1 \in Nat /\ buf.lo - 1 < Len(buf.text)
      BY <1>0, <2>1 DEF IsBuffer
    <3> QED BY <1>0, <3>1, DeleteKeeps
  <2>2. IsBuffer(buf')
    BY <1>0, <1>2, <2>1, DeleteSelectionKeeps, AutoCloseKeeps DEF Erase
  <2> QED BY <1>2, <2>2, ChangedStep DEF Erase, Changed
<1>3. ASSUME NEW p \in 0..MaxText, MoveCursor(p) PROVE EditorInv'
  <2>1. /\ IsBuffer(buf') /\ buf'.text = buf.text
        /\ buf'.tags = buf.tags /\ buf'.cur = buf.cur
    <3>1. p \in Nat /\ p <= p /\ p <= Len(buf.text)
      BY <1>3 DEF MoveCursor
    <3>2. buf' = [buf EXCEPT !.lo = p, !.hi = p]
      BY <1>3 DEF MoveCursor
    <3> QED BY <1>0, <3>1, <3>2, MarksKeep
  <2>2. HighlightsCurrent'
    BY <1>3, <2>1 DEF EditorInv, HighlightsCurrent, MoveCursor, searchVars, timerVars
  <2> QED BY <1>3, <2>1, <2>2, PaintStep DEF MoveCursor, searchVars, timerVars
<1>4. ASSUME NEW c \in Contents, set_text(c) PROVE EditorInv'
  <2> DEFINE b == [text |-> c, lo |-> Len(c), hi |-> Len(c), tags |-> {}, cur |-> {}]
  <2>1. c \in Seq(Pieces) /\ Len(c) \in Nat
    OBVIOUS
  <2>2. IsBuffer(b)
    BY <2>1 DEF IsBuffer
  <2>3. IsBuffer(buf')
    <3>1. buf' = AutoClose(b, pasting)
      BY <1>4 DEF set_text
    <3> HIDE DEF b
    <3> QED BY <2>2, <3>1, AutoCloseKeeps
  <2> QED BY <1>4, <2>3 DEF set_text, EditorInv, HighlightsCurrent, PreviewCaughtUp, MatchKnown
<1>5. CASE AskPaste \/ PasteTimeout
  <2>1. UNCHANGED <<buf, loaded, searchVars, timerVars, previewed, alive>>
    BY <1>5 DEF AskPaste, PasteTimeout
  <2>2. HighlightsCurrent'
    BY <2>1 DEF EditorInv, HighlightsCurrent, searchVars, timerVars
  <2> QED BY <1>0, <2>1, <2>2, PaintStep DEF searchVars, timerVars
<1>6. ASSUME NEW c \in Clips, PasteArrives(c) PROVE EditorInv'
  <2>1. c \in Seq(Pieces)
    OBVIOUS
  <2>2. IsBuffer(buf')
    BY <1>0, <1>6, <2>1, TypedKeeps DEF PasteArrives
  <2> QED BY <1>6, <2>2, ChangedStep DEF PasteArrives, Changed
<1>7. CASE insert_text_at_cursor
  <2>1. <<"y">> \in Seq(Pieces) /\ buf.lo \in 0..Len(buf.text)
    <3>1. "y" \in Pieces
      BY DEF Pieces
    <3>2. <<"y">> \in Seq(Pieces)
      BY <3>1
    <3>3. buf.lo \in 0..Len(buf.text)
      BY <1>0 DEF IsBuffer
    <3> QED BY <3>2, <3>3
  <2>2. IsBuffer(buf')
    BY <1>0, <1>7, <2>1, InsertKeeps, AutoCloseKeeps DEF insert_text_at_cursor
  <2> QED BY <1>7, <2>2, ChangedStep DEF insert_text_at_cursor, Changed
<1>8. CASE on_highlight_tick \/ on_scroll_tick
  <2>1. /\ buf' = render_search_highlights(buf, term, top, curStart)
        /\ UNCHANGED <<loaded, searchVars, pvPending, pvTimer, previewed, alive>>
    BY <1>8 DEF on_highlight_tick, on_scroll_tick
  <2>2. /\ IsBuffer(buf') /\ buf'.text = buf.text
        /\ buf'.tags = {i \in Matches(buf.text) : term /\ InWindow(i, top)}
        /\ buf'.cur \subseteq {curStart + 1}
    BY <1>0, <2>1, RenderKeeps DEF Painted
  <2>3. HighlightsCurrent'
    BY <2>1, <2>2 DEF HighlightsCurrent, searchVars
  <2> QED BY <2>1, <2>2, <2>3, PaintStep DEF searchVars
<1>9. CASE on_preview_tick
  <2>1. UNCHANGED <<buf, loaded, searchVars, hlPending, scPending, alive>>
    BY <1>9 DEF on_preview_tick
  <2>2. HighlightsCurrent' /\ MatchKnown'
    BY <2>1 DEF EditorInv, HighlightsCurrent, MatchKnown, searchVars
  <2>3. PreviewCaughtUp'
    BY <1>9 DEF EditorInv, on_preview_tick, PreviewCaughtUp
  <2> QED BY <1>0, <2>1, <2>2, <2>3 DEF EditorInv
<1>10. ASSUME NEW at, on_scroll_changed(at) PROVE EditorInv'
  <2>1. HighlightsCurrent'
    BY <1>10 DEF on_scroll_changed, HighlightsCurrent
  <2> QED BY <1>0, <1>10, <2>1, PaintStep DEF on_scroll_changed
<1>11. CASE Scan
  <2>1. HighlightsCurrent'
    BY <1>11 DEF Scan, EditorInv, HighlightsCurrent, timerVars
  <2> QED BY <1>0, <1>11, <2>1, PaintStep DEF Scan, timerVars
<1>12. ASSUME NEW on \in BOOLEAN, set_search_text(on) PROVE EditorInv'
  <2>1. /\ buf' = render_search_highlights(buf, on, top, -1) /\ term' = on
        /\ curStart' = -1 /\ curIndex' = -1
        /\ UNCHANGED <<loaded, top, timerVars, previewed, alive>>
    BY <1>12 DEF set_search_text
  <2>2. /\ IsBuffer(buf') /\ buf'.text = buf.text
        /\ buf'.tags = {i \in Matches(buf.text) : on /\ InWindow(i, top)}
        /\ buf'.cur \subseteq {-1 + 1}
    BY <1>0, <2>1, RenderKeeps DEF Painted
  <2>3. HighlightsCurrent'
    BY <2>1, <2>2 DEF HighlightsCurrent
  <2> QED BY <2>1, <2>2, <2>3 DEF EditorInv, PreviewCaughtUp, MatchKnown, timerVars
<1>13. ASSUME NEW forward \in BOOLEAN, Find(forward) PROVE EditorInv'
  <2> DEFINE c == render_search_highlights(buf, TRUE, top, -1)
             r == do_search(c, forward, -1, scanned)
  <2>1. /\ term /\ buf' = r.buf /\ curStart' = r.start /\ curIndex' = r.index
        /\ UNCHANGED <<loaded, term, top, timerVars, previewed, alive>>
    BY <1>13 DEF Find
  <2>2. /\ IsBuffer(c) /\ c.text = buf.text
        /\ c.tags = {i \in Matches(buf.text) : TRUE /\ InWindow(i, top)}
        /\ c.cur \subseteq {-1 + 1}
    <3>1. Painted(c, buf, TRUE, top, -1)
      BY <1>0, RenderKeeps, Zenon
    <3> QED BY <3>1 DEF Painted
  <2> HIDE DEF c
  <2>3. /\ IsBuffer(r.buf) /\ r.buf.text = c.text
        /\ Matches(c.text) = {} => r.buf = c /\ r.start = -1 /\ r.index = -1
        /\ Matches(c.text) # {} =>
              /\ r.start \in Nat /\ r.start + 1 \in Matches(c.text)
              /\ r.index = IF r.start + 1 <= scanned THEN Rank(c.text, r.start + 1) ELSE -1
              /\ r.buf.tags = {i \in Matches(c.text) : InWindow(i, top)}
              /\ r.buf.cur \subseteq {r.start + 1}
    <3>1. Searched(r, c, -1, scanned)
      BY <2>2, SearchFacts, Zenon
    <3> QED BY <3>1 DEF Searched
  <2> HIDE DEF r
  <2>4. HighlightsCurrent'
    <3>1. CASE Matches(c.text) = {}
      BY <2>1, <2>2, <2>3, <3>1 DEF HighlightsCurrent
    <3>2. CASE Matches(c.text) # {}
      BY <2>1, <2>2, <2>3, <3>2 DEF HighlightsCurrent
    <3> QED BY <3>1, <3>2
  <2>5. MatchKnown'
    <3>1. CASE Matches(c.text) = {}
      BY <2>1, <2>2, <2>3, <3>1 DEF MatchKnown
    <3>2. CASE Matches(c.text) # {}
      <4>1. c.text \in Seq(Pieces)
        BY <2>2 DEF IsBuffer
      <4>2. Rank(c.text, r.start + 1) \in Nat
        <5>1. r.start + 1 \in Int
          BY <2>3, <3>2
        <5> QED BY <4>1, <5>1, MatchesFinite
      <4> QED BY <2>1, <2>2, <2>3, <3>2, <4>2 DEF MatchKnown
    <3> QED BY <3>1, <3>2
  <2> QED BY <2>1, <2>3, <2>4, <2>5 DEF EditorInv, PreviewCaughtUp, timerVars
<1>14. CASE do_replace
  <2> DEFINE f == [buf EXCEPT !.hi = buf.lo]
             i == Found(f, TRUE)
             e == Delete(buf, i - 1)
             g == Insert(e, i - 1, <<"y">>)
             c == AutoClose(g, pasting)
             r == do_search(c, TRUE, -1, 0)
  <2>1. /\ Matches(buf.text) # {}
        /\ buf' = r.buf /\ curStart' = r.start /\ curIndex' = r.index
        /\ hlPending' /\ pvPending' /\ pvTimer'
    BY <1>14 DEF do_replace
  <2>2. f.text = buf.text
    <3>1. f = [buf EXCEPT !.hi = buf.lo]
      OBVIOUS
    <3> HIDE DEF f
    <3> QED BY <1>0, <3>1 DEF IsBuffer
  <2>3. i \in Matches(buf.text)
    <3> HIDE DEF f
    <3>1. f.text \in Seq(Pieces)
      BY <1>0, <2>2 DEF IsBuffer
    <3> QED BY <2>1, <2>2, <3>1, FoundFacts
  <2> HIDE DEF f, i
  <2>4. i - 1 \in Nat /\ i - 1 < Len(buf.text) /\ Len(buf.text) \in Nat
    <3>1. Len(buf.text) \in Nat
      BY <1>0 DEF IsBuffer
    <3> QED BY <2>3, <3>1 DEF Matches
  <2>5. IsBuffer(e) /\ Len(e.text) = Len(buf.text) - 1
    BY <1>0, <2>4, DeleteKeeps
  <2> HIDE DEF e
  <2>6. <<"y">> \in Seq(Pieces)
    <3>1. "y" \in Pieces
      BY DEF Pieces
    <3> QED BY <3>1
  <2>7. IsBuffer(c)
    <3>1. i - 1 \in 0..Len(e.text)
      BY <2>4, <2>5
    <3> QED BY <2>5, <2>6, <3>1, InsertKeeps, AutoCloseKeeps
  <2> HIDE DEF c
  <2>8. /\ IsBuffer(r.buf) /\ r.buf.text = c.text
        /\ Matches(c.text) = {} => r.start = -1 /\ r.index = -1
        /\ Matches(c.text) # {} =>
              /\ r.start \in Nat /\ r.start + 1 \in Matches(c.text)
              /\ r.index = IF r.start + 1 <= 0 THEN Rank(c.text, r.start + 1) ELSE -1
    <3>1. Searched(r, c, -1, 0)
      BY <2>7, SearchFacts, Zenon
    <3> QED BY <3>1 DEF Searched
  <2> HIDE DEF r
  <2>9. MatchKnown'
    BY <2>1, <2>8 DEF MatchKnown
  <2> QED BY <2>1, <2>8, <2>9 DEF EditorInv, HighlightsCurrent, PreviewCaughtUp
<1>15. CASE do_replace_all
  <2> DEFINE t == [k \in DOMAIN buf.text |-> IF buf.text[k] = "x" THEN "y" ELSE buf.text[k]]
             c == [buf EXCEPT !.text = t, !.tags = {}, !.cur = {}]
  <2>1. t \in Seq(Pieces) /\ Len(t) = Len(buf.text)
    <3>1. "y" \in Pieces
      BY DEF Pieces
    <3> QED BY <1>0, <3>1 DEF IsBuffer
  <2> HIDE DEF t
  <2>2. IsBuffer(c)
    <3>1. c = [buf EXCEPT !.text = t, !.tags = {}, !.cur = {}]
      OBVIOUS
    <3>2. PICK tx, l, h, g, q : buf = [text |-> tx, lo |-> l, hi |-> h, tags |-> g, cur |-> q]
      BY <1>0 DEF IsBuffer
    <3> HIDE DEF c
    <3>3. c = [text |-> t, lo |-> l, hi |-> h, tags |-> {}, cur |-> {}]
      BY <3>1, <3>2
    <3>4. l \in Nat /\ h \in Nat /\ l <= h /\ h <= Len(t)
      BY <1>0, <2>1, <3>2 DEF IsBuffer
    <3> QED BY <2>1, <3>3, <3>4 DEF IsBuffer
  <2>3. IsBuffer(buf')
    <3>1. buf' = AutoClose(c, pasting)
      BY <1>15 DEF do_replace_all, t
    <3> HIDE DEF c
    <3> QED BY <2>2, <3>1, AutoCloseKeeps
  <2> QED BY <1>15, <2>3, ChangedStep DEF do_replace_all, Changed
<1>16. CASE DestroyEditor
  <2>1. IsBuffer(EmptyBuffer)
    BY DEF IsBuffer, EmptyBuffer
  <2> QED BY <1>16, <2>1
        DEF DestroyEditor, EditorInv, HighlightsCurrent, PreviewCaughtUp, MatchKnown
<1>17. CASE UNCHANGED editorVars
  <2>1. HighlightsCurrent'
    BY <1>17 DEF EditorInv, HighlightsCurrent, editorVars, searchVars, timerVars
  <2> QED BY <1>0, <1>17, <2>1, PaintStep DEF editorVars, searchVars, timerVars
<1> QED
  BY <1>1, <1>2, <1>3, <1>4, <1>5, <1>6, <1>7, <1>8, <1>9, <1>10, <1>11, <1>12, <1>13,
     <1>14, <1>15, <1>16, <1>17 DEF EditorNext

LEMMA EditorInvMeans == EditorInv => EditorInStep
<1> SUFFICES ASSUME EditorInv PROVE PositionRight
  BY DEF EditorInv, EditorInStep
<1>1. SUFFICES ASSUME curStart >= 0
      PROVE  /\ curStart + 1 \in Matches(buf.text)
             /\ current_search_position \in {0, Rank(buf.text, curStart + 1) + 1}
  BY DEF PositionRight
<1>2. curStart \in Int /\ curIndex \in Int /\ curStart + 1 \in Matches(buf.text)
  BY <1>1 DEF EditorInv, MatchKnown
<1>3. buf.text \in Seq(Pieces)
  BY DEF EditorInv, IsBuffer
<1>4. Cardinality({j \in Matches(buf.text) : j - 1 <= curStart}) = Rank(buf.text, curStart + 1) + 1
  <2> DEFINE i == curStart + 1
  <2>1. i \in Int /\ i - 1 = curStart
    BY <1>2
  <2> HIDE DEF i
  <2>2. Cardinality({j \in Matches(buf.text) : j - 1 <= i - 1}) = Rank(buf.text, i) + 1
    BY <1>2, <1>3, <2>1, MatchesFinite DEF i
  <2> QED BY <2>1, <2>2 DEF i
<1>5. curIndex >= 0 => curIndex = Rank(buf.text, curStart + 1)
  BY <1>2 DEF EditorInv, MatchKnown
<1> QED BY <1>2, <1>4, <1>5 DEF current_search_position

(* Whatever is typed, pasted, searched, replaced and scrolled, and however *)
(* late the timers and the scan are: the tags are on the matches shown, the*)
(* position in the find bar is the current match's and every edit reaches  *)
(* the preview, or a timer that will see to it runs.                       *)
THEOREM EditorShowsTheText == EditorSpec => []EditorInStep
<1>1. EditorInit => EditorInv
  <2>1. IsBuffer(EmptyBuffer)
    BY DEF IsBuffer, EmptyBuffer
  <2>2. EditorInit => HighlightsCurrent
    BY DEF EditorInit, EmptyBuffer, HighlightsCurrent
  <2> QED BY <2>1, <2>2 DEF EditorInit, EditorInv, PreviewCaughtUp, MatchKnown
<1> QED BY <1>1, EditorStep, EditorInvMeans, PTL DEF EditorSpec

-----------------------------------------------------------------------------
(* DirectoryTree: paths                                                    *)

Chain == Seq(Names)
Pre(p, n) == SubSeq(p, 1, n)

LEMMA PreFacts ==
    ASSUME NEW p \in Chain, NEW n \in 0..Len(p)
    PROVE  /\ Pre(p, n) \in Chain /\ Len(Pre(p, n)) = n
           /\ \A i \in 1..n : Pre(p, n)[i] = p[i]
BY DEF Chain, Pre

LEMMA ChainEqual ==
    ASSUME NEW p \in Chain, NEW q \in Chain, Len(p) = Len(q),
           \A i \in 1..Len(p) : p[i] = q[i]
    PROVE  p = q
BY SeqEqual DEF Chain

LEMMA ChainLen ==
    ASSUME NEW p \in Chain
    PROVE  Len(p) \in Nat /\ TopDir \in Chain /\ Len(TopDir) = 0 /\ (Len(p) = 0 => p = TopDir)
<1>1. Len(p) \in Nat /\ TopDir \in Chain /\ Len(TopDir) = 0
  BY DEF Chain, TopDir
<1>2. ASSUME Len(p) = 0 PROVE p = TopDir
  BY <1>1, <1>2, ChainEqual
<1> QED BY <1>1, <1>2

LEMMA PreTwice ==
    ASSUME NEW p \in Chain, NEW n \in 0..Len(p), NEW m \in 0..n
    PROVE  Pre(Pre(p, n), m) = Pre(p, m)
<1>1. /\ Len(p) \in Nat /\ m \in 0..Len(p)
      /\ Pre(p, n) \in Chain /\ Len(Pre(p, n)) = n /\ \A i \in 1..n : Pre(p, n)[i] = p[i]
  BY ChainLen, PreFacts
<1> DEFINE q == Pre(p, n)
<1>2. q \in Chain /\ m \in 0..Len(q) /\ \A i \in 1..m : q[i] = p[i]
  BY <1>1
<1> HIDE DEF q
<1>3. Pre(q, m) \in Chain /\ Len(Pre(q, m)) = m /\ \A i \in 1..m : Pre(q, m)[i] = q[i]
  BY <1>2, PreFacts
<1>4. Pre(p, m) \in Chain /\ Len(Pre(p, m)) = m /\ \A i \in 1..m : Pre(p, m)[i] = p[i]
  BY <1>1, PreFacts
<1> QED BY <1>2, <1>3, <1>4, ChainEqual DEF q

LEMMA UpFacts ==
    ASSUME NEW p \in Chain, p # TopDir
    PROVE  /\ Up(p) = Pre(p, Len(p) - 1) /\ Up(p) \in Chain
           /\ Len(p) \in Nat /\ Len(p) > 0 /\ Len(Up(p)) = Len(p) - 1
           /\ Below(Up(p), p) /\ Up(p) # p
<1>1. Len(p) \in Nat /\ Len(p) > 0
  BY ChainLen
<1>2. Up(p) = Pre(p, Len(p) - 1)
  BY DEF Up, Pre, Front
<1>3. Pre(p, Len(p) - 1) \in Chain /\ Len(Pre(p, Len(p) - 1)) = Len(p) - 1
  BY <1>1, PreFacts
<1>4. Below(Up(p), p)
  BY <1>1, <1>2, <1>3 DEF Below, Pre
<1> QED BY <1>1, <1>2, <1>3, <1>4

LEMMA BelowMeans ==
    ASSUME NEW d, NEW p
    PROVE  Below(d, p) <=> Len(p) > Len(d) /\ Pre(p, Len(d)) = d
BY DEF Below, Pre

LEMMA BelowTrans ==
    ASSUME NEW a \in Chain, NEW b \in Chain, NEW c \in Chain, Below(a, b), Below(b, c)
    PROVE  Below(a, c)
<1>1. Len(a) \in Nat /\ Len(b) \in Nat /\ Len(c) \in Nat
  BY ChainLen
<1>2. Len(b) > Len(a) /\ Pre(b, Len(a)) = a /\ Len(c) > Len(b) /\ Pre(c, Len(b)) = b
  BY BelowMeans
<1>3. Len(b) \in 0..Len(c) /\ Len(a) \in 0..Len(b)
  BY <1>1, <1>2
<1>4. Pre(Pre(c, Len(b)), Len(a)) = Pre(c, Len(a))
  BY <1>3, PreTwice
<1>5. Pre(c, Len(a)) = a
  BY <1>2, <1>4, Zenon
<1>6. Len(c) > Len(a)
  BY <1>1, <1>2
<1> QED BY <1>5, <1>6 DEF Below, Pre

LEMMA BelowUp ==
    ASSUME NEW d \in Chain, NEW p \in Chain, Below(d, p)
    PROVE  /\ p # TopDir /\ p # d /\ ~Below(p, d)
           /\ Up(p) = d \/ Below(d, Up(p))
<1>1. Len(d) \in Nat /\ Len(p) \in Nat /\ Len(p) > Len(d) /\ Pre(p, Len(d)) = d
  BY ChainLen, BelowMeans
<1>2. p # TopDir
  BY <1>1, ChainLen
<1>3. p # d /\ ~Below(p, d)
  BY <1>1, BelowMeans
<1>4. Up(p) = Pre(p, Len(p) - 1) /\ Len(Up(p)) = Len(p) - 1
  BY <1>2, UpFacts
<1>5. Len(p) - 1 \in 0..Len(p) /\ Len(d) \in 0..(Len(p) - 1)
  BY <1>1
<1>6. Pre(Up(p), Len(d)) = d
  <2>1. Pre(Pre(p, Len(p) - 1), Len(d)) = Pre(p, Len(d))
    BY <1>5, PreTwice
  <2> QED BY <1>1, <1>4, <2>1, Zenon
<1>7. ASSUME Len(d) = Len(p) - 1 PROVE Up(p) = d
  BY <1>1, <1>4, <1>7, Zenon
<1>8. ASSUME Len(d) < Len(p) - 1 PROVE Below(d, Up(p))
  <2>1. Len(Up(p)) > Len(d)
    BY <1>1, <1>4, <1>8
  <2> QED BY <1>6, <2>1 DEF Below, Pre
<1> QED BY <1>1, <1>2, <1>3, <1>7, <1>8

-----------------------------------------------------------------------------
(* DirectoryTree: the file system                                          *)

\* Every entry is in a directory that exists.
FsGood(f) == DOMAIN f \subseteq Paths /\ \A p \in DOMAIN f : IsDir(f, Up(p))

Kids(f, d) == {p \in DOMAIN f : Up(p) = d}

LEMMA PathFacts ==
    ASSUME NEW p \in Paths
    PROVE  p \in Chain /\ p # TopDir
BY TreeAssumption DEF Chain

LEMMA EntriesAreKids ==
    ASSUME NEW f, FsGood(f), NEW d
    PROVE  Entries(f, d) = Kids(f, d)
BY DEF Entries, Kids, FsGood

LEMMA AddedGood ==
    ASSUME NEW f, FsGood(f), NEW p \in Paths, IsDir(f, Up(p)), ~IsDir(f, p), NEW kind,
           NEW g, g = [q \in DOMAIN f \cup {p} |-> IF q = p THEN kind ELSE f[q]]
    PROVE  FsGood(g) /\ \A d : d # Up(p) => Kids(g, d) = Kids(f, d)
<1>1. DOMAIN g = DOMAIN f \cup {p} /\ \A q \in DOMAIN f : q # p => g[q] = f[q]
  OBVIOUS
<1>2. p \in Chain /\ p # TopDir /\ Up(p) # p
  BY PathFacts, UpFacts
<1>3. ASSUME NEW q \in DOMAIN g PROVE IsDir(g, Up(q))
  <2>1. IsDir(f, Up(q)) /\ Up(q) # p
    BY <1>1, <1>2 DEF FsGood
  <2> QED BY <1>1, <2>1 DEF IsDir
<1>4. ASSUME NEW d, d # Up(p) PROVE Kids(g, d) = Kids(f, d)
  BY <1>1, <1>4 DEF Kids
<1> QED BY <1>1, <1>3, <1>4 DEF FsGood

LEMMA RemovedGood ==
    ASSUME NEW f, FsGood(f), NEW p \in Paths,
           NEW g, g = [q \in {s \in DOMAIN f : ~AtOrBelow(p, s)} |-> f[q]]
    PROVE  /\ FsGood(g)
           /\ \A d \in Chain : d # Up(p) /\ ~AtOrBelow(p, d) => Kids(g, d) = Kids(f, d)
<1>1. /\ DOMAIN g = {s \in DOMAIN f : ~AtOrBelow(p, s)}
      /\ \A q \in DOMAIN g : g[q] = f[q]
  OBVIOUS
<1>2. p \in Chain /\ p # TopDir
  BY PathFacts
<1>3. ASSUME NEW q \in DOMAIN f, AtOrBelow(p, q), q # p PROVE AtOrBelow(p, Up(q))
  BY <1>2, <1>3, PathFacts, BelowUp DEF AtOrBelow, FsGood
<1>4. ASSUME NEW q \in DOMAIN f, AtOrBelow(p, Up(q)) PROVE AtOrBelow(p, q)
  <2>1. q \in Chain /\ q # TopDir
    BY PathFacts DEF FsGood
  <2>2. Up(q) \in Chain /\ Below(Up(q), q)
    BY <2>1, UpFacts
  <2> QED BY <1>2, <1>4, <2>1, <2>2, BelowTrans DEF AtOrBelow
<1>5. ASSUME NEW q \in DOMAIN g PROVE IsDir(g, Up(q))
  <2>1. q \in DOMAIN f /\ ~AtOrBelow(p, q) /\ IsDir(f, Up(q))
    BY <1>1 DEF FsGood
  <2>2. ~AtOrBelow(p, Up(q))
    BY <1>4, <2>1
  <2> QED BY <1>1, <2>1, <2>2 DEF IsDir
<1>6. ASSUME NEW d \in Chain, d # Up(p), ~AtOrBelow(p, d) PROVE Kids(g, d) = Kids(f, d)
  BY <1>1, <1>3, <1>6 DEF Kids
<1> QED BY <1>1, <1>5, <1>6 DEF FsGood

\* Whatever lies above an entry exists.
LEMMA AncestorsExist ==
    ASSUME NEW f, FsGood(f), NEW q \in DOMAIN f, NEW r \in Chain, r # TopDir, AtOrBelow(r, q)
    PROVE  r \in DOMAIN f
<1> SUFFICES ASSUME r \notin DOMAIN f PROVE FALSE
  OBVIOUS
<1> DEFINE T == {n \in Nat : \E s \in DOMAIN f : Below(r, s) /\ Len(s) = n}
<1>0. \A s \in DOMAIN f : s \in Chain /\ Len(s) \in Nat
  BY PathFacts, ChainLen DEF FsGood
<1>1. Len(q) \in T
  BY <1>0 DEF AtOrBelow
<1>2. PICK n \in T : \A m \in T : n <= m
  BY <1>1, LeastExists
<1>3. PICK s \in DOMAIN f : Below(r, s) /\ Len(s) = n
  OBVIOUS
<1>4. s \in Chain /\ s # TopDir /\ (Up(s) = r \/ Below(r, Up(s)))
  BY <1>0, <1>3, BelowUp
<1>5. Len(Up(s)) = Len(s) - 1 /\ Len(s) \in Nat /\ Len(s) > 0 /\ Up(s) \in Chain
  BY <1>4, UpFacts
<1>6. IsDir(f, Up(s))
  BY DEF FsGood
<1>7. Up(s) # TopDir
  BY <1>4, <1>5, BelowUp
<1>8. Up(s) \in DOMAIN f
  BY <1>6, <1>7 DEF IsDir
<1>9. Below(r, Up(s))
  BY <1>4, <1>8
<1>10. Len(Up(s)) \in T
  BY <1>0, <1>8, <1>9
<1> HIDE DEF T
<1> QED BY <1>2, <1>3, <1>5, <1>10

\* A renamed path differs from the old one in one name.
IsMoved(m, p, r, q) ==
    /\ m \in Chain /\ Len(m) = Len(q)
    /\ \A i \in 1..Len(q) : m[i] = IF i <= Len(p) THEN r[i] ELSE q[i]
    /\ \A i \in 1..Len(p) : q[i] = p[i]
    /\ Len(p) = Len(r) /\ Len(p) <= Len(q) /\ AtOrBelow(r, m)

LEMMA MovedFacts ==
    ASSUME NEW p \in Chain, NEW r \in Chain, p # TopDir, r # TopDir, Up(p) = Up(r),
           NEW q \in Chain, AtOrBelow(p, q)
    PROVE  IsMoved(Moved(p, r, q), p, r, q)
<1> DEFINE t == SubSeq(q, Len(p) + 1, Len(q))
           m == r \o t
<1>1. Len(p) \in Nat /\ Len(q) \in Nat /\ Len(r) \in Nat /\ Len(p) = Len(r)
  <2>1. Len(Up(p)) = Len(p) - 1 /\ Len(Up(r)) = Len(r) - 1
    BY UpFacts
  <2>2. Len(p) \in Nat /\ Len(q) \in Nat /\ Len(r) \in Nat
    BY ChainLen
  <2> QED BY <2>1, <2>2
<1>2. Len(p) <= Len(q) /\ Pre(q, Len(p)) = p
  <2>1. CASE q = p
    <3>1. Pre(p, Len(p)) = p
      <4>1. Len(p) \in 0..Len(p)
        BY <1>1
      <4>2. /\ Pre(p, Len(p)) \in Chain /\ Len(Pre(p, Len(p))) = Len(p)
            /\ \A i \in 1..Len(p) : Pre(p, Len(p))[i] = p[i]
        BY <4>1, PreFacts
      <4> QED BY <4>2, ChainEqual
    <3> QED BY <1>1, <2>1, <3>1
  <2>2. CASE Below(p, q)
    BY <1>1, <2>2 DEF Below, Pre
  <2> QED BY <2>1, <2>2 DEF AtOrBelow
<1>3. \A i \in 1..Len(p) : q[i] = p[i]
  <2>1. Len(p) \in 0..Len(q)
    BY <1>1, <1>2
  <2>2. \A i \in 1..Len(p) : Pre(q, Len(p))[i] = q[i]
    BY <2>1, PreFacts
  <2> QED BY <1>2, <2>2
<1>4. t \in Chain /\ Len(t) = Len(q) - Len(p) /\ \A i \in 1..Len(t) : t[i] = q[Len(p) + i]
  BY <1>1, <1>2 DEF Chain
<1> HIDE DEF t
<1>5. /\ m \in Chain /\ Len(m) = Len(r) + Len(t)
      /\ \A i \in 1..Len(r) + Len(t) : m[i] = IF i <= Len(r) THEN r[i] ELSE t[i - Len(r)]
  BY <1>4, ConcatProperties DEF Chain
<1> HIDE DEF m
<1>6. Len(m) = Len(q)
  BY <1>1, <1>2, <1>4, <1>5
<1>7. \A i \in 1..Len(q) : m[i] = IF i <= Len(p) THEN r[i] ELSE q[i]
  BY <1>1, <1>2, <1>4, <1>5
<1>8. AtOrBelow(r, m)
  <2>1. Len(r) \in 0..Len(m)
    BY <1>1, <1>2, <1>6
  <2>2. /\ Pre(m, Len(r)) \in Chain /\ Len(Pre(m, Len(r))) = Len(r)
        /\ \A i \in 1..Len(r) : Pre(m, Len(r))[i] = m[i]
    BY <1>5, <2>1, PreFacts
  <2>3. \A i \in 1..Len(r) : m[i] = r[i]
    BY <1>1, <1>2, <1>7
  <2>4. Pre(m, Len(r)) = r
    BY <2>2, <2>3, ChainEqual
  <2>5. CASE Len(m) = Len(r)
    <3>1. m = r
      BY <1>5, <2>3, <2>5, ChainEqual
    <3> QED BY <3>1 DEF AtOrBelow
  <2>6. CASE Len(m) > Len(r)
    BY <2>4, <2>6 DEF AtOrBelow, Below, Pre
  <2> QED BY <1>1, <2>1, <1>6, <2>5, <2>6
<1>9. Moved(p, r, q) = m
  BY DEF Moved, m, t
<1> QED BY <1>1, <1>2, <1>3, <1>5, <1>6, <1>7, <1>8, <1>9 DEF IsMoved

LEMMA MovedInjective ==
    ASSUME NEW p \in Chain, NEW r \in Chain, p # TopDir, r # TopDir, Up(p) = Up(r),
           NEW q \in Chain, AtOrBelow(p, q), NEW s \in Chain, AtOrBelow(p, s),
           Moved(p, r, q) = Moved(p, r, s)
    PROVE  q = s
<1> DEFINE m == Moved(p, r, q)
<1>0. IsMoved(m, p, r, q) /\ IsMoved(m, p, r, s)
  BY MovedFacts
<1> HIDE DEF m
<1>1. /\ Len(m) = Len(q) /\ \A i \in 1..Len(q) : m[i] = IF i <= Len(p) THEN r[i] ELSE q[i]
      /\ \A i \in 1..Len(p) : q[i] = p[i]
  BY <1>0 DEF IsMoved
<1>2. /\ Len(m) = Len(s) /\ \A i \in 1..Len(s) : m[i] = IF i <= Len(p) THEN r[i] ELSE s[i]
      /\ \A i \in 1..Len(p) : s[i] = p[i]
  BY <1>0 DEF IsMoved
<1>3. Len(p) \in Nat /\ Len(q) \in Nat
  BY ChainLen
<1>4. ASSUME NEW i \in 1..Len(q) PROVE q[i] = s[i]
  <2>1. CASE i <= Len(p)
    BY <1>1, <1>2, <1>3, <2>1
  <2>2. CASE ~(i <= Len(p))
    BY <1>1, <1>2, <1>3, <2>2
  <2> QED BY <2>1, <2>2
<1> QED BY <1>1, <1>2, <1>4, ChainEqual

LEMMA MovedUp ==
    ASSUME NEW p \in Chain, NEW r \in Chain, p # TopDir, r # TopDir, Up(p) = Up(r),
           NEW q \in Chain, q # TopDir
    PROVE  Up(Moved(p, r, q)) = Moved(p, r, Up(q))
<1>0. /\ Up(q) \in Chain /\ Up(q) = Pre(q, Len(q) - 1) /\ Len(Up(q)) = Len(q) - 1
      /\ Len(q) \in Nat /\ Len(q) > 0 /\ Below(Up(q), q)
  BY UpFacts
<1>1. CASE ~AtOrBelow(p, q)
  <2>1. ~AtOrBelow(p, Up(q))
    BY <1>0, <1>1, BelowTrans DEF AtOrBelow
  <2> QED BY <1>1, <2>1 DEF Moved
<1>2. CASE q = p
  <2>1. ~AtOrBelow(p, Up(q))
    BY <1>0, <1>2, BelowUp DEF AtOrBelow
  <2>2. Moved(p, r, q) = r
    <3>1. AtOrBelow(p, p)
      BY DEF AtOrBelow
    <3>2. /\ Moved(p, r, p) \in Chain /\ Len(Moved(p, r, p)) = Len(p) /\ Len(p) = Len(r)
          /\ \A i \in 1..Len(p) : Moved(p, r, p)[i] = IF i <= Len(p) THEN r[i] ELSE p[i]
      BY <3>1, MovedFacts DEF IsMoved
    <3>3. \A i \in 1..Len(p) : Moved(p, r, p)[i] = r[i]
      BY <1>0, <1>2, <3>2
    <3> QED BY <1>2, <3>2, <3>3, ChainEqual
  <2> QED BY <1>2, <2>1, <2>2 DEF Moved
<1>3. CASE Below(p, q)
  <2> DEFINE m == Moved(p, r, q)
             u == Up(q)
             v == Moved(p, r, u)
  <2>1. AtOrBelow(p, u) /\ AtOrBelow(p, q)
    BY <1>3, BelowUp DEF AtOrBelow
  <2>2. /\ m \in Chain /\ Len(m) = Len(q)
        /\ \A i \in 1..Len(q) : m[i] = IF i <= Len(p) THEN r[i] ELSE q[i]
    BY <2>1, MovedFacts DEF IsMoved
  <2>3. /\ v \in Chain /\ Len(v) = Len(u)
        /\ \A i \in 1..Len(u) : v[i] = IF i <= Len(p) THEN r[i] ELSE u[i]
    <3>1. IsMoved(v, p, r, u)
      BY <1>0, <2>1, MovedFacts
    <3> HIDE DEF v, u
    <3> QED BY <3>1 DEF IsMoved
  <2>4. \A i \in 1..Len(u) : u[i] = q[i]
    <3> DEFINE n == Len(q) - 1
    <3>1. n \in 0..Len(q) /\ u = Pre(q, n) /\ Len(u) = n
      BY <1>0
    <3> HIDE DEF n, u
    <3>2. \A i \in 1..n : Pre(q, n)[i] = q[i]
      BY <3>1, PreFacts
    <3> QED BY <3>1, <3>2
  <2> HIDE DEF m, v, u
  <2>5. m # TopDir
    BY <1>0, <2>2, ChainLen
  <2>6. Up(m) = Pre(m, Len(m) - 1) /\ Up(m) \in Chain /\ Len(Up(m)) = Len(m) - 1
    BY <2>2, <2>5, UpFacts
  <2>7. \A i \in 1..(Len(m) - 1) : Up(m)[i] = m[i]
    <3>1. Len(m) - 1 \in 0..Len(m)
      BY <1>0, <2>2
    <3> QED BY <2>2, <2>6, <3>1, PreFacts
  <2>8. Len(u) = Len(q) - 1
    BY <1>0 DEF u
  <2>9. ASSUME NEW i \in 1..Len(Up(m)) PROVE Up(m)[i] = v[i]
    <3>1. i \in 1..(Len(m) - 1) /\ i \in 1..Len(u) /\ i \in 1..Len(q)
      BY <1>0, <2>2, <2>6, <2>8
    <3> QED BY <2>2, <2>3, <2>4, <2>7, <3>1
  <2>10. Up(m) = v
    BY <2>2, <2>3, <2>6, <2>8, <2>9, ChainEqual
  <2> QED BY <2>10 DEF m, v, u
<1> QED BY <1>1, <1>2, <1>3 DEF AtOrBelow

LEMMA RenamedGood ==
    ASSUME NEW f, FsGood(f), NEW p \in DOMAIN f, NEW r \in Paths, r \notin DOMAIN f,
           Up(r) = Up(p), {Moved(p, r, q) : q \in DOMAIN f} \subseteq Paths,
           NEW g, g = [s \in {Moved(p, r, q) : q \in DOMAIN f} |->
                          f[CHOOSE q \in DOMAIN f : Moved(p, r, q) = s]]
    PROVE  /\ FsGood(g)
           /\ \A d \in Chain : d # Up(p) /\ ~AtOrBelow(p, d) /\ ~AtOrBelow(r, d)
                 => Kids(g, d) = Kids(f, d)
<1>1. p \in Chain /\ p # TopDir /\ r \in Chain /\ r # TopDir
  BY PathFacts DEF FsGood
<1>2. \A q \in DOMAIN f : q \in Chain /\ q # TopDir
  BY PathFacts DEF FsGood
<1>3. ASSUME NEW q \in DOMAIN f, NEW s \in DOMAIN f, Moved(p, r, q) = Moved(p, r, s)
      PROVE  q = s
  <2>1. ASSUME NEW a \in DOMAIN f, AtOrBelow(p, a) PROVE Moved(p, r, a) \notin DOMAIN f
    <3>1. AtOrBelow(r, Moved(p, r, a))
      BY <1>1, <1>2, <2>1, MovedFacts DEF IsMoved
    <3> QED BY <1>1, <3>1, AncestorsExist
  <2>2. ASSUME NEW a \in DOMAIN f, ~AtOrBelow(p, a) PROVE Moved(p, r, a) = a
    BY <2>2 DEF Moved
  <2>3. CASE AtOrBelow(p, q) /\ AtOrBelow(p, s)
    BY <1>1, <1>2, <1>3, <2>3, MovedInjective
  <2> QED BY <1>3, <2>1, <2>2, <2>3
<1> DEFINE D == {Moved(p, r, q) : q \in DOMAIN f}
<1>4. DOMAIN g = D
  OBVIOUS
<1>5. ASSUME NEW q \in DOMAIN f PROVE Moved(p, r, q) \in DOMAIN g /\ g[Moved(p, r, q)] = f[q]
  <2>1. Moved(p, r, q) \in D
    OBVIOUS
  <2>2. (CHOOSE s \in DOMAIN f : Moved(p, r, s) = Moved(p, r, q)) = q
    BY <1>3
  <2> QED BY <1>4, <2>1, <2>2
<1>6. \A s \in DOMAIN g : \E q \in DOMAIN f : s = Moved(p, r, q)
  BY <1>4
<1> HIDE DEF D
<1>7. ASSUME NEW s \in DOMAIN g PROVE IsDir(g, Up(s))
  <2>1. PICK q \in DOMAIN f : s = Moved(p, r, q)
    BY <1>6
  <2>2. Up(s) = Moved(p, r, Up(q))
    BY <1>1, <1>2, <2>1, MovedUp
  <2>3. IsDir(f, Up(q))
    BY DEF FsGood
  <2>4. CASE Up(q) = TopDir
    <3>1. ~AtOrBelow(p, TopDir)
      BY <1>1, ChainLen, BelowUp DEF AtOrBelow
    <3> QED BY <2>2, <2>4, <3>1 DEF Moved, IsDir
  <2>5. CASE Up(q) # TopDir
    <3>1. Up(q) \in DOMAIN f /\ f[Up(q)] = "dir"
      BY <2>3, <2>5 DEF IsDir
    <3> QED BY <1>5, <2>2, <3>1 DEF IsDir
  <2> QED BY <2>4, <2>5
<1>8. ASSUME NEW d \in Chain, d # Up(p), ~AtOrBelow(p, d), ~AtOrBelow(r, d)
      PROVE  Kids(g, d) = Kids(f, d)
  <2>1. ASSUME NEW q \in DOMAIN f, Up(q) = d PROVE ~AtOrBelow(p, q)
    BY <1>1, <1>2, <1>8, <2>1, BelowUp DEF AtOrBelow
  <2>2. ASSUME NEW q \in DOMAIN f, Up(Moved(p, r, q)) = d PROVE ~AtOrBelow(p, q)
    <3>1. SUFFICES ASSUME AtOrBelow(p, q) PROVE FALSE
      OBVIOUS
    <3>2. Up(Moved(p, r, q)) = Moved(p, r, Up(q)) /\ Up(q) \in Chain
      BY <1>1, <1>2, MovedUp, UpFacts
    <3>3. CASE Below(p, q)
      <4>1. AtOrBelow(p, Up(q))
        BY <1>1, <1>2, <3>3, BelowUp DEF AtOrBelow
      <4>2. AtOrBelow(r, Moved(p, r, Up(q)))
        BY <1>1, <3>2, <4>1, MovedFacts DEF IsMoved
      <4> QED BY <1>8, <2>2, <3>2, <4>2
    <3>4. CASE q = p
      <4>1. ~AtOrBelow(p, Up(p))
        BY <1>1, UpFacts, BelowUp DEF AtOrBelow
      <4> QED BY <1>8, <2>2, <3>2, <3>4, <4>1 DEF Moved
    <3> QED BY <3>1, <3>3, <3>4 DEF AtOrBelow
  <2>3. \A q \in DOMAIN f : ~AtOrBelow(p, q) => Moved(p, r, q) = q
    BY DEF Moved
  <2>4. ASSUME NEW s \in Kids(g, d) PROVE s \in Kids(f, d)
    <3>1. PICK q \in DOMAIN f : s = Moved(p, r, q)
      BY <1>6 DEF Kids
    <3> QED BY <2>2, <2>3, <2>4, <3>1 DEF Kids
  <2>5. ASSUME NEW s \in Kids(f, d) PROVE s \in Kids(g, d)
    BY <1>5, <2>1, <2>3, <2>5 DEF Kids
  <2> QED BY <2>4, <2>5
<1> QED BY <1>4, <1>7, <1>8 DEF FsGood, D

-----------------------------------------------------------------------------
(* DirectoryTree: the rows                                                 *)

\* The flags of the row of p agree with each other and with the expansion.
RowOK(row, p, x) ==
    /\ row \in [dir : BOOLEAN, kids : BOOLEAN, open : BOOLEAN]
    /\ (row.kids => row.dir) /\ (row.open => row.dir)
    /\ (row.open => p \in x) /\ (p \in x /\ row.kids => row.open)

\* The rows w render the expansion x of the root r.
RowsGood(w, x, r) ==
    /\ DOMAIN w \subseteq Paths
    /\ \A p \in DOMAIN w : /\ RowOK(w[p], p, x) /\ Below(r, p)
                           /\ Up(p) # r => Up(p) \in DOMAIN w

Listing(w, r) == {p \in DOMAIN w : Up(p) = r}

ListedNow(f, r, on) == {p \in Kids(f, r) : matches_filter(on, p)}

LEMMA PreAll ==
    ASSUME NEW p \in Chain PROVE Pre(p, Len(p)) = p
<1>1. Len(p) \in 0..Len(p)
  BY ChainLen
<1>2. /\ Pre(p, Len(p)) \in Chain /\ Len(Pre(p, Len(p))) = Len(p)
      /\ \A i \in 1..Len(p) : Pre(p, Len(p))[i] = p[i]
  BY <1>1, PreFacts
<1> QED BY <1>2, ChainEqual

LEMMA NewRowOK ==
    ASSUME NEW f, NEW x, NEW p PROVE RowOK(NewRow(f, x, p), p, x)
<1> DEFINE k == IsDir(f, p) /\ Entries(f, p) # {}
           o == k /\ p \in x
           row == NewRow(f, x, p)
<1>1. row = [dir |-> IsDir(f, p), kids |-> k, open |-> o]
  BY DEF NewRow
<1>2. IsDir(f, p) \in BOOLEAN /\ k \in BOOLEAN /\ o \in BOOLEAN
  BY DEF IsDir
<1>3. (k => IsDir(f, p)) /\ (o => IsDir(f, p)) /\ (o => p \in x) /\ (p \in x /\ k => o)
  OBVIOUS
<1> HIDE DEF k, o, row
<1>4. row.dir = IsDir(f, p) /\ row.kids = k /\ row.open = o
  BY <1>1
<1>5. row \in [dir : BOOLEAN, kids : BOOLEAN, open : BOOLEAN]
  BY <1>1, <1>2
<1> QED BY <1>3, <1>4, <1>5, Zenon DEF RowOK, row

LEMMA PopulateFacts ==
    ASSUME NEW f, FsGood(f), NEW x, NEW d \in Chain
    PROVE  LET P == populate_children(f, x, d) IN
           /\ P \subseteq DOMAIN f /\ Kids(f, d) \subseteq P
           /\ \A q \in P : Below(d, q) /\ (Up(q) # d => Up(q) \in P)
<1> DEFINE Q == {p \in DOMAIN f : Below(d, p)
                   /\ \A n \in (Len(d) + 1)..(Len(p) - 1) :
                         Pre(p, n) \in x /\ Entries(f, Pre(p, n)) # {}}
<1>1. populate_children(f, x, d) = Q
  BY DEF populate_children, Pre
<1>2. \A q \in DOMAIN f : q \in Chain /\ q # TopDir
  BY PathFacts DEF FsGood
<1>3. ASSUME NEW q \in Kids(f, d) PROVE q \in Q
  <2>1. q \in DOMAIN f /\ Up(q) = d /\ q \in Chain /\ q # TopDir
    BY <1>2 DEF Kids
  <2>2. Below(d, q) /\ Len(d) = Len(q) - 1 /\ Len(q) \in Nat
    BY <2>1, UpFacts
  <2>3. (Len(d) + 1)..(Len(q) - 1) = {}
    BY <2>2
  <2> QED BY <2>1, <2>2, <2>3
<1>4. ASSUME NEW q \in Q, Up(q) # d PROVE Up(q) \in Q
  <2>1. q \in DOMAIN f /\ q \in Chain /\ q # TopDir /\ Below(d, q)
    BY <1>2
  <2>2. /\ Up(q) = Pre(q, Len(q) - 1) /\ Up(q) \in Chain /\ Len(Up(q)) = Len(q) - 1
        /\ Len(q) \in Nat /\ Len(q) > 0 /\ Len(d) \in Nat
    BY <2>1, UpFacts, ChainLen
  <2>3. Below(d, Up(q))
    BY <1>4, <2>1, BelowUp
  <2>4. Up(q) # TopDir
    BY <2>2, <2>3, BelowUp
  <2>5. Up(q) \in DOMAIN f
    BY <2>1, <2>4 DEF FsGood, IsDir
  <2>6. ASSUME NEW n \in (Len(d) + 1)..(Len(Up(q)) - 1)
        PROVE  Pre(Up(q), n) \in x /\ Entries(f, Pre(Up(q), n)) # {}
    <3>1. n \in (Len(d) + 1)..(Len(q) - 1) /\ n \in 0..(Len(q) - 1) /\ Len(q) - 1 \in 0..Len(q)
      BY <2>2
    <3>2. Pre(Up(q), n) = Pre(q, n)
      BY <2>1, <2>2, <3>1, PreTwice
    <3>3. Pre(q, n) \in x /\ Entries(f, Pre(q, n)) # {}
      BY <3>1
    <3> QED BY <3>2, <3>3, Zenon
  <2> QED BY <2>3, <2>5, <2>6
<1>5. Q \subseteq DOMAIN f /\ \A q \in Q : Below(d, q)
  OBVIOUS
<1> HIDE DEF Q
<1> QED BY <1>1, <1>3, <1>4, <1>5

LEMMA RebuildGood ==
    ASSUME NEW f, FsGood(f), NEW x, NEW r \in Chain, NEW on
    PROVE  LET w == rebuild_top_level(f, x, r, on) IN
           RowsGood(w, x, r) /\ Listing(w, r) = ListedNow(f, r, on)
<1> DEFINE w == rebuild_top_level(f, x, r, on)
           P == populate_children(f, x, r)
           S == {p \in P : matches_filter(on, Pre(p, Len(r) + 1))}
<1>1. w = [p \in S |-> NewRow(f, x, p)]
  BY DEF rebuild_top_level, Pre
<1>2. /\ P \subseteq DOMAIN f /\ Kids(f, r) \subseteq P
      /\ \A q \in P : Below(r, q) /\ (Up(q) # r => Up(q) \in P)
  BY PopulateFacts
<1> HIDE DEF w, P
<1>3. \A q \in P : q \in Paths /\ q \in Chain /\ q # TopDir
  BY <1>2, PathFacts DEF FsGood
<1>4. ASSUME NEW q \in S, Up(q) # r PROVE Up(q) \in S
  <2>1. /\ q \in P /\ Up(q) \in P /\ Below(r, Up(q)) /\ q \in Chain
        /\ matches_filter(on, Pre(q, Len(r) + 1))
    BY <1>2, <1>3, <1>4
  <2>2. /\ Up(q) = Pre(q, Len(q) - 1) /\ Len(Up(q)) = Len(q) - 1
        /\ Len(q) \in Nat /\ Len(q) > 0 /\ Len(r) \in Nat
    BY <1>3, <2>1, UpFacts, ChainLen
  <2>3. Len(Up(q)) > Len(r)
    BY <2>1, BelowMeans
  <2>4. Len(q) - 1 \in 0..Len(q) /\ Len(r) + 1 \in 0..(Len(q) - 1)
    BY <2>2, <2>3
  <2>5. Pre(Pre(q, Len(q) - 1), Len(r) + 1) = Pre(q, Len(r) + 1)
    BY <2>1, <2>4, PreTwice
  <2>6. Pre(Up(q), Len(r) + 1) = Pre(q, Len(r) + 1)
    BY <2>2, <2>5, Zenon
  <2> QED BY <2>1, <2>6
<1>5. ASSUME NEW q \in P, Up(q) = r PROVE Pre(q, Len(r) + 1) = q
  <2>1. q \in Chain /\ q # TopDir
    BY <1>3
  <2>2. Len(r) + 1 = Len(q)
    BY <1>5, <2>1, UpFacts
  <2>3. Pre(q, Len(q)) = q
    BY <2>1, PreAll
  <2> QED BY <2>2, <2>3, Zenon
<1>6. DOMAIN w = S /\ \A p \in S : w[p] = NewRow(f, x, p)
  BY <1>1
<1>7. S \subseteq P
  OBVIOUS
<1>8. RowsGood(w, x, r)
  <2> HIDE DEF S
  <2> QED BY <1>2, <1>3, <1>4, <1>6, <1>7, NewRowOK DEF RowsGood
<1>9. Listing(w, r) = ListedNow(f, r, on)
  <2>1. ASSUME NEW q \in Listing(w, r) PROVE q \in ListedNow(f, r, on)
    <3>1. q \in S /\ Up(q) = r
      BY <1>6 DEF Listing
    <3>2. q \in P /\ matches_filter(on, Pre(q, Len(r) + 1))
      BY <3>1
    <3>3. matches_filter(on, q)
      BY <1>5, <3>1, <3>2
    <3> QED BY <1>2, <3>1, <3>2, <3>3 DEF ListedNow, Kids
  <2>2. ASSUME NEW q \in ListedNow(f, r, on) PROVE q \in Listing(w, r)
    <3>1. q \in P /\ Up(q) = r /\ matches_filter(on, q)
      BY <1>2 DEF ListedNow, Kids
    <3>2. matches_filter(on, Pre(q, Len(r) + 1))
      BY <1>5, <3>1
    <3> QED BY <1>6, <3>1, <3>2 DEF Listing
  <2> QED BY <2>1, <2>2
<1> QED BY <1>8, <1>9 DEF w

\* The children of d made anew, as ClickRow and reconcile_directory do.
Reopened(w, f, x, d) ==
    LET kept == {p \in DOMAIN w : ~Below(d, p)}
        new == populate_children(f, x, d)
    IN  [p \in kept \cup new |->
            IF p \in new THEN NewRow(f, x, p)
            ELSE IF p = d THEN [w[p] EXCEPT !.open = TRUE] ELSE w[p]]

LEMMA ReopenGood ==
    ASSUME NEW w, NEW x, NEW y, NEW r \in Chain, RowsGood(w, x, r), NEW f, FsGood(f),
           NEW d \in DOMAIN w, w[d].dir, d \in y,
           \A q \in DOMAIN w : ~Below(d, q) /\ q # d => (q \in x <=> q \in y)
    PROVE  RowsGood(Reopened(w, f, y, d), y, r) /\ Listing(Reopened(w, f, y, d), r) = Listing(w, r)
<1> DEFINE v == Reopened(w, f, y, d)
           kept == {p \in DOMAIN w : ~Below(d, p)}
           new == populate_children(f, y, d)
<1>1. \A q \in DOMAIN w : q \in Paths /\ q \in Chain /\ q # TopDir /\ Below(r, q)
  BY PathFacts DEF RowsGood
<1>2. /\ new \subseteq DOMAIN f
      /\ \A q \in new : Below(d, q) /\ (Up(q) # d => Up(q) \in new)
  BY <1>1, PopulateFacts
<1>3. \A q \in new : q \in Paths /\ q \in Chain /\ q # TopDir
  BY <1>2, PathFacts DEF FsGood
<1>4. v = [p \in kept \cup new |->
              IF p \in new THEN NewRow(f, y, p)
              ELSE IF p = d THEN [w[p] EXCEPT !.open = TRUE] ELSE w[p]]
  BY DEF Reopened
<1>5. d \in kept /\ d \in Chain /\ Below(r, d) /\ d # r /\ ~Below(d, r) /\ ~Below(d, d)
  BY <1>1, BelowUp
<1> HIDE DEF new, v
<1>6. /\ DOMAIN v = kept \cup new
      /\ \A p \in new : v[p] = NewRow(f, y, p)
      /\ \A p \in kept : p # d /\ p \notin new => v[p] = w[p]
  BY <1>4
<1>7. v[d] = [w[d] EXCEPT !.open = TRUE]
  BY <1>2, <1>4, <1>5
<1>8. RowOK(v[d], d, y)
  <2>1. w[d] \in [dir : BOOLEAN, kids : BOOLEAN, open : BOOLEAN]
    BY DEF RowsGood, RowOK
  <2> QED BY <1>7, <2>1 DEF RowOK
<1>9. ASSUME NEW p \in DOMAIN v PROVE p \in Paths /\ RowOK(v[p], p, y) /\ Below(r, p)
  <2>1. CASE p \in new
    <3>1. Below(r, p)
      BY <1>2, <1>3, <1>5, <2>1, BelowTrans
    <3> QED BY <1>3, <1>6, <2>1, <3>1, NewRowOK
  <2>2. CASE p \in kept /\ p \notin new /\ p # d
    <3>1. RowOK(w[p], p, x)
      BY <2>2 DEF RowsGood
    <3>2. p \in x <=> p \in y
      BY <2>2
    <3>3. RowOK(w[p], p, y)
      BY <3>1, <3>2 DEF RowOK
    <3> QED BY <1>1, <1>6, <2>2, <3>3
  <2>3. CASE p = d
    BY <1>1, <1>5, <1>8, <2>3
  <2> QED BY <1>6, <2>1, <2>2, <2>3
<1>10. ASSUME NEW p \in DOMAIN v, Up(p) # r PROVE Up(p) \in DOMAIN v
  <2>1. CASE p \in new
    BY <1>2, <1>5, <1>6, <2>1
  <2>2. CASE p \in kept
    <3>1. Up(p) \in DOMAIN w /\ Up(p) \in Chain /\ Below(Up(p), p) /\ p \in Chain
      BY <1>1, <1>10, <2>2, UpFacts DEF RowsGood
    <3>2. ~Below(d, Up(p))
      BY <1>5, <2>2, <3>1, BelowTrans
    <3> QED BY <1>6, <3>1, <3>2
  <2> QED BY <1>6, <2>1, <2>2
<1>11. RowsGood(v, y, r)
  BY <1>9, <1>10 DEF RowsGood
<1>12. ASSUME NEW q \in Chain, Below(d, q) PROVE Up(q) # r
  BY <1>5, <1>12, BelowUp
<1>13. Listing(v, r) = Listing(w, r)
  <2>1. ASSUME NEW q \in Listing(v, r) PROVE q \in Listing(w, r)
    BY <1>2, <1>3, <1>6, <1>12, <2>1 DEF Listing
  <2>2. ASSUME NEW q \in Listing(w, r) PROVE q \in Listing(v, r)
    BY <1>1, <1>6, <1>12, <2>2 DEF Listing
  <2> QED BY <2>1, <2>2
<1> QED BY <1>11, <1>13 DEF v

Folded(w, d) == [w EXCEPT ![d].open = FALSE]

LEMMA CloseGood ==
    ASSUME NEW w, NEW x, NEW y, NEW r, RowsGood(w, x, r), NEW d \in DOMAIN w, d \notin y,
           \A q \in DOMAIN w : q # d => (q \in x <=> q \in y)
    PROVE  RowsGood(Folded(w, d), y, r) /\ Listing(Folded(w, d), r) = Listing(w, r)
<1> DEFINE v == Folded(w, d)
<1>1. /\ DOMAIN v = DOMAIN w /\ \A q \in DOMAIN w : q # d => v[q] = w[q]
      /\ v[d] = [w[d] EXCEPT !.open = FALSE]
  BY DEF Folded
<1> HIDE DEF v
<1>2. RowOK(v[d], d, y)
  <2>1. w[d] \in [dir : BOOLEAN, kids : BOOLEAN, open : BOOLEAN] /\ (w[d].kids => w[d].dir)
    BY DEF RowsGood, RowOK
  <2> QED BY <1>1, <2>1 DEF RowOK
<1>3. ASSUME NEW q \in DOMAIN w, q # d PROVE RowOK(v[q], q, y)
  BY <1>1, <1>3 DEF RowsGood, RowOK
<1>4. RowsGood(v, y, r) /\ Listing(v, r) = Listing(w, r)
  BY <1>1, <1>2, <1>3 DEF RowsGood, Listing
<1> QED BY <1>4 DEF v

-----------------------------------------------------------------------------
(* DirectoryTree: the invariant                                            *)

UpToDate ==
    (watched = root /\ due # root) => Listing(rows, root) = ListedNow(fs, root, filtering)

TreeInv ==
    /\ FsGood(fs) /\ root \in Chain
    /\ RowsGood(rows, expanded, root) /\ lit = DOMAIN rows \cap {selected}
    /\ UpToDate

\* A visible row is shown by an open row, or is one of the root's.
LEMMA VisibleFacts ==
    ASSUME TreeInv, NEW p, Visible(p)
    PROVE  /\ p \in DOMAIN rows /\ p \in Paths /\ p \in Chain /\ p # TopDir /\ Below(root, p)
           /\ Up(p) # root =>
                 /\ Up(p) \in DOMAIN rows /\ rows[Up(p)].open /\ rows[Up(p)].dir
                 /\ Up(p) \in expanded
<1>1. p \in DOMAIN rows /\ p \in Paths /\ Below(root, p)
  BY DEF Visible, TreeInv, RowsGood
<1>2. p \in Chain /\ p # TopDir /\ root \in Chain
  BY <1>1, PathFacts DEF TreeInv
<1>3. ASSUME Up(p) # root
      PROVE  Up(p) \in DOMAIN rows /\ rows[Up(p)].open /\ rows[Up(p)].dir /\ Up(p) \in expanded
  <2>1. Below(root, Up(p)) /\ Up(p) = Pre(p, Len(p) - 1) /\ Len(p) \in Nat /\ Len(root) \in Nat
    BY <1>1, <1>2, <1>3, BelowUp, UpFacts, ChainLen
  <2>2. Len(Up(p)) = Len(p) - 1 /\ Len(Up(p)) > Len(root)
    BY <1>2, <2>1, UpFacts, BelowMeans
  <2>3. Len(p) - 1 \in (Len(root) + 1)..(Len(p) - 1)
    BY <2>1, <2>2
  <2>4. rows[SubSeq(p, 1, Len(p) - 1)].open
    BY <2>3 DEF Visible
  <2>5. rows[Up(p)].open
    BY <2>1, <2>4 DEF Pre
  <2>6. Up(p) \in DOMAIN rows
    BY <1>1, <1>3 DEF TreeInv, RowsGood
  <2> QED BY <2>5, <2>6 DEF TreeInv, RowsGood, RowOK
<1> QED BY <1>1, <1>2, <1>3

\* What a step has made of the rows: all of the root's anew, or only others.
Drawn(f, x, s, all) ==
    /\ RowsGood(rows', x, root) /\ lit' = DOMAIN rows' \cap {s}
    /\ Listing(rows', root) = IF all THEN ListedNow(f, root, filtering) ELSE Listing(rows, root)

LEMMA RefreshDrawn ==
    ASSUME NEW f, FsGood(f), NEW x, NEW r \in Chain, NEW on, NEW s, refresh(f, x, r, on, s)
    PROVE  /\ RowsGood(rows', x, r) /\ lit' = DOMAIN rows' \cap {s}
           /\ Listing(rows', r) = ListedNow(f, r, on)
BY RebuildGood DEF refresh

\* reconcile_directory of a directory that is drawn open.
LEMMA ReconcileOpen ==
    ASSUME TreeInv, NEW f, FsGood(f), NEW x, NEW s, NEW d, reconcile_directory(f, x, s, d),
           d # root => /\ d \in DOMAIN rows /\ rows[d].dir /\ d \in x
                       /\ \A q \in DOMAIN rows : ~Below(d, q) /\ q # d =>
                             (q \in expanded <=> q \in x)
    PROVE  Drawn(f, x, s, d = root)
<1>1. root \in Chain /\ RowsGood(rows, expanded, root)
  BY DEF TreeInv
<1>2. CASE d = root
  BY <1>1, <1>2, RefreshDrawn DEF reconcile_directory, Drawn
<1>3. CASE d # root
  <2>1. rows' = Reopened(rows, f, x, d)
    BY <1>3 DEF reconcile_directory, Reconciled, Reopened
  <2>2. lit' = DOMAIN rows' \cap {s}
    BY <1>3 DEF reconcile_directory
  <2>3. RowsGood(rows', x, root) /\ Listing(rows', root) = Listing(rows, root)
    BY <1>1, <1>3, <2>1, ReopenGood
  <2> QED BY <1>3, <2>2, <2>3 DEF Drawn
<1> QED BY <1>2, <1>3

\* reconcile_directory of any directory, the state as it is.
LEMMA ReconcileSame ==
    ASSUME TreeInv, NEW f, FsGood(f), NEW d, reconcile_directory(f, expanded, selected, d)
    PROVE  Drawn(f, expanded, selected, d = root)
<1>1. RowsGood(rows, expanded, root) /\ lit = DOMAIN rows \cap {selected}
  BY DEF TreeInv
<1>2. CASE d = root \/ (d \in DOMAIN rows /\ rows[d].dir /\ d \in expanded)
  BY <1>2, ReconcileOpen
<1>3. CASE d # root /\ ~(d \in DOMAIN rows /\ rows[d].dir)
  BY <1>1, <1>3 DEF reconcile_directory, Reconciled, Drawn
<1>4. CASE d # root /\ d \in DOMAIN rows /\ rows[d].dir /\ d \notin expanded
  <2>1. rows' = Folded(rows, d) /\ lit' = DOMAIN rows' \cap {selected}
    BY <1>4 DEF reconcile_directory, Reconciled, Folded
  <2>2. RowsGood(rows', expanded, root) /\ Listing(rows', root) = Listing(rows, root)
    BY <1>1, <1>4, <2>1, CloseGood
  <2> QED BY <1>4, <2>1, <2>2 DEF Drawn
<1> QED BY <1>2, <1>3, <1>4

\* A change of the entry p: the monitor has the root listed anew if p is
\* in it, so the listing is right or a refresh of it is due.
LEMMA ChangeFresh ==
    ASSUME TreeInv, NEW p, Reported(p), UNCHANGED <<watched, root, filtering>>,
           NEW all, Drawn(fs', expanded', selected', all), FsGood(fs'),
           Up(p) # root => Kids(fs', root) = Kids(fs, root)
    PROVE  TreeInv'
<1>1. UpToDate'
  <2>1. SUFFICES ASSUME watched = root, due' # root
                 PROVE  Listing(rows', root) = ListedNow(fs', root, filtering)
    BY DEF UpToDate
  <2>2. Up(p) # root /\ due' = due
    BY <2>1 DEF Reported
  <2>3. Listing(rows, root) = ListedNow(fs, root, filtering)
    BY <2>1, <2>2 DEF TreeInv, UpToDate
  <2>4. ListedNow(fs', root, filtering) = ListedNow(fs, root, filtering)
    BY <2>2 DEF ListedNow
  <2> QED BY <2>3, <2>4 DEF Drawn
<1> QED BY <1>1 DEF TreeInv, Drawn

\* Rows and listing stay as they are.
LEMMA NotDrawn ==
    ASSUME TreeInv, NEW f, UNCHANGED <<rows, lit>>
    PROVE  Drawn(f, expanded, selected, FALSE)
BY DEF TreeInv, Drawn

LEMMA ClickStep ==
    ASSUME TreeInv, NEW p, ClickRow(p)
    PROVE  TreeInv'
<1>1. /\ p \in DOMAIN rows /\ p \in Chain
      /\ RowsGood(rows, expanded, root) /\ root \in Chain /\ FsGood(fs)
  BY VisibleFacts DEF ClickRow, TreeInv
<1>2. RowsGood(rows', expanded', root) /\ Listing(rows', root) = Listing(rows, root)
  <2>1. CASE ~rows[p].kids
    BY <1>1, <2>1 DEF ClickRow
  <2>2. CASE rows[p].kids /\ p \in expanded
    <3>1. rows' = Folded(rows, p) /\ expanded' = expanded \ {p}
      BY <2>2 DEF ClickRow, Folded
    <3> QED BY <1>1, <3>1, CloseGood
  <2>3. CASE rows[p].kids /\ p \notin expanded
    <3>1. rows' = Reopened(rows, fs, expanded', p) /\ expanded' = expanded \cup {p}
      BY <2>3 DEF ClickRow, Reopened
    <3>2. rows[p].dir
      BY <1>1, <2>3 DEF RowsGood, RowOK
    <3>3. p \in expanded' /\ \A q \in DOMAIN rows : q # p => (q \in expanded <=> q \in expanded')
      BY <3>1
    <3> DEFINE y == expanded'
    <3> HIDE DEF y
    <3>4. RowsGood(Reopened(rows, fs, y, p), y, root)
          /\ Listing(Reopened(rows, fs, y, p), root) = Listing(rows, root)
      BY <1>1, <3>2, <3>3, ReopenGood DEF y
    <3> QED BY <3>1, <3>4 DEF y
  <2> QED BY <2>1, <2>2, <2>3
<1>3. lit' = DOMAIN rows' \cap {selected'} /\ UNCHANGED <<fs, root, filtering, watched, due>>
  BY DEF ClickRow, set_selected
<1> QED BY <1>1, <1>2, <1>3 DEF TreeInv, UpToDate

LEMMA CreateStep ==
    ASSUME TreeInv, NEW p \in Paths, NEW kind, CreateItem(p, kind)
    PROVE  TreeInv'
<1>1. p \in Chain /\ p # TopDir /\ p \notin DOMAIN fs /\ IsDir(fs, Up(p)) /\ FsGood(fs) /\ root \in Chain
  BY PathFacts DEF CreateItem, TreeInv
<1>2. ~IsDir(fs, p)
  BY <1>1 DEF IsDir
<1>3. fs' = [q \in DOMAIN fs \cup {p} |-> IF q = p THEN kind ELSE fs[q]]
  BY DEF CreateItem
<1>4. FsGood(fs') /\ \A d : d # Up(p) => Kids(fs', d) = Kids(fs, d)
  BY <1>1, <1>2, <1>3, AddedGood
<1>5. Drawn(fs', expanded', selected', TRUE)
  BY <1>1, <1>4, RefreshDrawn DEF CreateItem, Drawn
<1> QED BY <1>4, <1>5, ChangeFresh DEF CreateItem

LEMMA RenameStep ==
    ASSUME TreeInv, NEW p \in Paths, NEW r \in Paths, rename_item(p, r)
    PROVE  TreeInv'
<1> DEFINE d == Up(p)
<1>1. /\ p \in Chain /\ p # TopDir /\ Below(root, p) /\ r \in Chain /\ r # TopDir
      /\ root \in Chain /\ FsGood(fs) /\ p \in DOMAIN fs /\ r \notin DOMAIN fs /\ Up(r) = d
      /\ d # root => d \in DOMAIN rows /\ rows[d].dir /\ d \in expanded
  BY VisibleFacts, PathFacts DEF rename_item, TreeInv
<1>2. Below(d, p) /\ Below(d, r) /\ d \in Chain
  BY <1>1, UpFacts
<1>3. FsGood(fs') /\ \A e \in Chain : e # d /\ ~AtOrBelow(p, e) /\ ~AtOrBelow(r, e)
                        => Kids(fs', e) = Kids(fs, e)
  BY <1>1, RenamedGood DEF rename_item
<1>4. ~AtOrBelow(p, root) /\ ~AtOrBelow(r, root)
  <2>1. Below(root, r)
    <3>1. d = root \/ Below(root, d)
      BY <1>1, BelowUp
    <3> QED BY <1>1, <1>2, <3>1, BelowTrans
  <2> QED BY <1>1, <2>1, BelowUp DEF AtOrBelow
<1>5. \A q : q # p /\ q # r => (q \in expanded <=> q \in expanded')
  BY DEF rename_item
<1>6. reconcile_directory(fs', expanded', selected', d)
  BY DEF rename_item
<1>7. d # p /\ d # r
  BY <1>1, <1>2, BelowUp
<1> HIDE DEF d
<1>8. Drawn(fs', expanded', selected', d = root)
  BY <1>1, <1>2, <1>3, <1>5, <1>6, <1>7, ReconcileOpen
<1>9. Up(p) # root => Kids(fs', root) = Kids(fs, root)
  BY <1>1, <1>3, <1>4 DEF d
<1> QED BY <1>3, <1>8, <1>9, ChangeFresh DEF rename_item

LEMMA DeleteStep ==
    ASSUME TreeInv, NEW p \in Paths, delete_item(p)
    PROVE  TreeInv'
<1> DEFINE d == Up(p)
<1>1. /\ p \in Chain /\ p # TopDir /\ Below(root, p) /\ root \in Chain /\ FsGood(fs)
      /\ RowsGood(rows, expanded, root)
      /\ d # root => d \in DOMAIN rows /\ rows[d].dir /\ d \in expanded
  BY VisibleFacts DEF delete_item, TreeInv
<1>2. Below(d, p) /\ d \in Chain
  BY <1>1, UpFacts
<1>3. FsGood(fs') /\ \A e \in Chain : e # d /\ ~AtOrBelow(p, e) => Kids(fs', e) = Kids(fs, e)
  BY <1>1, RemovedGood DEF delete_item
<1>4. ~AtOrBelow(p, root) /\ ~AtOrBelow(p, d)
  BY <1>1, <1>2, BelowUp DEF AtOrBelow
<1>5. expanded' = {s \in expanded : ~AtOrBelow(p, s)}
  BY DEF delete_item
<1>6. reconcile_directory(fs', expanded', selected', d)
  BY DEF delete_item
<1> HIDE DEF d
<1>7. ASSUME NEW q \in DOMAIN rows, ~Below(d, q) PROVE ~AtOrBelow(p, q)
  <2>1. q \in Chain
    BY <1>1, PathFacts DEF RowsGood
  <2> QED BY <1>1, <1>2, <1>7, <2>1, BelowTrans DEF AtOrBelow
<1>8. Drawn(fs', expanded', selected', d = root)
  BY <1>1, <1>3, <1>4, <1>5, <1>6, <1>7, ReconcileOpen
<1>9. Up(p) # root => Kids(fs', root) = Kids(fs, root)
  BY <1>1, <1>3, <1>4 DEF d
<1> QED BY <1>3, <1>8, <1>9, ChangeFresh DEF delete_item

LEMMA OutsideStep ==
    ASSUME TreeInv, NEW p \in Paths, NEW kind,
           OthersCreate(p, kind) \/ OthersRemove(p) \/ on_note_saved(p)
    PROVE  TreeInv'
<1>1. p \in Chain /\ p # TopDir /\ FsGood(fs) /\ root \in Chain
  BY PathFacts DEF TreeInv
<1>2. CASE OthersCreate(p, kind)
  <2>1. /\ IsDir(fs, Up(p)) /\ ~IsDir(fs, p)
        /\ fs' = [q \in DOMAIN fs \cup {p} |-> IF q = p THEN kind ELSE fs[q]]
    BY <1>1, <1>2 DEF OthersCreate, IsDir
  <2>2. FsGood(fs') /\ \A d : d # Up(p) => Kids(fs', d) = Kids(fs, d)
    BY <1>1, <2>1, AddedGood
  <2>3. Drawn(fs', expanded', selected', FALSE)
    BY <1>2, NotDrawn DEF OthersCreate, treeState
  <2> QED BY <1>2, <2>2, <2>3, ChangeFresh DEF OthersCreate, treeState
<1>3. CASE OthersRemove(p)
  <2>1. /\ FsGood(fs')
        /\ \A d \in Chain : d # Up(p) /\ ~AtOrBelow(p, d) => Kids(fs', d) = Kids(fs, d)
    BY <1>1, <1>3, RemovedGood DEF OthersRemove
  <2>2. Drawn(fs', expanded', selected', FALSE)
    BY <1>3, NotDrawn DEF OthersRemove, treeState
  <2>3. Up(p) # root => Kids(fs', root) = Kids(fs, root)
    BY <1>1, <1>3, <2>1 DEF OthersRemove
  <2> QED BY <1>3, <2>1, <2>2, <2>3, ChangeFresh DEF OthersRemove, treeState
<1>4. CASE on_note_saved(p)
  <2>1. /\ IsDir(fs, Up(p)) /\ ~IsDir(fs, p)
        /\ fs' = [q \in DOMAIN fs \cup {p} |-> IF q = p THEN "file" ELSE fs[q]]
        /\ UNCHANGED <<root, expanded, selected, filtering, watched>> /\ Reported(p)
    BY <1>4 DEF on_note_saved, treeState
  <2>2. FsGood(fs') /\ \A d : d # Up(p) => Kids(fs', d) = Kids(fs, d)
    BY <1>1, <2>1, AddedGood
  <2>3. PICK all \in BOOLEAN : Drawn(fs', expanded, selected, all)
    <3>1. CASE UNCHANGED <<rows, lit>>
      BY <3>1, NotDrawn
    <3>2. CASE reconcile_directory(fs', expanded, selected, Up(p))
      <4>1. Drawn(fs', expanded, selected, Up(p) = root)
        BY <2>2, <3>2, ReconcileSame
      <4> QED BY <4>1
    <3> QED BY <1>4, <3>1, <3>2 DEF on_note_saved
  <2> QED BY <2>1, <2>2, <2>3, ChangeFresh
<1> QED BY <1>2, <1>3, <1>4

LEMMA TreeStep ==
    ASSUME TreeInv, [TreeNext]_treeVars
    PROVE  TreeInv'
<1>0. FsGood(fs) /\ root \in Chain
  BY DEF TreeInv
<1>1. ASSUME NEW p \in Paths, ClickRow(p) \/ delete_item(p) \/ OthersRemove(p) \/ on_note_saved(p)
      PROVE  TreeInv'
  BY <1>1, ClickStep, DeleteStep, OutsideStep
<1>2. ASSUME NEW p \in Paths, NEW kind \in {"dir", "file"}, CreateItem(p, kind) \/ OthersCreate(p, kind)
      PROVE  TreeInv'
  BY <1>2, CreateStep, OutsideStep
<1>3. ASSUME NEW p \in Paths, NEW r \in Paths, rename_item(p, r) PROVE TreeInv'
  BY <1>3, RenameStep
<1>4. ASSUME NEW d \in Paths \cup {TopDir}, set_root(d) PROVE TreeInv'
  <2>1. d \in Chain
    BY <1>0, PathFacts, ChainLen
  <2>2. /\ RowsGood(rows', {}, d) /\ lit' = DOMAIN rows' \cap {NoPath}
        /\ Listing(rows', d) = ListedNow(fs, d, filtering)
    BY <1>0, <1>4, <2>1, RefreshDrawn DEF set_root
  <2>3. root' = d /\ expanded' = {} /\ selected' = NoPath /\ UNCHANGED <<fs, filtering>>
    BY <1>4 DEF set_root
  <2> QED BY <1>0, <2>1, <2>2, <2>3 DEF TreeInv, UpToDate
<1>5. ASSUME NEW on \in BOOLEAN, SetFilter(on) PROVE TreeInv'
  <2>1. /\ RowsGood(rows', expanded, root) /\ lit' = DOMAIN rows' \cap {selected}
        /\ Listing(rows', root) = ListedNow(fs, root, on)
    BY <1>0, <1>5, RefreshDrawn DEF SetFilter
  <2> QED BY <1>0, <1>5, <2>1 DEF SetFilter, TreeInv, UpToDate
<1>6. CASE Reload \/ Restart
  <2>1. /\ RowsGood(rows', expanded, root) /\ lit' = DOMAIN rows' \cap {selected}
        /\ Listing(rows', root) = ListedNow(fs, root, filtering)
    BY <1>0, <1>6, RefreshDrawn DEF Reload, Restart
  <2> QED BY <1>0, <1>6, <2>1 DEF Reload, Restart, treeState, TreeInv, UpToDate
<1>7. CASE DebounceTick
  <2>1. Drawn(fs, expanded, selected, due = root)
    BY <1>0, <1>7, ReconcileSame DEF DebounceTick
  <2> QED BY <1>0, <1>7, <2>1 DEF DebounceTick, treeState, TreeInv, UpToDate, Drawn
<1>8. CASE UNCHANGED treeVars
  BY <1>8 DEF treeVars, treeState, TreeInv, UpToDate
<1> QED BY <1>1, <1>2, <1>3, <1>4, <1>5, <1>6, <1>7, <1>8 DEF TreeNext

LEMMA TreeInitially == TreeInit => TreeInv
<1> SUFFICES ASSUME TreeInit PROVE TreeInv
  OBVIOUS
<1>1. DOMAIN fs = {} /\ DOMAIN rows = {} /\ lit = {} /\ root = TopDir
  BY DEF TreeInit
<1>2. root \in Chain
  BY <1>1 DEF TopDir, Chain
<1> QED BY <1>1, <1>2 DEF TreeInv, FsGood, RowsGood, UpToDate, Listing, ListedNow, Kids

LEMMA TreeInvariant == TreeSpec => []TreeInv
BY TreeInitially, TreeStep, PTL DEF TreeSpec

(* "Rows are a rendering of State" (directory_tree_panel.hpp): whatever is *)
(* clicked, filtered, created, renamed, deleted or reported late, the      *)
(* highlighted row is the selected one and the open rows are the expanded  *)
(* directories that have entries.                                          *)
THEOREM RowsRenderState == TreeSpec => []RowsReflectState
<1>1. TreeInv => RowsReflectState
  BY DEF TreeInv, RowsGood, RowOK, RowsReflectState
<1> QED BY <1>1, TreeInvariant, PTL

(* While the monitor watches the root and its timer does not run, the rows *)
(* of the root are its entries, whoever changed them and in what order the *)
(* reports came.                                                           *)
THEOREM ListingCatchesUp == TreeSpec => []ListingFresh
<1>1. ASSUME TreeInv PROVE ListingFresh
  <2>1. Entries(fs, root) = Kids(fs, root)
    BY <1>1, EntriesAreKids DEF TreeInv
  <2> QED BY <1>1, <2>1 DEF TreeInv, UpToDate, Listing, ListedNow, ListingFresh
<1> QED BY <1>1, TreeInvariant, PTL

-----------------------------------------------------------------------------
(* TerminalTab: what the tree operations keep                              *)

\* A tree has a depth, and the tree of a terminal tab a pane in every leaf.
Deep(t, b) == \A n \in DOMAIN t : Len(n) <= b
Bounded(t) == \E b \in Nat : Deep(t, b)
Filled(t) == \A n \in DOMAIN t : IsLeaf(t, n) => t[n].pane \in PaneId
TabTree(t) == GoodTree(t) /\ Bounded(t) /\ Filled(t)

LEMMA FiniteIsBounded ==
    ASSUME NEW t, IsFiniteSet(DOMAIN t), DOMAIN t \subseteq Path
    PROVE  Bounded(t)
<1>1. PICK n \in Nat : ExistsBijection(1..n, DOMAIN t)
  BY FS_CardinalityType
<1>2. PICK f \in [1..n -> DOMAIN t] : \A x \in DOMAIN t : \E i \in 1..n : f[i] = x
  BY <1>1 DEF ExistsBijection, Bijection, Surjection
<1>3. \A i \in 1..n : Len(f[i]) \in Nat
  BY <1>2 DEF Path
<1> DEFINE Fine(k, b) == \A i \in 1..k : Len(f[i]) <= b
           T == {k \in 0..n : \A b \in Nat : ~Fine(k, b)}
<1>4. Fine(0, 0)
  OBVIOUS
<1>5. ASSUME NEW k \in 1..n, NEW b \in Nat, Fine(k - 1, b)
      PROVE  Fine(k, b + Len(f[k])) /\ b + Len(f[k]) \in Nat
  BY <1>3, <1>5
<1> HIDE DEF Fine
<1>6. T = {}
  <2> SUFFICES ASSUME T # {} PROVE FALSE
    OBVIOUS
  <2>1. T \in SUBSET Nat
    OBVIOUS
  <2>2. PICK k \in T : \A m \in T : k <= m
    <3> HIDE DEF T
    <3> QED BY <2>1, LeastExists
  <2>3. k # 0 /\ k \in 0..n
    BY <1>4
  <2>4. k \in 1..n /\ k - 1 \in 0..n /\ ~(k <= k - 1)
    BY <2>3
  <2>5. ~(k - 1 \in T)
    BY <2>2, <2>4
  <2>6. PICK b \in Nat : Fine(k - 1, b)
    BY <2>4, <2>5
  <2> QED BY <1>5, <2>2, <2>4, <2>6
<1>7. PICK b \in Nat : Fine(n, b)
  BY <1>6
<1> QED BY <1>2, <1>7 DEF Bounded, Deep, Fine

LEMMA LeafTabTree ==
    ASSUME NEW p \in PaneId, NEW t, t = LeafTree(p)
    PROVE  TabTree(t) /\ PanesOf(t) = {p}
<1>1. GoodTree(t) /\ DOMAIN t = {Root} /\ t[Root].pane = p
  BY LeafGood DEF PaneOrEmpty
<1>2. Len(Root) <= 0
  BY DEF Root
<1>3. p # NoPane
  BY PaneTreeAssumption
<1> QED BY <1>1, <1>2, <1>3 DEF TabTree, Bounded, Deep, Filled, PanesOf

LEMMA SplitTabTree ==
    ASSUME NEW t, TabTree(t), NEW n \in DOMAIN t, IsLeaf(t, n), NEW k \in SplitKinds,
           NEW p \in PaneId, p \notin PanesOf(t), NEW u, u = SplitAt(t, n, k, HalfRatio, p)
    PROVE  TabTree(u) /\ PanesOf(u) = PanesOf(t) \cup {p}
<1>0. /\ GoodTree(t) /\ IsTree(t) /\ WellFormed(t) /\ DOMAIN t \subseteq Path
      /\ t[n].pane \in PaneId /\ NoPane \notin PaneId /\ HalfRatio \in Ratios
  BY PaneTreeAssumption DEF TabTree, GoodTree, IsTree, Filled
<1>1. \A m \in DOMAIN t : t[m].pane # p
  BY <1>0 DEF PanesOf
<1>2. GoodTree(u) /\ OnlyNew(u, t, {p})
  BY <1>0, <1>1, SplitGood
<1>3. First(n) \notin DOMAIN t /\ Second(n) \notin DOMAIN t
  BY <1>0 DEF WellFormed
<1>4. First(n) # n /\ Second(n) # n /\ First(n) # Second(n)
  BY <1>0, ChildFacts
<1>5. /\ DOMAIN u = DOMAIN t \cup {First(n), Second(n)}
      /\ u[n] = SplitNode(k, HalfRatio) /\ u[First(n)] = t[n] /\ u[Second(n)] = Leaf(p)
      /\ \A m \in DOMAIN t : m # n => u[m] = t[m]
  BY <1>3, <1>4 DEF SplitAt
<1>6. Filled(u)
  <2>1. ~IsLeaf(u, n)
    BY <1>5 DEF IsLeaf, SplitNode, SplitKinds
  <2>2. Leaf(p).pane = p
    BY DEF Leaf
  <2> QED BY <1>0, <1>5, <2>1, <2>2 DEF Filled, IsLeaf, TabTree
<1>7. Bounded(u)
  <2>1. PICK b \in Nat : Deep(t, b)
    BY DEF TabTree, Bounded
  <2>2. Len(First(n)) = Len(n) + 1 /\ Len(Second(n)) = Len(n) + 1
    BY <1>0, PathAppend DEF First, Second
  <2>3. \A m \in DOMAIN t : Len(m) \in Nat
    BY <1>0 DEF Path
  <2>4. Deep(u, b + 1)
    BY <1>5, <2>1, <2>2, <2>3 DEF Deep
  <2> QED BY <2>4 DEF Bounded
<1>8. PanesOf(u) = PanesOf(t) \cup {p}
  <2>1. u[Second(n)].pane = p /\ u[n].pane = NoPane
    BY <1>5 DEF Leaf, SplitNode
  <2> QED BY <1>0, <1>5, <2>1 DEF PanesOf
<1> QED BY <1>2, <1>6, <1>7, <1>8 DEF TabTree

LEMMA RemoveTabTree ==
    ASSUME NEW t, TabTree(t), ~IsLeaf(t, Root), NEW p \in PanesOf(t), p \in PaneId,
           NEW u, u = RemoveLeaf(t, p)
    PROVE  TabTree(u) /\ PanesOf(u) \subseteq PanesOf(t) \ {p}
<1> DEFINE n == NodeOf(t, p)
           s == Sibling(n)
<1>0. GoodTree(t) /\ IsTree(t) /\ WellFormed(t) /\ OnePane(t) /\ DOMAIN t \subseteq Path
  BY DEF TabTree, GoodTree, IsTree
<1>1. n \in DOMAIN t /\ n \in Path /\ t[n].pane = p /\ IsLeaf(t, n) /\ n # Root
  BY <1>0, NodeOfPane
<1>2. s \in DOMAIN t /\ s \in Path /\ s # Root /\ Sibling(s) = n
  BY <1>0, <1>1, SiblingFacts DEF WellFormed
<1>3. u = Promote(t, s)
  BY <1>1 DEF RemoveLeaf
<1>4. GoodTree(u)
  BY <1>0, <1>2, <1>3, PromoteGood
<1> HIDE DEF s, n
<1>5. /\ \A x \in DOMAIN u : \E y \in DOMAIN t : Origin(s, x, y)
      /\ \A y \in DOMAIN t : \A x : Origin(s, x, y) => x \in DOMAIN u /\ u[x] = t[y]
  BY <1>0, <1>2, <1>3, PromoteDef
<1>6. ASSUME NEW x \in DOMAIN u
      PROVE  \E y \in DOMAIN t : u[x] = t[y] /\ y # n /\ Len(x) <= Len(y)
  <2>1. PICK y \in DOMAIN t : Origin(s, x, y)
    BY <1>5
  <2>2. u[x] = t[y] /\ y # n
    BY <1>2, <1>5, <2>1, OriginOne
  <2>3. Len(x) <= Len(y)
    <3>1. CASE x = y
      BY <1>0, <3>1 DEF Path
    <3>2. ASSUME NEW r \in Path, x = Parent(s) \o r, y = s \o r
          PROVE  Len(x) <= Len(y)
      <4>1. Parent(s) \in Path /\ Len(Parent(s)) = Len(s) - 1
        BY <1>2, SiblingFacts
      <4>2. Len(x) = Len(Parent(s)) + Len(r) /\ Len(y) = Len(s) + Len(r)
        BY <1>2, <3>2, <4>1, UnderConcat
      <4>3. Len(s) \in Nat /\ Len(r) \in Nat
        BY <1>2 DEF Path
      <4> QED BY <4>1, <4>2, <4>3
    <3> QED BY <2>1, <3>1, <3>2 DEF Origin
  <2> QED BY <2>2, <2>3
<1>7. Filled(u)
  BY <1>6 DEF TabTree, Filled, IsLeaf
<1>8. Bounded(u)
  <2>1. PICK b \in Nat : Deep(t, b)
    BY DEF TabTree, Bounded
  <2>2. DOMAIN u \subseteq Path
    BY <1>4 DEF GoodTree, IsTree
  <2>3. ASSUME NEW x \in DOMAIN u PROVE Len(x) <= b
    <3>1. PICK y \in DOMAIN t : Len(x) <= Len(y)
      BY <1>6
    <3>2. Len(y) <= b
      BY <2>1 DEF Deep
    <3>3. Len(x) \in Nat /\ Len(y) \in Nat
      BY <1>0, <2>2 DEF Path
    <3> QED BY <3>1, <3>2, <3>3
  <2> QED BY <2>3 DEF Bounded, Deep
<1>9. ASSUME NEW x \in DOMAIN u PROVE u[x].pane # p
  BY <1>0, <1>1, <1>6 DEF OnePane
<1>10. PanesOf(u) \subseteq PanesOf(t) \ {p}
  BY <1>6, <1>9 DEF PanesOf
<1> QED BY <1>4, <1>7, <1>8, <1>10 DEF TabTree

-----------------------------------------------------------------------------
(* TerminalTab: the split a divider writes to                              *)

LEMMA LongestNode ==
    ASSUME NEW t, Bounded(t), DOMAIN t \subseteq Path, NEW B \in SUBSET DOMAIN t, B # {}
    PROVE  \E n \in B : \A m \in B : Len(m) <= Len(n)
<1>1. PICK b \in Nat : Deep(t, b)
  BY DEF Bounded
<1>2. \A n \in B : Len(n) \in Nat /\ Len(n) <= b
  BY <1>1 DEF Deep, Path
<1> DEFINE T == {b - Len(n) : n \in B}
<1>3. T \in SUBSET Nat /\ T # {}
  BY <1>2
<1>4. PICK x \in T : \A y \in T : x <= y
  <2> HIDE DEF T
  <2> QED BY <1>3, LeastExists
<1>5. PICK n \in B : x = b - Len(n)
  BY <1>4
<1>6. ASSUME NEW m \in B PROVE Len(m) <= Len(n)
  <2>1. b - Len(n) <= b - Len(m)
    BY <1>4, <1>5
  <2> QED BY <1>2, <2>1
<1> QED BY <1>6

\* m is below the first side of n, on its left edge.
OnEdge(n, m) == IsUnder(First(n), m) /\ \A i \in (Len(n) + 1)..Len(m) : m[i] = 1

LEMMA EdgeDown ==
    ASSUME NEW n \in Path, NEW m \in Path, OnEdge(n, m)
    PROVE  OnEdge(n, First(m)) /\ Len(First(m)) = Len(m) + 1 /\ Len(m) \in Nat
<1>1. /\ First(m) \in Path /\ Len(First(m)) = Len(m) + 1 /\ Len(m) \in Nat
      /\ First(n) \in Path /\ Len(n) \in Nat
  BY PathAppend DEF First
<1>2. IsUnder(First(n), First(m))
  BY <1>1, UnderChild DEF OnEdge, First
<1>3. First(m)[Len(m) + 1] = 1 /\ \A i \in 1..Len(m) : First(m)[i] = m[i]
  BY AppendProperties DEF First, Path
<1>4. ASSUME NEW i \in (Len(n) + 1)..Len(First(m)) PROVE First(m)[i] = 1
  <2>1. i = Len(m) + 1 \/ (i \in 1..Len(m) /\ i \in (Len(n) + 1)..Len(m))
    BY <1>1
  <2> QED BY <1>3, <2>1 DEF OnEdge
<1> QED BY <1>1, <1>2, <1>4 DEF OnEdge

\* first_child_pane is the leaf at the end of that edge.
LEMMA LeftmostLeaf ==
    ASSUME NEW t, TabTree(t), NEW n \in Splits(t)
    PROVE  /\ first_child_pane(t, n) \in DOMAIN t /\ OnEdge(n, first_child_pane(t, n))
           /\ IsLeaf(t, first_child_pane(t, n))
<1>0. WellFormed(t) /\ DOMAIN t \subseteq Path /\ Bounded(t) /\ n \in Path
  BY DEF TabTree, GoodTree, IsTree, Splits
<1> DEFINE B == {m \in DOMAIN t : OnEdge(n, m)}
<1>1. First(n) \in B
  <2>1. First(n) \in DOMAIN t /\ First(n) \in Path
    BY <1>0 DEF WellFormed, Splits
  <2>2. IsUnder(First(n), First(n))
    BY <2>1, UnderShort
  <2>3. Len(First(n)) = Len(n) + 1 /\ First(n)[Len(n) + 1] = 1 /\ Len(n) \in Nat
    BY <1>0, AppendProperties DEF First, Path
  <2>4. \A i \in (Len(n) + 1)..Len(First(n)) : i = Len(n) + 1
    BY <2>3
  <2> QED BY <2>1, <2>2, <2>3, <2>4 DEF OnEdge
<1>2. PICK m \in B : \A k \in B : Len(k) <= Len(m)
  <2>1. B \in SUBSET DOMAIN t /\ B # {}
    BY <1>1
  <2> HIDE DEF B
  <2> QED BY <1>0, <2>1, LongestNode
<1>3. m \in DOMAIN t /\ OnEdge(n, m) /\ m \in Path
  BY <1>0
<1>4. IsLeaf(t, m)
  <2> SUFFICES ASSUME ~IsLeaf(t, m) PROVE FALSE
    OBVIOUS
  <2>1. First(m) \in DOMAIN t
    BY <1>0, <1>3 DEF WellFormed
  <2>2. OnEdge(n, First(m)) /\ Len(First(m)) = Len(m) + 1 /\ Len(m) \in Nat
    BY <1>0, <1>3, EdgeDown
  <2>3. Len(First(m)) <= Len(m)
    BY <1>2, <2>1, <2>2
  <2> QED BY <2>2, <2>3
<1>5. \E k \in DOMAIN t : /\ IsUnder(First(n), k) /\ IsLeaf(t, k)
                          /\ \A i \in (Len(n) + 1)..Len(k) : k[i] = 1
  BY <1>3, <1>4 DEF OnEdge
<1> QED BY <1>5 DEF first_child_pane, OnEdge

\* A split whose first side is a leaf, and that is not itself a first side:
\* its divider writes to it, and no other one does.
Apart(t, n) == IsLeaf(t, First(n)) /\ (n # Root => n[Len(n)] = 2)

LEMMA ApartWrites ==
    ASSUME NEW t, TabTree(t), NEW m \in Splits(t), Apart(t, m), NEW n \in Splits(t)
    PROVE  Parent(first_child_pane(t, n)) = m <=> n = m
<1> DEFINE f == first_child_pane(t, n)
<1>0. /\ WellFormed(t) /\ GoodTree(t) /\ DOMAIN t \subseteq Path
      /\ n \in Path /\ m \in Path /\ n \in DOMAIN t /\ m \in DOMAIN t
  BY DEF TabTree, GoodTree, IsTree, Splits
<1>1. f \in DOMAIN t /\ f \in Path /\ OnEdge(n, f) /\ IsLeaf(t, f)
  BY <1>0, LeftmostLeaf
<1> HIDE DEF f
<1>2. /\ First(n) \in Path /\ Parent(First(n)) = n /\ Len(First(n)) = Len(n) + 1
      /\ Len(n) \in Nat /\ Len(m) \in Nat
  BY <1>0, PathAppend DEF First
<1>3. ASSUME n = m PROVE Parent(f) = m
  <2>1. First(n) \in DOMAIN t /\ IsLeaf(t, First(n)) /\ IsUnder(First(n), f)
    BY <1>0, <1>1, <1>3 DEF WellFormed, Splits, Apart, OnEdge
  <2>2. f = First(n)
    BY <1>0, <1>1, <2>1, NothingUnderLeaf
  <2> QED BY <1>2, <1>3, <2>2
<1>4. ASSUME Parent(f) = m, n # m PROVE FALSE
  <2>1. Len(f) >= Len(n) + 1 /\ Len(f) \in Nat
    BY <1>1, <1>2 DEF OnEdge, IsUnder, Path
  <2>2. f # Root
    <3>1. Len(Root) = 0
      BY DEF Root
    <3> QED BY <1>2, <2>1, <3>1
  <2>3. PICK g \in Path, i \in {1, 2} : f = Append(g, i)
    BY <1>1, <2>2, PathCases
  <2>4. g = m /\ Len(f) = Len(m) + 1
    BY <1>4, <2>3, PathAppend
  <2>5. \A j \in 1..Len(m) : f[j] = m[j]
    BY <2>3, <2>4, AppendProperties DEF Path
  <2>6. CASE Len(f) = Len(n) + 1
    <3>1. f = First(n)
      BY <1>1, <1>2, <2>6, UnderShort DEF OnEdge
    <3> QED BY <1>2, <1>4, <3>1
  <2>7. CASE Len(f) # Len(n) + 1
    <3>1. Len(m) \in (Len(n) + 1)..Len(f) /\ Len(m) \in 1..Len(m) /\ Len(m) # 0
      BY <1>2, <2>1, <2>4, <2>7
    <3>2. m[Len(m)] = 1
      BY <1>1, <2>5, <3>1 DEF OnEdge
    <3>3. m # Root
      <4>1. Len(Root) = 0
        BY DEF Root
      <4> QED BY <3>1, <4>1
    <3> QED BY <3>2, <3>3 DEF Apart
  <2> QED BY <2>6, <2>7
<1> QED BY <1>3, <1>4 DEF f

\* sync_ratio changes ratios only; the divider of a split that is apart is
\* stored with it.
LEMMA SyncKeeps ==
    ASSUME NEW t, TabTree(t), NEW changed \in SUBSET Splits(t), NEW at,
           \A n \in changed : at[n] \in Ratios,
           NEW u, u = sync_ratio(t, changed, at)
    PROVE  /\ TabTree(u) /\ DOMAIN u = DOMAIN t /\ PanesOf(u) = PanesOf(t)
           /\ \A b \in DOMAIN t : u[b].kind = t[b].kind /\ u[b].pane = t[b].pane
           /\ \A b \in Splits(t) : Apart(t, b) =>
                  u[b].ratio = IF b \in changed THEN at[b] ELSE t[b].ratio
<1> DEFINE By(b) == {n \in changed : Parent(first_child_pane(t, n)) = b}
           Latest(b) == CHOOSE n \in By(b) : \A m \in By(b) : Len(m) <= Len(n)
<1>0. /\ WellFormed(t) /\ IsTree(t) /\ OnePane(t) /\ DOMAIN t \subseteq Path
      /\ Bounded(t) /\ Filled(t) /\ \A b \in DOMAIN t : t[b] \in NodeLabel
  BY DEF TabTree, GoodTree, IsTree
<1>1. /\ DOMAIN u = DOMAIN t /\ u = [b \in DOMAIN u |-> u[b]]
      /\ \A b \in DOMAIN t : u[b] = IF By(b) = {} THEN t[b] ELSE [t[b] EXCEPT !.ratio = at[Latest(b)]]
  BY DEF sync_ratio
<1>2. ASSUME NEW b \in DOMAIN t, By(b) # {} PROVE Latest(b) \in By(b)
  <2> DEFINE B == By(b)
  <2>1. B \in SUBSET DOMAIN t
    BY DEF Splits
  <2>2. \E n \in B : \A m \in B : Len(m) <= Len(n)
    <3> HIDE DEF B
    <3>1. B # {}
      BY <1>2 DEF B
    <3> QED BY <1>0, <2>1, <3>1, LongestNode
  <2> QED BY <2>2
<1>3. ASSUME NEW b \in Splits(t), Apart(t, b)
      PROVE  By(b) = IF b \in changed THEN {b} ELSE {}
  BY <1>3, ApartWrites
<1>4. ASSUME NEW b \in DOMAIN t
      PROVE  /\ u[b].kind = t[b].kind /\ u[b].pane = t[b].pane /\ u[b] \in NodeLabel
             /\ u[b].ratio = IF By(b) = {} THEN t[b].ratio ELSE at[Latest(b)]
  <2>1. CASE By(b) = {}
    BY <1>0, <1>1, <2>1
  <2>2. CASE By(b) # {}
    <3>1. at[Latest(b)] \in Ratios
      BY <1>2, <2>2
    <3> DEFINE r == at[Latest(b)]
    <3>2. u[b] = [t[b] EXCEPT !.ratio = r]
      BY <1>1, <2>2
    <3>3. r \in Ratios /\ t[b] \in NodeLabel
      BY <1>0, <3>1
    <3> HIDE DEF r
    <3>4. /\ u[b].kind = t[b].kind /\ u[b].pane = t[b].pane /\ u[b] \in NodeLabel
          /\ u[b].ratio = r
      BY <3>2, <3>3 DEF NodeLabel
    <3> QED BY <2>2, <3>4 DEF r
  <2> QED BY <2>1, <2>2
<1>5. ASSUME NEW b \in Splits(t), Apart(t, b)
      PROVE  u[b].ratio = IF b \in changed THEN at[b] ELSE t[b].ratio
  <2>1. b \in DOMAIN t
    BY DEF Splits
  <2>2. CASE b \in changed
    <3>1. By(b) = {b} /\ By(b) # {}
      BY <1>3, <1>5, <2>2
    <3>2. Latest(b) = b
      BY <1>2, <2>1, <3>1
    <3> QED BY <1>4, <2>1, <2>2, <3>1, <3>2
  <2>3. CASE b \notin changed
    BY <1>3, <1>4, <1>5, <2>1, <2>3
  <2> QED BY <2>2, <2>3
<1> HIDE DEF By, Latest
<1>6. IsTree(u)
  BY <1>0, <1>1, <1>4 DEF IsTree
<1>7. WellFormed(u)
  BY <1>0, <1>1, <1>4 DEF WellFormed, IsLeaf
<1>8. OnePane(u) /\ Bounded(u) /\ Filled(u) /\ PanesOf(u) = PanesOf(t)
  BY <1>0, <1>1, <1>4 DEF OnePane, Bounded, Deep, Filled, IsLeaf, PanesOf
<1> QED BY <1>1, <1>4, <1>5, <1>6, <1>7, <1>8 DEF TabTree, GoodTree

-----------------------------------------------------------------------------
(* TerminalTab: the invariant                                              *)

SameShape(t, s) ==
    /\ DOMAIN s = DOMAIN t
    /\ \A n \in DOMAIN t : s[n].kind = t[n].kind /\ s[n].pane = t[n].pane

\* The position of every placed divider that is apart is in the core.
Stored(t, s, at) == \A n \in DOMAIN at : at[n] # Unset /\ Apart(s, n) => t[n].ratio = at[n]

\* The widgets mirror the core's tree, each leaf has its pane, ...
Mirrors ==
    /\ TabTree(tree) /\ TabTree(shown) /\ SameShape(tree, shown)
    /\ pos \in [Splits(shown) -> Ratios \cup {Unset}] /\ Stored(tree, shown, pos)
    /\ PanesOf(tree) \subseteq panes \cap hooked /\ inWatcher = panes
    /\ panes \subseteq PaneId /\ hooked \subseteq PaneId /\ shells \in [panes -> {1, 2}]

\* ... and the other fields have their types.
Focused ==
    /\ focusPane \in PaneId \cup {None, Elsewhere} /\ focusHere \in BOOLEAN
    /\ open \in BOOLEAN /\ visible \in BOOLEAN /\ idle \in BOOLEAN
    /\ active \in PaneId \cup {None, Elsewhere} /\ rootPane \in PaneId \cup {None}

TabInv == Mirrors /\ Focused

LEMMA PanesAreIds ==
    ASSUME NEW t, TabTree(t)
    PROVE  PanesOf(t) \subseteq PaneId
BY DEF TabTree, GoodTree, WellFormed, Filled, PanesOf

LEMMA ShapeKeeps ==
    ASSUME NEW t, NEW s, SameShape(t, s)
    PROVE  /\ Splits(s) = Splits(t)
           /\ \A n \in DOMAIN t : First(n) \in DOMAIN t => (Apart(s, n) <=> Apart(t, n))
BY DEF SameShape, Splits, IsLeaf, Apart

LEMMA NothingPlaced ==
    ASSUME NEW t, NEW s
    PROVE  /\ Unplaced(t) \in [Splits(t) -> Ratios \cup {Unset}]
           /\ SameShape(t, t) /\ Stored(t, s, Unplaced(t))
BY DEF Unplaced, Splits, SameShape, Stored

LEMMA RebuildStep ==
    ASSUME Mirrors, NEW t, TabTree(t), NEW sh, NEW S \in SUBSET PaneId, sh \in [S -> {1, 2}],
           tree' = t, rebuild(t, sh, S)
    PROVE  Mirrors' /\ active' = None /\ idle' \in BOOLEAN
<1>1. /\ shown' = t /\ pos' = Unplaced(t) /\ idle' = TRUE /\ active' = None
      /\ panes' = S \cup PanesOf(t) /\ inWatcher' = panes' /\ hooked' = hooked \cup PanesOf(t)
  BY DEF rebuild
<1>2. PanesOf(t) \subseteq PaneId
  BY PanesAreIds
<1>3. shells' \in [panes' -> {1, 2}]
  BY DEF rebuild
<1> QED BY <1>1, <1>2, <1>3, NothingPlaced DEF Mirrors

LEMMA SyncStep ==
    ASSUME Mirrors, NEW changed \in SUBSET DOMAIN pos, pos' \in [DOMAIN pos -> Ratios \cup {Unset}],
           \A n \in changed : pos'[n] \in Ratios,
           \A n \in DOMAIN pos \ changed : pos'[n] = pos[n],
           tree' = sync_ratio(tree, changed, pos'),
           UNCHANGED <<panes, shells, hooked, inWatcher, shown>>
    PROVE  Mirrors'
<1>1. /\ TabTree(tree) /\ TabTree(shown) /\ SameShape(tree, shown) /\ WellFormed(tree)
      /\ DOMAIN pos = Splits(shown) /\ Splits(shown) = Splits(tree)
  BY ShapeKeeps DEF Mirrors, TabTree, GoodTree
<1>2. /\ TabTree(tree') /\ DOMAIN tree' = DOMAIN tree /\ PanesOf(tree') = PanesOf(tree)
      /\ \A b \in DOMAIN tree : tree'[b].kind = tree[b].kind /\ tree'[b].pane = tree[b].pane
      /\ \A b \in Splits(tree) : Apart(tree, b) =>
             tree'[b].ratio = IF b \in changed THEN pos'[b] ELSE tree[b].ratio
  BY <1>1, SyncKeeps
<1>3. SameShape(tree', shown')
  BY <1>1, <1>2 DEF SameShape
<1>4. ASSUME NEW n \in DOMAIN pos', pos'[n] # Unset, Apart(shown', n)
      PROVE  tree'[n].ratio = pos'[n]
  <2>1. n \in Splits(tree) /\ n \in DOMAIN tree /\ n \in DOMAIN pos /\ First(n) \in DOMAIN tree
    BY <1>1 DEF Splits, WellFormed
  <2>2. Apart(tree, n) /\ Apart(shown, n)
    BY <1>1, <1>4, <2>1, ShapeKeeps
  <2>3. CASE n \in changed
    BY <1>2, <2>1, <2>2, <2>3
  <2>4. CASE n \notin changed
    BY <1>2, <1>4, <2>1, <2>2, <2>4 DEF Mirrors, Stored
  <2> QED BY <2>3, <2>4
<1> QED BY <1>1, <1>2, <1>3, <1>4 DEF Mirrors, Stored

LEMMA LeastFree ==
    ASSUME NEW S \in SUBSET PaneId, S # {}
    PROVE  Min(S) \in S
<1>1. \E x \in S : \A y \in S : x <= y
  BY TabAssumption, LeastExists
<1> QED BY <1>1 DEF Min

\* What split() and close_focused_pane() do to the tree and to panes_.
LEMMA SplitStep ==
    ASSUME Mirrors, NEW k \in SplitKinds, NEW p \in PaneId, split(k, p)
    PROVE  /\ Mirrors' /\ active' = None /\ idle' \in BOOLEAN
           /\ \A q \in panes : shells'[q] = shells[q]
<1> DEFINE t == IF IsLeaf(tree, Root) THEN SplitAt(tree, Root, k, HalfRatio, p)
                ELSE IF focusPane \in PanesOf(tree)
                THEN SplitAt(tree, NodeOf(tree, focusPane), k, HalfRatio, p)
                ELSE tree
           S == panes \cup {p}
           sh == [q \in S |-> IF q = p THEN 2 ELSE shells[q]]
<1>1. tree' = t /\ rebuild(t, sh, S) /\ p \notin panes /\ p \notin hooked
  <2>1. PaneId \ (panes \cup hooked) # {} /\ p = Min(PaneId \ (panes \cup hooked))
    BY DEF split
  <2>2. p \in PaneId \ (panes \cup hooked)
    BY <2>1, LeastFree
  <2> QED BY <2>2 DEF split, Mirrors
<1>2. TabTree(tree) /\ GoodTree(tree) /\ Root \in DOMAIN tree /\ p \notin PanesOf(tree)
  BY <1>1 DEF Mirrors, TabTree, GoodTree, WellFormed
<1>3. TabTree(t)
  <2>1. CASE IsLeaf(tree, Root)
    BY <1>2, <2>1, SplitTabTree
  <2>2. CASE ~IsLeaf(tree, Root) /\ focusPane \in PanesOf(tree)
    <3>1. NodeOf(tree, focusPane) \in DOMAIN tree /\ IsLeaf(tree, NodeOf(tree, focusPane))
      BY <1>2, <2>2, NodeOfPane
    <3> QED BY <1>2, <2>2, <3>1, SplitTabTree
  <2>3. CASE ~IsLeaf(tree, Root) /\ focusPane \notin PanesOf(tree)
    BY <1>2, <2>3
  <2> QED BY <2>1, <2>2, <2>3
<1>4. S \in SUBSET PaneId /\ sh \in [S -> {1, 2}]
  BY DEF Mirrors
<1>5. \A q \in panes : shells'[q] = shells[q]
  BY <1>1 DEF rebuild
<1> HIDE DEF t, S, sh
<1> QED BY <1>1, <1>3, <1>4, <1>5, RebuildStep

LEMMA CloseStep ==
    ASSUME Mirrors, close_focused_pane
    PROVE  /\ Mirrors' /\ active' = None /\ idle' \in BOOLEAN
           /\ \A q \in panes \cap panes' : shells'[q] = shells[q]
<1> DEFINE S == panes \ {Target}
           sh == [q \in S |-> shells[q]]
<1>1. /\ ~IsLeaf(tree, Root) /\ Target \in PanesOf(tree) /\ tree' = RemoveLeaf(tree, Target)
      /\ rebuild(tree', sh, S)
  BY DEF close_focused_pane, Mirrors
<1>2. TabTree(tree) /\ Target \in PaneId
  BY <1>1, PanesAreIds DEF Mirrors
<1>3. TabTree(tree') /\ PanesOf(tree') \subseteq PanesOf(tree) \ {Target}
  BY <1>1, <1>2, RemoveTabTree
<1>4. S \in SUBSET PaneId /\ sh \in [S -> {1, 2}]
  BY DEF Mirrors
<1>5. \A q \in panes \cap panes' : shells'[q] = shells[q]
  <2>1. panes' = S \cup PanesOf(tree')
    BY <1>1 DEF rebuild
  <2>2. PanesOf(tree') \subseteq S
    BY <1>3 DEF Mirrors
  <2>3. shells' = [q \in panes' |-> IF q \in PanesOf(tree') \ S THEN 2 ELSE sh[q]]
    BY <1>1 DEF rebuild
  <2> QED BY <2>1, <2>2, <2>3
<1> HIDE DEF S, sh
<1> QED BY <1>1, <1>3, <1>4, <1>5, RebuildStep

LEMMA TabStep ==
    ASSUME TabInv, [TabNext]_tabVars
    PROVE  TabInv' /\ \A q \in panes \cap panes' : shells'[q] = shells[q]
<1> DEFINE Survive == \A q \in panes \cap panes' : shells'[q] = shells[q]
<1>0. Mirrors /\ Focused
  BY DEF TabInv
<1>m. ASSUME UNCHANGED <<tree, panes, shells, hooked, inWatcher, shown, pos>>
      PROVE  Mirrors' /\ Survive
  BY <1>0, <1>m DEF Mirrors
<1>1. ASSUME NEW p \in PaneId, Click(p) PROVE TabInv' /\ Survive
  BY <1>0, <1>1, <1>m DEF Click, TabInv, Focused
<1>2. ASSUME NEW k \in SplitKinds, NEW p \in PaneId, split(k, p) PROVE TabInv' /\ Survive
  <2>1. Mirrors' /\ active' = None /\ idle' \in BOOLEAN /\ Survive
    BY <1>0, <1>2, SplitStep
  <2>2. focusPane' = p /\ UNCHANGED <<focusHere, open, visible, rootPane>>
    BY <1>2 DEF split
  <2> QED BY <1>0, <2>1, <2>2 DEF TabInv, Focused
<1>3. CASE close_focused_pane
  <2>1. Mirrors' /\ active' = None /\ idle' \in BOOLEAN /\ Survive
    BY <1>0, <1>3, CloseStep
  <2>2. focusPane' \in {None, focusPane} /\ UNCHANGED <<focusHere, open, visible, rootPane>>
    BY <1>3 DEF close_focused_pane
  <2> QED BY <1>0, <2>1, <2>2 DEF TabInv, Focused
<1>4. CASE Destroy
  BY <1>0, <1>4, <1>m DEF Destroy, view, TabInv, Focused
<1>5. CASE walk_restore
  <2> DEFINE moved == {n \in DOMAIN pos : pos[n] \notin {Unset, shown[n].ratio}}
  <2>1. /\ pos' = [n \in DOMAIN pos |-> IF n \in moved THEN shown[n].ratio ELSE pos[n]]
        /\ tree' = sync_ratio(tree, moved, pos') /\ moved \in SUBSET DOMAIN pos
        /\ UNCHANGED <<panes, shells, hooked, inWatcher, shown>>
    BY <1>5 DEF walk_restore
  <2>2. \A n \in DOMAIN pos : shown[n].ratio \in Ratios
    BY <1>0 DEF Mirrors, Splits, TabTree, GoodTree, IsTree, NodeLabel
  <2>3. pos \in [DOMAIN pos -> Ratios \cup {Unset}]
    BY <1>0 DEF Mirrors
  <2> HIDE DEF moved
  <2>4. /\ pos' \in [DOMAIN pos -> Ratios \cup {Unset}]
        /\ \A n \in moved : pos'[n] \in Ratios
        /\ \A n \in DOMAIN pos \ moved : pos'[n] = pos[n]
    BY <2>1, <2>2, <2>3
  <2>5. Mirrors' /\ Survive
    BY <1>0, <2>1, <2>4, SyncStep
  <2> QED BY <1>0, <1>5, <2>5 DEF walk_restore, TabInv, Focused
<1>6. ASSUME NEW n \in DOMAIN pos, NEW r \in Ratios, Drag(n, r) PROVE TabInv' /\ Survive
  <2>1. /\ pos' = [pos EXCEPT ![n] = r] /\ tree' = sync_ratio(tree, {n}, pos')
        /\ UNCHANGED <<panes, shells, hooked, inWatcher, shown>>
    BY <1>6 DEF Drag
  <2>2. pos \in [DOMAIN pos -> Ratios \cup {Unset}]
    BY <1>0 DEF Mirrors
  <2>3. /\ pos' \in [DOMAIN pos -> Ratios \cup {Unset}]
        /\ \A m \in {n} : pos'[m] \in Ratios
        /\ \A m \in DOMAIN pos \ {n} : pos'[m] = pos[m]
    BY <2>1, <2>2
  <2>4. Mirrors' /\ Survive
    BY <1>0, <2>1, <2>3, SyncStep
  <2> QED BY <1>0, <1>6, <2>4 DEF Drag, TabInv, Focused
<1>7. ASSUME NEW at \in [{n \in DOMAIN pos : pos[n] = Unset} -> Ratios], Allocate(at)
      PROVE  TabInv' /\ Survive
  <2> DEFINE new == {n \in DOMAIN pos : pos[n] = Unset}
  <2>1. /\ pos' = [n \in DOMAIN pos |-> IF n \in new THEN at[n] ELSE pos[n]]
        /\ tree' = sync_ratio(tree, new, pos') /\ new \in SUBSET DOMAIN pos
        /\ UNCHANGED <<panes, shells, hooked, inWatcher, shown>>
    BY <1>7 DEF Allocate
  <2>2. pos \in [DOMAIN pos -> Ratios \cup {Unset}]
    BY <1>0 DEF Mirrors
  <2>3. at \in [new -> Ratios]
    OBVIOUS
  <2> HIDE DEF new
  <2>4. /\ pos' \in [DOMAIN pos -> Ratios \cup {Unset}]
        /\ \A n \in new : pos'[n] \in Ratios
        /\ \A n \in DOMAIN pos \ new : pos'[n] = pos[n]
    BY <2>1, <2>2, <2>3
  <2>5. Mirrors' /\ Survive
    BY <1>0, <2>1, <2>4, SyncStep
  <2> QED BY <1>0, <1>7, <2>5 DEF Allocate, TabInv, Focused
<1>8. CASE SwitchTab \/ OtherTabAdded
  BY <1>0, <1>8, <1>m DEF SwitchTab, OtherTabAdded, view, TabInv, Focused
<1>9. CASE OtherTabTakesFocus \/ OtherPaneClosed
  BY <1>0, <1>9, <1>m DEF OtherTabTakesFocus, OtherPaneClosed, view, TabInv, Focused
<1>10. CASE CaptureTab
  BY <1>0, <1>10, <1>m DEF CaptureTab, view, TabInv, Focused
<1>11. CASE UNCHANGED tabVars
  BY <1>0, <1>11, <1>m DEF tabVars, TabInv, Focused
<1> QED BY <1>1, <1>2, <1>3, <1>4, <1>5, <1>6, <1>7, <1>8, <1>9, <1>10, <1>11 DEF TabNext

LEMMA TabInitially == TabInit => TabInv
<1> SUFFICES ASSUME TabInit PROVE TabInv
  OBVIOUS
<1>1. ASSUME Fresh(Min(PaneId)) PROVE TabTree(tree) /\ panes = PanesOf(tree)
                                      /\ shells \in [panes -> {1, 2}] /\ Focused
  <2> DEFINE p == Min(PaneId)
  <2>1. p \in PaneId
    BY TabAssumption, LeastFree
  <2> HIDE DEF p
  <2>2. Fresh(p)
    BY <1>1 DEF p
  <2>3. TabTree(tree) /\ PanesOf(tree) = {p}
    BY <2>1, <2>2, LeafTabTree DEF Fresh
  <2> QED BY <2>1, <2>2, <2>3 DEF Fresh, Focused, TabInit
<1>2. ASSUME NEW t \in SavedTrees, restore_pane_tree(t)
      PROVE  TabTree(tree) /\ panes = PanesOf(tree) /\ shells \in [panes -> {1, 2}] /\ Focused
  <2>1. GoodTree(t) /\ IsFiniteSet(DOMAIN t) /\ Filled(t)
    BY TabAssumption DEF Filled
  <2>2. TabTree(t)
    BY <2>1, FiniteIsBounded DEF GoodTree, IsTree, TabTree
  <2>3. PanesOf(t) \subseteq PaneId
    BY <2>2, PanesAreIds
  <2> QED BY <1>2, <2>2, <2>3 DEF restore_pane_tree, Focused, TabInit
<1>3. TabTree(tree) /\ panes = PanesOf(tree) /\ shells \in [panes -> {1, 2}] /\ Focused
  BY <1>1, <1>2 DEF TabInit
<1>4. PanesOf(tree) \subseteq PaneId
  BY <1>3, PanesAreIds
<1> QED BY <1>3, <1>4, NothingPlaced DEF TabInit, TabInv, Mirrors

LEMMA TabInvariant == TabSpec => []TabInv
<1>1. TabInv /\ [TabNext]_tabVars => TabInv'
  BY TabStep
<1> QED BY <1>1, TabInitially, PTL DEF TabSpec

(* The view's panes, focus fields and divider positions keep their types,  *)
(* and both trees stay well formed, whatever is split, closed and dragged. *)
THEOREM TabTypes == TabSpec => []TabTypeOK
<1>1. TabInv => TabTypeOK
  BY PanesAreIds DEF TabInv, Mirrors, Focused, TabTree, GoodTree, TabTypeOK
<1> QED BY <1>1, TabInvariant, PTL

(* For trees of every shape: after any splits, closings, drags and late    *)
(* callbacks the Paned widgets have the shape of the core's tree and each  *)
(* leaf is a live pane, with its click handler and its history watched.    *)
THEOREM LayoutProjected == TabSpec => []LayoutShown
<1>1. TabInv => LayoutShown
  BY DEF TabInv, Mirrors, SameShape, LayoutShown
<1> QED BY <1>1, TabInvariant, PTL

(* A divider that is apart is in the core where the user sees it: of the   *)
(* dividers that change together no other one writes to its split.         *)
THEOREM DividersPersisted == TabSpec => []DividerStored
<1>1. TabInv => DividerStored
  BY DEF TabInv, Mirrors, Stored, Apart, DividerStored
<1> QED BY <1>1, TabInvariant, PTL

(* No split, close or rebuild starts a second process in a pane that       *)
(* stays: the pane removed from the tree is really out of it, so rebuild() *)
(* never creates it again.                                                 *)
THEOREM ShellsKept == TabSpec => ShellsSurvive
<1>1. TabInv /\ [TabNext]_tabVars => [\A p \in panes \cap panes' : shells'[p] = shells[p]]_tabVars
  BY TabStep
<1> QED BY <1>1, TabInvariant, PTL DEF TabSpec, ShellsSurvive

-----------------------------------------------------------------------------
(* The autosaver                                                           *)

(* What is in the core only, because a mutator ran or a capture copied it, *)
(* has set ws_dirty_: the capture of a widget marks dirty, and only a      *)
(* checkpoint that saves everything clears the flag.                       *)
UnsavedIsDirty == \A k \in Key : stage[k] = "core" => dirty

\* The structure never waits in a widget.
StructureInCore == stage[Structure] # "runtime"

AutosaveInv == AutosaveTypeOK /\ UnsavedIsDirty /\ StructureInCore /\ DirtyIsScheduled

-----------------------------------------------------------------------------
LEMMA KeyFacts == Structure \in Key /\ Pane \subseteq Key /\ Note \subseteq Key
BY DEF Key

LEMMA AutosaveInitially == AutosaveInit => AutosaveInv
<1> SUFFICES ASSUME AutosaveInit PROVE AutosaveInv
  OBVIOUS
<1>1. pending \in SUBSET Key /\ age \in [Key -> Nat] /\ stage \in [Key -> Stages]
  BY DEF AutosaveInit, Stages
<1>2. {dirty, running} \subseteq BOOLEAN /\ ~dirty
  BY DEF AutosaveInit
<1>3. badge \in {"none", "saved", "failed"} /\ edits \in Nat /\ failures \in Nat
  BY DEF AutosaveInit
<1>4. \A k \in Key : stage[k] = "saved"
  BY DEF AutosaveInit
<1>5. UnsavedIsDirty /\ StructureInCore
  BY <1>4, KeyFacts DEF UnsavedIsDirty, StructureInCore
<1> QED BY <1>1, <1>2, <1>3, <1>5 DEF AutosaveInv, AutosaveTypeOK, DirtyIsScheduled

\* What the provider leaves behind, whatever the checkpoint answers.
LEMMA ProviderFacts ==
    ASSUME AutosaveInv, NEW r \in Outcomes, Provider(r)
    PROVE  /\ stage' \in [Key -> Stages] /\ dirty' \in BOOLEAN /\ failures' \in Nat
           /\ UnsavedIsDirty' /\ StructureInCore'
           /\ failures' = 0 => r = "ok" /\ ~dirty'
<1> USE DEF AutosaveInv, AutosaveTypeOK
<1>1. CASE r = "ok"
  BY <1>1, KeyFacts DEF Provider, UnsavedIsDirty, StructureInCore, Stages
<1>2. CASE r # "ok"
  <2>1. stage' = Captured /\ failures' = failures + 1 /\ dirty' = (dirty \/ Pane \cup Note # {})
    BY <1>2 DEF Provider
  <2>2. stage' \in [Key -> Stages] /\ StructureInCore'
    BY <2>1, KeyFacts DEF Captured, StructureInCore, Stages
  <2>3. ASSUME NEW k \in Key, stage'[k] = "core" PROVE dirty'
    <3>1. CASE stage[k] = "runtime"
      BY <3>1, <2>1 DEF StructureInCore, Key
    <3>2. CASE stage[k] # "runtime"
      BY <3>2, <2>1, <2>3 DEF Captured, UnsavedIsDirty
    <3> QED BY <3>1, <3>2
  <2> QED BY <2>1, <2>2, <2>3 DEF UnsavedIsDirty
<1> QED BY <1>1, <1>2

LEMMA RenotedFacts ==
    AutosaveTypeOK => Renoted \subseteq Key /\ RenotedAge \in [Key -> Nat]
BY DEF AutosaveTypeOK, Renoted, RenotedAge, Key

LEMMA AutosaveStep == AutosaveInv /\ [AutosaveNext]_autosaveVars => AutosaveInv'
<1> SUFFICES ASSUME AutosaveInv, [AutosaveNext]_autosaveVars PROVE AutosaveInv'
  OBVIOUS
<1> USE KeyFacts
<1>0. AutosaveTypeOK /\ UnsavedIsDirty /\ StructureInCore /\ DirtyIsScheduled
  BY DEF AutosaveInv
<1>1. ASSUME NEW p \in Pane, note_terminal_activity(p) PROVE AutosaveInv'
  <2>1. p # Structure
    BY AutosaveAssumption
  <2> QED BY <1>0, <1>1, <2>1 DEF note_terminal_activity, Activity, Note_activity, AutosaveInv, AutosaveTypeOK,
             UnsavedIsDirty, StructureInCore, DirtyIsScheduled, Stages
<1>2. ASSUME NEW n \in Note, note_note_activity(n) PROVE AutosaveInv'
  <2>1. n # Structure
    BY AutosaveAssumption
  <2> QED BY <1>0, <1>2, <2>1 DEF note_note_activity, Activity, Note_activity, AutosaveInv, AutosaveTypeOK,
             UnsavedIsDirty, StructureInCore, DirtyIsScheduled, Stages
<1>3. CASE mark_dirty
  BY <1>0, <1>3 DEF mark_dirty, Activity, Note_activity, AutosaveInv, AutosaveTypeOK, UnsavedIsDirty,
     StructureInCore, DirtyIsScheduled, Stages
<1>4. CASE Advance
  <2>1. age' \in [Key -> Nat]
    BY <1>0, <1>4 DEF Advance, AutosaveTypeOK
  <2> QED BY <1>0, <1>4, <2>1 DEF Advance, AutosaveInv, AutosaveTypeOK, UnsavedIsDirty, StructureInCore,
             DirtyIsScheduled
<1>5. CASE flush_entries
  <2>1. age' \in [Key -> Nat] /\ pending' \in SUBSET Key /\ badge' \in {"none", "saved", "failed"}
    BY <1>0, <1>5 DEF flush_entries, AutosaveTypeOK, Shown
  <2> QED BY <1>0, <1>5, <2>1 DEF flush_entries, AutosaveInv, AutosaveTypeOK, UnsavedIsDirty, StructureInCore,
             DirtyIsScheduled
<1>6. ASSUME NEW r \in Outcomes, flush_workspace(r) PROVE AutosaveInv'
  <2>1. Provider(r) /\ UNCHANGED <<running, edits>>
    BY <1>6 DEF flush_workspace
  <2>2. age' \in [Key -> Nat] /\ pending' \in SUBSET Key /\ badge' \in {"none", "saved", "failed"}
    BY <1>0, <1>6, RenotedFacts DEF flush_workspace, AutosaveTypeOK, Shown
  <2> QED BY <1>0, <2>1, <2>2, ProviderFacts DEF AutosaveInv, AutosaveTypeOK, DirtyIsScheduled
<1>7. ASSUME NEW r \in Outcomes, flush_now(r) PROVE AutosaveInv'
  <2>1. Provider(r) /\ UNCHANGED <<badge, running, edits>>
    BY <1>7 DEF flush_now
  <2>2. age' \in [Key -> Nat] /\ pending' \in SUBSET Key
    BY <1>0, <1>7, RenotedFacts DEF flush_now
  <2> QED BY <1>0, <2>1, <2>2, ProviderFacts DEF AutosaveInv, AutosaveTypeOK, DirtyIsScheduled
<1>8. ASSUME NEW r \in Outcomes, checkpoint_recovery(r) PROVE AutosaveInv'
  <2>1. Provider(r) /\ running' = FALSE /\ UNCHANGED <<badge, edits>>
    BY <1>8 DEF checkpoint_recovery
  <2>2. age' \in [Key -> Nat] /\ pending' \in SUBSET Key
    BY <1>8 DEF checkpoint_recovery
  <2> QED BY <1>0, <2>1, <2>2, ProviderFacts DEF AutosaveInv, AutosaveTypeOK, DirtyIsScheduled
<1>9. CASE UNCHANGED autosaveVars
  BY <1>0, <1>9 DEF autosaveVars, AutosaveInv, AutosaveTypeOK, UnsavedIsDirty, StructureInCore, DirtyIsScheduled
<1> QED BY <1>1, <1>2, <1>3, <1>4, <1>5, <1>6, <1>7, <1>8, <1>9 DEF AutosaveNext, on_autosave_tick, Finished

LEMMA AutosaveInvariant == AutosaveSpec => []AutosaveInv
BY AutosaveInitially, AutosaveStep, PTL DEF AutosaveSpec

-----------------------------------------------------------------------------
(* The autosaver's table, ages and save stages keep their types. *)
THEOREM AutosaveTypes == AutosaveSpec => []AutosaveTypeOK
<1>1. AutosaveInv => AutosaveTypeOK
  BY DEF AutosaveInv
<1> QED BY AutosaveInvariant, <1>1, PTL

(* A dirty workspace has its entry in pending_ until a checkpoint fails:   *)
(* neither a flush, which erases what is due after the provider has noted  *)
(* it again, nor flush_now, which clears the table, drops a later change.  *)
THEOREM Scheduled == AutosaveSpec => []DirtyIsScheduled
<1>1. AutosaveInv => DirtyIsScheduled
  BY DEF AutosaveInv
<1> QED BY AutosaveInvariant, <1>1, PTL

(* No content waits in the core with ws_dirty_ clear, failed and thrown    *)
(* checkpoints included, so the next save does not skip it.                *)
THEOREM NothingForgotten == AutosaveSpec => []UnsavedIsDirty
<1>1. AutosaveInv => UnsavedIsDirty
  BY DEF AutosaveInv
<1> QED BY AutosaveInvariant, <1>1, PTL

-----------------------------------------------------------------------------
(* MainWindow: the views made for a window against the window's tabs       *)

Mine(s, h, w) == Only(s, {t \in TabId : h[t] = w})
MirrorAt(c, s, h, w) ==
    ToSet(Mine(s, h, w)) \subseteq ToSet(c) /\ Mine(s, h, w) = Only(c, ToSet(Mine(s, h, w)))
Homes == [TabId -> WindowId \cup {Nothing}]

\* A window none of the views was made for.
LEMMA NoneMine ==
    ASSUME NEW c \in Seq(TabId), NEW s \in Seq(TabId), NEW h \in Homes, NEW w,
           \A t \in ToSet(s) : h[t] # w
    PROVE  MirrorAt(c, s, h, w)
<1> DEFINE H == {t \in TabId : h[t] = w}
<1>1. Only(s, H) = <<>>
  <2>1. ToSet(s) \cap H = {}
    OBVIOUS
  <2> HIDE DEF H
  <2> QED BY <2>1, OnlyAll
<1>2. ToSet(<<>>) = {}
  BY DEF ToSet
<1>3. Only(c, {}) = <<>>
  BY OnlyAll
<1> QED BY <1>1, <1>2, <1>3 DEF MirrorAt, Mine

LEMMA MineFacts ==
    ASSUME NEW s \in Seq(TabId), NEW h, NEW w
    PROVE  /\ Mine(s, h, w) \in Seq(TabId)
           /\ ToSet(Mine(s, h, w)) = {t \in ToSet(s) : t \in TabId /\ h[t] = w}
<1> DEFINE H == {t \in TabId : h[t] = w}
<1>1. Only(s, H) \in Seq(TabId) /\ ToSet(Only(s, H)) = ToSet(s) \cap H
  <2> HIDE DEF H
  <2> QED BY OnlySet
<1> QED BY <1>1 DEF Mine

\* A new tab at the end of its window and of the views.
LEMMA MirrorAttach ==
    ASSUME NEW c \in Seq(TabId), NEW s \in Seq(TabId), NEW h \in Homes, NEW w \in WindowId,
           MirrorAt(c, s, h, w), NEW t \in TabId, t \notin ToSet(c), t \notin ToSet(s)
    PROVE  MirrorAt(Append(c, t), Append(s, t), [h EXCEPT ![t] = w], w)
<1> DEFINE g == [h EXCEPT ![t] = w]
           H == {u \in TabId : h[u] = w}
           G == {u \in TabId : g[u] = w}
           m == Mine(s, h, w)
           r == Append(m, t)
<1>1. m \in Seq(TabId) /\ ToSet(m) \subseteq ToSet(c) /\ m = Only(c, ToSet(m))
  BY MineFacts DEF MirrorAt
<1>2. Mine(Append(s, t), g, w) = r
  <2>1. t \in G /\ ToSet(s) \cap G = ToSet(s) \cap H
    BY DEF Homes
  <2> HIDE DEF G, H
  <2>2. Only(Append(s, t), G) = Append(Only(s, G), t)
    BY <2>1, OnlyAppend
  <2>3. Only(s, G) = Only(s, H)
    BY <2>1, OnlyMembers
  <2> QED BY <2>2, <2>3 DEF Mine, G, H
<1> HIDE DEF m, g
<1>3. ToSet(r) = ToSet(m) \cup {t} /\ ToSet(Append(c, t)) = ToSet(c) \cup {t}
  BY <1>1, AppendSet
<1>4. Only(Append(c, t), ToSet(r)) = r
  <2> DEFINE R == ToSet(r)
             M == ToSet(m)
  <2>1. t \in R /\ ToSet(c) \cap R = ToSet(c) \cap M
    BY <1>3
  <2> HIDE DEF R, M, r
  <2>2. Only(Append(c, t), R) = Append(Only(c, R), t)
    BY <2>1, OnlyAppend
  <2>3. Only(c, R) = Only(c, M)
    BY <2>1, OnlyMembers
  <2> QED BY <1>1, <2>2, <2>3 DEF M, R, r
<1> QED BY <1>1, <1>2, <1>3, <1>4 DEF MirrorAt, g

LEMMA MirrorAttachElsewhere ==
    ASSUME NEW c \in Seq(TabId), NEW s \in Seq(TabId), NEW h \in Homes, NEW w \in WindowId,
           MirrorAt(c, s, h, w), NEW t \in TabId, t \notin ToSet(s), NEW v, v # w
    PROVE  MirrorAt(c, Append(s, t), [h EXCEPT ![t] = v], w)
<1> DEFINE g == [h EXCEPT ![t] = v]
           H == {u \in TabId : h[u] = w}
           G == {u \in TabId : g[u] = w}
<1>1. Mine(Append(s, t), g, w) = Mine(s, h, w)
  <2>1. t \notin G /\ ToSet(s) \cap G = ToSet(s) \cap H
    BY DEF Homes
  <2> HIDE DEF G, H
  <2>2. Only(Append(s, t), G) = Only(s, G)
    BY <2>1, OnlyAppend
  <2>3. Only(s, G) = Only(s, H)
    BY <2>1, OnlyMembers
  <2> QED BY <2>2, <2>3 DEF Mine, G, H
<1> QED BY <1>1 DEF MirrorAt

\* A closed tab leaves the views and its window.
LEMMA MineClosed ==
    ASSUME NEW s \in Seq(TabId), NEW h \in Homes, NEW w \in WindowId, NEW t \in TabId
    PROVE  Mine(Only(s, TabId \ {t}), [h EXCEPT ![t] = Nothing], w)
               = Only(Mine(s, h, w), TabId \ {t})
<1> DEFINE g == [h EXCEPT ![t] = Nothing]
           H == {u \in TabId : h[u] = w}
           G == {u \in TabId : g[u] = w}
           K == TabId \ {t}
<1>1. K \cap G = H \cap K
  BY WindowAssumption DEF Homes
<1> HIDE DEF G, H, K
<1>2. Only(Only(s, K), G) = Only(s, K \cap G) /\ Only(Only(s, H), K) = Only(s, H \cap K)
  BY OnlyTwice
<1> QED BY <1>1, <1>2 DEF Mine, G, H, K

LEMMA MirrorClose ==
    ASSUME NEW c \in Seq(TabId), NEW s \in Seq(TabId), NEW h \in Homes, NEW w \in WindowId,
           MirrorAt(c, s, h, w), NEW t \in TabId
    PROVE  MirrorAt(Only(c, TabId \ {t}), Only(s, TabId \ {t}), [h EXCEPT ![t] = Nothing], w)
<1> DEFINE K == TabId \ {t}
           m == Mine(s, h, w)
           M == ToSet(m)
           n == Mine(Only(s, K), [h EXCEPT ![t] = Nothing], w)
<1>1. m \in Seq(TabId) /\ M \subseteq ToSet(c) /\ m = Only(c, M)
  BY MineFacts DEF MirrorAt
<1>2. n = Only(m, K)
  BY MineClosed
<1> HIDE DEF K, n, m
<1>3. ToSet(n) = M \cap K /\ ToSet(Only(c, K)) = ToSet(c) \cap K
  BY <1>1, <1>2, OnlySet
<1> HIDE DEF M
<1>4. Only(Only(c, M), K) = Only(c, M \cap K)
  BY OnlyTwice
<1>5. Only(Only(c, K), M \cap K) = Only(c, K \cap (M \cap K))
  BY OnlyTwice
<1>6. K \cap (M \cap K) = M \cap K
  OBVIOUS
<1>7. n = Only(Only(c, K), ToSet(n))
  BY <1>1, <1>2, <1>3, <1>4, <1>5, <1>6
<1> QED BY <1>1, <1>3, <1>7 DEF MirrorAt, n, K

LEMMA MirrorCloseElsewhere ==
    ASSUME NEW c \in Seq(TabId), NEW s \in Seq(TabId), NEW h \in Homes, NEW w \in WindowId,
           MirrorAt(c, s, h, w), NEW t \in TabId, h[t] # w
    PROVE  MirrorAt(c, Only(s, TabId \ {t}), [h EXCEPT ![t] = Nothing], w)
<1> DEFINE K == TabId \ {t}
           m == Mine(s, h, w)
<1>1. m \in Seq(TabId) /\ ToSet(m) \subseteq K
  BY MineFacts
<1>2. Mine(Only(s, K), [h EXCEPT ![t] = Nothing], w) = Only(m, K)
  BY MineClosed
<1> HIDE DEF K, m
<1>3. Only(m, K) = m
  BY <1>1, OnlyAll
<1> QED BY <1>2, <1>3 DEF MirrorAt, K, m

\* All tabs of a window restored.
LEMMA MirrorWhole ==
    ASSUME NEW c \in Seq(TabId), NEW h \in Homes, NEW w, \A t \in ToSet(c) : h[t] = w
    PROVE  MirrorAt(c, c, h, w)
<1> DEFINE H == {t \in TabId : h[t] = w}
<1>1. ToSet(c) \subseteq H
  <2>1. ToSet(c) \subseteq TabId
    BY DEF ToSet
  <2> QED BY <2>1
<1> HIDE DEF H
<1>2. Only(c, H) = c
  BY <1>1, OnlyAll
<1>3. Only(c, ToSet(c)) = c
  BY OnlyAll
<1> QED BY <1>2, <1>3 DEF MirrorAt, Mine, H

-----------------------------------------------------------------------------
(* MainWindow: the core's workspace                                        *)

CoreType ==
    [windows : Seq(WindowId), tabs : [WindowId -> Seq(TabId)],
     focusTab : [WindowId -> TabId \cup {Nothing}], focus : WindowId \cup {Nothing}]
CoreOK(s) == s \in CoreType /\ \A w \in WindowId : Distinct(s.tabs[w])

LEMMA EmptySet == ToSet(<<>>) = {} /\ Distinct(<<>>) /\ <<>> \in Seq(TabId)
BY DEF ToSet, Distinct

LEMMA CoreWindows ==
    ASSUME NEW s \in CoreType
    PROVE  /\ ToSet(s.windows) \subseteq WindowId
           /\ \A w \in WindowId : s.tabs[w] \in Seq(TabId) /\ ToSet(s.tabs[w]) \subseteq TabId
<1>1. s.windows \in Seq(WindowId) /\ s.tabs \in [WindowId -> Seq(TabId)]
  BY DEF CoreType
<1>2. ASSUME NEW S, NEW r \in Seq(S) PROVE ToSet(r) \subseteq S
  BY DEF ToSet
<1> QED BY <1>1, <1>2

LEMMA AddWindowFacts ==
    ASSUME NEW s, CoreOK(s), NEW w \in WindowId, NEW r, r = add_window(s, w)
    PROVE  /\ CoreOK(r) /\ ToSet(r.windows) = ToSet(s.windows) \cup {w} /\ r.focus = w
           /\ r.windows # <<>>
           /\ r.tabs[w] = <<>> /\ \A v \in WindowId \ {w} : r.tabs[v] = s.tabs[v]
<1>1. s \in CoreType /\ s.windows \in Seq(WindowId)
  BY DEF CoreOK, CoreType
<1>2. /\ r.windows = Append(s.windows, w) /\ r.tabs = [s.tabs EXCEPT ![w] = <<>>]
      /\ r.focus = w /\ r \in CoreType
  <2>0. s \in CoreType
    BY <1>1
  <2>1. /\ s.windows \in Seq(WindowId) /\ s.tabs \in [WindowId -> Seq(TabId)]
        /\ s.focusTab \in [WindowId -> TabId \cup {Nothing}]
    BY <2>0 DEF CoreType
  <2> DEFINE a == Append(s.windows, w)
             b == [s.tabs EXCEPT ![w] = <<>>]
             c == [s.focusTab EXCEPT ![w] = Nothing]
  <2>2. a \in Seq(WindowId) /\ b \in [WindowId -> Seq(TabId)] /\ c \in [WindowId -> TabId \cup {Nothing}]
    BY <2>1
  <2>3. r = [windows |-> a, tabs |-> b, focusTab |-> c, focus |-> w]
    BY <2>0 DEF add_window, CoreType
  <2> HIDE DEF a, b, c
  <2>4. r \in CoreType
    BY <2>2, <2>3 DEF CoreType
  <2> QED BY <2>3, <2>4 DEF a, b
<1>3. \A v \in WindowId : r.tabs[v] = IF v = w THEN <<>> ELSE s.tabs[v]
  BY <1>1, <1>2 DEF CoreType
<1>4. ToSet(r.windows) = ToSet(s.windows) \cup {w}
  BY <1>1, <1>2, AppendSet
<1>5. r.windows # <<>>
  BY <1>1, <1>2
<1>6. \A v \in WindowId : Distinct(r.tabs[v])
  BY <1>3, EmptySet DEF CoreOK
<1> QED BY <1>2, <1>3, <1>4, <1>5, <1>6 DEF CoreOK

LEMMA AddTabFacts ==
    ASSUME NEW s, CoreOK(s), NEW w \in WindowId, NEW t \in TabId, t \notin ToSet(s.tabs[w]),
           NEW r, r = add_tab(s, w, t)
    PROVE  /\ CoreOK(r) /\ r.windows = s.windows /\ r.focus = s.focus
           /\ r.tabs[w] = Append(s.tabs[w], t)
           /\ \A v \in WindowId \ {w} : r.tabs[v] = s.tabs[v]
<1>1. s \in CoreType /\ s.tabs[w] \in Seq(TabId)
  BY DEF CoreOK, CoreType
<1>2. /\ r.windows = s.windows /\ r.tabs = [s.tabs EXCEPT ![w] = Append(@, t)]
      /\ r.focus = s.focus /\ r \in CoreType
  <2>0. s \in CoreType
    BY <1>1
  <2>1. /\ s.windows \in Seq(WindowId) /\ s.tabs \in [WindowId -> Seq(TabId)]
        /\ s.focusTab \in [WindowId -> TabId \cup {Nothing}] /\ s.focus \in WindowId \cup {Nothing}
    BY <2>0 DEF CoreType
  <2> DEFINE b == [s.tabs EXCEPT ![w] = Append(@, t)]
             c == [s.focusTab EXCEPT ![w] = t]
  <2>2. b \in [WindowId -> Seq(TabId)] /\ c \in [WindowId -> TabId \cup {Nothing}]
    BY <2>1
  <2>3. r = [windows |-> s.windows, tabs |-> b, focusTab |-> c, focus |-> s.focus]
    BY <2>0 DEF add_tab, CoreType
  <2> HIDE DEF b, c
  <2>4. r \in CoreType
    BY <2>1, <2>2, <2>3 DEF CoreType
  <2> QED BY <2>3, <2>4 DEF b
<1>3. \A v \in WindowId : r.tabs[v] = IF v = w THEN Append(s.tabs[w], t) ELSE s.tabs[v]
  BY <1>1, <1>2 DEF CoreType
<1>4. Distinct(Append(s.tabs[w], t))
  BY <1>1, DistinctAppend DEF CoreOK
<1>5. \A v \in WindowId : Distinct(r.tabs[v])
  BY <1>3, <1>4 DEF CoreOK
<1> QED BY <1>2, <1>3, <1>5 DEF CoreOK

TabRemoved(s, w, t, r) ==
    /\ r.windows = s.windows /\ r.tabs[w] = Only(s.tabs[w], TabId \ {t})
    /\ \A v \in WindowId \ {w} : r.tabs[v] = s.tabs[v]

LEMMA RemoveTabFacts ==
    ASSUME NEW s, CoreOK(s), NEW w \in ToSet(s.windows), NEW t \in TabId,
           NEW r, r = remove_tab(s, w, t)
    PROVE  CoreOK(r) /\ TabRemoved(s, w, t, r)
<1> DEFINE K == TabId \ {t}
           c == s.tabs[w]
<1>1. s \in CoreType /\ w \in WindowId /\ c \in Seq(TabId) /\ Distinct(c)
  BY CoreWindows DEF CoreOK
<1>2. Only(c, K) \in Seq(TabId) /\ Distinct(Only(c, K))
  <2> HIDE DEF K, c
  <2> QED BY <1>1, OnlySet, OnlyDistinct
<1>3. /\ r.windows = s.windows /\ r.tabs = [s.tabs EXCEPT ![w] = Only(c, K)]
      /\ r \in CoreType
  BY <1>1, <1>2 DEF remove_tab, CoreType
<1>4. \A v \in WindowId : r.tabs[v] = IF v = w THEN Only(c, K) ELSE s.tabs[v]
  BY <1>1, <1>3 DEF CoreType
<1>5. \A v \in WindowId : Distinct(r.tabs[v])
  BY <1>2, <1>4 DEF CoreOK
<1> QED BY <1>1, <1>3, <1>4, <1>5 DEF CoreOK, TabRemoved

LEMMA RemoveWindowFacts ==
    ASSUME NEW s, CoreOK(s), NEW w \in WindowId, NEW r, r = remove_window(s, w)
    PROVE  /\ CoreOK(r) /\ ToSet(r.windows) = ToSet(s.windows) \ {w}
           /\ \A v \in WindowId \ {w} : r.tabs[v] = s.tabs[v]
<1> DEFINE K == WindowId \ {w}
           c == s.windows
<1>1. s \in CoreType /\ c \in Seq(WindowId) /\ ToSet(c) \subseteq WindowId
  BY CoreWindows DEF CoreOK, CoreType
<1>2. Only(c, K) \in Seq(WindowId) /\ ToSet(Only(c, K)) = ToSet(c) \cap K
  <2> HIDE DEF K, c
  <2> QED BY <1>1, OnlySet
<1>3. /\ r.windows = Only(c, K) /\ r.tabs = [s.tabs EXCEPT ![w] = <<>>]
      /\ r \in CoreType
  <2>0. s \in CoreType
    BY <1>1
  <2>1. /\ s.windows \in Seq(WindowId) /\ s.tabs \in [WindowId -> Seq(TabId)]
        /\ s.focusTab \in [WindowId -> TabId \cup {Nothing}] /\ s.focus \in WindowId \cup {Nothing}
    BY <2>0 DEF CoreType
  <2> DEFINE a == Only(c, K)
             b == [s.tabs EXCEPT ![w] = <<>>]
             f == [s.focusTab EXCEPT ![w] = Nothing]
             d == IF s.focus = w THEN Nothing ELSE s.focus
  <2>2. a \in Seq(WindowId) /\ b \in [WindowId -> Seq(TabId)] /\ f \in [WindowId -> TabId \cup {Nothing}]
          /\ d \in WindowId \cup {Nothing}
    BY <1>2, <2>1
  <2>3. r = [windows |-> a, tabs |-> b, focusTab |-> f, focus |-> d]
    BY <2>0 DEF remove_window, CoreType
  <2> HIDE DEF a, b, f, d
  <2>4. r \in CoreType
    BY <2>2, <2>3 DEF CoreType
  <2> QED BY <2>3, <2>4 DEF a, b
<1>4. \A v \in WindowId : r.tabs[v] = IF v = w THEN <<>> ELSE s.tabs[v]
  BY <1>1, <1>3 DEF CoreType
<1>5. \A v \in WindowId : Distinct(r.tabs[v])
  BY <1>4, EmptySet DEF CoreOK
<1> QED BY <1>1, <1>2, <1>3, <1>4, <1>5 DEF CoreOK

\* Windows without views stay so when a window is added: its id is new.
Mirror(s, vs, h) == \A w \in ToSet(s.windows) : MirrorAt(s.tabs[w], vs, h, w)

LEMMA MirrorAddWindow ==
    ASSUME NEW s, CoreOK(s), NEW vs \in Seq(TabId), NEW h \in Homes, Mirror(s, vs, h),
           NEW w \in WindowId, \A t \in ToSet(vs) : h[t] # w
    PROVE  Mirror(add_window(s, w), vs, h)
<1> DEFINE r == add_window(s, w)
<1>1. /\ CoreOK(r) /\ ToSet(r.windows) = ToSet(s.windows) \cup {w}
      /\ r.tabs[w] = <<>> /\ \A v \in WindowId \ {w} : r.tabs[v] = s.tabs[v]
  BY AddWindowFacts
<1>2. ToSet(s.windows) \subseteq WindowId
  BY CoreWindows DEF CoreOK
<1> HIDE DEF r
<1>3. MirrorAt(r.tabs[w], vs, h, w)
  BY <1>1, EmptySet, NoneMine
<1>4. ASSUME NEW v \in ToSet(r.windows), v # w PROVE MirrorAt(r.tabs[v], vs, h, v)
  BY <1>1, <1>2, <1>4 DEF Mirror
<1> QED BY <1>3, <1>4 DEF Mirror, r

\* A new tab with its view.
LEMMA MirrorAddTab ==
    ASSUME NEW s, CoreOK(s), NEW vs \in Seq(TabId), NEW h \in Homes, Mirror(s, vs, h),
           NEW w \in ToSet(s.windows), NEW t \in TabId, t \notin ToSet(s.tabs[w]),
           t \notin ToSet(vs)
    PROVE  Mirror(add_tab(s, w, t), Append(vs, t), [h EXCEPT ![t] = w])
<1> DEFINE r == add_tab(s, w, t)
<1>1. ToSet(s.windows) \subseteq WindowId /\ \A v \in WindowId : s.tabs[v] \in Seq(TabId)
  BY CoreWindows DEF CoreOK
<1>2. /\ CoreOK(r) /\ r.windows = s.windows /\ r.tabs[w] = Append(s.tabs[w], t)
      /\ \A v \in WindowId \ {w} : r.tabs[v] = s.tabs[v]
  BY <1>1, AddTabFacts
<1> HIDE DEF r
<1>3. MirrorAt(r.tabs[w], Append(vs, t), [h EXCEPT ![t] = w], w)
  <2>1. MirrorAt(s.tabs[w], vs, h, w)
    BY DEF Mirror
  <2>2. MirrorAt(Append(s.tabs[w], t), Append(vs, t), [h EXCEPT ![t] = w], w)
    BY <1>1, <2>1, MirrorAttach
  <2> QED BY <1>2, <2>2
<1>4. ASSUME NEW v \in ToSet(r.windows), v # w
      PROVE  MirrorAt(r.tabs[v], Append(vs, t), [h EXCEPT ![t] = w], v)
  <2>1. v \in WindowId /\ s.tabs[v] \in Seq(TabId) /\ MirrorAt(s.tabs[v], vs, h, v)
    BY <1>1, <1>2 DEF Mirror
  <2>2. MirrorAt(s.tabs[v], Append(vs, t), [h EXCEPT ![t] = w], v)
    BY <1>4, <2>1, MirrorAttachElsewhere
  <2> QED BY <1>2, <1>4, <2>1, <2>2
<1> QED BY <1>3, <1>4 DEF Mirror, r

LEMMA MirrorRemoveTab ==
    ASSUME NEW s, CoreOK(s), NEW vs \in Seq(TabId), NEW h \in Homes, Mirror(s, vs, h),
           NEW t \in TabId, NEW r, r = remove_tab(s, h[t], t)
    PROVE  CoreOK(r) /\ Mirror(r, Only(vs, TabId \ {t}), [h EXCEPT ![t] = Nothing])
<1> DEFINE g == [h EXCEPT ![t] = Nothing]
           us == Only(vs, TabId \ {t})
<1>1. ToSet(s.windows) \subseteq WindowId /\ \A v \in WindowId : s.tabs[v] \in Seq(TabId)
  BY CoreWindows DEF CoreOK
<1>2. /\ CoreOK(r) /\ r.windows = s.windows
      /\ \A v \in ToSet(s.windows) \ {h[t]} : r.tabs[v] = s.tabs[v]
      /\ h[t] \in ToSet(s.windows) => r.tabs[h[t]] = Only(s.tabs[h[t]], TabId \ {t})
  <2>1. CASE h[t] \in ToSet(s.windows)
    <3> DEFINE x == h[t]
    <3>1. x \in ToSet(s.windows) /\ r = remove_tab(s, x, t)
      BY <2>1
    <3> HIDE DEF x
    <3>2. CoreOK(r) /\ TabRemoved(s, x, t, r)
      BY <3>1, RemoveTabFacts
    <3> QED BY <1>1, <3>2 DEF x, TabRemoved
  <2>2. CASE h[t] \notin ToSet(s.windows)
    BY <2>2 DEF remove_tab
  <2> QED BY <2>1, <2>2
<1>3. ASSUME NEW v \in ToSet(r.windows) PROVE MirrorAt(r.tabs[v], us, g, v)
  <2>1. v \in WindowId /\ s.tabs[v] \in Seq(TabId) /\ MirrorAt(s.tabs[v], vs, h, v)
    BY <1>1, <1>2, <1>3 DEF Mirror
  <2>2. CASE h[t] = v
    <3>1. MirrorAt(Only(s.tabs[v], TabId \ {t}), us, g, v)
      BY <2>1, MirrorClose
    <3> QED BY <1>2, <2>2, <3>1, <1>3
  <2>3. CASE h[t] # v
    <3>1. MirrorAt(s.tabs[v], us, g, v)
      BY <2>1, <2>3, MirrorCloseElsewhere
    <3> QED BY <1>2, <2>3, <3>1, <1>3
  <2> QED BY <2>2, <2>3
<1> QED BY <1>2, <1>3 DEF Mirror

-----------------------------------------------------------------------------
(* MainWindow: the stack, the row of tabs and the active index             *)

Strip(s, ki, ba, te, no) ==
    /\ s \in Seq(TabId) /\ Distinct(s) /\ ki = Named(s) /\ ba = s
    /\ te = Only(s, TermTabs) /\ no = Only(s, NoteTabs)
OnScreen(s, a, t) ==
    IF s = <<>> THEN a = -1 /\ t = Nothing
    ELSE a \in Nat /\ a + 1 \in DOMAIN s /\ t = s[a + 1] /\ t \in TabId

LEMMA NamedAppend ==
    ASSUME NEW s \in Seq(TabId), NEW t \in TabId
    PROVE  Append(Named(s), [name |-> Len(s), view |-> t]) = Named(Append(s, t))
<1> DEFINE n == Len(s)
           x == [name |-> n, view |-> t]
           k == Named(s)
           r == Append(s, t)
<1>1. n \in Nat /\ Len(r) = n + 1 /\ r[n + 1] = t /\ \A i \in 1..n : r[i] = s[i]
  OBVIOUS
<1>2. Len(k) = n /\ \A i \in 1..n : k[i] = [name |-> i - 1, view |-> s[i]]
  BY <1>1 DEF Named
<1>3. Append(k, x) = [i \in 1..(n + 1) |-> IF i = n + 1 THEN x ELSE k[i]]
  <2>1. k \in Seq({k[i] : i \in 1..n} \cup {x})
    BY <1>1 DEF Named
  <2> DEFINE S == {k[i] : i \in 1..n} \cup {x}
             a == Append(k, x)
  <2>2. k \in Seq(S) /\ x \in S
    BY <2>1
  <2> HIDE DEF x, k, S
  <2>3. /\ a \in Seq(S) /\ Len(a) = Len(k) + 1 /\ a[Len(k) + 1] = x
        /\ \A i \in 1..Len(k) : a[i] = k[i]
    BY <2>2
  <2> HIDE DEF a
  <2>4. a = [i \in 1..Len(a) |-> a[i]]
    BY <2>3
  <2>5. \A i \in 1..(n + 1) : a[i] = IF i = n + 1 THEN x ELSE k[i]
    <3> SUFFICES ASSUME NEW i \in 1..(n + 1), i # n + 1 PROVE i \in 1..Len(k)
      BY <1>1, <1>2, <2>3
    <3> QED BY <1>1, <1>2
  <2>6. Len(a) = n + 1
    BY <1>2, <2>3
  <2> QED BY <2>4, <2>5, <2>6 DEF a
<1>4. Named(r) = [i \in 1..(n + 1) |-> [name |-> i - 1, view |-> r[i]]]
  BY <1>1 DEF Named
<1>5. ASSUME NEW i \in 1..(n + 1)
      PROVE  [name |-> i - 1, view |-> r[i]] = IF i = n + 1 THEN x ELSE k[i]
  <2>1. CASE i = n + 1
    BY <1>1, <2>1
  <2>2. CASE i # n + 1
    <3>1. i \in 1..n
      BY <1>1, <2>2
    <3> QED BY <1>1, <1>2, <2>2, <3>1
  <2> QED BY <2>1, <2>2
<1> HIDE DEF n, x, k, r
<1>6. Append(k, x) = Named(r)
  BY <1>3, <1>4, <1>5
<1> QED BY <1>6 DEF n, x, k, r

LEMMA BarFacts ==
    ASSUME NEW s \in Seq(TabId)
    PROVE  /\ update_tab_bar(s, s) = s
           /\ \A t \in TabId : update_tab_bar(s, Append(s, t)) = Append(s, t)
           /\ \A r : Len(r) < Len(s) => update_tab_bar(s, r) = r
<1>1. update_tab_bar(s, s) = s
  <2>1. Len(s) \in Nat /\ SubSeq(s, Len(s) + 1, Len(s)) = <<>>
    OBVIOUS
  <2>2. s \o <<>> = s
    BY ConcatEmptySeq
  <2>3. ~(Len(s) < Len(s))
    BY <2>1
  <2> QED BY <2>1, <2>2, <2>3, Zenon DEF update_tab_bar
<1>2. ASSUME NEW t \in TabId PROVE update_tab_bar(s, Append(s, t)) = Append(s, t)
  <2> DEFINE r == Append(s, t)
             n == Len(s)
  <2>1. n \in Nat /\ r \in Seq(TabId) /\ Len(r) = n + 1 /\ r[n + 1] = t
    OBVIOUS
  <2>2. SubSeq(r, n + 1, Len(r)) = <<t>>
    <3>1. n + 1 \in 1..Len(r)
      BY <2>1
    <3> HIDE DEF r, n
    <3> DEFINE q == SubSeq(r, n + 1, n + 1)
    <3>2. q \in Seq(TabId) /\ Len(q) = 1 /\ q[1] = r[n + 1]
      BY <2>1, <3>1
    <3>3. q = <<q[1]>>
      <4> HIDE DEF q
      <4> QED BY <3>2
    <3> QED BY <2>1, <3>2, <3>3
  <2>3. r = s \o <<t>>
    OBVIOUS
  <2>4. ~(Len(r) < Len(s))
    BY <2>1
  <2> QED BY <2>2, <2>3, <2>4 DEF update_tab_bar
<1>3. ASSUME NEW r, Len(r) < Len(s) PROVE update_tab_bar(s, r) = r
  BY <1>3 DEF update_tab_bar
<1> QED BY <1>1, <1>2, <1>3

LEMMA IndexShown ==
    ASSUME NEW s \in Seq(TabId), NEW t \in ToSet(s)
    PROVE  OnScreen(s, Index(s, t) - 1, t)
<1>1. PICK i \in DOMAIN s : s[i] = t
  BY DEF ToSet
<1>2. Len(s) \in Nat /\ DOMAIN s = 1..Len(s) /\ t \in TabId
  BY <1>1
<1>3. Index(s, t) \in 1..Len(s) /\ s[Index(s, t)] = t
  BY <1>1, <1>2 DEF Index
<1> DEFINE k == Index(s, t)
<1> HIDE DEF k
<1>4. k \in 1..Len(s) /\ s[k] = t
  BY <1>3 DEF k
<1>5. k - 1 \in Nat /\ (k - 1) + 1 = k /\ s # <<>>
  BY <1>2, <1>4
<1>6. OnScreen(s, k - 1, t)
  BY <1>2, <1>4, <1>5 DEF OnScreen
<1> QED BY <1>6 DEF k

LEMMA HeadIn ==
    ASSUME NEW S, NEW s \in Seq(S), s # <<>>
    PROVE  Head(s) \in ToSet(s) /\ Head(s) \in S
<1>1. Head(s) = s[1] /\ 1 \in DOMAIN s /\ s[1] \in S
  OBVIOUS
<1> QED BY <1>1 DEF ToSet

\* A new view goes to the end of everything.
LEMMA StripAttach ==
    ASSUME Strip(tabs, kids, bar, terms, notes), NEW t \in TabId, t \notin ToSet(tabs),
           NEW w, Attach(t, w)
    PROVE  Strip(tabs, kids, bar, terms, notes)' /\ OnScreen(tabs, activeTab, shownTab)'
<1>1. tabs \in Seq(TabId) /\ Distinct(tabs)
  BY DEF Strip
<1>2. tabs' = Append(tabs, t) /\ tabs' \in Seq(TabId) /\ Distinct(tabs')
  BY <1>1, DistinctAppend DEF Attach
<1>3. kids' = Named(tabs')
  BY <1>1, <1>2, NamedAppend DEF Attach, Strip
<1>4. bar' = tabs'
  BY <1>1, <1>2, BarFacts DEF Attach, Show, Strip
<1>5. terms' = Only(tabs', TermTabs) /\ notes' = Only(tabs', NoteTabs)
  <2>1. Only(tabs', TermTabs) = IF t \in TermTabs THEN Append(terms, t) ELSE terms
    BY <1>1, <1>2, OnlyAppend DEF Strip
  <2>2. Only(tabs', NoteTabs) = IF t \in NoteTabs THEN Append(notes, t) ELSE notes
    BY <1>1, <1>2, OnlyAppend DEF Strip
  <2> QED BY <2>1, <2>2 DEF Attach
<1>6. OnScreen(tabs, activeTab, shownTab)'
  <2>1. ToSet(tabs') = ToSet(tabs) \cup {t}
    BY <1>1, <1>2, AppendSet
  <2>2. OnScreen(tabs', Index(tabs', t) - 1, t)
    BY <1>2, <2>1, IndexShown
  <2> QED BY <2>2 DEF Attach, Show
<1> QED BY <1>2, <1>3, <1>4, <1>5, <1>6 DEF Strip

\* A row of one tab, as the constructor leaves it.
LEMMA StripOne ==
    ASSUME NEW t \in TermTabs
    PROVE  Strip(<<t>>, Named(<<t>>), <<t>>, <<t>>, <<>>) /\ OnScreen(<<t>>, 0, t)
<1> DEFINE e == <<>>
           r == Append(e, t)
<1>1. t \in TabId /\ t \notin NoteTabs
  BY WindowAssumption DEF TabId
<1>2. e \in Seq(TabId) /\ r = <<t>>
  OBVIOUS
<1>3. Only(r, TermTabs) = Append(Only(e, TermTabs), t) /\ Only(r, NoteTabs) = Only(e, NoteTabs)
  <2>1. e \in Seq(TabId)
    OBVIOUS
  <2> HIDE DEF e
  <2>2. /\ Only(r, TermTabs) = IF t \in TermTabs THEN Append(Only(e, TermTabs), t)
                                ELSE Only(e, TermTabs)
        /\ Only(r, NoteTabs) = IF t \in NoteTabs THEN Append(Only(e, NoteTabs), t)
                                ELSE Only(e, NoteTabs)
    BY <1>1, <2>1, OnlyAppend
  <2> QED BY <1>1, <2>2
<1>4. Only(e, TermTabs) = e /\ Only(e, NoteTabs) = e
  BY OnlyEmpty
<1>5. Distinct(<<t>>) /\ <<t>> \in Seq(TabId)
  BY <1>1 DEF Distinct
<1>6. OnScreen(<<t>>, 0, t)
  BY <1>1 DEF OnScreen
<1> QED BY <1>1, <1>2, <1>3, <1>4, <1>5, <1>6 DEF Strip

-----------------------------------------------------------------------------
(* MainWindow: the invariant and its steps                                 *)

\* While the program is down, what was on the screen is the tab focus that
\* was saved with the window.
Parked ==
    (~up /\ ws.focus = windowId /\ windowId \in Windows /\ shownTab \in TabsIn(windowId))
        => ws.focusTab[windowId] = shownTab
WindowFlags ==
    /\ up \in BOOLEAN /\ persist \in BOOLEAN
    /\ current \in WindowId \cup {Nothing} /\ windowId \in WindowId \cup {Nothing}
    /\ findOpen \in BOOLEAN /\ findText \in BOOLEAN /\ marked \subseteq TabId
WindowInv ==
    /\ CoreOK(ws) /\ home \in Homes /\ Mirror(ws, tabs, home)
    /\ Strip(tabs, kids, bar, terms, notes) /\ OnScreen(tabs, activeTab, shownTab)
    /\ Parked /\ WindowFlags

Ensured(s, fresh, e) ==
    \/ e.ws = s /\ e.win \in ToSet(s.windows)
    \/ s.windows = <<>> /\ e.win = fresh /\ e.ws = add_window(s, fresh)

LEMMA EnsureFacts ==
    ASSUME NEW s, CoreOK(s), NEW cur, NEW fresh
    PROVE  /\ Ensured(s, fresh, ensure_window(s, cur, fresh))
           /\ cur \in ToSet(s.windows) => ensure_window(s, cur, fresh) = [win |-> cur, ws |-> s]
<1>1. s.windows # <<>> => Head(s.windows) \in ToSet(s.windows)
  <2>1. s.windows \in Seq(WindowId)
    BY DEF CoreOK, CoreType
  <2> QED BY <2>1, HeadIn
<1> QED BY <1>1 DEF ensure_window, Ensured

\* A new tab in the window ensure_window finds or makes.
LEMMA OpenTab ==
    ASSUME NEW s, CoreOK(s), NEW vs \in Seq(TabId), NEW h \in Homes, Mirror(s, vs, h),
           NEW fresh \in WindowId, NEW e, Ensured(s, fresh, e),
           s.windows = <<>> => \A u \in ToSet(vs) : h[u] # fresh,
           NEW t \in TabId, t \notin ToSet(vs),
           \A w \in ToSet(s.windows) : t \notin ToSet(s.tabs[w])
    PROVE  /\ e.win \in WindowId /\ CoreOK(add_tab(e.ws, e.win, t))
           /\ Mirror(add_tab(e.ws, e.win, t), Append(vs, t), [h EXCEPT ![t] = e.win])
<1> DEFINE r == e.ws
           w == e.win
<1>1. /\ CoreOK(r) /\ w \in ToSet(r.windows) /\ w \in WindowId
      /\ Mirror(r, vs, h) /\ t \notin ToSet(r.tabs[w])
  <2>1. CASE r = s /\ w \in ToSet(s.windows)
    <3>1. w \in WindowId
      BY <2>1, CoreWindows DEF CoreOK
    <3> QED BY <2>1, <3>1
  <2>2. CASE s.windows = <<>> /\ w = fresh /\ r = add_window(s, fresh)
    <3>1. Mirror(r, vs, h)
      BY <2>2, MirrorAddWindow
    <3> DEFINE q == add_window(s, fresh)
    <3>2. /\ CoreOK(q) /\ ToSet(q.windows) = ToSet(s.windows) \cup {fresh}
          /\ q.tabs[fresh] = <<>>
      BY AddWindowFacts
    <3> QED BY <2>2, <3>1, <3>2, EmptySet
  <2> QED BY <2>1, <2>2 DEF Ensured
<1> HIDE DEF r, w
<1>2. CoreOK(add_tab(r, w, t))
  BY <1>1, AddTabFacts
<1>3. Mirror(add_tab(r, w, t), Append(vs, t), [h EXCEPT ![t] = w])
  BY <1>1, MirrorAddTab
<1> QED BY <1>1, <1>2, <1>3 DEF r, w

LEMMA FreshFacts ==
    ASSUME NEW t, FreshTab(t)
    PROVE  t \in TabId /\ t \notin ToSet(tabs) /\ \A w \in Windows : t \notin TabsIn(w)
BY DEF FreshTab, UnusedTabs, LiveTabs

LEMMA FreshWindowFacts ==
    ASSUME NEW w, FreshWindow(w)
    PROVE  w # windowId /\ w \in WindowId /\ \A u \in ToSet(tabs) : home[u] # w
BY DEF FreshWindow, UnusedWindows

\* new_terminal_tab and new_note_tab.
LEMMA StepNewTab ==
    ASSUME WindowInv, up, NEW t, FreshTab(t), NEW fresh \in WindowId, NewIdIfNeeded(ws, fresh),
           NEW e, e = ensure_window(ws, current, fresh),
           ws' = add_tab(e.ws, e.win, t), current' = e.win, Attach(t, e.win),
           windowId' \in {windowId, e.win}, UNCHANGED <<up, persist, findVars>>
    PROVE  WindowInv'
<1>1. t \in TabId /\ t \notin ToSet(tabs) /\ \A w \in ToSet(ws.windows) : t \notin ToSet(ws.tabs[w])
  BY FreshFacts DEF Windows, TabsIn
<1>2. CoreOK(ws) /\ tabs \in Seq(TabId) /\ home \in Homes /\ Mirror(ws, tabs, home)
  BY DEF WindowInv, Strip
<1>3. Ensured(ws, fresh, e)
  BY <1>2, EnsureFacts
<1>4. ws.windows = <<>> => \A u \in ToSet(tabs) : home[u] # fresh
  BY FreshWindowFacts DEF NewIdIfNeeded
<1>5. /\ e.win \in WindowId /\ CoreOK(add_tab(e.ws, e.win, t))
      /\ Mirror(add_tab(e.ws, e.win, t), Append(tabs, t), [home EXCEPT ![t] = e.win])
  BY <1>1, <1>2, <1>3, <1>4, OpenTab
<1>6. tabs' = Append(tabs, t) /\ home' = [home EXCEPT ![t] = e.win]
  BY DEF Attach
<1>7. home' \in Homes
  BY <1>1, <1>2, <1>5, <1>6 DEF Homes
<1>8. Strip(tabs, kids, bar, terms, notes)' /\ OnScreen(tabs, activeTab, shownTab)'
  BY <1>1, StripAttach DEF WindowInv
<1>9. WindowFlags'
  BY <1>5 DEF WindowInv, WindowFlags, findVars
<1>10. Parked'
  BY DEF Parked
<1>11. CoreOK(ws)' /\ Mirror(ws, tabs, home)'
  BY <1>5, <1>6
<1> QED BY <1>7, <1>8, <1>9, <1>10, <1>11 DEF WindowInv

LEMMA StepSwitch ==
    ASSUME WindowInv, NEW t, SwitchTo(t)
    PROVE  WindowInv'
<1>1. /\ tabs' = tabs /\ t \in ToSet(tabs) /\ tabs \in Seq(TabId) /\ bar = tabs
      /\ ws' = ws /\ home' = home /\ kids' = kids /\ terms' = terms /\ notes' = notes
      /\ up' = up /\ up
  BY DEF WindowInv, Strip, SwitchTo, coreVars
<1>2. bar' = tabs
  BY <1>1, BarFacts DEF SwitchTo, Show
<1>3. OnScreen(tabs, activeTab, shownTab)'
  BY <1>1, IndexShown DEF SwitchTo, Show
<1>4. Strip(tabs, kids, bar, terms, notes)'
  BY <1>1, <1>2 DEF WindowInv, Strip
<1>5. WindowFlags'
  BY DEF WindowInv, WindowFlags, SwitchTo, findVars, coreVars
<1>6. Parked'
  BY <1>1 DEF Parked
<1>7. CoreOK(ws)' /\ home' \in Homes /\ Mirror(ws, tabs, home)'
  BY <1>1 DEF WindowInv
<1> QED BY <1>3, <1>4, <1>5, <1>6, <1>7 DEF WindowInv

LEMMA StepClose ==
    ASSUME WindowInv, NEW i, finish_close_tab(i)
    PROVE  WindowInv'
<1> DEFINE t == tabs[i]
           K == TabId \ {t}
<1>1. /\ tabs \in Seq(TabId) /\ Distinct(tabs) /\ home \in Homes /\ CoreOK(ws)
      /\ Mirror(ws, tabs, home) /\ bar = tabs
      /\ terms = Only(tabs, TermTabs) /\ notes = Only(tabs, NoteTabs)
  BY DEF WindowInv, Strip
<1>2. i \in DOMAIN tabs /\ t \in TabId
  BY <1>1 DEF finish_close_tab
<1>3. tabs' = Only(tabs, K)
  <2>1. TabId \ {tabs[i]} \subseteq K /\ tabs[i] \notin K
    OBVIOUS
  <2> HIDE DEF K
  <2>2. RemoveAt(tabs, i) = Only(tabs, K)
    BY <1>1, <1>2, <2>1, RemoveAtIsOnly
  <2> QED BY <2>2 DEF finish_close_tab
<1>4. tabs' \in Seq(TabId) /\ Distinct(tabs') /\ Len(tabs') < Len(tabs)
  <2>1. tabs' \in Seq(TabId) /\ Distinct(tabs')
    <3> HIDE DEF K
    <3> QED BY <1>1, <1>3, OnlySet, OnlyDistinct
  <2>2. Len(RemoveAt(tabs, i)) = Len(tabs) - 1 /\ Len(tabs) \in Nat
    <3> DEFINE a == SubSeq(tabs, 1, i - 1)
               b == SubSeq(tabs, i + 1, Len(tabs))
    <3>1. Len(tabs) \in Nat /\ i \in 1..Len(tabs)
      BY <1>1, <1>2
    <3>2. a \in Seq(TabId) /\ Len(a) = i - 1
      BY <1>1, <3>1, SubSeqProperties
    <3>3. b \in Seq(TabId) /\ Len(b) = Len(tabs) - i
      BY <1>1, <3>1
    <3> HIDE DEF a, b
    <3>4. Len(a \o b) = Len(a) + Len(b)
      BY <3>2, <3>3
    <3>5. RemoveAt(tabs, i) = a \o b
      BY DEF RemoveAt, a, b
    <3>6. Len(a) + Len(b) = Len(tabs) - 1
      BY <3>1, <3>2, <3>3
    <3> QED BY <3>1, <3>4, <3>5, <3>6, Zenon
  <2> QED BY <2>1, <2>2 DEF finish_close_tab
<1>5. terms' = Only(tabs', TermTabs) /\ notes' = Only(tabs', NoteTabs)
  <2>1. terms' = Only(Only(tabs, TermTabs), K) /\ notes' = Only(Only(tabs, NoteTabs), K)
    BY <1>1 DEF finish_close_tab
  <2>2. TermTabs \cap K = K \cap TermTabs /\ NoteTabs \cap K = K \cap NoteTabs
    OBVIOUS
  <2> HIDE DEF K
  <2>3. /\ Only(Only(tabs, TermTabs), K) = Only(tabs, TermTabs \cap K)
        /\ Only(Only(tabs, NoteTabs), K) = Only(tabs, NoteTabs \cap K)
        /\ Only(Only(tabs, K), TermTabs) = Only(tabs, K \cap TermTabs)
        /\ Only(Only(tabs, K), NoteTabs) = Only(tabs, K \cap NoteTabs)
    BY <1>1, OnlyTwice
  <2> QED BY <1>3, <2>1, <2>2, <2>3
<1>6. CoreOK(ws') /\ Mirror(ws', tabs', home')
  <2>1. ws' = remove_tab(ws, home[t], t) /\ home' = [home EXCEPT ![t] = Nothing]
    BY DEF finish_close_tab
  <2> HIDE DEF t
  <2> DEFINE r == remove_tab(ws, home[t], t)
  <2>2. CoreOK(r) /\ Mirror(r, Only(tabs, TabId \ {t}), [home EXCEPT ![t] = Nothing])
    BY <1>1, <1>2, MirrorRemoveTab
  <2> QED BY <1>3, <2>1, <2>2
<1>7. home' \in Homes
  BY <1>1, <1>2 DEF finish_close_tab, Homes
<1>8. bar' = tabs' /\ OnScreen(tabs', activeTab', shownTab')
  <2>1. CASE tabs' = <<>>
    BY <2>1 DEF finish_close_tab, OnScreen
  <2>2. CASE tabs' # <<>>
    <3>1. Show(Head(tabs'))
      BY <2>2 DEF finish_close_tab
    <3>2. bar' = tabs'
      BY <1>1, <1>4, <3>1, BarFacts DEF Show
    <3>3. OnScreen(tabs', Index(tabs', Head(tabs')) - 1, Head(tabs'))
      BY <1>4, <2>2, HeadIn, IndexShown
    <3> QED BY <3>1, <3>2, <3>3 DEF Show
  <2> QED BY <2>1, <2>2
<1>9. Strip(tabs', kids', bar', terms', notes')
  BY <1>4, <1>5, <1>8 DEF Strip, finish_close_tab
<1>10. WindowFlags'
  BY DEF WindowInv, WindowFlags, finish_close_tab
<1>11. Parked'
  BY DEF Parked, finish_close_tab
<1> QED BY <1>6, <1>7, <1>8, <1>9, <1>10, <1>11 DEF WindowInv

LEMMA StepDeleteWindow ==
    ASSUME WindowInv, NEW w \in WindowId, DeleteWindow(w)
    PROVE  WindowInv'
<1> DEFINE r == remove_window(ws, w)
<1>1. /\ CoreOK(r) /\ ToSet(r.windows) = ToSet(ws.windows) \ {w}
      /\ \A v \in WindowId \ {w} : r.tabs[v] = ws.tabs[v]
  BY RemoveWindowFacts DEF WindowInv
<1>2. ToSet(ws.windows) \subseteq WindowId
  BY CoreWindows DEF WindowInv, CoreOK
<1> HIDE DEF r
<1>3. Mirror(r, tabs, home)
  BY <1>1, <1>2 DEF WindowInv, Mirror
<1>4. ws' = r /\ UNCHANGED <<persist, current, up, viewVars, findVars>> /\ up
  BY DEF DeleteWindow, r
<1>5. WindowFlags'
  BY <1>4 DEF WindowInv, WindowFlags, viewVars, findVars
<1>6. Parked'
  BY <1>4 DEF Parked
<1> QED BY <1>1, <1>3, <1>4, <1>5, <1>6 DEF WindowInv, viewVars

LEMMA StepAddWindow ==
    ASSUME WindowInv, NEW w, CliAddWindow(w)
    PROVE  WindowInv'
<1>1. w # windowId /\ w \in WindowId /\ \A u \in ToSet(tabs) : home[u] # w
  BY FreshWindowFacts DEF CliAddWindow
<1> DEFINE r == add_window(ws, w)
<1>2. CoreOK(ws) /\ tabs \in Seq(TabId) /\ home \in Homes /\ Mirror(ws, tabs, home)
  BY DEF WindowInv, Strip
<1>3. CoreOK(r) /\ r.focus = w
  BY <1>1, <1>2, AddWindowFacts
<1>4. Mirror(r, tabs, home)
  BY <1>1, <1>2, MirrorAddWindow
<1> HIDE DEF r
<1>5. ws' = r /\ UNCHANGED <<persist, current, up, viewVars, findVars>>
  BY DEF CliAddWindow, r
<1>6. WindowFlags'
  BY <1>5 DEF WindowInv, WindowFlags, viewVars, findVars
<1>7. Parked'
  BY <1>1, <1>3, <1>5 DEF Parked, viewVars
<1> QED BY <1>2, <1>3, <1>4, <1>5, <1>6, <1>7 DEF WindowInv, viewVars

LEMMA FocusSet ==
    ASSUME NEW s \in CoreType, NEW w, NEW r, r = [s EXCEPT !.focus = w]
    PROVE  r = [windows |-> s.windows, tabs |-> s.tabs, focusTab |-> s.focusTab, focus |-> w]
BY DEF CoreType

LEMMA CapturedFacts ==
    ASSUME WindowInv
    PROVE  /\ CoreOK(CapturedFocus) /\ CapturedFocus.windows = ws.windows
           /\ CapturedFocus.tabs = ws.tabs
           /\ (windowId \in Windows /\ tabs # <<>>) => CapturedFocus.focusTab[windowId] = shownTab
<1> DEFINE s == [ws EXCEPT !.focus = windowId]
           x == tabs[activeTab + 1]
<1>1. /\ ws \in CoreType /\ ws.windows \in Seq(WindowId) /\ ws.tabs \in [WindowId -> Seq(TabId)]
      /\ ws.focusTab \in [WindowId -> TabId \cup {Nothing}] /\ Windows \subseteq WindowId
      /\ windowId \in WindowId \cup {Nothing} /\ tabs \in Seq(TabId)
  BY CoreWindows DEF WindowInv, CoreOK, CoreType, Windows, WindowFlags, Strip
<1>2. s = [windows |-> ws.windows, tabs |-> ws.tabs, focusTab |-> ws.focusTab, focus |-> windowId]
  BY <1>1, FocusSet
<1>3. s \in CoreType /\ s.windows = ws.windows /\ s.tabs = ws.tabs /\ s.focusTab = ws.focusTab
  <2> HIDE DEF s
  <2> QED BY <1>1, <1>2 DEF CoreType
<1>4. CASE windowId \in Windows /\ activeTab >= 0 /\ activeTab < Len(tabs)
  <2>1. tabs # <<>> /\ x = shownTab /\ x \in TabId
    <3>1. tabs # <<>>
      <4>1. tabs = <<>> => Len(tabs) = 0 /\ activeTab = -1
        BY DEF WindowInv, OnScreen
      <4> QED BY <1>4, <4>1
    <3> QED BY <3>1 DEF WindowInv, OnScreen
  <2> DEFINE f == [ws.focusTab EXCEPT ![windowId] = x]
  <2>2. f \in [WindowId -> TabId \cup {Nothing}] /\ f[windowId] = shownTab
    BY <1>1, <1>4, <2>1
  <2>3. CapturedFocus = [s EXCEPT !.focusTab[windowId] = x]
    BY <1>4 DEF CapturedFocus
  <2>4. CapturedFocus = [windows |-> ws.windows, tabs |-> ws.tabs, focusTab |-> f, focus |-> windowId]
    <3> HIDE DEF x
    <3> QED BY <2>3, <1>2
  <2> HIDE DEF f
  <2>5. CapturedFocus \in CoreType
    BY <1>1, <2>2, <2>4 DEF CoreType
  <2>6. CoreOK(CapturedFocus)
    BY <2>4, <2>5 DEF WindowInv, CoreOK
  <2> QED BY <2>2, <2>4, <2>6
<1>5. CASE ~(windowId \in Windows /\ activeTab >= 0 /\ activeTab < Len(tabs))
  <2>1. CapturedFocus = s
    BY <1>5 DEF CapturedFocus
  <2>2. ~(windowId \in Windows /\ tabs # <<>>)
    <3> SUFFICES ASSUME tabs # <<>> PROVE activeTab >= 0 /\ activeTab < Len(tabs)
      BY <1>5
    <3>1. activeTab \in Nat /\ activeTab + 1 \in 1..Len(tabs) /\ Len(tabs) \in Nat
      BY <1>1 DEF WindowInv, OnScreen
    <3> QED BY <3>1
  <2>3. CoreOK(s)
    <3> HIDE DEF s
    <3> QED BY <1>3 DEF WindowInv, CoreOK
  <2> HIDE DEF s
  <2> QED BY <1>3, <2>1, <2>2, <2>3
<1> QED BY <1>4, <1>5

\* Capture and Quit.
LEMMA StepCaptured ==
    ASSUME WindowInv, ws' = CapturedFocus, up' \in BOOLEAN,
           findOpen' \in BOOLEAN, findText' \in BOOLEAN, marked' \subseteq TabId,
           UNCHANGED <<persist, current, viewVars>>
    PROVE  WindowInv'
<1>1. /\ CoreOK(ws') /\ ws'.windows = ws.windows /\ ws'.tabs = ws.tabs
      /\ (windowId \in Windows /\ tabs # <<>>) => ws'.focusTab[windowId] = shownTab
  BY CapturedFacts
<1>2. Mirror(ws', tabs, home)
  BY <1>1 DEF WindowInv, Mirror
<1>3. Parked'
  <2> SUFFICES ASSUME windowId \in Windows, shownTab \in TabsIn(windowId)
               PROVE  ws'.focusTab[windowId] = shownTab
    BY <1>1 DEF Parked, viewVars, Windows, TabsIn
  <2>1. shownTab \in TabId
    BY CoreWindows DEF WindowInv, CoreOK, Windows, TabsIn
  <2>2. tabs # <<>>
    BY <2>1, WindowAssumption DEF WindowInv, OnScreen, TabId
  <2> QED BY <1>1, <2>2
<1>4. WindowFlags'
  BY DEF WindowInv, WindowFlags, viewVars
<1> QED BY <1>1, <1>2, <1>3, <1>4 DEF WindowInv, viewVars

LEMMA RestoredIn ==
    ASSUME WindowInv, Windows # {}
    PROVE  RestoredWindow \in Windows
<1>1. ws.windows \in Seq(WindowId)
  BY DEF WindowInv, CoreOK, CoreType
<1>2. ws.windows # <<>>
  BY EmptySet DEF Windows
<1>3. Head(ws.windows) \in Windows
  BY <1>1, <1>2, HeadIn DEF Windows
<1> QED BY <1>3 DEF RestoredWindow

LEMMA StepRestore ==
    ASSUME WindowInv, restore_workspace, up' = TRUE, UNCHANGED <<persist, findVars>>
    PROVE  WindowInv'
<1> DEFINE w == RestoredWindow
           s == ws.tabs[w]
           x == IF ws.focusTab[w] \in ToSet(s) THEN ws.focusTab[w] ELSE Head(s)
<1>1. /\ w \in Windows /\ w \in WindowId /\ s \in Seq(TabId) /\ s # <<>> /\ Distinct(s)
      /\ CoreOK(ws) /\ Windows \subseteq WindowId
  <2>1. Windows # {} /\ s # <<>>
    BY DEF restore_workspace
  <2>2. w \in Windows
    BY <2>1, RestoredIn
  <2>3. Windows \subseteq WindowId /\ ws \in CoreType
    BY CoreWindows DEF WindowInv, CoreOK, Windows
  <2> HIDE DEF w
  <2>4. ws.tabs[w] \in Seq(TabId)
    BY <2>2, <2>3, CoreWindows
  <2> QED BY <2>1, <2>2, <2>3, <2>4 DEF WindowInv, CoreOK
<1>2. /\ windowId' = w /\ current' = w /\ ws' = ws /\ tabs' = s /\ bar' = s /\ kids' = Named(s)
      /\ terms' = Only(s, TermTabs) /\ notes' = Only(s, NoteTabs)
      /\ home' = [u \in TabId |-> IF u \in ToSet(s) THEN w ELSE Nothing]
      /\ shownTab' = x /\ activeTab' = Index(s, x) - 1
  BY DEF restore_workspace
<1>3. x \in ToSet(s)
  <2>1. Head(s) \in ToSet(s)
    <3> HIDE DEF s
    <3> QED BY <1>1, HeadIn
  <2> QED BY <2>1
<1> HIDE DEF w, x
<1>4. ToSet(s) \subseteq TabId
  BY <1>1, CoreWindows DEF CoreOK
<1> HIDE DEF s
<1>5. OnScreen(tabs', activeTab', shownTab')
  BY <1>1, <1>2, <1>3, IndexShown
<1>6. Strip(tabs', kids', bar', terms', notes')
  BY <1>1, <1>2 DEF Strip
<1>7. home' \in Homes /\ \A u \in ToSet(s) : home'[u] = w
  BY <1>1, <1>2, <1>4 DEF Homes
<1>8. ASSUME NEW v \in Windows PROVE MirrorAt(ws.tabs[v], s, home', v)
  <2>1. v \in WindowId /\ ws.tabs[v] \in Seq(TabId)
    BY <1>1, CoreWindows DEF CoreOK
  <2>2. CASE v = w
    <3>1. MirrorAt(s, s, home', w)
      BY <1>1, <1>7, MirrorWhole
    <3> QED BY <2>2, <3>1 DEF s
  <2>3. CASE v # w
    <3>1. \A u \in ToSet(s) : home'[u] # v
      BY <1>7, <2>3
    <3> QED BY <1>1, <1>7, <2>1, <3>1, NoneMine
  <2> QED BY <2>2, <2>3
<1>9. Mirror(ws', tabs', home')
  BY <1>2, <1>8 DEF Mirror, Windows
<1>10. WindowFlags'
  BY <1>1, <1>2 DEF WindowInv, WindowFlags, findVars
<1>11. Parked'
  BY DEF Parked
<1> QED BY <1>1, <1>2, <1>5, <1>6, <1>7, <1>9, <1>10, <1>11 DEF WindowInv

LEMMA NoWindowsFacts == CoreOK(NoWindows) /\ NoWindows.windows = <<>>
<1>1. NoWindows.windows = <<>> /\ NoWindows.tabs = [w \in WindowId |-> <<>>]
  BY DEF NoWindows
<1>2. <<>> \in Seq(TabId) /\ <<>> \in Seq(WindowId)
  OBVIOUS
<1>3. NoWindows \in CoreType
  BY <1>2 DEF NoWindows, CoreType
<1> QED BY <1>1, <1>3, EmptySet DEF CoreOK

\* The default tab in a window without views.
LEMMA FirstTab ==
    ASSUME NEW s, CoreOK(s), NEW fresh \in WindowId, NEW e, Ensured(s, fresh, e),
           NEW t \in TabId, \A w \in ToSet(s.windows) : t \notin ToSet(s.tabs[w]),
           NEW h, h = [u \in TabId |-> IF u = t THEN e.win ELSE Nothing]
    PROVE  /\ e.win \in WindowId /\ CoreOK(add_tab(e.ws, e.win, t)) /\ h \in Homes
           /\ Mirror(add_tab(e.ws, e.win, t), <<t>>, h)
<1> DEFINE vs == <<>>
           g == [u \in TabId |-> Nothing]
<1>1. vs \in Seq(TabId) /\ ToSet(vs) = {} /\ Append(vs, t) = <<t>>
  BY EmptySet
<1>2. g \in Homes /\ h = [g EXCEPT ![t] = e.win]
  BY DEF Homes
<1> HIDE DEF vs, g
<1>3. Mirror(s, vs, g)
  <2> SUFFICES ASSUME NEW w \in ToSet(s.windows) PROVE MirrorAt(s.tabs[w], vs, g, w)
    BY DEF Mirror
  <2>1. s.tabs[w] \in Seq(TabId)
    BY CoreWindows DEF CoreOK
  <2> QED BY <1>1, <1>2, <2>1, NoneMine
<1>4. /\ e.win \in WindowId /\ CoreOK(add_tab(e.ws, e.win, t))
      /\ Mirror(add_tab(e.ws, e.win, t), Append(vs, t), [g EXCEPT ![t] = e.win])
  BY <1>1, <1>2, <1>3, OpenTab
<1>5. h \in Homes
  BY <1>2, <1>4 DEF Homes
<1> QED BY <1>1, <1>2, <1>4, <1>5

LEMMA StepDefault ==
    ASSUME WindowInv, NEW t \in TermTabs, NEW fresh \in WindowId, OpenDefaultTab(t, fresh),
           up' = TRUE, UNCHANGED <<persist, findVars>>
    PROVE  WindowInv'
<1> DEFINE kept == IF persist THEN ws ELSE NoWindows
           bound == IF persist /\ Windows # {} THEN RestoredWindow ELSE Nothing
           e == ensure_window(kept, bound, fresh)
<1>1. /\ FreshTab(t) /\ ws' = add_tab(e.ws, e.win, t) /\ current' = e.win /\ windowId' = e.win
      /\ tabs' = <<t>> /\ terms' = <<t>> /\ notes' = <<>>
      /\ home' = [u \in TabId |-> IF u = t THEN e.win ELSE Nothing]
      /\ kids' = Named(<<t>>) /\ shownTab' = t /\ activeTab' = 0 /\ bar' = <<t>>
  BY DEF OpenDefaultTab
<1>2. t \in TabId /\ \A w \in ToSet(ws.windows) : t \notin ToSet(ws.tabs[w])
  BY <1>1, FreshFacts DEF Windows, TabsIn
<1>3. CoreOK(kept) /\ \A w \in ToSet(kept.windows) : t \notin ToSet(kept.tabs[w])
  <2>1. CASE persist
    BY <1>2, <2>1 DEF WindowInv
  <2>2. CASE ~persist
    <3>1. kept = NoWindows
      BY <2>2
    <3>2. ToSet(kept.windows) = {}
      BY <3>1, NoWindowsFacts, EmptySet
    <3> QED BY <3>1, <3>2, NoWindowsFacts
  <2> QED BY <2>1, <2>2
<1> HIDE DEF kept, bound
<1>4. Ensured(kept, fresh, e)
  BY <1>3, EnsureFacts
<1> HIDE DEF e
<1>5. e.win \in WindowId /\ CoreOK(ws') /\ home' \in Homes /\ Mirror(ws', <<t>>, home')
  BY <1>1, <1>2, <1>3, <1>4, FirstTab
<1>6. Strip(<<t>>, Named(<<t>>), <<t>>, <<t>>, <<>>) /\ OnScreen(<<t>>, 0, t)
  BY StripOne
<1>7. Strip(tabs', kids', bar', terms', notes') /\ OnScreen(tabs', activeTab', shownTab')
  BY <1>1, <1>6
<1>8. WindowFlags'
  BY <1>1, <1>5 DEF WindowInv, WindowFlags, findVars
<1>9. Parked'
  BY DEF Parked
<1> QED BY <1>1, <1>5, <1>7, <1>8, <1>9 DEF WindowInv

LEMMA WindowStart == WindowInit => WindowInv
<1> SUFFICES ASSUME WindowInit PROVE WindowInv
  OBVIOUS
<1> DEFINE t == CHOOSE u \in TermTabs : TRUE
           w == CHOOSE v \in WindowId : TRUE
           s == add_window(NoWindows, w)
           e == [win |-> w, ws |-> s]
<1>1. t \in TermTabs /\ t \in TabId /\ w \in WindowId
  BY WindowAssumption DEF TabId
<1>2. /\ ws = add_tab(s, w, t) /\ up = TRUE /\ persist = TRUE /\ current = w /\ windowId = w
      /\ tabs = <<t>> /\ terms = <<t>> /\ notes = <<>>
      /\ home = [u \in TabId |-> IF u = t THEN w ELSE Nothing]
      /\ kids = Named(<<t>>) /\ shownTab = t /\ activeTab = 0 /\ bar = <<t>>
      /\ findOpen = FALSE /\ findText = FALSE /\ marked = {}
  BY DEF WindowInit
<1> HIDE DEF t, w
<1>3. Ensured(NoWindows, w, e) /\ e.win = w /\ e.ws = s
  BY NoWindowsFacts DEF Ensured
<1> HIDE DEF s, e
<1>4. \A v \in ToSet(NoWindows.windows) : t \notin ToSet(NoWindows.tabs[v])
  BY NoWindowsFacts, EmptySet
<1>5. CoreOK(ws) /\ home \in Homes /\ Mirror(ws, <<t>>, home)
  BY <1>1, <1>2, <1>3, <1>4, NoWindowsFacts, FirstTab
<1>6. Strip(<<t>>, Named(<<t>>), <<t>>, <<t>>, <<>>) /\ OnScreen(<<t>>, 0, t)
  BY <1>1, StripOne
<1>7. Strip(tabs, kids, bar, terms, notes) /\ OnScreen(tabs, activeTab, shownTab)
  BY <1>2, <1>6
<1>8. WindowFlags /\ Parked
  BY <1>1, <1>2 DEF WindowFlags, Parked
<1> QED BY <1>2, <1>5, <1>7, <1>8 DEF WindowInv

\* The find bar and the setting leave all but the flags alone.
LEMMA StepFlags ==
    ASSUME WindowInv, WindowFlags', UNCHANGED <<ws, up, viewVars>>
    PROVE  WindowInv'
BY DEF WindowInv, viewVars, Parked, Windows, TabsIn

LEMMA WindowStep == WindowInv /\ [WindowNext]_windowVars => WindowInv'
<1> SUFFICES ASSUME WindowInv, [WindowNext]_windowVars PROVE WindowInv'
  OBVIOUS
<1>0. WindowFlags /\ tabs \in Seq(TabId) /\ ToSet(tabs) \subseteq TabId
  <2>1. tabs \in Seq(TabId) /\ WindowFlags
    BY DEF WindowInv, Strip
  <2> QED BY <2>1 DEF ToSet
<1>1. ASSUME NEW t, NEW w \in WindowId, new_terminal_tab(t, w) PROVE WindowInv'
  BY <1>1, StepNewTab DEF new_terminal_tab
<1>2. ASSUME NEW n, NEW w \in WindowId, new_note_tab(n, w) PROVE WindowInv'
  BY <1>2, StepNewTab DEF new_note_tab
<1>3. ASSUME NEW t \in TermTabs, NEW w \in WindowId, Start(t, w) PROVE WindowInv'
  BY <1>3, StepRestore, StepDefault DEF Start
<1>4. ASSUME NEW n, NEW w \in WindowId, open_note_from_path(n, w) PROVE WindowInv'
  BY <1>2, <1>4, StepSwitch DEF open_note_from_path
<1>5. ASSUME NEW t, SwitchTo(t) PROVE WindowInv'
  BY <1>5, StepSwitch
<1>6. ASSUME NEW i, finish_close_tab(i) PROVE WindowInv'
  BY <1>6, StepClose
<1>7. ASSUME NEW w \in WindowId, DeleteWindow(w) \/ CliAddWindow(w) PROVE WindowInv'
  BY <1>7, StepDeleteWindow, StepAddWindow
<1>8. CASE Capture
  BY <1>0, <1>8, StepCaptured DEF Capture, WindowFlags, findVars
<1>9. CASE Quit
  BY <1>0, <1>9, StepCaptured DEF Quit, WindowFlags
<1>10. CASE SetPersist
  <2>1. WindowFlags'
    BY <1>0, <1>10 DEF SetPersist, WindowFlags, findVars, viewVars
  <2> QED BY <1>10, <2>1, StepFlags DEF SetPersist
<1>11. ActiveViews \subseteq TabId
  BY <1>0 DEF ActiveViews
<1>12. CASE show_find_bar \/ on_find_next \/ hide_find_bar
  <2>1. WindowFlags'
    BY <1>0, <1>11, <1>12
       DEF show_find_bar, on_find_next, hide_find_bar, WindowFlags, findVars, coreVars, viewVars
  <2> QED BY <1>12, <2>1, StepFlags
          DEF show_find_bar, on_find_next, hide_find_bar, coreVars
<1>13. ASSUME NEW some \in BOOLEAN, sync_find_text(some) PROVE WindowInv'
  <2>1. WindowFlags'
    BY <1>0, <1>11, <1>13 DEF sync_find_text, WindowFlags, coreVars, viewVars
  <2> QED BY <1>13, <2>1, StepFlags DEF sync_find_text, coreVars
<1>14. CASE UNCHANGED windowVars
  <2>1. WindowFlags'
    BY <1>0, <1>14 DEF windowVars, WindowFlags, findVars, coreVars, viewVars
  <2> QED BY <1>14, <2>1, StepFlags DEF windowVars, coreVars
<1> QED BY <1>1, <1>2, <1>3, <1>4, <1>5, <1>6, <1>7, <1>8, <1>9, <1>10, <1>12, <1>13, <1>14
        DEF WindowNext

LEMMA WindowInvariant == WindowSpec => []WindowInv
BY WindowStart, WindowStep, PTL DEF WindowSpec

(* Every variable of the main window keeps its type.                       *)
THEOREM WindowTypes == WindowSpec => []WindowTypeOK
<1>1. ASSUME WindowInv PROVE WindowTypeOK
  <2>1. ToSet(ws.windows) \subseteq WindowId /\ \A w \in WindowId : ToSet(ws.tabs[w]) \subseteq TabId
    BY <1>1, CoreWindows DEF WindowInv, CoreOK
  <2>2. tabs \in Seq(TabId)
    BY <1>1 DEF WindowInv, Strip
  <2>3. ToSet(tabs) \subseteq TabId
    BY <2>2 DEF ToSet
  <2>4. shownTab \in TabId \cup {Nothing} /\ activeTab \in {-1} \cup Nat
    BY <1>1 DEF WindowInv, OnScreen
  <2> QED BY <1>1, <2>1, <2>3, <2>4 DEF WindowInv, WindowFlags, WindowTypeOK, Homes
<1> QED BY <1>1, WindowInvariant, PTL

(* However tabs were opened, closed, switched and restored, the stack's    *)
(* names, the row of tabs, the vectors by kind and the active index agree  *)
(* with tabs_: renumbering in finish_close_tab and appending in the others *)
(* come to the same thing.                                                 *)
THEOREM StripInStep == WindowSpec => []TabStripInStep
<1>1. WindowInv => TabStripInStep
  BY DEF WindowInv, Strip, OnScreen, TabStripInStep
<1> QED BY <1>1, WindowInvariant, PTL

(* The views made for a window that exists are tabs of it, in the core's   *)
(* order, for any number of windows and tabs.                              *)
THEOREM ViewsMirrorCore == WindowSpec => []WindowMirrored
<1>1. ASSUME WindowInv PROVE WindowMirrored
  BY <1>1 DEF WindowInv, Mirror, MirrorAt, Mine, WindowMirrored, Windows, TabsIn
<1> QED BY <1>1, WindowInvariant, PTL

(* A start after an orderly quit loses no tab and shows the tabs of its    *)
(* window in their order, and the one that was on the screen.              *)
THEOREM TabsSurviveRestart == WindowSpec => RestartKeepsTabs
<1> DEFINE Kept == \A w \in Windows : \A t \in TabsIn(w) : t \in ToSet(ws'.tabs[w])
           Same == (ws.focus = windowId /\ windowId \in Windows /\ shownTab \in TabsIn(windowId))
                       => tabs' = ws.tabs[windowId] /\ shownTab' = shownTab
<1>1. ASSUME WindowInv, [WindowNext]_windowVars, ~up, up', persist
      PROVE  Kept /\ Same
  <2>1. PICK t \in TermTabs, fresh \in WindowId : Start(t, fresh)
    BY <1>1 DEF WindowNext, windowVars, new_terminal_tab, new_note_tab, open_note_from_path,
                SwitchTo, finish_close_tab, DeleteWindow, CliAddWindow, Capture, Quit, SetPersist,
                show_find_bar, on_find_next, hide_find_bar, sync_find_text
  <2>2. ws.focus = windowId /\ windowId \in Windows => RestoredWindow = windowId
    BY DEF RestoredWindow
  <2>3. CASE restore_workspace
    <3>1. Kept
      BY <2>3 DEF restore_workspace, TabsIn
    <3>2. ASSUME ws.focus = windowId, windowId \in Windows, shownTab \in TabsIn(windowId)
          PROVE  tabs' = ws.tabs[windowId] /\ shownTab' = shownTab
      <4>1. ws.focusTab[windowId] = shownTab
        BY <1>1, <3>2 DEF WindowInv, Parked
      <4> QED BY <2>2, <2>3, <3>2, <4>1 DEF restore_workspace, TabsIn
    <3> QED BY <3>1, <3>2
  <2>4. CASE OpenDefaultTab(t, fresh)
    <3> DEFINE b == IF Windows # {} THEN RestoredWindow ELSE Nothing
               e == ensure_window(ws, b, fresh)
    <3>1. FreshTab(t) /\ ws' = add_tab(e.ws, e.win, t) /\ (b # Nothing => ws.tabs[b] = <<>>)
      BY <1>1, <2>4 DEF OpenDefaultTab
    <3>2. Same
      <4> SUFFICES ASSUME ws.focus = windowId, windowId \in Windows, shownTab \in TabsIn(windowId)
                   PROVE  FALSE
        OBVIOUS
      <4>1. b = windowId /\ windowId \in WindowId
        BY <1>1, <2>2, CoreWindows DEF WindowInv, CoreOK, Windows
      <4>2. ws.tabs[windowId] = <<>>
        BY <3>1, <4>1, WindowAssumption
      <4> QED BY <4>2, EmptySet DEF TabsIn
    <3>3. Kept
      <4> SUFFICES ASSUME NEW w \in Windows, NEW u \in TabsIn(w) PROVE u \in ToSet(ws'.tabs[w])
        OBVIOUS
      <4>1. b \in Windows /\ CoreOK(ws) /\ Windows \subseteq WindowId
        BY <1>1, RestoredIn, CoreWindows DEF WindowInv, CoreOK, Windows
      <4> HIDE DEF b
      <4>2. e.win = b /\ e.ws = ws
        BY <4>1, EnsureFacts DEF Windows
      <4>3. ws' = add_tab(ws, b, t)
        BY <3>1, <4>2
      <4>4. t \in TabId /\ t \notin ToSet(ws.tabs[b])
        BY <3>1, <4>1, FreshFacts DEF TabsIn
      <4> DEFINE r == add_tab(ws, b, t)
      <4>5. /\ r.tabs[b] = Append(ws.tabs[b], t)
            /\ \A v \in WindowId \ {b} : r.tabs[v] = ws.tabs[v]
        BY <4>1, <4>4, AddTabFacts
      <4>6. ws.tabs[b] \in Seq(TabId)
        BY <4>1, CoreWindows DEF CoreOK
      <4>7. ToSet(Append(ws.tabs[b], t)) = ToSet(ws.tabs[b]) \cup {t}
        BY <4>4, <4>6, AppendSet
      <4> HIDE DEF r
      <4>8. ToSet(ws.tabs[w]) \subseteq ToSet(r.tabs[w])
        <5>1. CASE w = b
          BY <4>5, <4>7, <5>1
        <5>2. CASE w # b
          BY <4>1, <4>5, <5>2
        <5> QED BY <5>1, <5>2
      <4> QED BY <4>3, <4>8 DEF TabsIn, r
    <3> QED BY <3>2, <3>3
  <2> QED BY <2>1, <2>3, <2>4 DEF Start
<1>2. ASSUME WindowInv, [WindowNext]_windowVars
      PROVE  [(~up /\ up' /\ persist) => (Kept /\ Same)]_windowVars
  BY <1>1, <1>2
<1> QED BY <1>2, WindowInvariant, PTL DEF WindowSpec, RestartKeepsTabs

-----------------------------------------------------------------------------
(* CommandsPage: the rows and the pane they act on                       *)

ShellOrNone == Shell \cup {NoShell}
Ran == [cmd : Cmd, pinned : BOOLEAN]
Row == [cmd : Cmd, pinned : BOOLEAN, from : ShellOrNone]
Button == [cmd : Cmd, from : ShellOrNone]
PageType ==
    [tracker : ShellOrNone, target : ShellOrNone, pinFor : ShellOrNone, rows : Seq(Row),
     list : Seq(Button), rebuild : BOOLEAN, term : Searches \cup {NoCmd}]

\* Only a page with a tracker has rows, all of them of its pane, and then a
\* click and a pin go to that pane.
Bound(pg) ==
    /\ pg.tracker # NoShell => pg.target = pg.tracker /\ pg.pinFor = pg.tracker
    /\ pg.tracker = NoShell => pg.rows = <<>>
    /\ \A i \in DOMAIN pg.rows : pg.rows[i].from = pg.tracker
ListDrawn(pg) == ~pg.rebuild => pg.list = Buttons(Filtering(Sorted(pg.rows), pg.term))
PageOK(pg) == pg \in PageType /\ Bound(pg) /\ ListDrawn(pg)
Trackers == [Shell -> Seq(Ran)]

LEMMA SortedFacts ==
    ASSUME NEW rl \in Seq(Row)
    PROVE  /\ Sorted(rl) \in Seq(Row) /\ ToSet(Sorted(rl)) = ToSet(rl)
           /\ Sorted(Sorted(rl)) = Sorted(rl)
<1> DEFINE A == {r \in ToSet(rl) : r.pinned}
           B == {r \in ToSet(rl) : ~r.pinned}
           a == Only(rl, A)
           b == Only(rl, B)
           s == a \o b
<1>1. A \cap B = {} /\ A \cup B = ToSet(rl) /\ ToSet(rl) \subseteq Row
  <2>1. ToSet(rl) \subseteq Row
    BY DEF ToSet
  <2> QED BY <2>1 DEF Row
<1>2. Sorted(rl) = s
  BY DEF Sorted
<1>3. a \in Seq(Row) /\ b \in Seq(Row) /\ ToSet(a) = ToSet(rl) \cap A /\ ToSet(b) = ToSet(rl) \cap B
  <2> HIDE DEF A, B
  <2> QED BY OnlySet
<1>4. ToSet(a) = A /\ ToSet(b) = B
  BY <1>3
<1>5. s \in Seq(Row) /\ ToSet(s) = ToSet(a) \cup ToSet(b)
  <2> HIDE DEF a, b
  <2> QED BY <1>3, ConcatSet
<1>6. {r \in ToSet(s) : r.pinned} = A /\ {r \in ToSet(s) : ~r.pinned} = B
  <2>1. ToSet(s) = ToSet(rl)
    BY <1>1, <1>4, <1>5
  <2> HIDE DEF s
  <2> QED BY <2>1
<1>7. Sorted(s) = Only(s, A) \o Only(s, B)
  <2> HIDE DEF A, B, s
  <2> QED BY <1>6 DEF Sorted
<1> HIDE DEF A, B
<1>8. Only(s, A) = Only(a, A) \o Only(b, A) /\ Only(s, B) = Only(a, B) \o Only(b, B)
  <2>1. a \in Seq(Row) /\ b \in Seq(Row)
    BY <1>3
  <2> HIDE DEF a, b
  <2>2. Only(a \o b, A) = Only(a, A) \o Only(b, A)
    BY <2>1, OnlyConcat
  <2>3. Only(a \o b, B) = Only(a, B) \o Only(b, B)
    BY <2>1, OnlyConcat
  <2> QED BY <2>2, <2>3
<1>9. Only(a, A) = a /\ Only(b, A) = <<>> /\ Only(a, B) = <<>> /\ Only(b, B) = b
  <2> HIDE DEF a, b
  <2>1. ToSet(a) \subseteq A /\ ToSet(b) \subseteq B /\ ToSet(b) \cap A = {} /\ ToSet(a) \cap B = {}
    BY <1>1, <1>4
  <2> QED BY <1>3, <2>1, OnlyAll
<1>10. a \o <<>> = a /\ <<>> \o b = b
  <2> HIDE DEF a, b
  <2> QED BY <1>3, ConcatEmptySeq
<1>11. Only(s, A) = a /\ Only(s, B) = b
  BY <1>8, <1>9, <1>10
<1>12. Sorted(s) = s
  BY <1>7, <1>11
<1>13. ToSet(s) = ToSet(rl)
  BY <1>1, <1>4, <1>5
<1> HIDE DEF s
<1> QED BY <1>2, <1>5, <1>12, <1>13

LEMMA FilteredFacts ==
    ASSUME NEW rl \in Seq(Row), NEW x
    PROVE  Filtering(rl, x) \in Seq(Row) /\ ToSet(Filtering(rl, x)) \subseteq ToSet(rl)
<1> DEFINE K == {r \in ToSet(rl) : x \in {NoCmd, r.cmd}}
<1>1. Only(rl, K) \in Seq(Row) /\ ToSet(Only(rl, K)) = ToSet(rl) \cap K
  <2> HIDE DEF K
  <2> QED BY OnlySet
<1> QED BY <1>1 DEF Filtering

LEMMA ButtonsTyped ==
    ASSUME NEW rl \in Seq(Row)
    PROVE  Buttons(rl) \in Seq(Button)
<1>1. Len(rl) \in Nat /\ DOMAIN rl = 1..Len(rl) /\ \A i \in 1..Len(rl) : rl[i] \in Row
  OBVIOUS
<1>2. \A i \in 1..Len(rl) : [cmd |-> rl[i].cmd, from |-> rl[i].from] \in Button
  BY <1>1 DEF Row, Button
<1> QED BY <1>1, <1>2 DEF Buttons

LEMMA RowsTyped ==
    ASSUME NEW es \in Seq(Ran), NEW p \in ShellOrNone
    PROVE  Rows(es, p) \in Seq(Row) /\ \A i \in DOMAIN Rows(es, p) : Rows(es, p)[i].from = p
<1>1. Len(es) \in Nat /\ DOMAIN es = 1..Len(es) /\ \A i \in 1..Len(es) : es[i] \in Ran
  OBVIOUS
<1> DEFINE R == Reverse(es)
<1>2. \A i \in 1..Len(es) : R[i] \in Ran
  <2> SUFFICES ASSUME NEW i \in 1..Len(es) PROVE R[i] \in Ran
    OBVIOUS
  <2>1. (Len(es) - i) + 1 \in 1..Len(es)
    BY <1>1
  <2>2. R[i] = es[(Len(es) - i) + 1]
    BY <1>1 DEF Reverse
  <2> QED BY <1>1, <2>1, <2>2
<1> HIDE DEF R
<1>3. \A i \in 1..Len(es) : [cmd |-> R[i].cmd, pinned |-> R[i].pinned, from |-> p] \in Row
  BY <1>2 DEF Row, Ran
<1>4. Rows(es, p) = [i \in 1..Len(es) |-> [cmd |-> R[i].cmd, pinned |-> R[i].pinned, from |-> p]]
  BY <1>1 DEF Rows, R
<1>5. Rows(es, p) \in Seq(Row)
  BY <1>1, <1>3, <1>4
<1> QED BY <1>4, <1>5

LEMMA RowsOfNone == ASSUME NEW p PROVE Rows(<<>>, p) = <<>>
BY DEF Rows

PageOf(p, g, c, rs, li, re, te) ==
    [tracker |-> p, target |-> g, pinFor |-> c, rows |-> rs, list |-> li, rebuild |-> re,
     term |-> te]

LEMMA PageFields ==
    ASSUME NEW p, NEW g, NEW c, NEW rs, NEW li, NEW re, NEW te, NEW q,
           q = PageOf(p, g, c, rs, li, re, te)
    PROVE  /\ q.tracker = p /\ q.target = g /\ q.pinFor = c /\ q.rows = rs /\ q.list = li
           /\ q.rebuild = re /\ q.term = te
           /\ (/\ p \in ShellOrNone /\ g \in ShellOrNone /\ c \in ShellOrNone /\ rs \in Seq(Row)
               /\ li \in Seq(Button) /\ re \in BOOLEAN /\ te \in Searches \cup {NoCmd})
              => q \in PageType
BY DEF PageOf, PageType

\* Tracker, target and pin callback name one pane.
Aimed(pg) == pg.tracker # NoShell => pg.target = pg.tracker /\ pg.pinFor = pg.tracker

LEMMA RefreshForm ==
    ASSUME NEW pg \in PageType, NEW es, NEW q, q = refresh_page(pg, es)
    PROVE  q = PageOf(pg.tracker, pg.target, pg.pinFor, Rows(es, pg.tracker), pg.list, TRUE,
                      pg.term)
<1> DEFINE rs == Rows(es, pg.tracker)
<1>1. q = [pg EXCEPT !.rows = rs, !.rebuild = TRUE]
  BY DEF refresh_page
<1> HIDE DEF rs
<1>2. q = PageOf(pg.tracker, pg.target, pg.pinFor, rs, pg.list, TRUE, pg.term)
  BY <1>1 DEF PageType, PageOf
<1> QED BY <1>2 DEF rs

\* Whatever page is refreshed from a tracker's entries is sound again.
LEMMA Refreshed ==
    ASSUME NEW pg \in PageType, NEW es \in Seq(Ran), Aimed(pg),
           pg.tracker = NoShell => es = <<>>
    PROVE  PageOK(refresh_page(pg, es))
<1> DEFINE p == pg.tracker
           rs == Rows(es, p)
           q == refresh_page(pg, es)
<1>1. p \in ShellOrNone /\ pg.target \in ShellOrNone /\ pg.pinFor \in ShellOrNone
      /\ pg.list \in Seq(Button) /\ pg.term \in Searches \cup {NoCmd}
  BY DEF PageType
<1>2. rs \in Seq(Row) /\ \A i \in DOMAIN rs : rs[i].from = p
  BY <1>1, RowsTyped
<1>3. p = NoShell => rs = <<>>
  BY RowsOfNone
<1>4. q = PageOf(pg.tracker, pg.target, pg.pinFor, rs, pg.list, TRUE, pg.term)
  BY RefreshForm
<1> HIDE DEF rs, q, p
<1>5. /\ q.tracker = pg.tracker /\ q.target = pg.target /\ q.pinFor = pg.pinFor /\ q.rows = rs
      /\ q.rebuild = TRUE
  BY <1>4 DEF PageOf
<1>6. q \in PageType
  <2>1. pg.tracker \in ShellOrNone
    BY <1>1 DEF p
  <2> QED BY <1>1, <1>2, <1>4, <2>1 DEF PageOf, PageType
<1>7. Bound(q) /\ ListDrawn(q)
  BY <1>2, <1>3, <1>5 DEF Bound, ListDrawn, Aimed, p
<1> QED BY <1>6, <1>7 DEF PageOK, q

Panes ==
    /\ tabOf \in [Shell -> Term \cup {NoTerm}] /\ rootOf \in [Term -> ShellOrNone]
    /\ lastClicked \in [Term -> ShellOrNone] /\ activeTerm \in Term \cup {NoTerm}
PageInv == Panes /\ ran \in Trackers /\ PageOK(page)

\* update_history_sidebar: a live clicked pane is what focused_pane returns,
\* so tracker, target and pin callback agree.
LEMMA Updated ==
    ASSUME Panes, NEW pg \in PageType, NEW t \in Term \cup {NoTerm}, NEW c \in ShellOrNone,
           NEW h \in Trackers
    PROVE  PageOK(update_history_sidebar(pg, t, c, h))
<1>0. /\ pg.tracker \in ShellOrNone /\ pg.target \in ShellOrNone /\ pg.pinFor \in ShellOrNone
      /\ pg.list \in Seq(Button) /\ pg.term \in Searches \cup {NoCmd} /\ pg.rows \in Seq(Row)
      /\ pg.rebuild \in BOOLEAN
  BY DEF PageType
<1>1. CASE t = NoTerm
  <2> DEFINE q == [pg EXCEPT !.tracker = NoShell, !.target = NoShell]
             e == <<>>
  <2>1. update_history_sidebar(pg, t, c, h) = refresh_page(q, e) /\ e \in Seq(Ran)
    BY <1>1 DEF update_history_sidebar
  <2>2. q = PageOf(NoShell, NoShell, pg.pinFor, pg.rows, pg.list, pg.rebuild, pg.term)
    <3>1. q = [pg EXCEPT !.tracker = NoShell, !.target = NoShell]
      OBVIOUS
    <3> HIDE DEF q
    <3> QED BY <3>1 DEF PageType, PageOf
  <2> HIDE DEF q
  <2>3. q \in PageType /\ q.tracker = NoShell
    BY <1>0, <2>2, PageFields DEF ShellOrNone
  <2>4. PageOK(refresh_page(q, e))
    BY <2>1, <2>3, Refreshed DEF Aimed
  <2> QED BY <2>1, <2>4
<1>2. CASE t # NoTerm
  <2> DEFINE p == IF Alive(c) THEN c ELSE NoShell
             f == focused_pane(t, c)
             g == IF f = NoShell THEN pg.target ELSE f
             es == IF p = NoShell THEN <<>> ELSE h[p]
             q == [pg EXCEPT !.tracker = p, !.target = IF f = NoShell THEN @ ELSE f,
                             !.pinFor = c]
  <2>1. p \in ShellOrNone /\ f \in ShellOrNone /\ g \in ShellOrNone
    BY <1>0, <1>2 DEF focused_pane, Alive, ShellOrNone, Panes
  <2>2. p # NoShell => f = p /\ c = p /\ g = p /\ p \in Shell
    BY PageAssumption DEF focused_pane, Alive, ShellOrNone
  <2>3. es \in Seq(Ran) /\ (p = NoShell => es = <<>>)
    <3>1. CASE p = NoShell
      BY <3>1
    <3>2. CASE p # NoShell
      BY <2>2, <3>2 DEF Trackers
    <3> QED BY <3>1, <3>2
  <2>4. update_history_sidebar(pg, t, c, h) = refresh_page(q, es)
    BY <1>2 DEF update_history_sidebar
  <2> HIDE DEF es, p, f
  <2>5. q = PageOf(p, g, c, pg.rows, pg.list, pg.rebuild, pg.term)
    <3>1. q = [pg EXCEPT !.tracker = p, !.target = g, !.pinFor = c]
      OBVIOUS
    <3> HIDE DEF q, g
    <3> QED BY <3>1 DEF PageType, PageOf
  <2> HIDE DEF q, g
  <2>6. q \in PageType /\ q.tracker = p /\ q.target = g /\ q.pinFor = c
    BY <1>0, <2>1, <2>5, PageFields
  <2>7. PageOK(refresh_page(q, es))
    BY <2>2, <2>3, <2>6, Refreshed DEF Aimed
  <2> QED BY <2>4, <2>7
<1> QED BY <1>1, <1>2

LEMMA UpdatedNow ==
    ASSUME Panes, NEW pg \in PageType, NEW h \in Trackers
    PROVE  PageOK(Update(pg, h))
<1>1. activeTerm \in Term \cup {NoTerm} /\ Clicked(activeTerm) \in ShellOrNone
  BY DEF Panes, Clicked, ShellOrNone
<1> QED BY <1>1, Updated DEF Update

\* Flagging entries leaves a cache a cache.
LEMMA Flagged ==
    ASSUME NEW es \in Seq(Ran), NEW H, NEW f \in BOOLEAN
    PROVE  [i \in DOMAIN es |-> IF i \in H THEN [es[i] EXCEPT !.pinned = f] ELSE es[i]] \in Seq(Ran)
<1>1. Len(es) \in Nat /\ DOMAIN es = 1..Len(es) /\ \A i \in 1..Len(es) : es[i] \in Ran
  OBVIOUS
<1>2. ASSUME NEW i \in 1..Len(es) PROVE [es[i] EXCEPT !.pinned = f] \in Ran
  <2>1. \A r \in Ran : [r EXCEPT !.pinned = f] \in Ran
    BY DEF Ran
  <2> QED BY <1>1, <2>1
<1> QED BY <1>1, <1>2

\* A page whose rows are put in order and drawn as they stand is sound.
LEMMA Redrawn ==
    ASSUME NEW pg, PageOK(pg), NEW rs \in Seq(Row), ToSet(rs) = ToSet(pg.rows),
           NEW li \in Seq(Button), li = Buttons(Filtering(Sorted(rs), pg.term)),
           NEW q, q = PageOf(pg.tracker, pg.target, pg.pinFor, rs, li, FALSE, pg.term)
    PROVE  PageOK(q)
<1>0. pg \in PageType /\ Bound(pg)
  BY DEF PageOK
<1>1. /\ q.tracker = pg.tracker /\ q.target = pg.target /\ q.pinFor = pg.pinFor /\ q.rows = rs
      /\ q.list = li /\ q.term = pg.term /\ q.rebuild = FALSE
  BY DEF PageOf
<1>2. q \in PageType
  <2>1. pg.tracker \in ShellOrNone /\ pg.target \in ShellOrNone /\ pg.pinFor \in ShellOrNone
        /\ pg.term \in Searches \cup {NoCmd}
    BY <1>0 DEF PageType
  <2> QED BY <2>1 DEF PageOf, PageType
<1>3. \A i \in DOMAIN rs : rs[i].from = pg.tracker
  <2> SUFFICES ASSUME NEW i \in DOMAIN rs PROVE rs[i].from = pg.tracker
    OBVIOUS
  <2>1. rs[i] \in ToSet(pg.rows)
    BY DEF ToSet
  <2>2. PICK j \in DOMAIN pg.rows : rs[i] = pg.rows[j]
    BY <2>1 DEF ToSet
  <2> QED BY <1>0, <2>2 DEF Bound
<1>4. pg.rows = <<>> => rs = <<>>
  <2>1. pg.rows = <<>> => ToSet(pg.rows) = {}
    BY DEF ToSet
  <2>2. ToSet(rs) = {} => DOMAIN rs = {}
    BY DEF ToSet
  <2>3. DOMAIN rs = {} => rs = <<>>
    BY EmptySeq
  <2> QED BY <2>1, <2>2, <2>3
<1>5. Bound(q)
  BY <1>0, <1>1, <1>3, <1>4 DEF Bound
<1>6. ListDrawn(q)
  BY <1>1 DEF ListDrawn
<1> QED BY <1>2, <1>5, <1>6 DEF PageOK

LEMMA RebuildForm ==
    ASSUME NEW pg \in PageType, NEW rs, NEW li, NEW q,
           q = [pg EXCEPT !.rebuild = FALSE, !.rows = rs, !.list = li]
    PROVE  q = PageOf(pg.tracker, pg.target, pg.pinFor, rs, li, FALSE, pg.term)
BY DEF PageType, PageOf

LEMMA RebuiltOK ==
    ASSUME PageOK(page), rebuild_list
    PROVE  PageOK(page')
<1> DEFINE rs == Sorted(page.rows)
           li == Buttons(Filtering(rs, page.term))
<1>1. page \in PageType /\ page.rows \in Seq(Row)
  BY DEF PageType, PageOK
<1>2. rs \in Seq(Row) /\ ToSet(rs) = ToSet(page.rows) /\ Sorted(rs) = rs
  BY <1>1, SortedFacts
<1>3. li \in Seq(Button) /\ li = Buttons(Filtering(Sorted(rs), page.term))
  <2> HIDE DEF rs
  <2> QED BY <1>2, FilteredFacts, ButtonsTyped
<1>4. page' = [page EXCEPT !.rebuild = FALSE, !.rows = rs, !.list = li]
  BY DEF rebuild_list
<1> HIDE DEF rs, li
<1>5. page' = PageOf(page.tracker, page.target, page.pinFor, rs, li, FALSE, page.term)
  BY <1>1, <1>4, RebuildForm
<1> QED BY <1>2, <1>3, <1>5, Redrawn

LEMMA SearchedOK ==
    ASSUME NEW pg, PageOK(pg), NEW c \in Searches \cup {NoCmd}, NEW q,
           q = [pg EXCEPT !.term = c, !.rebuild = TRUE]
    PROVE  PageOK(q)
<1>0. pg \in PageType /\ Bound(pg)
  BY DEF PageOK
<1>1. q = PageOf(pg.tracker, pg.target, pg.pinFor, pg.rows, pg.list, TRUE, c)
  BY <1>0 DEF PageType, PageOf
<1>2. /\ q.tracker = pg.tracker /\ q.target = pg.target /\ q.pinFor = pg.pinFor
      /\ q.rows = pg.rows /\ q.rebuild = TRUE
  BY <1>1 DEF PageOf
<1>3. q \in PageType
  BY <1>0, <1>1 DEF PageOf, PageType
<1>4. Bound(q) /\ ListDrawn(q)
  BY <1>0, <1>2 DEF Bound, ListDrawn
<1> QED BY <1>3, <1>4 DEF PageOK

LEMMA PageStart == PageInit => PageInv
<1> SUFFICES ASSUME PageInit PROVE PageInv
  OBVIOUS
<1> DEFINE t == CHOOSE u \in Term : TRUE
<1>1. t \in Term
  BY PageAssumption
<1> HIDE DEF t
<1>2. /\ tabOf = [q \in Shell |-> IF q = 1 THEN t ELSE NoTerm]
      /\ rootOf = [u \in Term |-> IF u = t THEN 1 ELSE NoShell]
      /\ lastClicked = [u \in Term |-> NoShell] /\ activeTerm = t
      /\ ran = [q \in Shell |-> <<>>]
      /\ page = PageOf(NoShell, NoShell, NoShell, <<>>, <<>>, TRUE, NoCmd)
  BY DEF PageInit, t, PageOf
<1>3. 1 \in Shell
  BY PageAssumption DEF Shell
<1>4. Panes
  BY <1>1, <1>2, <1>3 DEF Panes, ShellOrNone
<1>5. ran \in Trackers
  BY <1>2 DEF Trackers
<1>6. page \in PageType
  BY <1>2 DEF PageOf, PageType, ShellOrNone
<1>7. Bound(page) /\ ListDrawn(page)
  <2>1. page.tracker = NoShell /\ page.rows = <<>> /\ page.rebuild = TRUE
    BY <1>2 DEF PageOf
  <2> QED BY <2>1 DEF Bound, ListDrawn
<1> QED BY <1>4, <1>5, <1>6, <1>7 DEF PageInv, PageOK

LEMMA PageStep == PageInv /\ [PageNext]_pageVars => PageInv'
<1> SUFFICES ASSUME PageInv, [PageNext]_pageVars PROVE PageInv'
  OBVIOUS
<1>0. Panes /\ ran \in Trackers /\ PageOK(page) /\ page \in PageType
  BY DEF PageInv, PageOK
<1> USE DEF PageInv
<1>1. ASSUME NEW p \in Shell, ClickPane(p) PROVE PageInv'
  <2>1. activeTerm \in Term
    BY <1>0, <1>1, PageAssumption DEF ClickPane, Alive, Panes
  <2>2. PageOK(page') /\ ran' = ran
    BY <1>0, <1>1, Updated DEF ClickPane, Panes, ShellOrNone
  <2>3. Panes'
    BY <1>0, <1>1, <2>1 DEF ClickPane, Panes, ShellOrNone
  <2> QED BY <1>0, <2>2, <2>3
<1>2. ASSUME NEW p \in Shell, Notice(p) PROVE PageInv'
  <2> DEFINE es == ran[p]
             H == {i \in DOMAIN es : <<p, es[i].cmd>> \in pinned
                       /\ \A j \in i + 1 .. Len(es) : es[j].cmd # es[i].cmd}
             e == [i \in DOMAIN es |-> IF i \in H THEN [es[i] EXCEPT !.pinned = TRUE] ELSE es[i]]
             h == [ran EXCEPT ![p] = e]
  <2>1. es \in Seq(Ran)
    BY <1>0 DEF Trackers
  <2>2. e \in Seq(Ran)
    <3> HIDE DEF es, H
    <3> QED BY <2>1, Flagged
  <2>3. ran' = h /\ page' = Update(page, h)
    BY <1>2 DEF Notice
  <2>4. h \in Trackers
    <3> HIDE DEF e
    <3> QED BY <1>0, <2>2 DEF Trackers
  <2> HIDE DEF h
  <2>5. PageOK(page')
    BY <1>0, <2>3, <2>4, UpdatedNow
  <2>6. Panes'
    BY <1>0, <1>2 DEF Notice, Panes, paneState
  <2> QED BY <2>3, <2>4, <2>5, <2>6
<1>3. ASSUME NEW p \in Shell, NoticeOfClosed(p) PROVE PageInv'
  <2>1. page' \in {page, Update(page, ran)}
    BY <1>3 DEF NoticeOfClosed
  <2>2. PageOK(page')
    BY <1>0, <2>1, UpdatedNow
  <2> QED BY <1>0, <1>3, <2>2 DEF NoticeOfClosed, Panes, paneState
<1>4. ASSUME NEW p \in Shell, NEW c \in Cmd, Run(p, c) PROVE PageInv'
  <2>1. ran' = [ran EXCEPT ![p] = Append(ran[p], [cmd |-> c, pinned |-> FALSE])]
    BY <1>4 DEF Run
  <2>2. Append(ran[p], [cmd |-> c, pinned |-> FALSE]) \in Seq(Ran)
    <3>1. ran[p] \in Seq(Ran) /\ [cmd |-> c, pinned |-> FALSE] \in Ran
      BY <1>0 DEF Trackers, Ran
    <3> QED BY <3>1, AppendProperties
  <2>3. ran' \in Trackers
    BY <1>0, <2>1, <2>2 DEF Trackers
  <2> QED BY <1>0, <1>4, <2>3 DEF Run, Panes, paneState
<1>5. ASSUME NEW t \in Term, CloseTerm(t) PROVE PageInv'
  <2>1. Panes'
    BY <1>0, <1>5 DEF CloseTerm, Panes, ShellOrNone
  <2> QED BY <1>0, <1>5, <2>1 DEF CloseTerm
<1>6. ASSUME NEW t \in Term, NewTerm(t) PROVE PageInv'
  <2>1. Panes'
    BY <1>0, <1>6 DEF NewTerm, Panes, ShellOrNone
  <2> QED BY <1>0, <1>6, <2>1 DEF NewTerm
<1>7. ASSUME NEW t \in Term \cup {NoTerm}, ShowTab(t) PROVE PageInv'
  BY <1>0, <1>7 DEF ShowTab, Panes
<1>8. CASE Split
  <2>1. Panes'
    BY <1>0, <1>8 DEF Split, Panes, ShellOrNone
  <2>2. PageOK(page')
    BY <1>0, <1>8, Updated DEF Split, Panes, ShellOrNone
  <2> QED BY <1>0, <1>8, <2>1, <2>2 DEF Split
<1>9. CASE ClosePane1
  <2>1. Panes'
    BY <1>0, <1>9 DEF ClosePane1, Panes, ShellOrNone
  <2> QED BY <1>0, <1>9, <2>1 DEF ClosePane1
<1>10. CASE rebuild_list
  <2>1. PageOK(page')
    BY <1>0, <1>10, RebuiltOK
  <2> QED BY <1>0, <1>10, <2>1 DEF rebuild_list, Panes, paneState
<1>11. CASE CloseMenu
  BY <1>0, <1>11 DEF CloseMenu, Panes, paneState
<1>12. CASE Pin
  <2> DEFINE p == page.tracker
             es == ran[p]
             f == ~menu.unpin
             H == {i \in DOMAIN es : es[i].cmd = menu.cmd
                       /\ \A j \in i + 1 .. Len(es) : es[j].cmd # menu.cmd}
             e == [i \in DOMAIN es |-> IF i \in H THEN [es[i] EXCEPT !.pinned = f] ELSE es[i]]
             h == IF p = NoShell THEN ran ELSE [ran EXCEPT ![p] = e]
  <2>1. p \in ShellOrNone /\ (p # NoShell => p \in Shell)
    BY <1>0 DEF PageType, ShellOrNone
  <2>2. h \in Trackers
    <3>1. CASE p = NoShell
      BY <1>0, <3>1
    <3>2. CASE p # NoShell
      <4>1. es \in Seq(Ran) /\ f \in BOOLEAN
        BY <1>0, <2>1, <3>2 DEF Trackers
      <4>2. e \in Seq(Ran)
        <5> HIDE DEF es, H, f
        <5> QED BY <4>1, Flagged
      <4> HIDE DEF e
      <4> QED BY <1>0, <2>1, <3>2, <4>2 DEF Trackers
    <3> QED BY <3>1, <3>2
  <2>3. ran' = h
    BY <1>12 DEF Pin, pin_command
  <2>4. PICK x \in Readings(ran', p) : page' = refresh_page(page, x)
    BY <1>12 DEF Pin
  <2> HIDE DEF h
  <2>5. x \in Seq(Ran) /\ (p = NoShell => x = <<>>)
    <3>1. CASE p = NoShell
      BY <2>4, <3>1 DEF Readings
    <3>2. CASE p # NoShell
      <4>1. ran'[p] \in Seq(Ran)
        BY <2>1, <2>2, <2>3, <3>2 DEF Trackers
      <4>2. x = ran'[p] \/ x = <<>>
        BY <2>4, <3>2 DEF Readings
      <4> DEFINE y == ran'[p]
      <4> HIDE DEF y
      <4>3. y \in Seq(Ran) /\ (x = y \/ x = <<>>)
        BY <4>1, <4>2 DEF y
      <4>0. <<>> \in Seq(Ran)
        OBVIOUS
      <4>4. x \in Seq(Ran)
        BY <4>0, <4>3, Zenon
      <4> QED BY <3>2, <4>4
    <3> QED BY <3>1, <3>2
  <2>6. Aimed(page)
    BY <1>0 DEF PageOK, Bound, Aimed
  <2>7. PageOK(page')
    BY <1>0, <2>4, <2>5, <2>6, Refreshed
  <2>8. Panes'
    BY <1>0, <1>12 DEF Pin, Panes, paneState
  <2> QED BY <2>2, <2>3, <2>7, <2>8
<1>13. ASSUME NEW c \in Searches \cup {NoCmd}, apply_search_filter(c) PROVE PageInv'
  <2>1. PageOK(page')
    BY <1>0, <1>13, SearchedOK DEF apply_search_filter
  <2> QED BY <1>0, <1>13, <2>1 DEF apply_search_filter, Panes, paneState
<1>14. ASSUME NEW i \in 1..MaxRun, show_context_menu(i) PROVE PageInv'
  BY <1>0, <1>14 DEF show_context_menu, Panes, paneState
<1>15. CASE ShowCommands
  <2>1. PageOK(page')
    BY <1>0, <1>15, UpdatedNow DEF ShowCommands
  <2> QED BY <1>0, <1>15, <2>1 DEF ShowCommands, Panes, paneState
<1>16. CASE UNCHANGED pageVars
  BY <1>0, <1>16 DEF pageVars, Panes
<1> QED
  BY <1>1, <1>2, <1>3, <1>4, <1>5, <1>6, <1>7, <1>8, <1>9, <1>10, <1>11, <1>12, <1>13, <1>14,
     <1>15, <1>16 DEF PageNext

LEMMA PageActsRight == PageInv => RowsActOnTheirPane
<1> SUFFICES ASSUME PageInv, ~page.rebuild PROVE RowsActOnTheirPane
  BY DEF RowsActOnTheirPane
<1>0. page \in PageType /\ Bound(page) /\ ListDrawn(page)
  BY DEF PageInv, PageOK
<1> DEFINE rs == Sorted(page.rows)
           ks == Filtering(rs, page.term)
<1>1. page.rows \in Seq(Row)
  BY <1>0 DEF PageType
<1>2. rs \in Seq(Row) /\ ToSet(rs) = ToSet(page.rows)
  BY <1>1, SortedFacts
<1>3. ks \in Seq(Row) /\ ToSet(ks) \subseteq ToSet(rs)
  <2> HIDE DEF rs
  <2> QED BY <1>2, FilteredFacts
<1>4. page.list = Buttons(ks)
  BY <1>0 DEF ListDrawn
<1>5. ASSUME NEW i \in DOMAIN page.list
      PROVE  page.list[i].from = page.target /\ page.list[i].from = page.pinFor
  <2> HIDE DEF ks, rs
  <2>1. i \in DOMAIN ks /\ page.list[i].from = ks[i].from
    BY <1>4 DEF Buttons
  <2>2. ks[i] \in ToSet(page.rows)
    BY <1>2, <1>3, <2>1 DEF ToSet
  <2>3. PICK j \in DOMAIN page.rows : ks[i] = page.rows[j]
    BY <2>2 DEF ToSet
  <2>4. page.rows[j].from = page.tracker
    BY <1>0, <2>3 DEF Bound
  <2>5. page.tracker # NoShell
    <3>1. page.rows # <<>>
      BY <2>3
    <3> QED BY <1>0, <3>1 DEF Bound
  <2> QED BY <1>0, <2>1, <2>3, <2>4, <2>5 DEF Bound
<1> QED BY <1>4, <1>5 DEF RowsActOnTheirPane

\* Clicks, splits, closes, tab changes and history callbacks in any order:
\* a row on the screen is always of the pane a click types into and a pin
\* annotates (CommandsPage::rebuild_list, MainWindow::update_history_sidebar).
THEOREM RowsActRight == PageSpec => []RowsActOnTheirPane
<1>1. PageInit => PageInv
  BY PageStart
<1>2. PageInv /\ [PageNext]_pageVars => PageInv'
  BY PageStep
<1>3. PageInv => RowsActOnTheirPane
  BY PageActsRight
<1> QED BY <1>1, <1>2, <1>3, PTL DEF PageSpec

-----------------------------------------------------------------------------
(* PDF export: cutting the blocks into pages                               *)

LEMMA MinFacts ==
    ASSUME NEW X \in SUBSET Nat, X # {}
    PROVE  Min(X) \in X /\ \A y \in X : Min(X) <= y
<1>1. PICK x \in X : \A y \in X : x <= y
  BY LeastExists
<1> QED BY <1>1 DEF Min

LEMMA FillFacts ==
    ASSUME NEW b, Len(b) \in Nat, NEW c \in 1..Len(b)
    PROVE  /\ FillPage(b, c) \in c..Len(b)
           /\ \/ FillPage(b, c) = Len(b)
              \/ IsBreak(b, FillPage(b, c) + 1)
              \/ ~FitsFrom(b, c, FillPage(b, c) + 1)
           /\ \A k \in (c + 1)..FillPage(b, c) : ~IsBreak(b, k) /\ FitsFrom(b, c, k)
<1> DEFINE n == Len(b)
           X == {k \in c..n : k = n \/ IsBreak(b, k + 1) \/ ~FitsFrom(b, c, k + 1)}
           f == Min(X)
<1>1. FillPage(b, c) = f
  BY DEF FillPage
<1>2. n \in X /\ X \in SUBSET Nat
  OBVIOUS
<1>3. f \in X /\ \A y \in X : f <= y
  <2> HIDE DEF X
  <2> QED BY <1>2, MinFacts
<1> HIDE DEF f
<1>4. f \in c..n /\ (f = n \/ IsBreak(b, f + 1) \/ ~FitsFrom(b, c, f + 1))
  BY <1>3
<1>5. ASSUME NEW k \in (c + 1)..f PROVE ~IsBreak(b, k) /\ FitsFrom(b, c, k)
  <2>1. k - 1 \in c..n /\ ~(f <= k - 1) /\ k - 1 + 1 = k
    BY <1>4
  <2>2. k - 1 \notin X
    BY <1>3, <2>1
  <2> QED BY <2>1, <2>2
<1> QED BY <1>1, <1>4, <1>5

\* What holds of a page that starts with block c and ends with block e.
Runs(b, k) == k < Len(b) /\ ~IsBreak(b, k + 1)
PageGood(b, c, e) ==
    /\ c \in 1..Len(b) /\ e \in c..Len(b)
    /\ \A k \in c..e : ~IsBreak(b, k)
    /\ c < e => FitsFrom(b, c, e)
    /\ (Runs(b, e) /\ FitsFrom(b, c, e + 1)) =>
           b[e + 1].kind = "heading" /\ Runs(b, e + 1) /\ ~FitsFrom(b, c, e + 2)
    /\ (Runs(b, e) /\ b[e].kind = "heading") => c = e \/ b[e + 1].kind = "heading"

LEMMA EndFacts ==
    ASSUME NEW b, Len(b) \in Nat, NEW c \in 1..Len(b), ~IsBreak(b, c)
    PROVE  PageGood(b, c, PageEnd(b, c))
<1> DEFINE n == Len(b)
           f == FillPage(b, c)
           e == PageEnd(b, c)
           apart == Runs(b, f) /\ b[f].kind = "heading"
<1>1. /\ f \in c..n /\ (f = n \/ IsBreak(b, f + 1) \/ ~FitsFrom(b, c, f + 1))
      /\ \A k \in (c + 1)..f : ~IsBreak(b, k) /\ FitsFrom(b, c, k)
  BY FillFacts
<1>2. e = IF apart /\ f > c THEN f - 1 ELSE f
  BY DEF PageEnd, Runs
<1> HIDE DEF e, f
<1>3. n \in Nat
  OBVIOUS
<1>4. \A k \in c..f : ~IsBreak(b, k)
  BY <1>1
<1>5. CASE apart /\ f > c
  <2>1. e = f - 1 /\ e + 1 = f /\ e + 2 = f + 1 /\ e \in c..n
    BY <1>1, <1>2, <1>5
  <2>2. ~FitsFrom(b, c, f + 1)
    BY <1>1, <1>5 DEF Runs
  <2>3. c < e => FitsFrom(b, c, e)
    BY <1>1, <2>1
  <2>4. \A k \in c..e : ~IsBreak(b, k)
    BY <1>4, <2>1
  <2> QED BY <1>5, <2>1, <2>2, <2>3, <2>4 DEF PageGood, e
<1>6. CASE ~(apart /\ f > c)
  <2>1. e = f /\ (c < f => FitsFrom(b, c, f))
    BY <1>1, <1>2, <1>6
  <2>2. ~(Runs(b, f) /\ FitsFrom(b, c, f + 1))
    BY <1>1, <1>3 DEF Runs
  <2>3. apart => c = f
    BY <1>1, <1>6
  <2> QED BY <1>1, <1>4, <2>1, <2>2, <2>3 DEF PageGood, e
<1> QED BY <1>5, <1>6

-----------------------------------------------------------------------------
\* g is the table of the loop in paginate_blocks up to n pages.
Cuts(g, b, n) == g[0] = <<>> /\ \A i \in 1..n : g[i] = AddPage(b, g[i - 1])

LEMMA CutsExists ==
    ASSUME NEW n \in Nat, NEW b
    PROVE  \E g : DOMAIN g = 0..n /\ g = [i \in 0..n |-> g[i]] /\ Cuts(g, b, n)
<1> DEFINE Is(g, k) == DOMAIN g = 0..k /\ g = [i \in 0..k |-> g[i]] /\ Cuts(g, b, k)
           P == {k \in 0..n : \E g : Is(g, k)}
<1>1. 0 \in P
  <2> DEFINE g == [i \in 0..0 |-> <<>>]
  <2>1. Is(g, 0)
    BY DEF Cuts
  <2> QED BY <2>1
<1>2. ASSUME NEW k \in 1..n, k - 1 \in P PROVE k \in P
  <2>1. PICK g : Is(g, k - 1)
    BY <1>2
  <2> DEFINE h == [i \in 0..k |-> IF i < k THEN g[i] ELSE AddPage(b, g[k - 1])]
  <2>2. Is(h, k)
    <3>1. h[0] = <<>>
      BY <2>1 DEF Cuts
    <3>2. ASSUME NEW i \in 1..k PROVE h[i] = AddPage(b, h[i - 1])
      <4>1. CASE i < k
        BY <2>1, <4>1 DEF Cuts
      <4>2. CASE i = k
        BY <4>2
      <4> QED BY <4>1, <4>2
    <3> HIDE DEF h
    <3>3. Cuts(h, b, k)
      BY <3>1, <3>2 DEF Cuts
    <3>4. DOMAIN h = 0..k /\ h = [i \in 0..k |-> h[i]]
      BY DEF h
    <3> QED BY <3>3, <3>4
  <2> HIDE DEF Is
  <2> QED BY <2>2
<1> HIDE DEF P
<1>3. n \in P
  BY <1>1, <1>2, CountUp
<1> QED BY <1>3 DEF P

LEMMA PaginateTable ==
    ASSUME NEW b, Len(b) \in Nat
    PROVE  \E g : /\ Cuts(g, b, Len(b))
                  /\ paginate_blocks(b) = IF g[Len(b)] = <<>> THEN <<[first |-> 1, last |-> 1]>>
                                          ELSE g[Len(b)]
<1> DEFINE n == Len(b)
           Body(f) == [i \in 0..n |-> IF i = 0 THEN <<>> ELSE AddPage(b, f[i - 1])]
           f == CHOOSE g : g = Body(g)
<1>1. PICK g : DOMAIN g = 0..n /\ g = [i \in 0..n |-> g[i]] /\ Cuts(g, b, n)
  BY CutsExists
<1>2. g = Body(g)
  <2>1. ASSUME NEW i \in 0..n PROVE g[i] = Body(g)[i]
    BY <1>1 DEF Cuts
  <2> QED BY <1>1, <2>1
<1>3. f = Body(f)
  BY <1>2
<1>4. Cuts(f, b, n)
  <2>1. \A i \in 0..n : f[i] = Body(f)[i]
    BY <1>3, Zenon
  <2> HIDE DEF f
  <2> QED BY <2>1 DEF Cuts
<1>5. paginate_blocks(b) = IF f[n] = <<>> THEN <<[first |-> 1, last |-> 1]>> ELSE f[n]
  BY DEF paginate_blocks
<1> QED BY <1>4, <1>5

-----------------------------------------------------------------------------
\* Where the loop stands once it has made these pages, and what it has made.
Cursor(pages) == IF pages = <<>> THEN 1 ELSE pages[Len(pages)].last + 1
Ahead(b, pages) == {k \in Cursor(pages)..Len(b) : ~IsBreak(b, k)}
Slices(b) == [first : 1..Len(b), last : 1..Len(b)]
CutTo(b, pages) ==
    /\ pages \in Seq(Slices(b))
    /\ \A p \in DOMAIN pages : PageGood(b, pages[p].first, pages[p].last)
    /\ \A p, q \in DOMAIN pages : p < q => pages[p].last < pages[q].first
    /\ \A k \in 1..Len(b) : (~IsBreak(b, k) /\ k < Cursor(pages)) =>
           \E p \in DOMAIN pages : k \in pages[p].first..pages[p].last

LEMMA CursorFacts ==
    ASSUME NEW b, Len(b) \in Nat, NEW pages, CutTo(b, pages)
    PROVE  /\ Cursor(pages) \in 1..(Len(b) + 1)
           /\ \A p \in DOMAIN pages : pages[p].last < Cursor(pages)
<1>1. pages \in Seq(Slices(b)) /\ Len(pages) \in Nat /\ DOMAIN pages = 1..Len(pages)
  BY DEF CutTo
<1>2. CASE pages = <<>>
  <2>1. DOMAIN pages = {} /\ Cursor(pages) = 1
    BY <1>2 DEF Cursor
  <2> QED BY <2>1
<1>3. CASE pages # <<>>
  <2> DEFINE m == Len(pages)
  <2>1. m \in DOMAIN pages /\ m \in Nat
    BY <1>1, <1>3
  <2>2. pages[m] \in Slices(b) /\ Cursor(pages) = pages[m].last + 1
    BY <1>1, <1>3, <2>1 DEF Cursor
  <2>3. ASSUME NEW p \in DOMAIN pages PROVE pages[p].last <= pages[m].last
    <3>1. CASE p = m
      BY <2>2, <3>1 DEF Slices
    <3>2. CASE p < m
      <4>1. pages[p].last < pages[m].first /\ pages[m].first <= pages[m].last /\ pages[p] \in Slices(b)
        <5>1. PageGood(b, pages[m].first, pages[m].last)
          BY <2>1 DEF CutTo
        <5>2. pages[m].first <= pages[m].last
          BY <5>1 DEF PageGood
        <5>3. pages[p].last < pages[m].first
          BY <2>1, <3>2 DEF CutTo
        <5> QED BY <1>1, <5>2, <5>3
      <4> QED BY <2>2, <4>1 DEF Slices
    <3> QED BY <1>1, <2>1, <3>1, <3>2
  <2>4. ASSUME NEW p \in DOMAIN pages PROVE pages[p].last < Cursor(pages)
    <3>1. pages[p] \in Slices(b)
      BY <1>1
    <3> QED BY <2>2, <2>3, <3>1 DEF Slices
  <2> QED BY <2>2, <2>4 DEF Slices
<1> QED BY <1>2, <1>3

LEMMA AddPageStep ==
    ASSUME NEW b, Len(b) \in Nat, NEW pages, CutTo(b, pages)
    PROVE  /\ CutTo(b, AddPage(b, pages))
           /\ \/ AddPage(b, pages) = pages /\ Ahead(b, pages) = {}
              \/ Cursor(AddPage(b, pages)) > Cursor(pages)
<1> DEFINE n == Len(b)
           new == AddPage(b, pages)
           c == Min(Ahead(b, pages))
           e == PageEnd(b, c)
           sheet == [first |-> c, last |-> e]
<1>0. new = IF Ahead(b, pages) = {} THEN pages ELSE Append(pages, sheet)
  BY DEF AddPage, Ahead, Cursor
<1>1. Cursor(pages) \in 1..(n + 1) /\ \A p \in DOMAIN pages : pages[p].last < Cursor(pages)
  BY CursorFacts
<1>2. CASE Ahead(b, pages) = {}
  BY <1>0, <1>2
<1>3. CASE Ahead(b, pages) # {}
  <2>1. c \in Ahead(b, pages) /\ \A y \in Ahead(b, pages) : c <= y
    <3>1. Ahead(b, pages) \in SUBSET Nat
      BY <1>1 DEF Ahead
    <3> QED BY <1>3, <3>1, MinFacts
  <2> HIDE DEF c
  <2>2. c \in 1..n /\ c >= Cursor(pages) /\ ~IsBreak(b, c)
    BY <1>1, <2>1 DEF Ahead
  <2>3. PageGood(b, c, e)
    BY <2>2, EndFacts
  <2> HIDE DEF e
  <2>4. e \in c..n
    BY <2>3 DEF PageGood
  <2>5. sheet \in Slices(b) /\ sheet.first = c /\ sheet.last = e
    BY <2>2, <2>4 DEF Slices
  <2> HIDE DEF sheet
  <2> DEFINE m == Len(pages)
  <2>6. pages \in Seq(Slices(b)) /\ m \in Nat /\ DOMAIN pages = 1..m
    BY DEF CutTo
  <2>7. /\ new \in Seq(Slices(b)) /\ Len(new) = m + 1 /\ DOMAIN new = 1..(m + 1)
        /\ new[m + 1] = sheet /\ \A p \in 1..m : new[p] = pages[p]
    BY <1>0, <1>3, <2>5, <2>6, AppendProperties
  <2> HIDE DEF new, m
  <2>8. Cursor(new) = e + 1
    <3>1. new # <<>>
      BY <2>6, <2>7
    <3> QED BY <2>5, <2>7, <3>1 DEF Cursor
  <2>9. \A p \in DOMAIN new : PageGood(b, new[p].first, new[p].last)
    <3>1. \A p \in 1..m : PageGood(b, new[p].first, new[p].last)
      BY <2>6, <2>7 DEF CutTo
    <3>2. PageGood(b, new[m + 1].first, new[m + 1].last)
      BY <2>3, <2>5, <2>7
    <3> QED BY <2>6, <2>7, <3>1, <3>2
  <2>10. ASSUME NEW p \in DOMAIN new, NEW q \in DOMAIN new, p < q
         PROVE  new[p].last < new[q].first
    <3>1. CASE q = m + 1
      <4>1. p \in 1..m /\ new[p] = pages[p] /\ pages[p].last < Cursor(pages) /\ new[q].first = c
        BY <1>1, <2>5, <2>6, <2>7, <2>10, <3>1
      <4>2. pages[p] \in Slices(b)
        BY <2>6, <4>1
      <4> QED BY <1>1, <2>2, <4>1, <4>2 DEF Slices
    <3>2. CASE q # m + 1
      <4>1. p \in 1..m /\ q \in 1..m
        BY <2>6, <2>7, <2>10, <3>2
      <4> QED BY <2>6, <2>7, <2>10, <4>1 DEF CutTo
    <3> QED BY <3>1, <3>2
  <2>11. ASSUME NEW k \in 1..n, ~IsBreak(b, k), k < Cursor(new)
         PROVE  \E p \in DOMAIN new : k \in new[p].first..new[p].last
    <3>1. CASE k < Cursor(pages)
      <4>1. PICK p \in DOMAIN pages : k \in pages[p].first..pages[p].last
        BY <2>11, <3>1 DEF CutTo
      <4>2. p \in DOMAIN new /\ new[p] = pages[p]
        BY <2>6, <2>7
      <4> QED BY <4>1, <4>2
    <3>2. CASE ~(k < Cursor(pages))
      <4>1. k \in Ahead(b, pages)
        BY <1>1, <2>11, <3>2 DEF Ahead
      <4>2. k \in c..e
        BY <2>1, <2>2, <2>4, <2>8, <2>11, <4>1
      <4>3. m + 1 \in DOMAIN new
        BY <2>6, <2>7
      <4> QED BY <2>5, <2>7, <4>2, <4>3
    <3> QED BY <3>1, <3>2
  <2>12. CutTo(b, new)
    BY <2>7, <2>9, <2>10, <2>11 DEF CutTo
  <2>13. Cursor(new) > Cursor(pages)
    BY <1>1, <2>2, <2>4, <2>8
  <2> QED BY <2>12, <2>13 DEF new
<1> QED BY <1>2, <1>3

\* Whatever the blocks, the pages are good, in order, and hold every block
\* but the breaks.
LEMMA Paginated ==
    ASSUME NEW b, Len(b) \in Nat, \E k \in 1..Len(b) : ~IsBreak(b, k)
    PROVE  /\ CutTo(b, paginate_blocks(b))
           /\ \A k \in 1..Len(b) : ~IsBreak(b, k) =>
                  \E p \in DOMAIN paginate_blocks(b) :
                      k \in paginate_blocks(b)[p].first..paginate_blocks(b)[p].last
<1> DEFINE n == Len(b)
<1>1. PICK g : Cuts(g, b, n) /\ paginate_blocks(b) = IF g[n] = <<>> THEN <<[first |-> 1, last |-> 1]>>
                                                     ELSE g[n]
  BY PaginateTable
<1> DEFINE P == {i \in 0..n : CutTo(b, g[i]) /\ (Cursor(g[i]) > i \/ Ahead(b, g[i]) = {})}
<1>2. 0 \in P
  <2>1. g[0] = <<>>
    BY <1>1 DEF Cuts
  <2>2. CutTo(b, <<>>) /\ Cursor(<<>>) = 1
    BY DEF CutTo, Cursor
  <2> QED BY <2>1, <2>2
<1>3. ASSUME NEW i \in 1..n, i - 1 \in P PROVE i \in P
  <2> DEFINE old == g[i - 1]
             new == g[i]
  <2>1. new = AddPage(b, old) /\ CutTo(b, old) /\ (Cursor(old) > i - 1 \/ Ahead(b, old) = {})
    BY <1>1, <1>3 DEF Cuts
  <2> HIDE DEF old, new
  <2>2. /\ CutTo(b, new)
        /\ (new = old /\ Ahead(b, old) = {}) \/ Cursor(new) > Cursor(old)
    BY <2>1, AddPageStep
  <2>3. Cursor(old) \in Nat /\ Cursor(new) \in Nat
    BY <2>1, <2>2, CursorFacts
  <2>4. Ahead(b, old) = {} => Ahead(b, new) = {}
    BY <2>2, <2>3 DEF Ahead
  <2>5. Cursor(new) > i \/ Ahead(b, new) = {}
    BY <2>1, <2>2, <2>3, <2>4
  <2> QED BY <2>2, <2>5 DEF new
<1> HIDE DEF P
<1>4. n \in P
  <2>1. n \in Nat
    OBVIOUS
  <2> HIDE DEF n
  <2>2. 0..n \subseteq P
    BY <1>2, <1>3, <2>1, CountUp
  <2> QED BY <2>1, <2>2
<1> DEFINE cut == g[n]
<1>5. CutTo(b, cut) /\ (Cursor(cut) > n \/ Ahead(b, cut) = {})
  BY <1>4 DEF P
<1> HIDE DEF cut
<1>6. \A k \in 1..n : ~IsBreak(b, k) => \E p \in DOMAIN cut : k \in cut[p].first..cut[p].last
  <2>1. Cursor(cut) \in Nat
    BY <1>5, CursorFacts
  <2>2. \A k \in 1..n : ~IsBreak(b, k) => k < Cursor(cut)
    BY <1>5, <2>1 DEF Ahead
  <2> QED BY <1>5, <2>2 DEF CutTo
<1>7. cut # <<>>
  <2>1. PICK k \in 1..n : ~IsBreak(b, k)
    OBVIOUS
  <2>2. PICK p \in DOMAIN cut : TRUE
    BY <1>6, <2>1
  <2> QED BY <2>2
<1>8. paginate_blocks(b) = cut
  BY <1>1, <1>7 DEF cut
<1> QED BY <1>5, <1>6, <1>8

-----------------------------------------------------------------------------
(* Counting with filters                                                   *)

LEMMA FiniteBelow ==
    ASSUME NEW K, NEW m \in Nat
    PROVE  /\ IsFiniteSet(K \cap (1..m)) /\ Cardinality(K \cap (1..m)) \in Nat
           /\ Cardinality(K \cap (1..(m + 1))) =
                  IF m + 1 \in K THEN Cardinality(K \cap (1..m)) + 1 ELSE Cardinality(K \cap (1..m))
           /\ Cardinality(K \cap (1..0)) = 0
<1> DEFINE A == K \cap (1..m)
           B == K \cap (1..(m + 1))
<1>1. IsFiniteSet(1..m)
  BY FS_Interval
<1>2. IsFiniteSet(A)
  BY <1>1, FS_Subset
<1>3. Cardinality(A) \in Nat
  BY <1>2, FS_CardinalityType
<1>4. CASE m + 1 \in K
  <2>1. B = A \cup {m + 1} /\ m + 1 \notin A
    BY <1>4
  <2> HIDE DEF A, B
  <2>2. Cardinality(A \cup {m + 1}) = Cardinality(A) + 1
    BY <1>2, <2>1, FS_AddElement
  <2>3. Cardinality(B) = Cardinality(A) + 1
    BY <2>1, <2>2
  <2> QED BY <1>1, <1>2, <1>3, <1>4, <2>3, FS_EmptySet DEF A, B
<1>5. CASE m + 1 \notin K
  <2>1. B = A
    BY <1>5
  <2> HIDE DEF A, B
  <2>2. Cardinality(B) = Cardinality(A)
    BY <2>1
  <2> QED BY <1>2, <1>3, <1>5, <2>2, FS_EmptySet DEF A, B
<1> QED BY <1>4, <1>5

\* The k-th index that stays is the one with k of K up to it.
LEMMA OnlyCounts ==
    ASSUME NEW K, NEW m \in Nat
    PROVE  \A k \in DOMAIN Only(Upto(m), K) :
               /\ Only(Upto(m), K)[k] \in K \cap (1..m)
               /\ Cardinality(K \cap (1..Only(Upto(m), K)[k])) = k
<1> DEFINE a(i) == Only(Upto(i), K)
           C(i) == Cardinality(K \cap (1..i))
           Good(s, i) == /\ s \in Seq(Nat) /\ Len(s) = C(i)
                         /\ \A k \in 1..Len(s) : s[k] \in K \cap (1..i) /\ C(s[k]) = k
           P == {i \in 0..m : Good(a(i), i)}
<1>1. 0 \in P
  <2>1. a(0) = <<>>
    <3>1. Upto(0) = <<>>
      BY UptoFacts
    <3> QED BY <3>1, OnlyEmpty
  <2>2. C(0) = 0
    BY FiniteBelow
  <2>3. <<>> \in Seq(Nat) /\ Len(<<>>) = 0 /\ 1..0 = {}
    OBVIOUS
  <2>4. Good(<<>>, 0)
    BY <2>2, <2>3
  <2>5. 0 \in 0..m
    OBVIOUS
  <2> HIDE DEF Good, a
  <2> QED BY <2>1, <2>4, <2>5, Zenon
<1>2. ASSUME NEW i \in 1..m, i - 1 \in P PROVE i \in P
  <2> DEFINE s == a(i - 1)
             r == a(i)
             c == C(i - 1)
  <2>1. Good(s, i - 1)
    BY <1>2
  <2>2. /\ i - 1 \in Nat /\ i - 1 + 1 = i
    OBVIOUS
  <2>3. c \in Nat /\ C(i) = IF i \in K THEN c + 1 ELSE c
    <3> DEFINE j == i - 1
    <3>1. j \in Nat /\ j + 1 = i
      BY <2>2
    <3> HIDE DEF j
    <3>2. /\ Cardinality(K \cap (1..j)) \in Nat
          /\ Cardinality(K \cap (1..(j + 1))) =
                 IF j + 1 \in K THEN Cardinality(K \cap (1..j)) + 1 ELSE Cardinality(K \cap (1..j))
      BY <3>1, FiniteBelow
    <3>3. /\ Cardinality(K \cap (1..j)) \in Nat
          /\ Cardinality(K \cap (1..i)) =
                 IF i \in K THEN Cardinality(K \cap (1..j)) + 1 ELSE Cardinality(K \cap (1..j))
      BY <3>1, <3>2
    <3> QED BY <3>3 DEF j
  <2>4. r = IF i \in K THEN Append(s, i) ELSE s
    <3>1. Upto(i - 1) \in Seq(Nat) /\ Upto(i) = Append(Upto(i - 1), i)
      BY <2>2, UptoFacts
    <3> DEFINE u == Upto(i - 1)
    <3> HIDE DEF u
    <3>2. Only(Append(u, i), K) = IF i \in K THEN Append(Only(u, K), i) ELSE Only(u, K)
      <4>1. u \in Seq(Nat) /\ i \in Nat
        BY <3>1 DEF u
      <4> QED BY <4>1, OnlyAppend
    <3> QED BY <3>1, <3>2, Zenon DEF u
  <2> DEFINE D == C(i)
  <2> HIDE DEF C, c, r, s, a
  <2>5. s \in Seq(Nat) /\ Len(s) = c /\ (\A k \in 1..c : s[k] \in K \cap (1..(i - 1)) /\ C(s[k]) = k)
    BY <2>1 DEF c
  <2>6. ASSUME i \in K PROVE Good(r, i)
    <3>1. r = Append(s, i) /\ C(i) = c + 1
      BY <2>3, <2>4, <2>6
    <3>2. r \in Seq(Nat) /\ Len(r) = c + 1 /\ r[c + 1] = i /\ (\A k \in 1..c : r[k] = s[k])
      BY <2>3, <2>5, <3>1, AppendProperties
    <3>3. ASSUME NEW k \in 1..(c + 1) PROVE r[k] \in K \cap (1..i) /\ C(r[k]) = k
      <4>1. CASE k = c + 1
        BY <2>6, <3>1, <3>2, <4>1
      <4>2. CASE k \in 1..c
        BY <2>5, <3>2, <4>2
      <4> QED BY <2>3, <4>1, <4>2
    <3>4. Len(r) = C(i) /\ \A k \in 1..Len(r) : r[k] \in K \cap (1..i) /\ C(r[k]) = k
      BY <3>1, <3>2, <3>3
    <3> QED BY <3>2, <3>4
  <2>7. ASSUME i \notin K PROVE Good(r, i)
    <3>1. r = s /\ C(i) = c
      BY <2>3, <2>4, <2>7
    <3> QED BY <2>3, <2>5, <3>1
  <2> HIDE DEF Good
  <2>8. Good(r, i)
    BY <2>6, <2>7
  <2>9. i \in 0..m
    OBVIOUS
  <2> QED BY <2>8, <2>9 DEF r
<1> HIDE DEF P, a, Good
<1>3. m \in P
  BY <1>1, <1>2, CountUp
<1>4. Good(a(m), m)
  BY <1>3 DEF P
<1>5. \A k \in DOMAIN a(m) : a(m)[k] \in K \cap (1..m) /\ C(a(m)[k]) = k
  <2> HIDE DEF C
  <2> QED BY <1>4 DEF Good
<1> QED BY <1>5 DEF a

-----------------------------------------------------------------------------
(* Headings and their places                                               *)

OfKinds(doc, kinds) == {i \in DOMAIN doc : doc[i].kind \in kinds}

LEMMA PlacesFacts ==
    ASSUME NEW doc \in Seq(Nodes), NEW kinds
    PROVE  /\ Places(doc, kinds) \in Seq(Nat)
           /\ ToSet(Places(doc, kinds)) = OfKinds(doc, kinds)
           /\ \A k \in DOMAIN Places(doc, kinds) :
                  /\ Places(doc, kinds)[k] \in OfKinds(doc, kinds)
                  /\ Cardinality(OfKinds(doc, kinds) \cap (1..Places(doc, kinds)[k])) = k
<1> DEFINE n == Len(doc)
           K == OfKinds(doc, kinds)
           at == Places(doc, kinds)
<1>1. DOMAIN doc = 1..n /\ n \in Nat /\ [i \in DOMAIN doc |-> i] = Upto(n) /\ K \subseteq 1..n
  BY DEF Upto, OfKinds
<1>2. at = Only(Upto(n), K)
  BY <1>1 DEF Places, OfKinds
<1>3. Upto(n) \in Seq(Nat) /\ ToSet(Upto(n)) = 1..n
  BY <1>1, UptoFacts
<1> HIDE DEF n, K, at
<1>4. at \in Seq(Nat) /\ ToSet(at) = ToSet(Upto(n)) \cap K
  BY <1>2, <1>3, OnlySet
<1>5. \A k \in DOMAIN at : at[k] \in K \cap (1..n) /\ Cardinality(K \cap (1..at[k])) = k
  <2>1. \A k \in DOMAIN Only(Upto(n), K) :
               /\ Only(Upto(n), K)[k] \in K \cap (1..n)
               /\ Cardinality(K \cap (1..Only(Upto(n), K)[k])) = k
    BY <1>1, OnlyCounts
  <2> QED BY <1>2, <2>1
<1>6. ToSet(at) = K
  BY <1>1, <1>3, <1>4
<1> QED BY <1>4, <1>5, <1>6 DEF at, K

Headed == {"heading", "quoted"}

LEMMA HeadingsFacts ==
    ASSUME NEW doc \in Seq(Nodes)
    PROVE  /\ headings(doc) \in Seq(Nodes)
           /\ DOMAIN headings(doc) = DOMAIN Places(doc, Headed)
           /\ \A k \in DOMAIN headings(doc) :
                  /\ headings(doc)[k] = doc[Places(doc, Headed)[k]]
                  /\ headings(doc)[k].level \in 1..6
<1> DEFINE at == Places(doc, Headed)
           hs == headings(doc)
<1>1. at \in Seq(Nat) /\ \A k \in DOMAIN at : at[k] \in OfKinds(doc, Headed)
  BY PlacesFacts
<1>2. hs = [k \in DOMAIN at |-> doc[at[k]]]
  BY DEF headings, Headed
<1> HIDE DEF at, hs
<1>3. ASSUME NEW k \in DOMAIN at PROVE doc[at[k]] \in Nodes /\ doc[at[k]].kind \in Headed
  BY <1>1 DEF OfKinds
<1>4. DOMAIN hs = DOMAIN at /\ \A k \in DOMAIN hs : hs[k] = doc[at[k]]
  BY <1>2
<1>5. hs \in Seq(Nodes)
  <2> DEFINE n == Len(at)
  <2>1. n \in Nat /\ DOMAIN at = 1..n
    BY <1>1
  <2> HIDE DEF n
  <2>2. hs \in [1..n -> Nodes]
    BY <1>2, <1>3, <2>1
  <2> QED BY <2>1, <2>2
<1>6. ASSUME NEW k \in DOMAIN hs PROVE hs[k].level \in 1..6
  BY <1>3, <1>4, PdfAssumption DEF Headed
<1> QED BY <1>4, <1>5, <1>6 DEF at, hs

-----------------------------------------------------------------------------
(* Layout                                                                  *)

\* x is a row of the contents, x the block of the heading at i, and what a
\* block may be.
RowOf(x, doc, tp) == \E k \in DOMAIN headings(doc) : x = TocRow(headings(doc), k, tp[k])
HeadOf(x, doc, i) ==
    /\ doc[i].kind = "heading" /\ x.kind = "heading" /\ x.of = i
    /\ x.anchor = heading_anchor(doc, i)
BlockOf(x, doc, tp) ==
    /\ x.kind = "row" => RowOf(x, doc, tp)
    /\ x.kind = "heading" => \E i \in DOMAIN doc : HeadOf(x, doc, i)
Same(x, y) == x.kind = y.kind /\ x.h = y.h /\ x.of = y.of

LEMMA EmitFacts ==
    ASSUME NEW doc \in Seq(Nodes), NEW tp, NEW i \in DOMAIN doc
    PROVE  /\ emit_node(doc, tp, i) \in Seq(ToSet(emit_node(doc, tp, i)))
           /\ \A x \in ToSet(emit_node(doc, tp, i)) : BlockOf(x, doc, tp)
           /\ doc[i].kind = "heading" => \E x \in ToSet(emit_node(doc, tp, i)) : HeadOf(x, doc, i)
<1> DEFINE hs == headings(doc)
           e == emit_node(doc, tp, i)
           one == [kind |-> "heading", h |-> doc[i].height, anchor |-> heading_anchor(doc, i), of |-> i]
           other == [kind |-> doc[i].kind, h |-> doc[i].height, of |-> i]
           lines == [k \in DOMAIN hs |-> TocRow(hs, k, tp[k])]
<1>0. e = CASE doc[i].kind = "toc" -> lines
            [] doc[i].kind = "heading" -> <<one>>
            [] OTHER -> <<other>>
  BY DEF emit_node
<1>1. \A x : ToSet(<<x>>) = {x} /\ <<x>> \in Seq({x})
  BY DEF ToSet
<1>2. CASE doc[i].kind = "toc"
  <2>1. e = lines
    BY <1>0, <1>2
  <2>2. hs \in Seq(Nodes) /\ Len(hs) \in Nat /\ DOMAIN hs = 1..Len(hs)
    BY HeadingsFacts
  <2> HIDE DEF e
  <2>3. DOMAIN e = 1..Len(hs) /\ \A k \in DOMAIN e : e[k] = TocRow(hs, k, tp[k])
    BY <2>1, <2>2
  <2>4. e = [k \in 1..Len(hs) |-> e[k]] /\ \A k \in 1..Len(hs) : e[k] \in ToSet(e)
    BY <2>1, <2>2, <2>3 DEF ToSet
  <2>5. e \in Seq(ToSet(e))
    BY <2>2, <2>4
  <2>6. ASSUME NEW x \in ToSet(e) PROVE BlockOf(x, doc, tp)
    <3>1. PICK k \in DOMAIN e : x = e[k]
      BY DEF ToSet
    <3>2. k \in DOMAIN hs /\ x = TocRow(hs, k, tp[k])
      BY <2>2, <2>3, <3>1
    <3>3. x.kind = "row"
      BY <3>2 DEF TocRow
    <3> QED BY <3>2, <3>3 DEF BlockOf, RowOf
  <2> QED BY <1>2, <2>5, <2>6 DEF e
<1>3. CASE doc[i].kind = "heading"
  <2>1. e = <<one>>
    BY <1>0, <1>3
  <2>2. HeadOf(one, doc, i) /\ one.kind = "heading"
    BY <1>3 DEF HeadOf
  <2>3. BlockOf(one, doc, tp)
    BY <2>2 DEF BlockOf
  <2> HIDE DEF e, one
  <2>4. ToSet(e) = {one} /\ e \in Seq({one})
    BY <1>1, <2>1
  <2> QED BY <2>2, <2>3, <2>4 DEF e
<1>4. CASE doc[i].kind # "toc" /\ doc[i].kind # "heading"
  <2>1. e = <<other>>
    BY <1>0, <1>4
  <2>2. other.kind = doc[i].kind /\ doc[i].kind # "row"
    BY PdfAssumption
  <2>3. BlockOf(other, doc, tp)
    BY <1>4, <2>2 DEF BlockOf
  <2> HIDE DEF e, other
  <2>4. ToSet(e) = {other} /\ e \in Seq({other})
    BY <1>1, <2>1
  <2> QED BY <1>4, <2>3, <2>4 DEF e
<1> QED BY <1>2, <1>3, <1>4

\* The page numbers change no kind and no height.
LEMMA EmitAlike ==
    ASSUME NEW doc \in Seq(Nodes), NEW tp, NEW tq, NEW i \in DOMAIN doc
    PROVE  /\ Len(emit_node(doc, tp, i)) = Len(emit_node(doc, tq, i))
           /\ \A k \in 1..Len(emit_node(doc, tp, i)) :
                  Same(emit_node(doc, tp, i)[k], emit_node(doc, tq, i)[k])
<1> DEFINE hs == headings(doc)
           d == emit_node(doc, tp, i)
           e == emit_node(doc, tq, i)
<1>1. CASE doc[i].kind = "toc"
  <2>1. /\ d = [k \in DOMAIN hs |-> TocRow(hs, k, tp[k])]
        /\ e = [k \in DOMAIN hs |-> TocRow(hs, k, tq[k])]
    BY <1>1 DEF emit_node
  <2>2. hs \in Seq(Nodes) /\ Len(hs) \in Nat /\ DOMAIN hs = 1..Len(hs)
    BY HeadingsFacts
  <2> HIDE DEF d, e, hs
  <2>3. Len(d) = Len(hs) /\ Len(e) = Len(hs)
    BY <2>1, <2>2
  <2>4. ASSUME NEW k \in 1..Len(hs) PROVE Same(d[k], e[k])
    <3>1. d[k] = TocRow(hs, k, tp[k]) /\ e[k] = TocRow(hs, k, tq[k])
      BY <2>1, <2>2
    <3> QED BY <3>1 DEF Same, TocRow
  <2> QED BY <2>3, <2>4 DEF d, e
<1>2. CASE doc[i].kind # "toc"
  <2>1. d = e
    BY <1>2 DEF emit_node
  <2> QED BY <2>1 DEF Same
<1> QED BY <1>1, <1>2

\* g is the table of the loop in layout_document up to n nodes.
LaidOn(bs, doc, tp, i) == bs \o emit_node(doc, tp, i)
Lays(g, doc, tp, n) == g[0] = <<>> /\ \A i \in 1..n : g[i] = LaidOn(g[i - 1], doc, tp, i)

LEMMA LaysExists ==
    ASSUME NEW n \in Nat, NEW doc, NEW tp
    PROVE  \E g : DOMAIN g = 0..n /\ g = [i \in 0..n |-> g[i]] /\ Lays(g, doc, tp, n)
<1> DEFINE Is(g, k) == DOMAIN g = 0..k /\ g = [i \in 0..k |-> g[i]] /\ Lays(g, doc, tp, k)
           P == {k \in 0..n : \E g : Is(g, k)}
<1>1. 0 \in P
  <2> DEFINE g == [i \in 0..0 |-> <<>>]
  <2>1. Is(g, 0)
    BY DEF Lays
  <2> QED BY <2>1
<1>2. ASSUME NEW k \in 1..n, k - 1 \in P PROVE k \in P
  <2>1. PICK g : Is(g, k - 1)
    BY <1>2
  <2> DEFINE h == [i \in 0..k |-> IF i < k THEN g[i] ELSE LaidOn(g[k - 1], doc, tp, k)]
  <2>2. Is(h, k)
    <3>1. h[0] = <<>>
      BY <2>1 DEF Lays
    <3>2. ASSUME NEW i \in 1..k PROVE h[i] = LaidOn(h[i - 1], doc, tp, i)
      <4>1. CASE i < k
        BY <2>1, <4>1 DEF Lays
      <4>2. CASE i = k
        BY <4>2
      <4> QED BY <4>1, <4>2
    <3> HIDE DEF h
    <3>3. Lays(h, doc, tp, k)
      BY <3>1, <3>2 DEF Lays
    <3>4. DOMAIN h = 0..k /\ h = [i \in 0..k |-> h[i]]
      BY DEF h
    <3> QED BY <3>3, <3>4
  <2> HIDE DEF Is
  <2> QED BY <2>2
<1> HIDE DEF P
<1>3. n \in P
  BY <1>1, <1>2, CountUp
<1> QED BY <1>3 DEF P

LEMMA LayoutTable ==
    ASSUME NEW doc \in Seq(Nodes), NEW tp
    PROVE  \E g : Lays(g, doc, tp, Len(doc)) /\ layout_document(doc, tp) = g[Len(doc)]
<1> DEFINE n == Len(doc)
           Body(f) == [i \in 0..n |-> IF i = 0 THEN <<>> ELSE LaidOn(f[i - 1], doc, tp, i)]
           f == CHOOSE g : g = Body(g)
<1>0. n \in Nat
  OBVIOUS
<1>1. PICK g : DOMAIN g = 0..n /\ g = [i \in 0..n |-> g[i]] /\ Lays(g, doc, tp, n)
  BY <1>0, LaysExists
<1>2. g = Body(g)
  <2>1. ASSUME NEW i \in 0..n PROVE g[i] = Body(g)[i]
    BY <1>1 DEF Lays
  <2> QED BY <1>1, <2>1
<1>3. f = Body(f)
  BY <1>2
<1>4. Lays(f, doc, tp, n)
  <2>1. \A i \in 0..n : f[i] = Body(f)[i]
    BY <1>3, Zenon
  <2> HIDE DEF f
  <2> QED BY <1>0, <2>1 DEF Lays
<1>5. layout_document(doc, tp) = f[n]
  BY DEF layout_document, LaidOn
<1> QED BY <1>4, <1>5

\* Everything a node can become.
Emitted(doc, tp) == UNION {ToSet(emit_node(doc, tp, i)) : i \in DOMAIN doc}

LEMMA EmittedSeq ==
    ASSUME NEW doc \in Seq(Nodes), NEW tp, NEW i \in DOMAIN doc
    PROVE  emit_node(doc, tp, i) \in Seq(Emitted(doc, tp))
<1> DEFINE e == emit_node(doc, tp, i)
           S == Emitted(doc, tp)
<1>1. e \in Seq(ToSet(e))
  BY EmitFacts
<1>2. ToSet(e) \subseteq S
  BY DEF Emitted
<1> HIDE DEF e, S
<1>3. Len(e) \in Nat /\ e = [k \in 1..Len(e) |-> e[k]] /\ \A k \in 1..Len(e) : e[k] \in S
  BY <1>1, <1>2
<1>4. e \in Seq(S)
  BY <1>3
<1> QED BY <1>4 DEF e, S

LEMMA LaidOut ==
    ASSUME NEW doc \in Seq(Nodes), NEW tp
    PROVE  /\ layout_document(doc, tp) \in Seq(Emitted(doc, tp))
           /\ ToSet(layout_document(doc, tp)) = Emitted(doc, tp)
<1> DEFINE n == Len(doc)
           S == Emitted(doc, tp)
           E(i) == ToSet(emit_node(doc, tp, i))
<1>1. PICK g : Lays(g, doc, tp, n) /\ layout_document(doc, tp) = g[n]
  BY LayoutTable
<1> DEFINE P == {i \in 0..n : g[i] \in Seq(S) /\ ToSet(g[i]) = UNION {E(j) : j \in 1..i}}
<1>2. n \in Nat /\ DOMAIN doc = 1..n
  OBVIOUS
<1>3. 0 \in P
  <2>1. g[0] = <<>>
    BY <1>1 DEF Lays
  <2>2. <<>> \in Seq(S)
    OBVIOUS
  <2>3. ToSet(<<>>) = {} /\ UNION {E(j) : j \in 1..0} = {}
    BY DEF ToSet
  <2>4. g[0] \in Seq(S) /\ ToSet(g[0]) = UNION {E(j) : j \in 1..0}
    BY <2>1, <2>2, <2>3, Zenon
  <2>5. 0 \in 0..n
    BY <1>2
  <2> QED BY <2>4, <2>5, Zenon
<1>4. ASSUME NEW i \in 1..n, i - 1 \in P PROVE i \in P
  <2> DEFINE a == g[i - 1]
             b == emit_node(doc, tp, i)
             A == UNION {E(j) : j \in 1..(i - 1)}
             B == UNION {E(j) : j \in 1..i}
  <2>1. a \in Seq(S) /\ ToSet(a) = A
    BY <1>4
  <2>2. b \in Seq(S)
    BY <1>2, EmittedSeq
  <2>3. g[i] = a \o b
    BY <1>1 DEF Lays, LaidOn
  <2>4. B = A \cup E(i)
    <3>1. 1..i = (1..(i - 1)) \cup {i}
      BY <1>2
    <3> HIDE DEF E
    <3> QED BY <3>1
  <2> HIDE DEF a, b, S
  <2>5. a \o b \in Seq(S) /\ ToSet(a \o b) = ToSet(a) \cup ToSet(b)
    BY <2>1, <2>2, ConcatSet
  <2>6. ToSet(b) = E(i)
    BY DEF b
  <2> HIDE DEF A, B, E
  <2>7. g[i] \in Seq(S) /\ ToSet(g[i]) = B
    BY <2>1, <2>3, <2>4, <2>5, <2>6
  <2>8. i \in 0..n
    BY <1>2
  <2> QED BY <2>7, <2>8, Zenon DEF B
<1> HIDE DEF P
<1>5. n \in P
  <2> HIDE DEF n
  <2>1. 0..n \subseteq P
    BY <1>2, <1>3, <1>4, CountUp
  <2> QED BY <1>2, <2>1
<1>6. g[n] \in Seq(S) /\ ToSet(g[n]) = UNION {E(j) : j \in 1..n}
  BY <1>5, Zenon DEF P
<1>7. S = UNION {E(j) : j \in 1..n}
  BY <1>2, Zenon DEF Emitted
<1> QED BY <1>1, <1>6, <1>7, Zenon

\* Two layouts of a note differ in the numbers of the contents only.
LEMMA LaidAlike ==
    ASSUME NEW doc \in Seq(Nodes), NEW tp, NEW tq
    PROVE  /\ Len(layout_document(doc, tp)) = Len(layout_document(doc, tq))
           /\ \A k \in 1..Len(layout_document(doc, tp)) :
                  Same(layout_document(doc, tp)[k], layout_document(doc, tq)[k])
<1> DEFINE n == Len(doc)
           S == Emitted(doc, tp)
           T == Emitted(doc, tq)
<1>1. PICK g : Lays(g, doc, tp, n) /\ layout_document(doc, tp) = g[n]
  BY LayoutTable
<1>2. PICK h : Lays(h, doc, tq, n) /\ layout_document(doc, tq) = h[n]
  BY LayoutTable
<1> DEFINE Match(a, b) == /\ a \in Seq(S) /\ b \in Seq(T) /\ Len(a) = Len(b)
                          /\ \A k \in 1..Len(a) : Same(a[k], b[k])
           P == {i \in 0..n : Match(g[i], h[i])}
<1>3. n \in Nat /\ DOMAIN doc = 1..n
  OBVIOUS
<1>4. 0 \in P
  <2>1. g[0] = <<>> /\ h[0] = <<>>
    BY <1>1, <1>2 DEF Lays
  <2>2. <<>> \in Seq(S) /\ <<>> \in Seq(T) /\ Len(<<>>) = 0 /\ 1..0 = {}
    OBVIOUS
  <2>3. Match(<<>>, <<>>)
    <3> DEFINE e == <<>>
    <3>1. e \in Seq(S) /\ e \in Seq(T) /\ Len(e) = 0
      BY <2>2
    <3> HIDE DEF e
    <3>2. Match(e, e)
      BY <3>1
    <3> QED BY <3>2 DEF e
  <2>4. 0 \in 0..n
    BY <1>3
  <2> HIDE DEF Match
  <2> QED BY <2>1, <2>3, <2>4, Zenon
<1>5. ASSUME NEW i \in 1..n, i - 1 \in P PROVE i \in P
  <2> DEFINE a == g[i - 1]
             b == h[i - 1]
             c == emit_node(doc, tp, i)
             d == emit_node(doc, tq, i)
  <2>1. Match(a, b)
    BY <1>5
  <2>2. c \in Seq(S) /\ d \in Seq(T)
    BY <1>3, EmittedSeq
  <2>3. Len(c) = Len(d) /\ \A k \in 1..Len(c) : Same(c[k], d[k])
    BY <1>3, EmitAlike
  <2>4. g[i] = a \o c /\ h[i] = b \o d
    BY <1>1, <1>2 DEF Lays, LaidOn
  <2> HIDE DEF a, b, c, d, S, T
  <2> DEFINE la == Len(a)
             lc == Len(c)
             u == a \o c
             v == b \o d
  <2>5. la \in Nat /\ lc \in Nat /\ Len(b) = la /\ Len(d) = lc
    BY <2>1, <2>2, <2>3
  <2>6. /\ u \in Seq(S) /\ Len(u) = la + lc
        /\ \A k \in 1..(la + lc) : u[k] = IF k <= la THEN a[k] ELSE c[k - la]
    BY <2>1, <2>2, ConcatProperties
  <2>7. /\ v \in Seq(T) /\ Len(v) = la + lc
        /\ \A k \in 1..(la + lc) : v[k] = IF k <= la THEN b[k] ELSE d[k - la]
    <3>1. /\ v \in Seq(T) /\ Len(v) = Len(b) + Len(d)
          /\ \A k \in 1..(Len(b) + Len(d)) : v[k] = IF k <= Len(b) THEN b[k] ELSE d[k - Len(b)]
      BY <2>1, <2>2, ConcatProperties
    <3> HIDE DEF v, la, lc
    <3> QED BY <2>5, <3>1
  <2>8. \A k \in 1..la : Same(a[k], b[k])
    BY <2>1
  <2> HIDE DEF u, v, la, lc
  <2>9. \A k \in 1..lc : Same(c[k], d[k])
    BY <2>3 DEF lc
  <2>10. ASSUME NEW k \in 1..(la + lc) PROVE Same(u[k], v[k])
    <3>1. CASE k <= la
      BY <2>5, <2>6, <2>7, <2>8, <3>1
    <3>2. CASE ~(k <= la)
      <4>1. k - la \in 1..lc
        BY <2>5, <3>2
      <4>2. u[k] = c[k - la] /\ v[k] = d[k - la]
        BY <2>6, <2>7, <3>2
      <4> QED BY <2>9, <4>1, <4>2
    <3> QED BY <3>1, <3>2
  <2>11. Match(u, v)
    BY <2>6, <2>7, <2>10
  <2>12. i \in 0..n /\ g[i] = u /\ h[i] = v
    BY <1>3, <2>4 DEF u, v
  <2> HIDE DEF Match
  <2> QED BY <2>11, <2>12, Zenon
<1> HIDE DEF P, Match
<1>6. n \in P
  <2> HIDE DEF n
  <2>1. 0..n \subseteq P
    BY <1>3, <1>4, <1>5, CountUp
  <2> QED BY <1>3, <2>1
<1>7. Match(g[n], h[n])
  BY <1>6 DEF P
<1> QED BY <1>1, <1>2, <1>7 DEF Match

-----------------------------------------------------------------------------
\* Blocks that the paginator cannot tell apart.
Alike(a, b) ==
    /\ Len(a) \in Nat /\ Len(b) = Len(a) /\ DOMAIN a = 1..Len(a) /\ DOMAIN b = 1..Len(a)
    /\ \A k \in 1..Len(a) : Same(a[k], b[k])

LEMMA FitsAlike ==
    ASSUME NEW a, NEW b, Alike(a, b), NEW c, NEW k \in 1..Len(a)
    PROVE  IsBreak(a, k) = IsBreak(b, k) /\ FitsFrom(a, c, k) = FitsFrom(b, c, k)
<1>1. \A j \in 1..Len(a) : a[j].h = b[j].h /\ a[j].kind = b[j].kind
  BY DEF Alike, Same
<1>2. Heights(a) = Heights(b)
  BY <1>1 DEF Heights, Alike
<1> QED BY <1>1, <1>2 DEF IsBreak, FitsFrom

LEMMA EndAlike ==
    ASSUME NEW a, NEW b, Alike(a, b), NEW c \in 1..Len(a)
    PROVE  PageEnd(a, c) = PageEnd(b, c)
<1> DEFINE n == Len(a)
           X == {k \in c..n : k = n \/ IsBreak(a, k + 1) \/ ~FitsFrom(a, c, k + 1)}
           Y == {k \in c..n : k = n \/ IsBreak(b, k + 1) \/ ~FitsFrom(b, c, k + 1)}
           f == FillPage(a, c)
<1>1. n \in Nat /\ Len(b) = n
  BY DEF Alike
<1>2. X = Y
  <2>1. ASSUME NEW k \in c..n, k # n
        PROVE  IsBreak(a, k + 1) = IsBreak(b, k + 1) /\ FitsFrom(a, c, k + 1) = FitsFrom(b, c, k + 1)
    <3>1. k + 1 \in 1..n
      BY <1>1, <2>1
    <3> QED BY <3>1, FitsAlike
  <2> QED BY <2>1
<1>3. f = Min(X) /\ FillPage(b, c) = Min(Y)
  BY <1>1 DEF FillPage
<1>4. FillPage(b, c) = f
  BY <1>2, <1>3
<1>5. f \in c..n
  BY <1>1, FillFacts
<1> HIDE DEF f
<1>6. a[f].kind = b[f].kind
  BY <1>1, <1>5 DEF Alike, Same
<1>7. f < n => IsBreak(a, f + 1) = IsBreak(b, f + 1)
  <2>1. f < n => f + 1 \in 1..n
    BY <1>1, <1>5
  <2> QED BY <2>1, FitsAlike
<1>8. /\ PageEnd(a, c) = IF (f < n /\ ~IsBreak(a, f + 1) /\ a[f].kind = "heading") /\ f > c THEN f - 1 ELSE f
      /\ PageEnd(b, c) = IF (f < n /\ ~IsBreak(b, f + 1) /\ b[f].kind = "heading") /\ f > c THEN f - 1 ELSE f
  BY <1>1, <1>4 DEF PageEnd, f
<1> QED BY <1>6, <1>7, <1>8

LEMMA CutAlike ==
    ASSUME NEW a, NEW b, Alike(a, b)
    PROVE  paginate_blocks(a) = paginate_blocks(b)
<1> DEFINE n == Len(a)
<1>1. n \in Nat /\ Len(b) = n
  BY DEF Alike
<1>2. PICK g : Cuts(g, a, n) /\ paginate_blocks(a) = IF g[n] = <<>> THEN <<[first |-> 1, last |-> 1]>>
                                                     ELSE g[n]
  BY <1>1, PaginateTable
<1>3. PICK h : Cuts(h, b, n) /\ paginate_blocks(b) = IF h[n] = <<>> THEN <<[first |-> 1, last |-> 1]>>
                                                     ELSE h[n]
  BY <1>1, PaginateTable
<1> DEFINE P == {i \in 0..n : g[i] = h[i] /\ CutTo(a, g[i])}
<1>4. 0 \in P
  <2>1. g[0] = <<>> /\ h[0] = <<>>
    BY <1>2, <1>3 DEF Cuts
  <2>2. CutTo(a, <<>>)
    BY <1>1 DEF CutTo, Cursor
  <2> QED BY <1>1, <2>1, <2>2
<1>5. ASSUME NEW i \in 1..n, i - 1 \in P PROVE i \in P
  <2> DEFINE old == g[i - 1]
  <2>1. g[i] = AddPage(a, old) /\ h[i] = AddPage(b, old) /\ CutTo(a, old)
    BY <1>2, <1>3, <1>5 DEF Cuts
  <2> HIDE DEF old
  <2>2. CutTo(a, g[i])
    BY <1>1, <2>1, AddPageStep
  <2>3. Cursor(old) \in 1..(n + 1)
    BY <1>1, <2>1, CursorFacts
  <2> DEFINE X == Ahead(a, old)
             c == Min(X)
  <2>4. \A k \in 1..n : IsBreak(a, k) = IsBreak(b, k)
    BY FitsAlike
  <2>5. X = Ahead(b, old) /\ X \in SUBSET (1..n)
    BY <1>1, <2>3, <2>4 DEF Ahead
  <2>6. /\ AddPage(a, old) = IF X = {} THEN old ELSE Append(old, [first |-> c, last |-> PageEnd(a, c)])
        /\ AddPage(b, old) = IF Ahead(b, old) = {} THEN old
               ELSE Append(old, [first |-> Min(Ahead(b, old)), last |-> PageEnd(b, Min(Ahead(b, old)))])
    BY DEF AddPage, Ahead, Cursor
  <2> HIDE DEF X
  <2>7. X # {} => PageEnd(a, c) = PageEnd(b, c)
    <3>1. X # {} => c \in 1..n
      BY <1>1, <2>5, MinFacts
    <3> QED BY <3>1, EndAlike
  <2>8. g[i] = h[i]
    BY <2>1, <2>5, <2>6, <2>7
  <2> QED BY <2>2, <2>8
<1> HIDE DEF P
<1>6. n \in P
  <2> HIDE DEF n
  <2>1. 0..n \subseteq P
    BY <1>1, <1>4, <1>5, CountUp
  <2> QED BY <1>1, <2>1
<1>7. g[n] = h[n]
  BY <1>6 DEF P
<1> QED BY <1>2, <1>3, <1>7

-----------------------------------------------------------------------------
(* Numbers of the contents and the outline                                 *)

\* The headings that the counter of level l has counted at heading i.
Counted(hs, l, i) ==
    {m \in 1..i : hs[m].level = l /\ \A q \in m..i : hs[q].level >= l}

LEMMA NumbersDiffer ==
    ASSUME NEW hs \in Seq(Nodes), \A k \in DOMAIN hs : hs[k].level \in 1..6,
           NEW i \in DOMAIN hs, NEW j \in DOMAIN hs, i < j
    PROVE  toc_number(hs, i) # toc_number(hs, j)
<1> SUFFICES ASSUME toc_number(hs, i) = toc_number(hs, j) PROVE FALSE
  OBVIOUS
<1> DEFINE lv(k) == hs[k].level
<1>0. i \in Nat /\ j \in Nat /\ i \in 1..j /\ \A k \in 1..j : lv(k) \in 1..6
  OBVIOUS
<1>1. /\ DOMAIN toc_number(hs, i) = 1..lv(i) /\ DOMAIN toc_number(hs, j) = 1..lv(j)
      /\ \A l \in 1..lv(i) : toc_number(hs, i)[l] = Cardinality(Counted(hs, l, i))
      /\ \A l \in 1..lv(j) : toc_number(hs, j)[l] = Cardinality(Counted(hs, l, j))
  BY DEF toc_number, Counted
<1>2. 1..lv(i) = 1..lv(j)
  BY <1>1
<1>3. lv(i) = lv(j)
  <2> DEFINE a == lv(i)
             b == lv(j)
  <2>1. a \in 1..6 /\ b \in 1..6 /\ 1..a = 1..b
    BY <1>0, <1>2
  <2> HIDE DEF a, b
  <2>2. a \in 1..b /\ b \in 1..a
    BY <2>1
  <2>3. a = b
    BY <2>1, <2>2
  <2> QED BY <2>3 DEF a, b
<1> DEFINE T == {l \in Nat : \E k \in i..j : l = lv(k)}
<1>4. PICK l \in T : \A m \in T : l <= m
  <2>1. lv(i) \in T /\ T \in SUBSET Nat
    BY <1>0
  <2> HIDE DEF T
  <2> QED BY <2>1, LeastExists
<1>5. \A k \in i..j : l <= lv(k)
  <2>1. ASSUME NEW k \in i..j PROVE lv(k) \in T
    <3>1. k \in 1..j
      BY <1>0
    <3> HIDE DEF lv
    <3>2. lv(k) \in 1..6
      BY ONLY <1>0, <3>1
    <3> QED BY ONLY <2>1, <3>2
  <2> QED BY <1>4, <2>1
<1>6. PICK m \in (i + 1)..j : lv(m) = l
  <2>1. PICK k \in i..j : l = lv(k)
    BY <1>4
  <2>2. CASE k = i
    BY <1>0, <1>3, <2>1, <2>2
  <2>3. CASE k # i
    BY <1>0, <2>1, <2>3
  <2> QED BY <2>2, <2>3
<1>7. l \in 1..lv(i) /\ l \in 1..lv(j)
  <2> HIDE DEF lv, T
  <2>1. i \in i..j /\ j \in i..j /\ m \in 1..j
    BY ONLY <1>0, m \in (i + 1)..j
  <2>2. l <= lv(i) /\ l <= lv(j)
    BY ONLY <1>5, <2>1
  <2>3. l \in 1..6 /\ lv(i) \in 1..6 /\ lv(j) \in 1..6
    BY ONLY <1>0, <1>6, <2>1
  <2> QED BY ONLY <2>2, <2>3
<1> DEFINE A == Counted(hs, l, i)
           B == Counted(hs, l, j)
<1>8. A \subseteq B
  <2>1. ASSUME NEW k \in A PROVE k \in B
    <3>1. k \in 1..i /\ lv(k) = l /\ \A q \in k..i : lv(q) >= l
      BY DEF Counted
    <3>2. ASSUME NEW q \in k..j PROVE lv(q) >= l
      <4>1. CASE q <= i
        BY <1>0, <3>1, <4>1
      <4>2. CASE ~(q <= i)
        <5>1. q \in i..j /\ q \in 1..j
          BY <1>0, <3>1, <4>2
        <5> HIDE DEF lv
        <5>2. l <= lv(q) /\ lv(q) \in 1..6 /\ l \in Nat
          BY ONLY <1>0, <1>5, <1>7, <5>1
        <5> QED BY ONLY <5>2
      <4> QED BY <4>1, <4>2
    <3>3. k \in 1..j
      BY <1>0, <3>1
    <3> QED BY <3>1, <3>2, <3>3 DEF Counted
  <2> QED BY <2>1
<1>9. m \in B
  <2>1. ASSUME NEW q \in m..j PROVE lv(q) >= l
    <3>1. q \in i..j /\ q \in 1..j
      BY <1>0
    <3> HIDE DEF lv
    <3>2. l <= lv(q) /\ lv(q) \in 1..6 /\ l \in Nat
      BY ONLY <1>0, <1>5, <1>7, <3>1
    <3> QED BY ONLY <3>2
  <2>2. m \in 1..j
    BY <1>0
  <2> QED BY <1>6, <2>1, <2>2 DEF Counted
<1>10. m \notin A
  BY <1>0 DEF Counted
<1>11. IsFiniteSet(B)
  <2>1. IsFiniteSet(1..j)
    <3>1. 1 \in Int /\ j \in Int
      BY <1>0
    <3> QED BY ONLY <3>1, FS_Interval
  <2>2. B \subseteq 1..j
    BY DEF Counted
  <2> QED BY <2>1, <2>2, FS_Subset
<1>12. Cardinality(A) = Cardinality(B)
  <2>1. toc_number(hs, i)[l] = Cardinality(A) /\ toc_number(hs, j)[l] = Cardinality(B)
    BY <1>1, <1>7, Zenon
  <2> QED BY <2>1, Zenon
<1> HIDE DEF A, B
<1>13. A = B
  BY <1>8, <1>11, <1>12, FS_Subset
<1> QED BY <1>9, <1>10, <1>13

\* The section a heading stands in, and the level of a section.
SectionOf(hs, i) == Max({0} \cup {j \in 1..(i - 1) : hs[j].level < hs[i].level})
LevelAt(hs, i) == IF i = 0 THEN 0 ELSE hs[i].level

LEMMA OutlineNests ==
    ASSUME NEW hs \in Seq(Nodes), \A k \in DOMAIN hs : hs[k].level \in 1..6,
           NEW i \in DOMAIN hs, hs[i].level <= LevelAt(hs, SectionOf(hs, i)) + 1
    PROVE  outline(hs)[i] = SectionOf(hs, i)
<1> DEFINE X == {0} \cup {j \in 1..(i - 1) : hs[j].level < hs[i].level}
           Y == {0} \cup {j \in 1..(i - 1) : hs[j].level = hs[i].level - 1}
           s == SectionOf(hs, i)
           o == Max(Y)
<1>0. i \in Nat /\ (\A k \in 1..i : hs[k].level \in 1..6)
  OBVIOUS
<1>1. outline(hs)[i] = o /\ s = Max(X)
  BY DEF outline, SectionOf
<1>2. X \in SUBSET (0..i) /\ X # {} /\ Y \in SUBSET (0..i) /\ Y # {}
  BY <1>0
<1>3. s \in X /\ \A y \in X : y <= s
  <2> HIDE DEF X
  <2> QED BY <1>0, <1>1, <1>2, MaxFacts
<1>4. o \in Y /\ \A y \in Y : y <= o
  <2> HIDE DEF Y
  <2> QED BY <1>0, <1>2, MaxFacts
<1> HIDE DEF s, o
<1> DEFINE L(k) == hs[k].level
<1>5. Y \subseteq X
  <2> SUFFICES ASSUME NEW j \in 1..(i - 1), L(j) = L(i) - 1 PROVE L(j) < L(i)
    OBVIOUS
  <2>1. L(i) \in Int
    BY <1>0
  <2> HIDE DEF L
  <2> QED BY <2>1
<1>6. s \in Y
  <2>1. CASE s = 0
    BY <2>1
  <2>2. CASE s # 0
    <3>1. s \in 1..(i - 1) /\ L(s) < L(i) /\ s \in 1..i
      BY <1>0, <1>3, <2>2
    <3>2. L(i) <= L(s) + 1
      BY <2>2 DEF LevelAt, s
    <3>3. L(s) = L(i) - 1
      <4>1. \A k \in 1..i : L(k) \in 1..6
        BY <1>0
      <4> HIDE DEF L
      <4>2. L(s) \in 1..6 /\ L(i) \in 1..6
        BY ONLY <1>0, <3>1, <4>1
      <4> QED BY ONLY <3>1, <3>2, <4>2
    <3> QED BY <3>1, <3>3
  <2> QED BY <2>1, <2>2
<1>7. s <= o /\ o <= s /\ s \in Nat /\ o \in Nat
  <2> HIDE DEF X, Y
  <2> QED BY <1>0, <1>2, <1>3, <1>4, <1>5, <1>6
<1>8. s = o
  BY <1>7
<1> QED BY <1>1, <1>8 DEF s

-----------------------------------------------------------------------------
(* The file written                                                        *)

\* The file is what one export made of the note at that time.
PdfInv ==
    /\ ast \in Seq(Nodes)
    /\ pdf # NoPdf =>
           /\ pdf.ast \in Seq(Nodes)
           /\ pdf.blocks = layout_document(pdf.ast, TocPages(pdf.ast))
           /\ pdf.pages = paginate_blocks(pdf.blocks)
           /\ pdf.outline = outline(headings(pdf.ast))

LEMMA PdfInductive == (PdfInit => PdfInv) /\ (PdfInv /\ [PdfNext]_pdfVars => PdfInv')
<1>1. ASSUME PdfInit PROVE PdfInv
  BY <1>1 DEF PdfInit, PdfInv
<1>2. ASSUME PdfInv, NEW x \in Nodes, Write(x) PROVE PdfInv'
  BY <1>2 DEF PdfInv, Write
<1>3. ASSUME PdfInv, export_pdf PROVE PdfInv'
  <2> DEFINE bs == layout_document(ast, TocPages(ast))
  <2>1. pdf' = [ast |-> ast, blocks |-> bs, pages |-> paginate_blocks(bs),
                outline |-> outline(headings(ast))] /\ ast' = ast
    BY <1>3 DEF export_pdf
  <2>2. ast \in Seq(Nodes)
    BY <1>3 DEF PdfInv
  <2> HIDE DEF bs
  <2>3. /\ pdf'.ast = ast /\ pdf'.blocks = bs /\ pdf'.pages = paginate_blocks(bs)
        /\ pdf'.outline = outline(headings(ast))
    BY <2>1
  <2>4. pdf'.blocks = layout_document(ast, TocPages(ast))
    BY <2>3 DEF bs
  <2> QED BY <2>1, <2>2, <2>3, <2>4 DEF PdfInv
<1>4. ASSUME PdfInv, UNCHANGED pdfVars PROVE PdfInv'
  BY <1>4 DEF PdfInv, pdfVars
<1> QED BY <1>1, <1>2, <1>3, <1>4 DEF PdfNext

LEMMA BlocksAreSequences ==
    ASSUME NEW doc \in Seq(Nodes), NEW tp
    PROVE  /\ Len(layout_document(doc, tp)) \in Nat
           /\ DOMAIN layout_document(doc, tp) = 1..Len(layout_document(doc, tp))
<1>1. layout_document(doc, tp) \in Seq(Emitted(doc, tp))
  BY LaidOut
<1> DEFINE bs == layout_document(doc, tp)
           S == Emitted(doc, tp)
<1> HIDE DEF bs, S
<1>2. bs \in Seq(S)
  BY <1>1 DEF bs, S
<1>3. Len(bs) \in Nat /\ DOMAIN bs = 1..Len(bs)
  BY <1>2
<1> QED BY <1>3 DEF bs

LEMMA PagesRight == PdfInv => PagesComplete
<1> SUFFICES ASSUME PdfInv, pdf # NoPdf, \E k \in DOMAIN pdf.blocks : ~IsBreak(pdf.blocks, k)
             PROVE  PagesComplete
  BY DEF PagesComplete
<1> DEFINE b == pdf.blocks
           n == Len(b)
           pages == pdf.pages
           Page(p) == pages[p].first..pages[p].last
<1>1. n \in Nat /\ DOMAIN b = 1..n /\ pages = paginate_blocks(b)
  BY BlocksAreSequences DEF PdfInv
<1> HIDE DEF b, pages
<1>2. \E k \in 1..n : ~IsBreak(b, k)
  BY <1>1 DEF b
<1>3. CutTo(b, pages) /\ \A k \in 1..n : ~IsBreak(b, k) => \E p \in DOMAIN pages : k \in Page(p)
  <2>1. Len(b) \in Nat /\ \E k \in 1..Len(b) : ~IsBreak(b, k)
    BY <1>1, <1>2
  <2>2. /\ CutTo(b, paginate_blocks(b))
        /\ \A k \in 1..Len(b) : ~IsBreak(b, k) =>
               \E p \in DOMAIN paginate_blocks(b) :
                   k \in paginate_blocks(b)[p].first..paginate_blocks(b)[p].last
    BY <2>1, Paginated
  <2> QED BY <1>1, <2>2, Zenon
<1>4. /\ pages \in Seq(Slices(b)) /\ DOMAIN pages = 1..Len(pages) /\ Len(pages) \in Nat
      /\ \A p \in DOMAIN pages : PageGood(b, pages[p].first, pages[p].last)
      /\ \A p, q \in DOMAIN pages : p < q => pages[p].last < pages[q].first
  BY <1>3 DEF CutTo
<1>5. \A p \in DOMAIN pages : pages[p].first \in 1..n /\ pages[p].last \in 1..n
  <2>1. ASSUME NEW p \in DOMAIN pages PROVE pages[p] \in Slices(b)
    <3> DEFINE S == Slices(b)
    <3> HIDE DEF S
    <3>1. pages \in Seq(S) /\ p \in 1..Len(pages)
      BY <1>4, <2>1 DEF S
    <3>2. pages[p] \in S
      BY <3>1
    <3> QED BY <3>2 DEF S
  <2> QED BY <2>1 DEF Slices
<1>6. ASSUME NEW k \in 1..n
      PROVE  Cardinality({p \in DOMAIN pages : k \in Page(p)}) = IF IsBreak(b, k) THEN 0 ELSE 1
  <2> DEFINE X == {p \in DOMAIN pages : k \in Page(p)}
  <2>1. CASE IsBreak(b, k)
    <3>1. X = {}
      BY <1>4, <2>1 DEF PageGood
    <3> QED BY <2>1, <3>1, FS_EmptySet
  <2>2. CASE ~IsBreak(b, k)
    <3>1. PICK p \in DOMAIN pages : k \in Page(p)
      BY <1>3, <2>2
    <3>2. ASSUME NEW q \in DOMAIN pages, k \in Page(q) PROVE q = p
      <4>1. CASE p < q
        <5>1. pages[p].last < pages[q].first /\ k <= pages[p].last /\ pages[q].first <= k
          BY <1>4, <1>5, <3>1, <3>2, <4>1
        <5> QED BY <1>5, <5>1
      <4>2. CASE q < p
        <5>1. pages[q].last < pages[p].first /\ k <= pages[q].last /\ pages[p].first <= k
          BY <1>4, <1>5, <3>1, <3>2, <4>2
        <5> QED BY <1>5, <5>1
      <4> QED BY <1>4, <4>1, <4>2
    <3>3. X = {p}
      BY <3>1, <3>2
    <3> HIDE DEF X
    <3>4. Cardinality(X) = 1
      BY <3>3, FS_Singleton
    <3> QED BY <2>2, <3>4 DEF X
  <2> QED BY <2>1, <2>2
<1>7. ASSUME NEW p \in DOMAIN pages
      PROVE  /\ pages[p].first < pages[p].last => FitsFrom(b, pages[p].first, pages[p].last)
             /\ (Runs(b, pages[p].last) /\ FitsFrom(b, pages[p].first, pages[p].last + 1)) =>
                    /\ b[pages[p].last + 1].kind = "heading" /\ Runs(b, pages[p].last + 1)
                    /\ ~FitsFrom(b, pages[p].first, pages[p].last + 2)
             /\ (Runs(b, pages[p].last) /\ b[pages[p].last].kind = "heading") =>
                    pages[p].first = pages[p].last \/ b[pages[p].last + 1].kind = "heading"
  BY <1>4 DEF PageGood
<1>8. pdf.blocks = b /\ pdf.pages = pages
  BY DEF b, pages
<1> QED BY <1>4, <1>6, <1>7, <1>8 DEF PagesComplete, Runs

-----------------------------------------------------------------------------
(* The contents                                                            *)

\* Headings outside quotes with different anchors.
PlainNote(doc) ==
    /\ \A x \in ToSet(doc) : x.kind # "quoted"
    /\ \A i, j \in DOMAIN headings(doc) :
           anchor(headings(doc), i) = anchor(headings(doc), j) => i = j

LEMMA PlainAnchors ==
    ASSUME NEW doc \in Seq(Nodes), \A x \in ToSet(doc) : x.kind # "quoted"
    PROVE  /\ DOMAIN Places(doc, {"heading"}) = DOMAIN headings(doc)
           /\ \A k \in DOMAIN headings(doc) :
                  LET i == Places(doc, {"heading"})[k]
                  IN  i \in DOMAIN doc /\ doc[i].kind = "heading"
                      /\ heading_anchor(doc, i) = anchor(headings(doc), k)
           /\ \A i \in DOMAIN doc : doc[i].kind = "heading" =>
                  \E k \in DOMAIN headings(doc) : Places(doc, {"heading"})[k] = i
<1> DEFINE H == {"heading"}
           K == OfKinds(doc, H)
           at == Places(doc, H)
           hs == headings(doc)
<1>1. OfKinds(doc, Headed) = K
  BY DEF OfKinds, Headed, ToSet
<1>2. Places(doc, Headed) = at
  BY <1>1 DEF Places, OfKinds
<1>3. DOMAIN hs = DOMAIN at
  BY <1>2, HeadingsFacts
<1>4. /\ at \in Seq(Nat) /\ ToSet(at) = K
      /\ \A k \in DOMAIN at : at[k] \in K /\ Cardinality(K \cap (1..at[k])) = k
  BY PlacesFacts
<1>5. ASSUME NEW i \in DOMAIN doc
      PROVE  heading_anchor(doc, i) = anchor(hs, Cardinality(K \cap (1..i)))
  <2>1. {j \in 1..i : doc[j].kind = "heading"} = K \cap (1..i)
    BY DEF OfKinds
  <2> QED BY <2>1 DEF heading_anchor
<1> HIDE DEF at, hs
<1>6. ASSUME NEW k \in DOMAIN hs
      PROVE  at[k] \in DOMAIN doc /\ doc[at[k]].kind = "heading" /\ heading_anchor(doc, at[k]) = anchor(hs, k)
  <2>1. at[k] \in K /\ Cardinality(K \cap (1..at[k])) = k
    BY <1>3, <1>4
  <2>2. at[k] \in DOMAIN doc /\ doc[at[k]].kind = "heading"
    BY <2>1 DEF OfKinds
  <2> QED BY <1>5, <2>1, <2>2
<1>7. ASSUME NEW i \in DOMAIN doc, doc[i].kind = "heading" PROVE \E k \in DOMAIN hs : at[k] = i
  <2>1. i \in ToSet(at)
    BY <1>4, <1>7 DEF OfKinds
  <2> QED BY <1>3, <2>1 DEF ToSet
<1> QED BY <1>3, <1>6, <1>7 DEF at, hs

LEMMA RowPages ==
    ASSUME NEW doc \in Seq(Nodes), PlainNote(doc), NEW tq, NEW k \in DOMAIN headings(doc)
    PROVE  LET sheet == TocPages(doc)[k]
               blocks == layout_document(doc, tq)
               pages == paginate_blocks(blocks)
           IN  /\ sheet \in DOMAIN pages
               /\ \E x \in pages[sheet].first..pages[sheet].last :
                      blocks[x].kind = "heading" /\ blocks[x].of = Places(doc, {"heading"})[k]
<1> DEFINE hs == headings(doc)
           at == Places(doc, {"heading"})
           a == anchor(hs, k)
           none == [j \in DOMAIN hs |-> 0]
           D == layout_document(doc, none)
           B == layout_document(doc, tq)
           n == Len(D)
           pages == paginate_blocks(D)
           X == {p \in DOMAIN pages : \E x \in pages[p].first..pages[p].last :
                                          D[x].kind = "heading" /\ D[x].anchor = a}
           sheet == Max({0} \cup X)
<1>1. n \in Nat /\ DOMAIN D = 1..n /\ DOMAIN B = 1..Len(B)
  BY BlocksAreSequences
<1>2. Len(B) = n /\ \A x \in 1..n : Same(D[x], B[x])
  <2>1. Len(D) = Len(B) /\ \A x \in 1..Len(D) : Same(D[x], B[x])
    BY LaidAlike
  <2> QED BY <2>1
<1>3. pages = paginate_blocks(B)
  <2>1. Alike(D, B)
    BY <1>1, <1>2 DEF Alike
  <2> HIDE DEF D, B
  <2> QED BY <2>1, CutAlike
<1>4. TocPages(doc)[k] = sheet
  <2>1. Drafted(doc) = D
    BY DEF Drafted
  <2> QED BY <2>1 DEF TocPages, anchor_page
<1>5. \A x \in 1..n : D[x] \in Emitted(doc, none)
  <2> DEFINE S == Emitted(doc, none)
  <2>1. D \in Seq(S)
    BY LaidOut
  <2> HIDE DEF D, S, n
  <2> QED BY <1>1, <2>1 DEF S
<1>6. ASSUME NEW x \in 1..n, D[x].kind = "heading"
      PROVE  \E i \in DOMAIN doc : HeadOf(D[x], doc, i)
  <2>1. PICK j \in DOMAIN doc : D[x] \in ToSet(emit_node(doc, none, j))
    BY <1>5 DEF Emitted
  <2>2. BlockOf(D[x], doc, none)
    BY <2>1, EmitFacts
  <2> QED BY <1>6, <2>2 DEF BlockOf
<1>7. ASSUME NEW i \in DOMAIN doc, doc[i].kind = "heading"
      PROVE  \E x \in 1..n : HeadOf(D[x], doc, i)
  <2>1. PICK y \in ToSet(emit_node(doc, none, i)) : HeadOf(y, doc, i)
    BY <1>7, EmitFacts
  <2>2. y \in Emitted(doc, none)
    BY <2>1 DEF Emitted
  <2>3. y \in ToSet(D)
    BY <2>2, LaidOut
  <2> HIDE DEF D, n
  <2>4. PICK x \in DOMAIN D : y = D[x]
    BY <2>3 DEF ToSet
  <2> QED BY <1>1, <2>1, <2>4
<1> HIDE DEF D, B, none
<1>8. /\ DOMAIN at = DOMAIN hs
      /\ \A j \in DOMAIN hs : at[j] \in DOMAIN doc /\ doc[at[j]].kind = "heading"
                              /\ heading_anchor(doc, at[j]) = anchor(hs, j)
      /\ \A i \in DOMAIN doc : doc[i].kind = "heading" => \E j \in DOMAIN hs : at[j] = i
  BY PlainAnchors DEF PlainNote
<1>9. PICK z \in 1..n : HeadOf(D[z], doc, at[k])
  BY <1>7, <1>8
<1>10. D[z].kind = "heading" /\ D[z].anchor = a /\ ~IsBreak(D, z)
  BY <1>8, <1>9 DEF HeadOf, IsBreak
<1>11. CutTo(D, pages) /\ \E p \in DOMAIN pages : z \in pages[p].first..pages[p].last
  <2> HIDE DEF pages, n
  <2>1. Len(D) \in Nat /\ \E x \in 1..Len(D) : ~IsBreak(D, x)
    BY <1>1, <1>10 DEF n
  <2>2. z \in 1..Len(D)
    BY DEF n
  <2> QED BY <1>10, <2>1, <2>2, Paginated DEF pages
<1> HIDE DEF pages, at, hs
<1>12. /\ DOMAIN pages = 1..Len(pages) /\ Len(pages) \in Nat
       /\ \A p \in DOMAIN pages : pages[p].first \in 1..n /\ pages[p].last \in 1..n
  <2>1. pages \in Seq(Slices(D))
    BY <1>11 DEF CutTo
  <2>2. Len(pages) \in Nat /\ DOMAIN pages = 1..Len(pages) /\ \A p \in DOMAIN pages : pages[p] \in Slices(D)
    BY <2>1
  <2> QED BY <2>2 DEF Slices
<1>13. PICK p \in X : TRUE
  BY <1>10, <1>11
<1>14. sheet \in {0} \cup X /\ p <= sheet
  <2> DEFINE Y == {0} \cup X
  <2>1. Y \in SUBSET (0..Len(pages)) /\ Y # {} /\ p \in Y /\ Len(pages) \in Nat
    BY <1>12, <1>13
  <2> HIDE DEF Y
  <2>2. Max(Y) \in Y /\ \A y \in Y : y <= Max(Y)
    BY <2>1, MaxFacts
  <2> QED BY <2>1, <2>2 DEF Y
<1> HIDE DEF sheet
<1>15. sheet \in X
  BY <1>12, <1>13, <1>14
<1>16. PICK x \in pages[sheet].first..pages[sheet].last : D[x].kind = "heading" /\ D[x].anchor = a
  BY <1>15
<1>17. x \in 1..n /\ sheet \in DOMAIN pages
  BY <1>1, <1>12, <1>15, <1>16
<1>18. PICK i \in DOMAIN doc : HeadOf(D[x], doc, i)
  BY <1>6, <1>16, <1>17
<1>19. PICK j \in DOMAIN hs : at[j] = i
  BY <1>8, <1>18 DEF HeadOf
<1>20. anchor(hs, j) = a
  <2>1. heading_anchor(doc, i) = a
    BY <1>16, <1>18 DEF HeadOf
  <2> QED BY <1>8, <1>19, <2>1
<1>21. j = k
  BY <1>19, <1>20 DEF PlainNote, hs
<1>22. B[x].kind = "heading" /\ B[x].of = at[k]
  BY <1>2, <1>16, <1>17, <1>18, <1>19, <1>21 DEF HeadOf, Same
<1> QED BY <1>3, <1>4, <1>16, <1>17, <1>22 DEF at, B

LEMMA ContentsHold == PdfInv => ContentsRight
<1> SUFFICES ASSUME PdfInv, pdf # NoPdf PROVE ContentsRight
  BY DEF ContentsRight
<1> DEFINE doc == pdf.ast
           b == pdf.blocks
           hs == headings(doc)
           tp == TocPages(doc)
           lines == {k \in DOMAIN b : b[k].kind = "row"}
           at == Places(doc, {"heading"})
<1>1. /\ doc \in Seq(Nodes) /\ b = layout_document(doc, tp) /\ pdf.pages = paginate_blocks(b)
      /\ pdf.outline = outline(hs)
  BY DEF PdfInv
<1>2. hs \in Seq(Nodes) /\ \A k \in DOMAIN hs : hs[k].level \in 1..6
  BY <1>1, HeadingsFacts
<1> HIDE DEF doc, b
<1>3. ASSUME NEW r \in lines
      PROVE  \E k \in DOMAIN hs : b[r] = TocRow(hs, k, tp[k])
  <2>1. ToSet(b) = Emitted(doc, tp)
    BY <1>1, LaidOut
  <2>2. b[r] \in Emitted(doc, tp) /\ b[r].kind = "row"
    BY <1>3, <2>1 DEF ToSet
  <2>3. PICK j \in DOMAIN doc : b[r] \in ToSet(emit_node(doc, tp, j))
    BY <2>2 DEF Emitted
  <2>4. BlockOf(b[r], doc, tp)
    BY <1>1, <2>3, EmitFacts
  <2> QED BY <2>2, <2>4 DEF BlockOf, RowOf
<1>4. ASSUME NEW r \in lines, NEW s \in lines, b[r].number = b[s].number
      PROVE  b[r].of = b[s].of
  <2>1. PICK i \in DOMAIN hs : b[r] = TocRow(hs, i, tp[i])
    BY <1>3
  <2>2. PICK j \in DOMAIN hs : b[s] = TocRow(hs, j, tp[j])
    BY <1>3
  <2>3. b[r].of = i /\ b[r].number = toc_number(hs, i) /\ b[s].of = j /\ b[s].number = toc_number(hs, j)
    BY <2>1, <2>2 DEF TocRow
  <2>4. ~(i < j) /\ ~(j < i)
    <3> HIDE DEF hs
    <3> QED BY <1>2, <1>4, <2>3, NumbersDiffer
  <2>5. i \in Nat /\ j \in Nat
    <3> HIDE DEF hs
    <3> QED BY <1>2
  <2> QED BY <2>3, <2>4, <2>5
<1>5. ASSUME PlainNote(doc), NEW r \in lines
      PROVE  /\ b[r].page \in DOMAIN pdf.pages
             /\ \E k \in pdf.pages[b[r].page].first..pdf.pages[b[r].page].last :
                    b[k].kind = "heading" /\ b[k].of = at[b[r].of]
  <2>1. PICK i \in DOMAIN hs : b[r] = TocRow(hs, i, tp[i])
    BY <1>3
  <2>2. b[r].of = i /\ b[r].page = tp[i]
    BY <2>1 DEF TocRow
  <2>3. LET sheet == tp[i]
            blocks == layout_document(doc, tp)
            pages == paginate_blocks(blocks)
        IN  /\ sheet \in DOMAIN pages
            /\ \E x \in pages[sheet].first..pages[sheet].last :
                   blocks[x].kind = "heading" /\ blocks[x].of = at[i]
    BY <1>1, <1>5, RowPages
  <2> QED BY <1>1, <2>2, <2>3
<1>6. ASSUME \A i \in DOMAIN hs : hs[i].level <= LevelAt(hs, SectionOf(hs, i)) + 1, NEW i \in DOMAIN hs
      PROVE  pdf.outline[i] = SectionOf(hs, i)
  <2> HIDE DEF hs
  <2> QED BY <1>1, <1>2, <1>6, OutlineNests
<1>7. pdf.ast = doc /\ pdf.blocks = b
  BY DEF doc, b
<1> QED BY <1>4, <1>5, <1>6, <1>7 DEF ContentsRight, PlainNote, SectionOf, LevelAt

(* For any note, page size and heights: cutting into pages loses no block, *)
(* repeats none and breaks no rule of the paginator, whatever was written  *)
(* between two exports.                                                    *)
THEOREM PagesHoldTheNote == PdfSpec => []PagesComplete
<1>1. PdfSpec => []PdfInv
  BY PdfInductive, PTL DEF PdfSpec
<1> QED BY <1>1, PagesRight, PTL

(* The page numbers that the first layout gives are right for the second,  *)
(* numbers name one heading, and the outline nests, for notes of any       *)
(* length.                                                                 *)
THEOREM ContentsNameThePages == PdfSpec => []ContentsRight
<1>1. PdfSpec => []PdfInv
  BY PdfInductive, PTL DEF PdfSpec
<1> QED BY <1>1, ContentsHold, PTL

=============================================================================
