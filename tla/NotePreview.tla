---------------------------- MODULE NotePreview ----------------------------
(***************************************************************************)
(* The Markdown preview beside a note (note/markdown_preview.cpp and the   *)
(* preview and image parts of window/note_tab_view.cpp).  Rendering        *)
(* only stores the source and marks the layout dirty; the layout is made   *)
(* by the next draw.  Pasted images become numbered files beside the note, *)
(* or in a common folder while the note has no path.                       *)
(*                                                                         *)
(* A text is a model value and a layout the inputs it was made from.  An   *)
(* offset is the fraction of the scroll range, in 0..Bottom.               *)
(***************************************************************************)
EXTENDS Naturals, FiniteSets, FiniteSetsExt

CONSTANTS
    Draft,       \* texts of the note
    Widths,      \* widths of the canvas
    Bottom,      \* scroll fraction of the end
    Folders, Common, \* folders of notes; the folder of notes without a path
    LastNumber,  \* the largest number the file name pattern accepts (999)
    MaxPics      \* bound: images pasted

ASSUME PreviewAssumption ==
    /\ Bottom \in Nat \ {0} /\ LastNumber \in Nat /\ MaxPics \in Nat
    /\ Common \in Folders /\ Draft # {} /\ Widths # {}

VARIABLES
    body,        \* text of the editor
    tickDue,     \* preview_pending_ with its timer
    reloaded,    \* ghost: set_text since the preview was last rendered
    preview,     \* preview_: its fields, or Closed
    renderIdles, \* initial renders that wait in the main loop
    canvas,      \* allocated width of the canvas
    dark,        \* the theme of the settings
    scrolled,    \* scroll fraction of the editor and of the preview
    syncScroll,  \* sync_scroll_
    folder,      \* note_root_dir()
    files,       \* image files: folder, number, picture
    refs,        \* references in the note to images that nobody deleted
    pics         \* pictures pasted so far

previewVars == <<body, tickDue, reloaded, preview, renderIdles, canvas, dark,
                 scrolled, syncScroll, folder, files, refs, pics>>
screen == <<canvas, dark>>
images == <<folder, files, refs, pics>>

NoLayout == [source |-> "none", width |-> 0, dark |-> FALSE, dir |-> Common]
Closed == [open |-> FALSE, source |-> "none", dirty |-> FALSE, dark |-> FALSE,
           dir |-> Common, laid |-> NoLayout, draw |-> FALSE]

-----------------------------------------------------------------------------
(* MarkdownPreview                                                         *)

Layout(pv, w) == [source |-> pv.source, width |-> w, dark |-> pv.dark, dir |-> pv.dir]

render(pv, t) == [pv EXCEPT !.source = t, !.dirty = TRUE, !.draw = TRUE]

\* Mutant: only a dirty layout is made again.
RelayoutIfDirty(pv, w) ==
    IF ~pv.dirty THEN pv ELSE [pv EXCEPT !.laid = Layout(pv, w), !.dirty = FALSE]

relayout_if_needed(pv, w) ==
    IF ~pv.dirty /\ pv.source # "none" /\ pv.laid.width = w THEN pv
    ELSE [pv EXCEPT !.laid = Layout(pv, w), !.dirty = FALSE]

\* The frame clock draws the canvas.
on_canvas_draw ==
    /\ preview.open /\ preview.draw
    /\ preview' = [relayout_if_needed(preview, canvas) EXCEPT !.draw = FALSE]
    /\ UNCHANGED <<body, tickDue, reloaded, renderIdles, screen, scrolled, syncScroll, images>>

\* A new allocation; GTK draws again.
Resize(w) ==
    /\ preview.open /\ w # canvas /\ canvas' = w /\ preview' = [preview EXCEPT !.draw = TRUE]
    /\ UNCHANGED <<body, tickDue, reloaded, renderIdles, dark, scrolled, syncScroll, images>>

\* Before its first layout the canvas has no height to scroll.
Scrollable(pv) == pv.laid.source # "none"

-----------------------------------------------------------------------------
(* NoteTabView                                                             *)

\* The editor's text changes; its timer will call set_on_preview's callback.
Edit(t) ==
    /\ t # body /\ body' = t /\ tickDue' = TRUE
    /\ UNCHANGED <<reloaded, preview, renderIdles, screen, scrolled, syncScroll, images>>

\* reload_from_disk: set_text calls the preview off that its change asked for,
\* and nothing renders.
reload_from_disk(t) ==
    /\ t # body /\ body' = t /\ tickDue' = FALSE /\ reloaded' = preview.open
    /\ UNCHANGED <<preview, renderIdles, screen, scrolled, syncScroll, images>>

PreviewTick ==
    /\ tickDue /\ tickDue' = FALSE
    /\ preview' = IF preview.open THEN render(preview, body) ELSE preview
    /\ reloaded' = FALSE
    /\ UNCHANGED <<body, renderIdles, screen, scrolled, syncScroll, images>>

\* toggle_preview: closing drops the widget; opening makes one with the
\* default style and the note's folder of this moment, and leaves the first
\* render to an idle callback, which closing does not take back.
toggle_preview ==
    /\ reloaded' = FALSE
    /\ IF preview.open THEN preview' = Closed /\ UNCHANGED <<renderIdles, scrolled>>
       ELSE /\ renderIdles < 2 /\ renderIdles' = renderIdles + 1
            /\ preview' = [Closed EXCEPT !.open = TRUE, !.draw = TRUE, !.dir = folder]
            /\ scrolled' = [scrolled EXCEPT !.preview = 0]
    /\ UNCHANGED <<body, tickDue, screen, syncScroll, images>>

RenderIdle ==
    /\ renderIdles > 0 /\ renderIdles' = renderIdles - 1
    /\ preview' = IF preview.open THEN render(preview, body) ELSE preview
    /\ reloaded' = FALSE
    /\ UNCHANGED <<body, tickDue, screen, scrolled, syncScroll, images>>

\* The settings dialog changes the theme: refresh_preview_settings.
refresh_preview_settings ==
    /\ dark' = ~dark
    /\ preview' = IF preview.open THEN render([preview EXCEPT !.dark = dark'], body) ELSE preview
    /\ reloaded' = FALSE
    /\ UNCHANGED <<body, tickDue, renderIdles, canvas, scrolled, syncScroll, images>>

\* The editor scrolls; on_editor_scroll moves the preview along.  syncing_
\* stops the answer of the other side.
on_editor_scroll(f) ==
    /\ f # scrolled.editor
    /\ scrolled' = [editor |-> f, preview |-> IF syncScroll /\ preview.open /\ Scrollable(preview)
                                              THEN f ELSE scrolled.preview]
    /\ UNCHANGED <<body, tickDue, reloaded, preview, renderIdles, screen, syncScroll, images>>

\* The preview scrolls, by hand or to an anchor.
on_preview_scroll(f) ==
    /\ preview.open /\ Scrollable(preview) /\ f # scrolled.preview
    /\ scrolled' = [editor |-> IF syncScroll THEN f ELSE scrolled.editor, preview |-> f]
    /\ UNCHANGED <<body, tickDue, reloaded, preview, renderIdles, screen, syncScroll, images>>

\* The Sync Scroll button: switched on, the preview follows at once.
ToggleSync ==
    /\ preview.open /\ syncScroll' = ~syncScroll
    /\ scrolled' = [scrolled EXCEPT !.preview = IF syncScroll' /\ Scrollable(preview)
                                                THEN scrolled.editor ELSE @]
    /\ UNCHANGED <<body, tickDue, reloaded, preview, renderIdles, screen, images>>

-----------------------------------------------------------------------------
(* Images and exports                                                      *)

\* Mutant: the number of the files, and not the largest number, is counted.
CountFiles(ns) == Cardinality(ns) + 1

\* save_pasted_image: one more than the largest number the pattern matches.
NextNumber(ns) == Max({n \in ns : n <= LastNumber} \cup {0}) + 1

NumbersIn(d) == {f.number : f \in {g \in files : g.dir = d}}

\* on_image_paste: the file, the reference in the text, the preview.  The
\* insertion also starts the editor's timer.
on_image_paste(t) ==
    LET n == NextNumber(NumbersIn(folder))
        p == pics + 1
    IN  /\ p <= MaxPics /\ t # body /\ pics' = p
        /\ files' = {f \in files : f.dir # folder \/ f.number # n}
                    \cup {[dir |-> folder, number |-> n, pic |-> p]}
        /\ refs' = refs \cup {[dir |-> folder, number |-> n, pic |-> p]}
        /\ body' = t /\ tickDue' = TRUE
        /\ preview' = IF preview.open THEN render(preview, t) ELSE preview
        /\ reloaded' = FALSE
        /\ UNCHANGED <<renderIdles, screen, scrolled, syncScroll, folder>>

\* The write fails after the file was made: no reference.
PasteFails ==
    LET n == NextNumber(NumbersIn(folder))
        p == pics + 1
    IN  /\ p <= MaxPics /\ pics' = p
        /\ files' = {f \in files : f.dir # folder \/ f.number # n}
                    \cup {[dir |-> folder, number |-> n, pic |-> p]}
        /\ UNCHANGED <<body, tickDue, reloaded, preview, renderIdles, screen, scrolled, syncScroll,
                       folder, refs>>

\* An image file is deleted in the file panel or by another program; the
\* reference to it is dead.
DeleteImage(f) ==
    /\ f \in files /\ files' = files \ {f} /\ refs' = refs \ {f}
    /\ UNCHANGED <<body, tickDue, reloaded, preview, renderIdles, screen, scrolled, syncScroll,
                   folder, pics>>

\* Save As, or opening the note from another folder: note_root_dir changes,
\* the images stay.
MoveNote(d) ==
    /\ d \in Folders \ {folder, Common} /\ folder' = d
    /\ UNCHANGED <<body, tickDue, reloaded, preview, renderIdles, screen, scrolled, syncScroll,
                   files, refs, pics>>

\* capture_state at the end of one run, restore_state in the next: the
\* preview starts closed and the editor, not yet allocated, at its top.
Reopen ==
    /\ preview' = Closed /\ renderIdles' = 0 /\ tickDue' = FALSE /\ reloaded' = FALSE
    /\ scrolled' = [editor |-> 0, preview |-> 0]
    /\ UNCHANGED <<body, screen, syncScroll, images>>

-----------------------------------------------------------------------------
PreviewInit ==
    /\ body = (CHOOSE t \in Draft : TRUE) /\ tickDue = FALSE /\ reloaded = FALSE /\ preview = Closed
    /\ renderIdles = 0 /\ canvas = (CHOOSE w \in Widths : TRUE) /\ dark = FALSE
    /\ scrolled = [editor |-> 0, preview |-> 0] /\ syncScroll = FALSE
    /\ folder = Common /\ files = {} /\ refs = {} /\ pics = 0

PreviewNext ==
    \/ \E t \in Draft : Edit(t) \/ on_image_paste(t) \/ reload_from_disk(t)
    \/ PreviewTick \/ RenderIdle \/ on_canvas_draw \/ toggle_preview
    \/ \E w \in Widths : Resize(w)
    \/ refresh_preview_settings \/ ToggleSync \/ Reopen \/ PasteFails
    \/ \E f \in 0..Bottom : on_editor_scroll(f) \/ on_preview_scroll(f)
    \/ \E f \in files : DeleteImage(f)
    \/ \E d \in Folders : MoveNote(d)

PreviewSpec == PreviewInit /\ [][PreviewNext]_previewVars

-----------------------------------------------------------------------------
(* The preview catches up: with no timer, idle callback or draw due, what  *)
(* is on the canvas was laid out at the canvas's width in the preview's    *)
(* theme from the editor's text, however often the preview was toggled,    *)
(* resized and repainted meanwhile, unless the text came from a reload.    *)
Settled == preview.open /\ ~tickDue /\ renderIdles = 0 /\ ~preview.draw
PreviewDrawn ==
    Settled => /\ ~reloaded => preview.laid.source = body
               /\ preview.laid = Layout(preview, canvas)

(* docs/usage/notes.md:20 promises a "live preview": it shows the text of  *)
(* the editor.                                                             *)
PreviewLive == Settled => preview.laid.source = body

(* "scan 001 up": an image that a note refers to is never replaced by a    *)
(* later paste, in the common folder of unsaved notes either, while its    *)
(* number has three digits.                                                *)
PastesKept ==
    \A r \in refs : r.number <= LastNumber =>
        \A f \in files : f.dir = r.dir /\ f.number = r.number => f.pic = r.pic
=============================================================================
