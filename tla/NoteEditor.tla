----------------------------- MODULE NoteEditor -----------------------------
(***************************************************************************)
(* The note editor (gui/note/note_editor.cpp): the buffer with its search  *)
(* tags, HTML tag auto-closing, find and replace, the debounced repaint    *)
(* and preview, pasting.                                                   *)
(*                                                                         *)
(* A text is one line of pieces: "open" is an opening tag without its ">", *)
(* "gt" that ">", "close" the closing tag; the search term is the piece    *)
(* "x", the replacement "y".  Offsets count pieces.  GtkSourceView (marks, *)
(* tags, the search context and its scan in the background) is external.   *)
(***************************************************************************)
EXTENDS Integers, Sequences, SequencesExt, FiniteSets

CONSTANTS
    Contents,   \* contents that set_text is given
    Keys,       \* pieces that are typed
    Clips,      \* texts that are pasted
    MaxText,    \* bound: pieces in the buffer
    MaxPaste,   \* bound: paste timers under way when a paste is asked for
    ViewSize    \* pieces the view shows, overscan included

Pieces == {"open", "gt", "close", "x", "y"}

ASSUME EditorAssumption ==
    /\ MaxText \in Nat /\ MaxPaste \in Nat /\ ViewSize \in Nat
    /\ Keys \subseteq Pieces /\ Contents \subseteq Seq(Pieces) /\ Clips \subseteq Seq(Pieces)

VARIABLES
    buf,         \* buffer: text, selection bounds lo and hi (the insert mark
                 \* is at lo), match tags, current-match tag
    loaded,      \* ghost: no edit since set_text
    term,        \* the search term is not empty
    scanned,     \* pieces the search context has scanned so far
    curStart,    \* current_match_start_
    curIndex,    \* current_occurrence_
    top,         \* offset of the first piece that is shown
    hlPending,            \* highlight_pending_ and highlight_timer_ connected
    scPending,            \* scroll_pending_
    pvPending, pvTimer,   \* preview_pending_, preview_timer_ connected
    previewed,   \* on_preview_ was called since the last change
    pasting,     \* paste_in_progress_
    pasteTimers, \* 50 ms timers under way that clear it
    asked,       \* a paste was asked of the clipboard
    alive        \* alive_

searchVars == <<term, scanned, curStart, curIndex, top>>
timerVars == <<hlPending, scPending, pvPending, pvTimer>>
pasteVars == <<pasting, pasteTimers, asked>>
editorVars == <<buf, loaded, searchVars, timerVars, previewed, pasteVars, alive>>

-----------------------------------------------------------------------------
(* The buffer                                                              *)

EmptyBuffer == [text |-> <<>>, lo |-> 0, hi |-> 0, tags |-> {}, cur |-> {}]

\* Insert s at offset p, delete the piece after offset p: marks and tags move
\* along, a mark at p moves behind what is inserted.
Insert(b, p, s) ==
    LET move(i) == IF i > p THEN i + Len(s) ELSE i IN
    [text |-> SubSeq(b.text, 1, p) \o s \o SubSeq(b.text, p + 1, Len(b.text)),
     lo |-> IF b.lo >= p THEN b.lo + Len(s) ELSE b.lo,
     hi |-> IF b.hi >= p THEN b.hi + Len(s) ELSE b.hi,
     tags |-> {move(i) : i \in b.tags}, cur |-> {move(i) : i \in b.cur}]

Delete(b, p) ==
    LET move(i) == IF i > p + 1 THEN i - 1 ELSE i IN
    [text |-> RemoveAt(b.text, p + 1),
     lo |-> IF b.lo > p THEN b.lo - 1 ELSE b.lo,
     hi |-> IF b.hi > p THEN b.hi - 1 ELSE b.hi,
     tags |-> {move(i) : i \in b.tags \ {p + 1}},
     cur |-> {move(i) : i \in b.cur \ {p + 1}}]

DeleteSelection(b) == IF b.lo = b.hi THEN b ELSE Delete(b, b.lo)

\* suggest_closing_html_tag: the nearest "<" before the ">" starts an opening
\* tag and no other ">" lies between them.
suggest_closing_html_tag(t, c) ==
    \E j \in 1..(c - 1) : t[j] = "open" /\ \A k \in (j + 1)..(c - 1) : t[k] \in {"x", "y"}

\* on_auto_close_after_change, called on every change: behind an opening tag
\* the closing one is inserted and the cursor left between them.
AutoClose(b, skip) ==
    IF /\ ~skip /\ b.lo > 0 /\ b.text[b.lo] = "gt"
       /\ suggest_closing_html_tag(b.text, b.lo)
    THEN [Insert(b, b.lo, <<"close">>) EXCEPT !.lo = b.lo, !.hi = b.lo]
    ELSE b

\* on_buffer_changed: the current match is forgotten, repaint and preview
\* are due, each timer is started unless it runs.
Changed ==
    /\ scanned' = 0 /\ curStart' = -1 /\ curIndex' = -1
    /\ hlPending' = TRUE
    /\ pvPending' = TRUE /\ pvTimer' = TRUE /\ previewed' = FALSE
    /\ UNCHANGED <<term, top, scPending>>

-----------------------------------------------------------------------------
(* Typing, loading, pasting                                                *)

Fits(b) == Len(b.text) <= MaxText

Type(s) ==
    /\ alive
    /\ buf' = LET b == IF buf.lo = buf.hi THEN buf
                       ELSE AutoClose(DeleteSelection(buf), pasting)
              IN  AutoClose(Insert(b, b.lo, <<s>>), pasting)
    /\ Fits(buf') /\ Changed /\ loaded' = FALSE
    /\ UNCHANGED <<pasteVars, alive>>

\* Backspace.
Erase ==
    /\ alive /\ (buf.lo < buf.hi \/ buf.lo > 0)
    /\ buf' = AutoClose(IF buf.lo < buf.hi THEN DeleteSelection(buf)
                        ELSE Delete(buf, buf.lo - 1), pasting)
    /\ Fits(buf') /\ Changed /\ loaded' = FALSE
    /\ UNCHANGED <<pasteVars, alive>>

MoveCursor(p) ==
    /\ alive /\ p <= Len(buf.text) /\ (p # buf.lo \/ buf.lo # buf.hi)
    /\ buf' = [buf EXCEPT !.lo = p, !.hi = p]
    /\ UNCHANGED <<loaded, searchVars, timerVars, previewed, pasteVars, alive>>

\* set_text: the buffer is emptied and filled, which runs the handlers of a
\* change, and the preview they asked for is called off.
set_text(c) ==
    /\ alive /\ <<c, buf.text>> # << <<>>, <<>> >>
    /\ buf' = AutoClose([text |-> c, lo |-> Len(c), hi |-> Len(c), tags |-> {}, cur |-> {}],
                        pasting)
    /\ loaded' = TRUE
    /\ scanned' = 0 /\ curStart' = -1 /\ curIndex' = -1
    /\ hlPending' = TRUE
    /\ pvPending' = FALSE /\ pvTimer' = TRUE /\ previewed' = FALSE
    /\ UNCHANGED <<term, top, scPending, pasteVars, alive>>

\* Ctrl+V or Paste: the flag is set for 50 ms and the clipboard is asked.
on_paste_done(n) == pasting' = TRUE /\ pasteTimers' = pasteTimers + n

AskPaste ==
    /\ alive /\ ~asked /\ pasteTimers < MaxPaste /\ asked' = TRUE
    /\ on_paste_done(1)
    /\ UNCHANGED <<buf, loaded, searchVars, timerVars, previewed, alive>>

\* The clipboard answers, in time or late; then "paste-done" is emitted.
PasteArrives(s) ==
    /\ alive /\ asked /\ asked' = FALSE /\ pasteTimers <= MaxPaste
    /\ buf' = LET b == IF buf.lo = buf.hi THEN buf
                       ELSE AutoClose(DeleteSelection(buf), pasting)
              IN  AutoClose(Insert(b, b.lo, s), pasting)
    /\ Fits(buf') /\ Changed /\ loaded' = FALSE
    /\ on_paste_done(1)
    /\ UNCHANGED alive

\* An image was on the clipboard: its link is inserted at the cursor.
insert_text_at_cursor ==
    /\ alive /\ asked /\ asked' = FALSE
    /\ buf' = AutoClose(Insert(buf, buf.lo, <<"y">>), pasting)
    /\ Fits(buf') /\ Changed /\ loaded' = FALSE
    /\ UNCHANGED <<pasting, pasteTimers, alive>>

PasteTimeout ==
    /\ alive /\ pasteTimers > 0 /\ pasteTimers' = pasteTimers - 1 /\ pasting' = FALSE
    /\ UNCHANGED <<buf, loaded, searchVars, timerVars, previewed, asked, alive>>

-----------------------------------------------------------------------------
(* Painting                                                                *)

Matches(t) == {i \in 1..Len(t) : t[i] = "x"}

\* visible_offset_window: start and end offset.
InWindow(i, at) == i > at /\ i - 1 <= at + ViewSize

\* render_search_highlights: every tag is removed, the matches of the window
\* are tagged, and the current match if it touches the window.
render_search_highlights(b, on, at, start) ==
    [b EXCEPT !.tags = {i \in Matches(b.text) : on /\ InWindow(i, at)},
              !.cur = IF on /\ start >= 0 /\ start <= at + ViewSize /\ start + 1 >= at
                      THEN {start + 1} ELSE {}]

on_highlight_tick ==
    /\ alive /\ hlPending /\ hlPending' = FALSE
    /\ buf' = render_search_highlights(buf, term, top, curStart)
    /\ UNCHANGED <<loaded, searchVars, scPending, pvPending, pvTimer, previewed, pasteVars, alive>>

\* Mutant: the repaint after scrolling is not scheduled.
ScrollUnseen(at) ==
    /\ alive /\ at # top /\ top' = at
    /\ UNCHANGED <<buf, loaded, term, scanned, curStart, curIndex, timerVars, previewed,
                   pasteVars, alive>>

\* The view scrolls, by hand or towards a match: schedule_viewport_render.
on_scroll_changed(at) ==
    /\ alive /\ at # top /\ top' = at /\ scPending' = TRUE
    /\ UNCHANGED <<buf, loaded, term, scanned, curStart, curIndex, hlPending,
                   pvPending, pvTimer, previewed, pasteVars, alive>>

on_scroll_tick ==
    /\ alive /\ scPending /\ scPending' = FALSE
    /\ buf' = render_search_highlights(buf, term, top, curStart)
    /\ UNCHANGED <<loaded, searchVars, hlPending, pvPending, pvTimer, previewed,
                   pasteVars, alive>>

on_preview_tick ==
    /\ alive /\ pvTimer /\ pvTimer' = FALSE /\ pvPending' = FALSE
    /\ previewed' = (previewed \/ pvPending)
    /\ UNCHANGED <<buf, loaded, searchVars, hlPending, scPending, pasteVars, alive>>

-----------------------------------------------------------------------------
(* Searching                                                               *)

\* The search context scans on, in an idle callback of its own.
Scan ==
    /\ alive /\ term /\ scanned < Len(buf.text) /\ scanned' = scanned + 1
    /\ UNCHANGED <<buf, loaded, term, curStart, curIndex, top, timerVars, previewed,
                   pasteVars, alive>>

set_search_text(on) ==
    /\ alive /\ on # term /\ term' = on /\ scanned' = 0
    /\ curStart' = -1 /\ curIndex' = -1
    /\ buf' = render_search_highlights(buf, on, top, -1)
    /\ UNCHANGED <<loaded, top, timerVars, previewed, pasteVars, alive>>

\* The match that do_search selects: the first one from the far side of the
\* selection on, or around the end of the text.
Found(b, forward) ==
    LET m == Matches(b.text)
        ahead == IF forward THEN {i \in m : i > b.hi} ELSE {i \in m : i <= b.lo}
        from == IF ahead = {} THEN m ELSE ahead
    IN  IF forward THEN CHOOSE i \in from : \A j \in from : i <= j
        ELSE CHOOSE i \in from : \A j \in from : j <= i

Rank(t, i) == Cardinality({j \in Matches(t) : j < i})

\* do_search with index as current_occurrence_ so far: the match is selected,
\* it is the current one, its index is taken from the scan if that has come
\* so far (upto), else the old one is kept; repaint.
do_search(b, forward, index, upto) ==
    LET i == Found(b, forward) IN
    IF Matches(b.text) = {} THEN [buf |-> b, start |-> -1, index |-> index]
    ELSE [buf |-> render_search_highlights([b EXCEPT !.lo = i - 1, !.hi = i], TRUE, top, i - 1),
          start |-> i - 1, index |-> IF i <= upto THEN Rank(b.text, i) ELSE index]

\* on_find_next, on_find_prev of the find bar: the term is set again, which
\* forgets the current match, then do_search.
Find(forward) ==
    LET r == do_search(render_search_highlights(buf, TRUE, top, -1), forward, -1, scanned) IN
    /\ alive /\ term
    /\ buf' = r.buf /\ curStart' = r.start /\ curIndex' = r.index
    /\ UNCHANGED <<loaded, term, scanned, top, timerVars, previewed, pasteVars, alive>>

\* do_replace: the selected match, else the next one from the cursor, is
\* replaced and the next one searched; the library's deletion and insertion
\* count as one change.
do_replace ==
    LET i == Found([buf EXCEPT !.hi = buf.lo], TRUE)
        b == AutoClose(Insert(Delete(buf, i - 1), i - 1, <<"y">>), pasting)
        r == do_search(b, TRUE, -1, 0)
    IN  /\ alive /\ term /\ Matches(buf.text) # {}
        /\ buf' = r.buf /\ Fits(buf') /\ curStart' = r.start /\ curIndex' = r.index
        /\ scanned' = 0 /\ hlPending' = TRUE
        /\ pvPending' = TRUE /\ pvTimer' = TRUE /\ previewed' = FALSE /\ loaded' = FALSE
        /\ UNCHANGED <<term, top, scPending, pasteVars, alive>>

\* do_replace_all, all replacements as one change.
do_replace_all ==
    /\ alive /\ term /\ Matches(buf.text) # {}
    /\ buf' = AutoClose([buf EXCEPT !.text = [k \in DOMAIN @ |-> IF @[k] = "x" THEN "y" ELSE @[k]],
                                    !.tags = {}, !.cur = {}], pasting)
    /\ Fits(buf') /\ Changed /\ loaded' = FALSE
    /\ UNCHANGED <<pasteVars, alive>>

\* current_search_position: nothing before the scan has counted all matches,
\* then the cached index, else the matches up to the current one.
current_search_position ==
    IF Matches(buf.text) = {} \/ ~term \/ scanned < Len(buf.text) THEN 0
    ELSE IF curIndex >= 0 THEN curIndex + 1
    ELSE Cardinality({i \in Matches(buf.text) : i - 1 <= curStart})

\* The destructor disconnects the three timers and gives the buffer and the
\* search context up; the timers of pasting stay.
DestroyEditor ==
    /\ alive /\ alive' = FALSE /\ buf' = EmptyBuffer /\ loaded' = FALSE
    /\ term' = FALSE /\ scanned' = 0 /\ curStart' = -1 /\ curIndex' = -1 /\ top' = 0
    /\ hlPending' = FALSE /\ scPending' = FALSE /\ pvPending' = FALSE /\ pvTimer' = FALSE
    /\ UNCHANGED <<previewed, pasteVars>>

-----------------------------------------------------------------------------
EditorInit ==
    /\ buf = EmptyBuffer
    /\ loaded = FALSE /\ previewed = TRUE /\ alive = TRUE
    /\ term = FALSE /\ scanned = 0 /\ curStart = -1 /\ curIndex = -1 /\ top = 0
    /\ hlPending = FALSE /\ scPending = FALSE
    /\ pvPending = FALSE /\ pvTimer = FALSE
    /\ pasting = FALSE /\ pasteTimers = 0 /\ asked = FALSE

EditorNext ==
    \/ \E s \in Keys : Type(s)
    \/ Erase \/ \E p \in 0..MaxText : MoveCursor(p)
    \/ \E c \in Contents : set_text(c)
    \/ AskPaste \/ (\E s \in Clips : PasteArrives(s)) \/ insert_text_at_cursor \/ PasteTimeout
    \/ on_highlight_tick \/ on_scroll_tick \/ on_preview_tick
    \/ \E at \in 0..(MaxText - ViewSize) : on_scroll_changed(at)
    \/ Scan \/ do_replace \/ do_replace_all \/ DestroyEditor
    \/ \E b \in BOOLEAN : set_search_text(b) \/ Find(b)

EditorSpec == EditorInit /\ [][EditorNext]_editorVars

-----------------------------------------------------------------------------
(* Types of the editor's state.                                            *)
EditorTypeOK ==
    /\ Len(buf.text) <= MaxText /\ ToSet(buf.text) \subseteq Pieces
    /\ 0 <= buf.lo /\ buf.lo <= buf.hi /\ buf.hi <= Len(buf.text)
    /\ curStart \in -1..MaxText /\ curIndex \in -1..MaxText
    /\ pasteTimers \in 0..(MaxPaste + 1) /\ scanned \in 0..MaxText
    /\ {loaded, term, pasting, asked, alive} \subseteq BOOLEAN

(* Whatever was typed, scrolled, searched and replaced since: once no      *)
(* repaint is due, exactly the matches of the window are highlighted and   *)
(* the current-match tag is on the current match.                          *)
HighlightsCurrent ==
    (alive /\ ~hlPending /\ ~scPending) =>
        /\ buf.tags = {i \in Matches(buf.text) : term /\ InWindow(i, top)}
        /\ buf.cur \subseteq {curStart + 1}

(* No edit is left out of the preview: after a change that it does not show*)
(* a timer runs that will show it, unless the buffer was loaded since with *)
(* set_text, which calls the preview off.                                  *)
PreviewCaughtUp ==
    alive => previewed \/ (pvPending /\ pvTimer) \/ loaded

(* The position the find bar shows is that of the current match, however   *)
(* far the scan had come when the match was reached: an index kept from an *)
(* earlier match is never shown for a later one.                           *)
PositionRight ==
    (alive /\ term /\ curStart >= 0) =>
        /\ curStart + 1 \in Matches(buf.text)
        /\ current_search_position \in {0, Rank(buf.text, curStart + 1) + 1}

(* The three together: after any run of edits, pastes, searches, scrolls   *)
(* and timers, what the tags, the find bar and the preview show is right   *)
(* or a timer that corrects it runs.                                       *)
EditorInStep == HighlightsCurrent /\ PreviewCaughtUp /\ PositionRight
=============================================================================
