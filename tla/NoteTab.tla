------------------------------ MODULE NoteTab ------------------------------
(***************************************************************************)
(* One note tab of MainWindow: the editor buffer and its modified flag     *)
(* (note_editor.cpp), the file the note is bound to and the 1.5 s poll of  *)
(* that file (note_tab_view.cpp), the close guard (main_window.cpp) and    *)
(* what a restart brings back.  The GTK thread runs every handler to its   *)
(* end; other programs write the file at any moment, and the poll opens    *)
(* its prompt on top of whatever dialog the user has in front of them.     *)
(* Modification time and size of a file are one stamp, new at every write. *)
(***************************************************************************)
EXTENDS Naturals, Sequences, FiniteSets, SequencesExt

CONSTANTS
    Path,       \* files a note can be bound to
    Body,       \* texts a user or another program writes
    MaxNotes,   \* bound: notes created
    MaxWrites,  \* bound: writes to one file
    MaxStarts   \* bound: restarts

ASSUME NoteAssumption == MaxNotes \in Nat \ {0} /\ MaxWrites \in Nat /\ MaxStarts \in Nat

Blank == "blank"     \* the text of a new note
Torn == "torn"       \* what is left of a file when the disk fills up
Missing == "missing"
None == "none"
ASSUME TextAssumption ==
    /\ {Blank, Torn, Missing, None} \cap Body = {} /\ None \notin Path

Text == Body \cup {Blank, Torn}
Note == 1..MaxNotes
Dialogs == {"reload", "conflict", "close", "saveas", "savethenclose"}
Closes == {"ask", "keep", "skip"}

VARIABLES
    disk,      \* contents and stamp of every file
    paths,     \* the path stored for each note (note_path)
    note,      \* note_id_ of the newest tab
    open,      \* the tab is in tabs_
    text,      \* the editor buffer
    modified,  \* its modified flag
    watch,     \* watched_path_, last_mtime_ / last_size_, triggered_ and the timer
    view,      \* the tab is the visible child; the widget is realized
    dialogs,   \* open modal dialogs, the one that has the grab first
    settings,  \* auto-reload and what to do with unsaved notes
    saved,     \* the note tab of the last checkpoint, or None
    work,      \* history: text typed, not yet in a file and not given up
    faults,    \* history: failed writes, restarts, crashes
    starts     \* restarts so far

vars == <<disk, paths, note, open, text, modified, watch, view, dialogs, settings,
          saved, work, faults, starts>>
buffer == <<text, modified, work>>
tab == <<note, open, view>>

path == paths[note]
NoWatch == [path |-> None, stamp |-> 0, triggered |-> FALSE, timer |-> FALSE]
Snapshot == IF open THEN [note |-> note, text |-> text] ELSE [note |-> 0, text |-> Blank]

Init ==
    /\ disk \in [Path -> [text : {Missing} \cup Body, stamp : {0}]]
    /\ note = 1 /\ paths = [n \in Note |-> None]
    /\ open = TRUE /\ text = Blank /\ modified = FALSE /\ watch = NoWatch
    /\ view = [shown |-> TRUE, realized |-> TRUE]
    /\ dialogs = << >> /\ settings = [reload |-> FALSE, close |-> "ask"]
    /\ saved = [note |-> 0, text |-> Blank]
    /\ work = None /\ faults = {} /\ starts = 0

-----------------------------------------------------------------------------
(* Parts of the handlers                                                   *)

\* start_watcher() for path p and file system d.
StartWatcher(p, d, w) ==
    IF p = None THEN w
    ELSE IF d[p].text = Missing THEN w
    ELSE [path |-> p, stamp |-> d[p].stamp, triggered |-> FALSE, timer |-> TRUE]

\* write_note_file(): the stream does not open, or the text is written, or
\* the file is truncated and the text does not reach it.  No caller looks at
\* the result, and the last case returns true.
WriteFile(p) ==
    \/ UNCHANGED <<disk, work>> /\ faults' = faults \cup {"write"}
    \/ \E t \in {text, Torn} :
        /\ disk[p].stamp < MaxWrites
        /\ disk' = [disk EXCEPT ![p] = [text |-> t, stamp |-> @.stamp + 1]]
        /\ work' = IF t = work THEN None ELSE work
        /\ faults' = IF t = text THEN faults ELSE faults \cup {"write"}

\* save_now() of a note with a path.  flush_now() checkpoints if a change of
\* the workspace is pending; the flag is cleared whatever the write did.
SaveToPath ==
    /\ saved' \in {saved, Snapshot}
    /\ WriteFile(path) /\ modified' = FALSE

\* reload_from_disk(): does the buffer get the contents of the file?
Reloads(d) ==
    /\ watch.path # None
    /\ d[watch.path].text # Missing /\ d[watch.path].text # text

\* Mutant: the tab is destroyed without disconnecting its timer.
FinishCloseKeepsTimer ==
    /\ open' = FALSE /\ text' = Blank /\ modified' = FALSE
    /\ view' = [shown |-> FALSE, realized |-> FALSE]
    /\ UNCHANGED <<watch, note>>

\* finish_close_tab() and the destructor, which disconnects the timer.  The
\* tab leaves the workspace, and with the next checkpoint the database.
FinishClose ==
    /\ open' = FALSE /\ text' = Blank /\ modified' = FALSE
    /\ view' = [shown |-> FALSE, realized |-> FALSE]
    /\ watch' = NoWatch /\ UNCHANGED note

\* The text is given up: Skip, Discard, Reload, auto-reload, a crash.
GiveUp == work' = None

-----------------------------------------------------------------------------
(* The user, with no dialog open.  A modal dialog keeps the rest of the    *)
(* application from getting input.                                         *)

Idle == open /\ dialogs = << >>

Type(t) ==
    /\ Idle /\ view.shown /\ t # text
    /\ text' = t /\ modified' = TRUE /\ work' = t
    /\ UNCHANGED <<disk, paths, tab, watch, dialogs, settings, saved, faults, starts>>

\* save_now(): a note without a path asks for one.
Save ==
    /\ Idle /\ view.shown
    /\ IF path = None
       THEN dialogs' = <<"saveas">> /\ UNCHANGED <<disk, modified, work, saved, faults>>
       ELSE SaveToPath /\ UNCHANGED dialogs
    /\ UNCHANGED <<paths, tab, text, watch, settings, starts>>

SaveAs ==
    /\ Idle /\ view.shown /\ dialogs' = <<"saveas">>
    /\ UNCHANGED <<disk, paths, tab, buffer, watch, settings, saved, faults, starts>>

\* Mutant: a note without a path is not asked for one.
CloseKeepNoteAlways(rest) ==
    /\ dialogs' = rest
    /\ IF path # None THEN SaveToPath ELSE UNCHANGED <<disk, work, saved, faults>>
    /\ FinishClose /\ UNCHANGED <<paths, settings, starts>>

\* close_keep_note(): save and close, or let Save As close the tab later.
CloseKeepNote(rest) ==
    IF path # None
    THEN SaveToPath /\ FinishClose /\ dialogs' = rest /\ UNCHANGED <<paths, settings, starts>>
    ELSE /\ dialogs' = <<"savethenclose">> \o rest
         /\ UNCHANGED <<disk, paths, tab, buffer, watch, settings, saved, faults, starts>>

\* close_tab()
Close ==
    /\ Idle
    /\ \/ /\ ~modified \/ settings.close = "skip"
          /\ FinishClose /\ (IF modified THEN GiveUp ELSE UNCHANGED work)
          /\ UNCHANGED <<disk, paths, dialogs, settings, saved, faults, starts>>
       \/ modified /\ settings.close = "keep" /\ CloseKeepNote(<< >>)
       \/ /\ modified /\ settings.close = "ask" /\ dialogs' = <<"close">>
          /\ UNCHANGED <<disk, paths, tab, buffer, watch, settings, saved, faults, starts>>

\* new_note_tab(): the new tab becomes the visible child.
NewNote ==
    /\ ~open /\ note < MaxNotes
    /\ note' = note + 1 /\ open' = TRUE /\ text' = Blank /\ modified' = FALSE
    /\ watch' = NoWatch /\ view' = [shown |-> TRUE, realized |-> TRUE]
    /\ paths' = [paths EXCEPT ![note + 1] = None]
    /\ UNCHANGED <<disk, dialogs, settings, saved, work, faults, starts>>

\* open_note_from_path() of a file that is not open: new_note, load_file.
OpenFile(p) ==
    /\ ~open /\ note < MaxNotes /\ disk[p].text # Missing
    /\ note' = note + 1 /\ open' = TRUE /\ text' = disk[p].text /\ modified' = FALSE
    /\ paths' = [paths EXCEPT ![note + 1] = p]
    /\ watch' = StartWatcher(p, disk, NoWatch)
    /\ view' = [shown |-> TRUE, realized |-> TRUE]
    /\ UNCHANGED <<disk, dialogs, settings, saved, work, faults, starts>>

\* open_note_from_path() of the file of this tab: the tab is shown, and asks
\* when it has unsaved edits.
Reopen ==
    /\ Idle /\ path # None /\ view' = [shown |-> TRUE, realized |-> TRUE]
    /\ dialogs' = IF modified THEN <<"conflict">> ELSE << >>
    /\ UNCHANGED <<disk, paths, note, open, buffer, watch, settings, saved, faults, starts>>

\* SettingsDialog
SetSetting(reload, close) ==
    /\ dialogs = << >> /\ settings' = [reload |-> reload, close |-> close]
    /\ settings' # settings
    /\ UNCHANGED <<disk, paths, tab, buffer, watch, dialogs, saved, faults, starts>>

\* Another tab is shown, or this one.
Switch ==
    /\ open /\ dialogs = << >>
    /\ view' = [shown |-> ~view.shown, realized |-> view.realized \/ ~view.shown]
    /\ UNCHANGED <<disk, paths, note, open, buffer, watch, dialogs, settings, saved, faults, starts>>

\* Another tab is closed (a shell may exit behind a dialog): finish_close_tab
\* takes every child out of the stack and puts it back, which unrealizes the
\* hidden ones, and may make this tab the visible one.
CloseOther ==
    /\ open
    /\ \E shown \in {view.shown, TRUE} : view' = [shown |-> shown, realized |-> shown]
    /\ UNCHANGED <<disk, paths, note, open, buffer, watch, dialogs, settings, saved, faults, starts>>

-----------------------------------------------------------------------------
(* Answers to the dialog that has the grab                                 *)

Top(d) == dialogs # << >> /\ Head(dialogs) = d
Pop == dialogs' = Tail(dialogs)

\* prompt_reload: Reload, or Keep.
AnswerReload(yes) ==
    /\ Top("reload") /\ Pop
    /\ watch' = [watch EXCEPT !.triggered = FALSE]
    /\ IF yes /\ Reloads(disk)
       THEN text' = disk[watch.path].text /\ modified' = TRUE /\ GiveUp
       ELSE UNCHANGED buffer
    /\ UNCHANGED <<disk, paths, tab, settings, saved, faults, starts>>

\* prompt_open_conflict: Save (then reload what was written), Discard &
\* Reload, or Cancel.
AnswerConflict(answer) ==
    /\ Top("conflict") /\ Pop
    /\ watch' = [watch EXCEPT !.triggered = FALSE]
    /\ CASE answer = "save" ->
              /\ saved' \in {saved, Snapshot} /\ WriteFile(path)
              /\ IF Reloads(disk') THEN text' = disk'[watch.path].text /\ modified' = TRUE
                                   ELSE modified' = FALSE /\ UNCHANGED text
         [] answer = "discard" ->
              /\ IF Reloads(disk)
                 THEN text' = disk[watch.path].text /\ modified' = TRUE /\ GiveUp
                 ELSE UNCHANGED buffer
              /\ UNCHANGED <<disk, saved, faults>>
         [] OTHER -> UNCHANGED <<disk, buffer, saved, faults>>
    /\ UNCHANGED <<paths, tab, settings, starts>>

\* prompt_close_note: Keep, or Skip.
AnswerClose(keep) ==
    /\ Top("close")
    /\ IF keep THEN CloseKeepNote(Tail(dialogs))
       ELSE Pop /\ FinishClose /\ GiveUp /\ UNCHANGED <<disk, paths, settings, saved, faults, starts>>

\* save_as: cancelled, or a file p chosen.  on_done closes the tab.
AnswerSaveAs(p) ==
    /\ Top("saveas") \/ Top("savethenclose")
    /\ Pop
    /\ IF p = None
       THEN UNCHANGED <<disk, paths, tab, buffer, watch, faults>>
       ELSE /\ paths' = [paths EXCEPT ![note] = p]
            /\ WriteFile(p) /\ modified' = FALSE
            /\ IF Head(dialogs) = "savethenclose" THEN FinishClose
               ELSE watch' = StartWatcher(p, disk', watch) /\ UNCHANGED <<tab, text>>
    /\ UNCHANGED <<settings, saved, starts>>

-----------------------------------------------------------------------------
(* Timers, other programs, restarts                                        *)

\* Mutant: the prompt is opened at every change, triggered_ or not.
PollAlways ==
    /\ open /\ watch.timer
    /\ path = watch.path /\ disk[path].text # Missing /\ disk[path].stamp # watch.stamp
    /\ watch' = [watch EXCEPT !.stamp = disk[path].stamp, !.triggered = TRUE]
    /\ dialogs' = IF view.realized THEN <<"reload">> \o dialogs ELSE dialogs
    /\ UNCHANGED <<disk, paths, tab, buffer, settings, saved, faults, starts>>

\* Mutant: the callback returns false after a change, which ends the timer.
PollOnce ==
    /\ open /\ watch.timer
    /\ path = watch.path /\ disk[path].text # Missing /\ disk[path].stamp # watch.stamp
    /\ watch' = [watch EXCEPT !.stamp = disk[path].stamp, !.triggered = TRUE, !.timer = FALSE]
    /\ dialogs' = IF watch.triggered \/ ~view.realized THEN dialogs ELSE <<"reload">> \o dialogs
    /\ UNCHANGED <<disk, paths, tab, buffer, settings, saved, faults, starts>>

\* poll_file(), when it does something.
Poll ==
    /\ open /\ watch.timer
    /\ IF path # watch.path
       THEN /\ watch' = StartWatcher(path, disk, watch) /\ watch' # watch
            /\ UNCHANGED <<buffer, dialogs>>
       ELSE /\ disk[path].text # Missing /\ disk[path].stamp # watch.stamp
            /\ LET seen == [watch EXCEPT !.stamp = disk[path].stamp]
                   auto == ~watch.triggered /\ settings.reload
               IN  IF auto /\ Reloads(disk)
                   THEN /\ text' = disk[path].text /\ modified' = TRUE /\ GiveUp
                        /\ watch' = seen /\ UNCHANGED dialogs
                   ELSE /\ watch' = [seen EXCEPT !.triggered = TRUE]
                        /\ dialogs' = IF watch.triggered \/ auto \/ ~view.realized THEN dialogs
                                      ELSE <<"reload">> \o dialogs
                        /\ UNCHANGED buffer
    /\ UNCHANGED <<disk, paths, tab, settings, saved, faults, starts>>

\* Another program writes or deletes a file.
External(p, t) ==
    /\ disk[p].stamp < MaxWrites
    /\ disk' = [disk EXCEPT ![p] = [text |-> t, stamp |-> @.stamp + 1]]
    /\ UNCHANGED <<paths, tab, buffer, watch, dialogs, settings, saved, faults, starts>>

\* The autosaver's checkpoint, with the runtime capture before it.
Checkpoint ==
    /\ saved' = Snapshot /\ saved' # saved
    /\ UNCHANGED <<disk, paths, tab, buffer, watch, dialogs, settings, faults, starts>>

\* restore_workspace(): the constructor starts the watcher, restore_state
\* sets the buffer and clears the flag.
Restore ==
    /\ starts < MaxStarts /\ starts' = starts + 1 /\ dialogs' = << >>
    /\ IF saved'.note = 0 THEN FinishClose
       ELSE /\ open' = TRUE /\ note' = saved'.note /\ text' = saved'.text /\ modified' = FALSE
            /\ watch' = StartWatcher(paths[note'], disk, NoWatch)
            /\ \E shown \in BOOLEAN : view' = [shown |-> shown, realized |-> shown]
    /\ UNCHANGED <<disk, paths, settings>>

\* The close handler of the window captures and checkpoints; then a start.
Quit ==
    /\ dialogs = << >> /\ saved' = Snapshot /\ faults' = faults \cup {"restart"}
    /\ UNCHANGED work /\ Restore

\* The process dies, or the last checkpoint fails; then a start.
Crash ==
    /\ faults' = faults \cup {"crash"} /\ UNCHANGED saved /\ GiveUp /\ Restore

Next ==
    \/ \E t \in Body : Type(t)
    \/ Save \/ SaveAs \/ Close \/ NewNote \/ Reopen \/ Switch \/ CloseOther
    \/ \E reload \in BOOLEAN, close \in Closes : SetSetting(reload, close)
    \/ \E yes \in BOOLEAN : AnswerReload(yes) \/ AnswerClose(yes)
    \/ \E answer \in {"save", "discard", "cancel"} : AnswerConflict(answer)
    \/ \E p \in Path \cup {None} : AnswerSaveAs(p)
    \/ \E p \in Path : OpenFile(p) \/ \E t \in Body \cup {Missing} : External(p, t)
    \/ Poll \/ Checkpoint \/ Quit \/ Crash

\* A GLib timeout that stays attached fires again.
Spec == Init /\ [][Next]_vars /\ WF_vars(Poll)

-----------------------------------------------------------------------------
(* Properties                                                              *)

(* Types of the tab, its watcher and the file system. *)
TypeOK ==
    /\ disk \in [Path -> [text : Text \cup {Missing}, stamp : 0..MaxWrites]]
    /\ paths \in [Note -> Path \cup {None}] /\ note \in Note /\ open \in BOOLEAN
    /\ text \in Text /\ modified \in BOOLEAN
    /\ watch \in [path : Path \cup {None}, stamp : 0..MaxWrites, triggered : BOOLEAN, timer : BOOLEAN]
    /\ view \in [shown : BOOLEAN, realized : BOOLEAN]
    /\ dialogs \in Seq(Dialogs) /\ settings \in [reload : BOOLEAN, close : Closes]
    /\ saved \in [note : {0} \cup Note, text : Text]
    /\ work \in Body \cup {None} /\ faults \subseteq {"write", "restart", "crash"}

(* Every callback that holds a pointer to the tab, the poll's timer and    *)
(* the answers of its dialogs, is gone when the tab is: whatever the poll  *)
(* opened while the user was closing the tab.                              *)
CallbackTargetAlive == ~open => ~watch.timer /\ dialogs = << >>

(* The poll never piles up prompts: there is at most one about the file,   *)
(* in front of at most one dialog the user opened, although three other    *)
(* handlers reset triggered_.                                              *)
OneReloadPrompt ==
    /\ Len(dialogs) <= 2
    /\ \A i \in DOMAIN dialogs : dialogs[i] = "reload" => i = 1

(* The guard of close_tab and of open_note_from_path: text the user typed, *)
(* has not saved and has not given up is in the editor of an open tab that *)
(* is marked modified, as long as no write failed and the program was not  *)
(* quit and started again.  Auto-reload and a crash give text up.          *)
EditsKept == (work # None /\ faults \subseteq {"crash"}) => open /\ text = work /\ modified

(* A file that another program changed is noticed: the user is asked or    *)
(* the editor shows it, unless the tab goes, is put out of sight by the    *)
(* closing of another one, the file disappears, or a failed Save As or a   *)
(* restart takes the new stamp for its own first.                          *)
ChangeNoticed ==
    \A p \in Path :
        (open /\ path = p /\ watch.path = p /\ disk[p].stamp # watch.stamp
            /\ disk[p].text # text /\ ~watch.triggered)
        ~> \/ "reload" \in Range(dialogs) \/ text = disk[p].text \/ disk[p].text = Missing
           \/ ~open \/ path # p \/ ~view.realized \/ faults # {}
=============================================================================
