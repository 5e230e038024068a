---------------------------- MODULE TerminalPane ----------------------------
(***************************************************************************)
(* The working directory of one terminal pane over any number of runs of   *)
(* the program (gui/terminal/terminal_pane.cpp, core/terminal/cwd.hpp):    *)
(* the asynchronous start of the shell, the four sources a capture takes   *)
(* the directory from, the shutdown that ends the shell before the last    *)
(* capture, and the restore.                                               *)
(*                                                                         *)
(* A capture is followed by a checkpoint that succeeds (its failures are   *)
(* in SqliteStorage).  Screen contents, colours, search and the clipboard  *)
(* are left out.  Process ids are not reused.                              *)
(***************************************************************************)
EXTENDS Sequences, FiniteSets

CONSTANTS
    Dirs,       \* directories a shell may be in
    Home,       \* $HOME, which always exists
    NoDir       \* an empty path

ASSUME PaneAssumption == Home \in Dirs /\ NoDir \notin Dirs

VARIABLES
    object,     \* the TerminalPane exists
    closing,    \* the close handler of the window is running
    spawning,   \* spawns that have not reported yet, by their directory
    tracked,    \* the process shell_pid_ names: "none", "live" or "gone"
    pwd,        \* directory of that process
    uri,        \* path of the terminal's current OSC 7 URI
    reports,    \* the shell sends OSC 7 with its prompt
    cached,     \* cached_cwd_
    saved,      \* PaneState::cwd in the last checkpoint
    mounted     \* directories that exist

paneVars == <<object, closing, spawning, tracked, pwd, uri, reports, cached,
              saved, mounted>>

-----------------------------------------------------------------------------
(* cwd.hpp                                                                 *)

read_proc_cwd(process, d) == IF process = "live" /\ d \in mounted THEN d ELSE NoDir

\* The first of its four sources that is not empty.
pick_capture_cwd(osc7, proc, last) ==
    IF osc7 # NoDir THEN osc7 ELSE IF proc # NoDir THEN proc ELSE IF last # NoDir THEN last ELSE Home

pick_restore_cwd(captured) == IF captured \in mounted THEN captured ELSE Home

-----------------------------------------------------------------------------
(* Starting a shell                                                        *)

\* A new pane: the constructor spawns a shell and initialize_fresh() asks
\* for a second one before the first has reported.
NewPane ==
    /\ ~object /\ saved = NoDir /\ spawning = <<>>
    /\ object' = TRUE /\ spawning' = <<Home, Home>> /\ cached' = Home
    /\ tracked' = "none" /\ pwd' = NoDir /\ uri' = NoDir
    /\ UNCHANGED <<closing, reports, saved, mounted>>

\* A restored pane: the constructor defers, runtime_restore() spawns once, in
\* $HOME (initialize_fresh) when the pane was never captured.
runtime_restore ==
    /\ ~object /\ spawning = <<>>
    /\ object' = TRUE /\ tracked' = "none" /\ pwd' = NoDir /\ uri' = NoDir
    /\ spawning' = <<pick_restore_cwd(saved)>>
    /\ cached' = IF saved = NoDir THEN Home ELSE saved
    /\ UNCHANGED <<closing, reports, saved, mounted>>

\* on_spawned_trampoline takes pid and group without looking at the error; a
\* failed start leaves -1, which names no process.  VTE falls back to $HOME
\* when the directory has gone, and a second shell replaces the first one.
on_spawned(ok) ==
    /\ object /\ spawning # <<>> /\ spawning' = Tail(spawning)
    /\ tracked' = IF ok THEN "live" ELSE "none"
    /\ pwd' = IF ok THEN pick_restore_cwd(Head(spawning)) ELSE NoDir
    /\ UNCHANGED <<object, closing, uri, reports, cached, saved, mounted>>

\* The report reaches a pane that was destroyed; nothing cancels it.
SpawnedTooLate ==
    /\ ~object /\ spawning # <<>> /\ spawning' = Tail(spawning)
    /\ UNCHANGED <<object, closing, tracked, pwd, uri, reports, cached, saved, mounted>>

-----------------------------------------------------------------------------
(* The shell and the file system                                           *)

Cd(d) ==
    /\ tracked = "live" /\ d \in mounted \ {pwd} /\ pwd' = d
    /\ UNCHANGED <<object, closing, spawning, tracked, uri, reports, cached, saved, mounted>>

Prompt ==
    /\ tracked = "live" /\ reports /\ uri # pwd /\ uri' = pwd
    /\ UNCHANGED <<object, closing, spawning, tracked, pwd, reports, cached, saved, mounted>>

\* The shell exits; shell_pid_ still names it.
ShellExits ==
    /\ tracked = "live" /\ tracked' = "gone"
    /\ UNCHANGED <<object, closing, spawning, pwd, uri, reports, cached, saved, mounted>>

Mount(d) ==
    /\ d # Home
    /\ mounted' = IF d \in mounted THEN mounted \ {d} ELSE mounted \cup {d}
    /\ UNCHANGED <<object, closing, spawning, tracked, pwd, uri, reports, cached, saved>>

-----------------------------------------------------------------------------
(* Capture and shutdown                                                    *)

resolve_capture_cwd == pick_capture_cwd(uri, read_proc_cwd(tracked, pwd), cached)

\* Mutant: the captured directory is not remembered.
CaptureUncached ==
    /\ saved' = resolve_capture_cwd /\ UNCHANGED cached

\* runtime_capture() as far as it changes state.
runtime_capture ==
    /\ saved' = resolve_capture_cwd /\ cached' = saved'

Autosaved ==
    /\ object /\ runtime_capture
    /\ UNCHANGED <<object, closing, spawning, tracked, pwd, uri, reports, mounted>>

\* The close handler ends the tracked shell: SIGHUP, 2 s, SIGKILL.  A shell
\* that is still being started is not known and not ended ...
terminate_and_wait ==
    /\ object /\ ~closing /\ closing' = TRUE
    /\ tracked' = "none" /\ pwd' = NoDir
    /\ UNCHANGED <<object, spawning, uri, reports, cached, saved, mounted>>

\* ... and may report while the handler drains the main loop, before the
\* final capture.
FinalCapture ==
    /\ closing /\ runtime_capture
    /\ closing' = FALSE /\ object' = FALSE /\ spawning' = <<>>
    /\ tracked' = "none" /\ pwd' = NoDir
    /\ UNCHANGED <<uri, reports, mounted>>

Killed ==
    /\ object /\ object' = FALSE /\ closing' = FALSE /\ spawning' = <<>>
    /\ tracked' = "none" /\ pwd' = NoDir
    /\ UNCHANGED <<uri, reports, cached, saved, mounted>>

\* The pane is closed; its PaneState goes with it.
ClosePane ==
    /\ object /\ ~closing /\ object' = FALSE /\ saved' = NoDir
    /\ tracked' = "none" /\ pwd' = NoDir
    /\ UNCHANGED <<closing, spawning, uri, reports, cached, mounted>>

PaneInit ==
    /\ object = FALSE /\ closing = FALSE /\ spawning = <<>> /\ tracked = "none"
    /\ pwd = NoDir /\ uri = NoDir /\ reports \in BOOLEAN /\ cached = NoDir
    /\ saved = NoDir /\ mounted = Dirs

PaneNext ==
    \/ NewPane \/ runtime_restore \/ SpawnedTooLate \/ Prompt \/ ShellExits
    \/ \E ok \in BOOLEAN : on_spawned(ok)
    \/ \E d \in Dirs : Cd(d) \/ Mount(d)
    \/ Autosaved \/ terminate_and_wait \/ FinalCapture \/ Killed \/ ClosePane

PaneSpec == PaneInit /\ [][PaneNext]_paneVars

-----------------------------------------------------------------------------
(* A pane never forgets where it was.  Once a directory was saved, a step  *)
(* that saves another one has it from the terminal's OSC 7 report or from  *)
(* the shell itself: a capture that finds no shell to ask, because it is   *)
(* still being started after a restore, failed to start, exited or was     *)
(* ended by the close handler, saves the same directory again, in this run *)
(* and in later ones, also when that directory is not mounted.             *)
DirectoryKept ==
    [][\/ saved = NoDir \/ saved' \in {saved, uri}
       \/ tracked = "live" /\ saved' = pwd
       \/ saved' = NoDir /\ ~object']_paneVars
=============================================================================
