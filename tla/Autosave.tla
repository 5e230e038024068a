------------------------------ MODULE Autosave ------------------------------
(***************************************************************************)
(* The autosave pipeline of the GUI process: widgets report activity to    *)
(* core/autosave.cpp, a 250 ms timer of gui/application.cpp flushes what   *)
(* is due, and the workspace provider set by SessionController captures    *)
(* the live widgets into the core and checkpoints it.  Everything runs on  *)
(* the GTK main loop, so a handler is one step.                            *)
(*                                                                         *)
(* The text of a terminal or a note is first only in its widget            *)
(* ("runtime"), then in the core's Workspace ("core"), then in the         *)
(* database ("saved").  Changes of the window structure start in the core. *)
(* How the checkpoint itself works is module SqliteStorage; here it        *)
(* succeeds, returns false, or throws (json::dump on invalid UTF-8).       *)
(***************************************************************************)
EXTENDS Naturals, FiniteSets

CONSTANTS
    Pane, Note,     \* open terminal panes and notes
    Structure,      \* the kWorkspaceKey entry: the workspace as a whole
    Debounce,       \* terminal_debounce_, also used for the workspace
    Idle,           \* note_idle_
    MaxEdits,       \* bound: activity events
    MaxFailures     \* bound: checkpoints that fail

ASSUME AutosaveAssumption ==
    /\ Structure \notin Pane \cup Note /\ Pane \cap Note = {}
    /\ Debounce \in Nat /\ Idle \in Nat
    /\ MaxEdits \in Nat /\ MaxFailures \in Nat

VARIABLES
    pending,    \* keys of pending_
    age,        \* [Key -> time since Entry::last, up to its threshold]
    stage,      \* [Key -> where its newest content is]
    dirty,      \* ws_dirty_
    badge,      \* what the autosave badge said last
    running,    \* the process has not exited
    edits, failures

autosaveVars == <<pending, age, stage, dirty, badge, running, edits, failures>>

Key == Pane \cup Note \cup {Structure}
Stages == {"saved", "core", "runtime"}
Outcomes == {"ok", "false", "throw"}

Threshold(k) == IF k \in Note THEN Idle ELSE Debounce

\* Mutant: the workspace entry has no policy.
DueEntryWidgetsOnly(k) == k \in pending \ {Structure} /\ Threshold(k) > 0 /\ age[k] >= Threshold(k)

\* due_entry: a threshold of zero turns the policy off.
due_entry(k) == k \in pending /\ Threshold(k) > 0 /\ age[k] >= Threshold(k)
DueKeys == {k \in Key : due_entry(k)}

AutosaveInit ==
    /\ pending = {} /\ age = [k \in Key |-> 0]
    /\ stage = [k \in Key |-> "saved"]
    /\ dirty = FALSE /\ badge = "none"
    /\ running = TRUE /\ edits = 0 /\ failures = 0

-----------------------------------------------------------------------------
(* Activity                                                                *)

Note_activity(k) ==
    /\ pending' = pending \cup {k}
    /\ age' = [age EXCEPT ![k] = 0]

Activity == running /\ edits < MaxEdits /\ edits' = edits + 1

\* Typing or output in a pane, a change of a note's buffer.
note_terminal_activity(p) ==
    /\ Activity /\ Note_activity(p)
    /\ stage' = [stage EXCEPT ![p] = "runtime"]
    /\ UNCHANGED <<dirty, badge, running, failures>>

note_note_activity(n) ==
    /\ Activity /\ Note_activity(n)
    /\ stage' = [stage EXCEPT ![n] = "runtime"]
    /\ UNCHANGED <<dirty, badge, running, failures>>

\* Mutant: StateDirty reaches nobody.
MarkDirtyUnheard ==
    /\ Activity
    /\ stage' = [stage EXCEPT ![Structure] = "core"]
    /\ dirty' = TRUE
    /\ UNCHANGED <<pending, age, badge, running, failures>>

\* A mutator of WorkspaceCore: mark_dirty() emits StateDirty, and the
\* session's callback calls note_workspace_activity.
mark_dirty ==
    /\ Activity /\ Note_activity(Structure)
    /\ stage' = [stage EXCEPT ![Structure] = "core"]
    /\ dirty' = TRUE
    /\ UNCHANGED <<badge, running, failures>>

\* Time passes.
Advance ==
    /\ running
    /\ \E k \in pending : age[k] < Threshold(k)
    /\ age' = [k \in Key |-> IF k \in pending /\ age[k] < Threshold(k)
                             THEN age[k] + 1 ELSE age[k]]
    /\ UNCHANGED <<pending, stage, dirty, badge, running, edits, failures>>

-----------------------------------------------------------------------------
(* Saving                                                                  *)

\* capture_all_runtime_state copies every widget into the core; each
\* apply_runtime_state and set_tab_note_state marks dirty, so that the
\* workspace key is noted again.
Captured == [k \in Key |-> IF stage[k] = "runtime" THEN "core" ELSE stage[k]]
Renoted == IF Pane \cup Note = {} THEN pending ELSE pending \cup {Structure}
RenotedAge == IF Pane \cup Note = {} THEN age ELSE [age EXCEPT ![Structure] = 0]

\* Capture, then checkpoint.
Provider(result) ==
    /\ result # "ok" => failures < MaxFailures
    /\ failures' = IF result = "ok" THEN failures ELSE failures + 1
    /\ stage' = IF result = "ok" THEN [k \in Key |-> "saved"] ELSE Captured
    /\ dirty' = IF result = "ok" THEN FALSE ELSE dirty \/ Pane \cup Note # {}

\* The badge for what flush() returns: true as soon as anything was due.
Shown == IF DueKeys # {} THEN "saved" ELSE "failed"

\* flush() with the workspace entry due: the provider runs before the due
\* entries are erased, and its result is not looked at.
flush_workspace(result) ==
    /\ running /\ due_entry(Structure)
    /\ Provider(result)
    /\ IF result = "throw"
       THEN pending' = Renoted /\ age' = RenotedAge /\ UNCHANGED badge
       ELSE /\ pending' = Renoted \ DueKeys
            /\ age' = [k \in Key |-> IF k \in DueKeys THEN 0 ELSE RenotedAge[k]]
            /\ badge' = Shown
    /\ UNCHANGED <<running, edits>>

\* flush() with only terminals and notes due: write_entry writes nothing.
flush_entries ==
    /\ running /\ DueKeys # {} /\ Structure \notin DueKeys
    /\ pending' = pending \ DueKeys
    /\ age' = [k \in Key |-> IF k \in DueKeys THEN 0 ELSE age[k]]
    /\ badge' = Shown
    /\ UNCHANGED <<stage, dirty, running, edits, failures>>

\* Calls flush() when due() and shows its result.
on_autosave_tick == flush_entries \/ \E r \in Outcomes : flush_workspace(r)

\* Save in a note with a path.
flush_now(result) ==
    /\ running
    /\ Provider(result)
    /\ IF result = "throw" THEN pending' = Renoted /\ age' = RenotedAge
       ELSE pending' = {} /\ age' = [k \in Key |-> 0]
    /\ UNCHANGED <<badge, running, edits>>

\* The close handler: capture and checkpoint("recovery"), then the process
\* ends, whatever the result.
checkpoint_recovery(result) ==
    /\ running
    /\ Provider(result)
    /\ running' = FALSE
    /\ pending' = {} /\ age' = [k \in Key |-> 0]
    /\ UNCHANGED <<badge, edits>>

Finished == ~running /\ UNCHANGED autosaveVars

AutosaveNext ==
    \/ \E p \in Pane : note_terminal_activity(p)
    \/ \E n \in Note : note_note_activity(n)
    \/ mark_dirty
    \/ Advance
    \/ on_autosave_tick
    \/ \E r \in Outcomes : flush_now(r) \/ checkpoint_recovery(r)
    \/ Finished

AutosaveSpec == AutosaveInit /\ [][AutosaveNext]_autosaveVars

\* The GLib timeout recurs for as long as the main loop runs; time passes.
AutosaveFairness == WF_autosaveVars(on_autosave_tick) /\ WF_autosaveVars(Advance)
FairAutosaveSpec == AutosaveSpec /\ AutosaveFairness

-----------------------------------------------------------------------------
(* Properties                                                              *)

(* Types of the autosaver's table and of the save stages. *)
AutosaveTypeOK ==
    /\ pending \in SUBSET Key
    /\ age \in [Key -> Nat]
    /\ stage \in [Key -> Stages]
    /\ badge \in {"none", "saved", "failed"}
    /\ {dirty, running} \subseteq BOOLEAN
    /\ edits \in Nat /\ failures \in Nat

(* As long as no checkpoint fails, every unsaved change of the structure   *)
(* is scheduled: a flush never drops the workspace entry of a change made  *)
(* after the capture it saved.                                             *)
DirtyIsScheduled == (dirty /\ running /\ failures = 0) => Structure \in pending

(* A structural change is saved by the timer without any further help.     *)
StructureEventuallySaved ==
    (stage[Structure] = "core" /\ failures = 0)
        ~> (stage[Structure] = "saved" \/ failures > 0 \/ ~running)

(* docs/architecture/autosave-lock.md: "flush() asks a provider for each   *)
(* pending resource's current payload and persists it": the text typed     *)
(* into a note is saved once the note has been idle.                       *)
NotesEventuallySaved ==
    \A n \in Note : stage[n] = "runtime" ~> (stage[n] = "saved" \/ ~running)
=============================================================================
