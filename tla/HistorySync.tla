---------------------------- MODULE HistorySync ----------------------------
(***************************************************************************)
(* The command history of one terminal pane.  The shell appends to the     *)
(* pane's HISTFILE; PaneHistoryTracker (pane_history_tracker.cpp) mirrors  *)
(* the file in a cache under a mutex; sync() is called by two threads: GTK,*)
(* on the VTE "commit" signal, and the inotify worker of                   *)
(* HistoryFileWatcher.  Pins live in the cache and, as annotations, in the *)
(* database; an idle callback copies them back.  CommandsPage shows the    *)
(* cache as it was at the last refresh.                                    *)
(*                                                                         *)
(* The file is the sequence of its records and its size their number: bash *)
(* appends whole records, and a chunk of whole records parses to those     *)
(* records.  mtime is left out: with equal sizes sync() returns false      *)
(* whatever it is.                                                         *)
(***************************************************************************)
EXTENDS Naturals, Sequences, FiniteSets, SequencesExt, SeqFilter

CONSTANTS
    Command,     \* command texts
    MaxFile,     \* bound: records in the file
    MaxInitial,  \* bound: records in the file when the pane is built
    MaxAppends,  \* bound: records the shell appends
    MaxTruncs,   \* bound: times the file is cut short
    MaxCommits,  \* bound: commit signals
    MaxPins      \* bound: uses of the Pin / Unpin menu item

ASSUME HistoryAssumption ==
    \A n \in {MaxFile, MaxInitial, MaxAppends, MaxTruncs, MaxCommits, MaxPins} : n \in Nat

VARIABLES
    file,       \* contents of the HISTFILE
    cache,      \* cache_: records with their pinned flags, oldest first
    size,       \* last_known_size_
    loaded,     \* initial_load_done_
    holder,     \* the thread inside mutex_, "none" if it is free
    pc,         \* where each thread stands
    seen,       \* current_size of each thread's sync()
    chunk,      \* new_content of each thread's sync()
    before,     \* before_count of each thread's sync()
    registered, \* the watcher knows the pane
    event,      \* an inotify event for the file waits to be read
    idle,       \* a history-changed callback waits in the main loop
    pins,       \* annotations stored with pinned = true
    shown,      \* CommandsPage::rows_, in the order of the cache
    used,       \* uses so far of what the bounds bound
    serial,     \* history: no sync() overlapped another one or a write
    unreported  \* history: a merge since the last callback queued none

vars == <<file, cache, size, loaded, holder, pc, seen, chunk, before, registered,
          event, idle, pins, shown, used, serial, unreported>>
tracker == <<cache, size, loaded, holder>>
locals == <<seen, chunk, before>>
gui == <<registered, event, idle, pins, shown>>

Thread == {"gtk", "watcher"}
Entry == [command : Command, pinned : BOOLEAN]
Steps == {"done", "stat", "check", "merge", "load", "measure", "blocked"}
Files == UNION {[1..n -> Command] : n \in 0..MaxFile}
NoUse == [append |-> 0, trunc |-> 0, commit |-> 0, pin |-> 0]

Records(s) == [i \in DOMAIN s |-> s[i].command]
Unpinned(cs) == [i \in DOMAIN cs |-> [command |-> cs[i], pinned |-> FALSE]]
Goto(t, step) == pc' = [pc EXCEPT ![t] = step]
Busy(t) == pc[t] # "done"
\* sync() returns, and its locals with it.
Return(t) ==
    /\ Goto(t, "done") /\ seen' = [seen EXCEPT ![t] = 0]
    /\ chunk' = [chunk EXCEPT ![t] = << >>] /\ before' = [before EXCEPT ![t] = 0]
Use(what) == used' = [used EXCEPT ![what] = @ + 1]

\* build_node and split(): the pane is built with its HISTFILE, whose
\* contents are those of the last session, and calls initial_load().
Init ==
    /\ file \in {f \in Files : Len(f) <= MaxInitial}
    /\ cache = << >> /\ size = 0 /\ loaded = FALSE /\ holder = "none"
    /\ pc = [t \in Thread |-> IF t = "gtk" THEN "load" ELSE "done"]
    /\ seen = [t \in Thread |-> 0] /\ chunk = [t \in Thread |-> << >>]
    /\ before = [t \in Thread |-> 0]
    /\ registered = FALSE /\ event = FALSE /\ idle = FALSE
    /\ pins \in SUBSET Command /\ shown = << >>
    /\ used = NoUse /\ serial = TRUE /\ unreported = FALSE

-----------------------------------------------------------------------------
(* The shell.  It gets input only from the main loop, so it writes after   *)
(* the pane was built and registered.                                      *)

\* PROMPT_COMMAND="history -a"
Append1(c) ==
    /\ registered /\ Len(file) < MaxFile /\ used.append < MaxAppends
    /\ file' = Append(file, c) /\ event' = TRUE /\ Use("append")
    /\ serial' = (serial /\ \A t \in Thread : ~Busy(t))
    /\ UNCHANGED <<tracker, pc, locals, registered, idle, pins, shown, unreported>>

\* "history -c; history -w", or the HISTFILESIZE limit: the oldest go.
Truncate(n) ==
    /\ registered /\ n \in 1..Len(file) /\ used.trunc < MaxTruncs
    /\ file' = SubSeq(file, n + 1, Len(file)) /\ event' = TRUE /\ Use("trunc")
    /\ serial' = (serial /\ \A t \in Thread : ~Busy(t))
    /\ UNCHANGED <<tracker, pc, locals, registered, idle, pins, shown, unreported>>

-----------------------------------------------------------------------------
(* PaneHistoryTracker                                                      *)

\* sync(): the size is taken before the mutex.
Stat(t) ==
    /\ pc[t] = "stat"
    /\ seen' = [seen EXCEPT ![t] = Len(file)] /\ Goto(t, "check")
    /\ serial' = (serial /\ \A u \in Thread \ {t} : ~Busy(u))
    /\ UNCHANGED <<file, tracker, chunk, before, gui, used, unreported>>

\* The first critical section of sync().  A tracker that was not loaded
\* calls initial_load() inside it, which locks the mutex again.
Check(t) ==
    /\ pc[t] = "check" /\ holder = "none"
    /\ IF ~loaded THEN holder' = t /\ Goto(t, "blocked") /\ UNCHANGED locals
       ELSE /\ UNCHANGED holder
            /\ IF seen[t] = size THEN Return(t)
               ELSE /\ before' = [before EXCEPT ![t] = Len(cache)] /\ UNCHANGED seen
                    /\ IF seen[t] > size /\ Len(file) > size
                       THEN /\ chunk' = [chunk EXCEPT ![t] = SubSeq(file, size + 1, Len(file))]
                            /\ Goto(t, "merge")
                       ELSE Goto(t, "load") /\ UNCHANGED chunk
    /\ UNCHANGED <<file, cache, size, loaded, gui, used, serial, unreported>>

\* Mutant: without the adjacent dedupe.
MergeAll(old, new) == old \o Unpinned(new)

\* parse_and_merge(): a record equal to the one before it is skipped.
MergeOne(es, c) ==
    IF es # << >> /\ Last(es).command = c THEN es
    ELSE Append(es, [command |-> c, pinned |-> FALSE])
Merge(old, new) ==
    LET f[i \in 0..Len(new)] == IF i = 0 THEN old ELSE MergeOne(f[i - 1], new[i])
    IN  f[Len(new)]

\* The second critical section; sync_history() queues the callback when the
\* cache did not keep its length.
MergeChunk(t) ==
    /\ pc[t] = "merge" /\ holder = "none"
    /\ cache' = Merge(cache, chunk[t]) /\ size' = seen[t]
    /\ idle' = (idle \/ Len(cache') # before[t])
    /\ unreported' = (unreported \/ (cache' # cache /\ ~idle'))
    /\ Return(t)
    /\ UNCHANGED <<file, loaded, holder, registered, event, pins, shown, used, serial>>

\* initial_load(): the contents are read first ...
Load(t) ==
    /\ pc[t] = "load" /\ holder = "none" /\ holder' = t
    /\ cache' = Unpinned(file) /\ Goto(t, "measure")
    /\ UNCHANGED <<file, size, loaded, locals, gui, used, serial, unreported>>

\* Mutant: the lock is not scoped.
MeasureKeepsLock(t) ==
    /\ pc[t] = "measure" /\ UNCHANGED holder
    /\ size' = Len(file) /\ loaded' = TRUE /\ idle' = TRUE /\ Return(t)
    /\ UNCHANGED <<file, cache, registered, event, pins, shown, used, serial, unreported>>

\* ... and the size afterwards.
Measure(t) ==
    /\ pc[t] = "measure" /\ holder' = "none"
    /\ size' = Len(file) /\ loaded' = TRUE /\ idle' = TRUE /\ Return(t)
    /\ UNCHANGED <<file, cache, registered, event, pins, shown, used, serial, unreported>>

Sync(t) == Stat(t) \/ Check(t) \/ MergeChunk(t) \/ Load(t) \/ Measure(t)

-----------------------------------------------------------------------------
(* Callers                                                                 *)

\* Mutant: register_pane before initialize_fresh.
RegisterEarly ==
    /\ ~registered /\ registered' = TRUE
    /\ UNCHANGED <<file, tracker, pc, locals, event, idle, pins, shown, used, serial, unreported>>

\* register_pane follows initialize_fresh in the same GTK callback.
Register ==
    /\ ~registered /\ loaded /\ pc["gtk"] = "done" /\ registered' = TRUE
    /\ UNCHANGED <<file, tracker, pc, locals, event, idle, pins, shown, used, serial, unreported>>

\* on_commit_trampoline
Commit ==
    /\ registered /\ pc["gtk"] = "done" /\ used.commit < MaxCommits
    /\ Goto("gtk", "stat") /\ Use("commit")
    /\ UNCHANGED <<file, tracker, locals, gui, serial, unreported>>

\* run() and handle_event(): the event is read before the pane is looked up.
HandleEvent ==
    /\ event /\ pc["watcher"] = "done" /\ event' = FALSE
    /\ IF registered THEN Goto("watcher", "stat") ELSE UNCHANGED pc
    /\ UNCHANGED <<file, tracker, locals, registered, idle, pins, shown, used, serial,
                   unreported>>

\* The newest entry of each command in cs gets the flag.
SetPinned(entries, cs, flag) ==
    [i \in DOMAIN entries |->
        IF entries[i].command \in cs
           /\ \A j \in i + 1 .. Len(entries) : entries[j].command # entries[i].command
        THEN [entries[i] EXCEPT !.pinned = flag] ELSE entries[i]]

\* Mutant: the callback only refreshes the page.
IdleWithoutAnnotations ==
    /\ idle /\ registered /\ pc["gtk"] = "done" /\ holder = "none"
    /\ idle' = FALSE /\ unreported' = FALSE /\ shown' = cache
    /\ UNCHANGED <<file, tracker, pc, locals, registered, event, pins, used, serial>>

\* The history-changed callback: apply_annotations, then the page.
Idle ==
    /\ idle /\ registered /\ pc["gtk"] = "done" /\ holder = "none"
    /\ idle' = FALSE /\ unreported' = FALSE
    /\ cache' = SetPinned(cache, pins, TRUE) /\ shown' = cache'
    /\ UNCHANGED <<file, size, loaded, holder, pc, locals, registered, event, pins, used, serial>>

\* The Pin / Unpin item of a row: the annotation, the newest entry of the
\* tracker, the page.  Some pinned row of the text makes it Unpin.
Pin(c) ==
    LET on == ~ \E i \in DOMAIN shown : shown[i] = [command |-> c, pinned |-> TRUE]
    IN  /\ registered /\ pc["gtk"] = "done" /\ holder = "none" /\ used.pin < MaxPins
        /\ \E i \in DOMAIN shown : shown[i].command = c
        /\ pins' = IF on THEN pins \cup {c} ELSE pins \ {c}
        /\ cache' = SetPinned(cache, {c}, on) /\ shown' = cache' /\ Use("pin")
        /\ UNCHANGED <<file, size, loaded, holder, pc, locals, registered, event, idle, serial,
                       unreported>>

Next ==
    \/ \E c \in Command : Append1(c) \/ Pin(c)
    \/ \E n \in 1..MaxFile : Truncate(n)
    \/ \E t \in Thread : Sync(t)
    \/ Register \/ Commit \/ HandleEvent \/ Idle

\* Both threads run, and the main loop comes to its idle sources once the
\* user pauses (MaxCommits bounds the typing).
Fairness ==
    /\ \A t \in Thread : WF_vars(Sync(t))
    /\ WF_vars(Register) /\ WF_vars(HandleEvent) /\ WF_vars(Idle)

Spec == Init /\ [][Next]_vars /\ Fairness

-----------------------------------------------------------------------------
(* Properties                                                              *)

(* Types of the tracker and of what its callers hold. *)
TypeOK ==
    /\ file \in Files /\ cache \in Seq(Entry) /\ shown \in Seq(Entry)
    /\ size \in 0..MaxFile /\ loaded \in BOOLEAN /\ holder \in Thread \cup {"none"}
    /\ pc \in [Thread -> Steps] /\ seen \in [Thread -> 0..MaxFile]
    /\ chunk \in [Thread -> Files] /\ before \in [Thread -> Nat]
    /\ registered \in BOOLEAN /\ event \in BOOLEAN /\ idle \in BOOLEAN
    /\ pins \subseteq Command /\ used \in [DOMAIN NoUse -> Nat]
    /\ serial \in BOOLEAN /\ unreported \in BOOLEAN

(* No thread waits for the mutex it holds: sync() on a tracker that was    *)
(* never loaded would, and only the order of calls in build_node, split    *)
(* and restore_pane_tree keeps the watcher from getting there.             *)
NoSelfDeadlock == \A t \in Thread : pc[t] # "blocked"

(* A pin outlives a reload: whenever no callback is queued, a command that *)
(* is pinned in the database and in the cache has a pinned entry in the    *)
(* cache, although a reload by either thread drops every flag.  Not so     *)
(* after a merge that sync() did not report: before_count comes from its   *)
(* first critical section, and a reload in between can hide the growth.    *)
PinsKept ==
    (~idle /\ holder = "none" /\ ~unreported) =>
        \A c \in pins : c \in Range(Records(cache))
            => \E i \in DOMAIN cache : cache[i] = [command |-> c, pinned |-> TRUE]

\* The records of f without those after the first n that repeat the record
\* before them.
Kept(f, n) == {i \in DOMAIN f : i = 1 \/ i <= n \/ f[i] # f[i - 1]}
Collapsed(f, n) ==
    LET keep == Only([i \in DOMAIN f |-> i], Kept(f, n))
    IN  [k \in DOMAIN keep |-> f[keep[k]]]

(* What the unit tests of the tracker promise, in every order of commits,  *)
(* events and pins: as long as no sync() overlaps another one or a write,  *)
(* a tracker that has read the whole file holds its records in order, with *)
(* adjacent repeats collapsed in what the shell has appended.              *)
SerialExact ==
    (serial /\ used.trunc = 0 /\ loaded /\ holder = "none" /\ size = Len(file)) =>
        Records(cache) = Collapsed(file, Len(file) - used.append)

(* Every sync() comes back to its caller: the mutex is always released, so *)
(* neither the main loop nor the watcher hangs on it.                      *)
SyncReturns == \A t \in Thread : pc[t] # "done" ~> pc[t] = "done"

(* The comment at pane_history_tracker.hpp:23, "Synchronize with the       *)
(* history file: read new/changed content and update the model": of a file *)
(* that only grows, every record up to last_known_size_ is in the cache.   *)
NothingLost ==
    (used.trunc = 0 /\ loaded /\ holder = "none") =>
        \A i \in 1..size : file[i] \in Range(Records(cache))
=============================================================================
