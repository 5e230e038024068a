--------------------------- MODULE NoteTab_proofs ---------------------------
(***************************************************************************)
(* Proof that the poll of a note's file and the dialogs of its tab never   *)
(* get in each other's way: at most one prompt about the file, in front of *)
(* at most one dialog of the user, and no callback left when the tab is    *)
(* destroyed.  For every set of files and texts and every bound.           *)
(***************************************************************************)
EXTENDS NoteTab, SequenceTheorems, TLAPS

Asked == Dialogs \ {"reload"}

\* The dialogs of a tab without, and possibly with, the prompt of the poll.
Quiet(s) == s = << >> \/ \E d \in Asked : s = <<d>>
IsStack(s) == Quiet(s) \/ s = <<"reload">> \/ \E d \in Asked : s = <<"reload", d>>

\* While the prompt is open triggered_ stands and the note keeps the path it
\* had, so that neither poll_file nor start_watcher can bring a second one.
Latched == Top("reload") => watch.triggered /\ path = watch.path

\* prompt_open_conflict is for a note that has a file.
Bound == (dialogs = <<"conflict">> \/ dialogs = <<"reload", "conflict">>) => path # None

\* The timer runs for a path.
Watching == watch.timer => watch.path # None

IInv ==
    TypeOK /\ IsStack(dialogs) /\ Latched /\ Bound /\ Watching /\ CallbackTargetAlive

\* What Tail and the push of a prompt do to such a stack.
LEMMA StackFacts ==
    ASSUME NEW x, NEW y
    PROVE  /\ Head(<<x>>) = x /\ Tail(<<x>>) = << >>
           /\ Head(<<x, y>>) = x /\ Tail(<<x, y>>) = <<y>>
           /\ <<x>> \o << >> = <<x>> /\ <<x>> \o <<y>> = <<x, y>>
           /\ <<x>> # << >> /\ <<x, y>> # << >>
           /\ Len(<<x>>) = 1 /\ Len(<<x, y>>) = 2
  <1>1. Head(<<x>>) = x /\ Head(<<x, y>>) = x
    OBVIOUS
  <1>2. Tail(<<x>>) = << >>
    OBVIOUS
  <1>3. Tail(<<x, y>>) = <<y>>
    OBVIOUS
  <1>4. <<x>> \o << >> = <<x>>
    OBVIOUS
  <1>5. <<x>> \o <<y>> = <<x, y>>
    <2> DEFINE s == <<x>> \o <<y>>
    <2>1. <<x>> \in Seq({x, y}) /\ <<y>> \in Seq({x, y}) /\ <<x, y>> \in Seq({x, y})
      OBVIOUS
    <2>2. s \in Seq({x, y}) /\ Len(s) = 2 /\ s[1] = x /\ s[2] = y
      BY <2>1, ConcatProperties
    <2> HIDE DEF s
    <2>3. Len(s) = Len(<<x, y>>) /\ \A i \in 1..Len(s) : s[i] = <<x, y>>[i]
      BY <2>2
    <2>4. s = <<x, y>>
      BY <2>1, <2>2, <2>3, SeqEqual, Zenon
    <2> QED
      BY <2>4 DEF s
  <1>6. Len(<<x>>) = 1 /\ Len(<<x, y>>) = 2
    OBVIOUS
  <1>7. <<x>> # << >> /\ <<x, y>> # << >>
    OBVIOUS
  <1> QED
    BY <1>1, <1>2, <1>3, <1>4, <1>5, <1>6, <1>7

\* Stacks are sequences of dialogs.
LEMMA StackType ==
    ASSUME NEW s, IsStack(s)
    PROVE  s \in Seq(Dialogs)
  <1>1. << >> \in Seq(Dialogs) /\ <<"reload">> \in Seq(Dialogs)
    BY DEF Dialogs
  <1>2. ASSUME NEW d \in Asked
        PROVE  <<d>> \in Seq(Dialogs) /\ <<"reload", d>> \in Seq(Dialogs)
    <2>1. d \in Dialogs /\ "reload" \in Dialogs
      BY DEF Asked, Dialogs
    <2> QED
      BY <2>1
  <1> QED
    BY <1>1, <1>2 DEF IsStack, Quiet

\* A quiet stack does not show the prompt; a stack that does not is quiet.
LEMMA QuietStack ==
    ASSUME NEW s, IsStack(s)
    PROVE  Quiet(s) <=> ~(s # << >> /\ Head(s) = "reload")
  <1>1. "reload" \notin Asked
    BY DEF Asked
  <1> QED
    BY <1>1, StackFacts, Zenon DEF IsStack, Quiet

\* Closing the dialog in front leaves a quiet stack, and an empty one when
\* that dialog was the user's.
LEMMA PopStack ==
    ASSUME NEW s, IsStack(s), s # << >>
    PROVE  /\ Quiet(Tail(s)) /\ IsStack(Tail(s))
           /\ Head(s) # "reload" => Tail(s) = << >>
           /\ Tail(s) = <<"conflict">> => s = <<"reload", "conflict">>
           /\ Head(s) = "conflict" => s = <<"conflict">>
  <1>1. CASE s = <<"reload">>
    BY <1>1, StackFacts, Zenon DEF IsStack, Quiet
  <1>2. ASSUME NEW d \in Asked, s = <<d>>
        PROVE  /\ Quiet(Tail(s)) /\ Tail(s) = << >>
               /\ Head(s) = "conflict" => s = <<"conflict">>
    BY <1>2, StackFacts, Zenon DEF Quiet
  <1>3. ASSUME NEW d \in Asked, s = <<"reload", d>>
        PROVE  /\ Quiet(Tail(s)) /\ Head(s) = "reload"
               /\ Tail(s) = <<"conflict">> => s = <<"reload", "conflict">>
    <2>1. Quiet(Tail(s)) /\ Head(s) = "reload" /\ Tail(s) = <<d>> /\ Head(<<d>>) = d
      BY <1>3, StackFacts, Zenon DEF Quiet
    <2>2. Head(<<"conflict">>) = "conflict"
      BY StackFacts, Zenon
    <2> QED
      BY <1>3, <2>1, <2>2, Zenon
  <1>4. "reload" # "conflict" /\ << >> # <<"conflict">>
    BY StackFacts
  <1> QED
    BY <1>1, <1>2, <1>3, <1>4, Zenon DEF IsStack, Quiet

\* The prompt in front of a quiet stack.
LEMMA PushStack ==
    ASSUME NEW s, Quiet(s)
    PROVE  IsStack(<<"reload">> \o s)
  BY StackFacts, Zenon DEF IsStack, Quiet

\* The record of a watcher that was just started.
LEMMA WatcherType ==
    ASSUME TypeOK, NEW p \in Path \cup {None}, NEW d, NEW w,
           d \in [Path -> [text : Text \cup {Missing}, stamp : 0..MaxWrites]],
           w \in [path : Path \cup {None}, stamp : 0..MaxWrites, triggered : BOOLEAN, timer : BOOLEAN]
    PROVE  /\ StartWatcher(p, d, w) \in
                [path : Path \cup {None}, stamp : 0..MaxWrites, triggered : BOOLEAN, timer : BOOLEAN]
           /\ (w.timer => w.path # None) =>
                (StartWatcher(p, d, w).timer => StartWatcher(p, d, w).path # None)
  BY DEF StartWatcher

\* A new, empty note.
LEMMA InitIInv == Init => IInv
  <1> SUFFICES ASSUME Init PROVE IInv
    OBVIOUS
  <1>1. IsStack(dialogs) /\ Latched /\ Bound /\ Watching /\ CallbackTargetAlive
    BY DEF Init, IsStack, Quiet, Latched, Top, Bound, Watching, NoWatch, CallbackTargetAlive
  <1>2. disk \in [Path -> [text : Text \cup {Missing}, stamp : 0..MaxWrites]]
    BY NoteAssumption DEF Init, Text
  <1>3. paths \in [Note -> Path \cup {None}] /\ note \in Note
    BY NoteAssumption DEF Init, Note
  <1>4. text \in Text /\ saved \in [note : {0} \cup Note, text : Text]
    BY DEF Init, Text
  <1>5. watch \in [path : Path \cup {None}, stamp : 0..MaxWrites, triggered : BOOLEAN, timer : BOOLEAN]
    BY NoteAssumption DEF Init, NoWatch
  <1>6. /\ view \in [shown : BOOLEAN, realized : BOOLEAN]
        /\ settings \in [reload : BOOLEAN, close : Closes]
    BY DEF Init, Closes
  <1> QED
    BY <1>1, <1>2, <1>3, <1>4, <1>5, <1>6, StackType DEF IInv, Init, TypeOK

\* What save_now and save_as leave on the disk.
LEMMA WriteType ==
    ASSUME TypeOK, NEW p \in Path, WriteFile(p)
    PROVE  /\ disk' \in [Path -> [text : Text \cup {Missing}, stamp : 0..MaxWrites]]
           /\ work' \in Body \cup {None}
           /\ faults' \subseteq {"write", "restart", "crash"}
  <1>1. CASE UNCHANGED <<disk, work>> /\ faults' = faults \cup {"write"}
    BY <1>1 DEF TypeOK
  <1>2. ASSUME NEW t \in {text, Torn}, disk[p].stamp < MaxWrites,
               disk' = [disk EXCEPT ![p] = [text |-> t, stamp |-> @.stamp + 1]]
        PROVE  disk' \in [Path -> [text : Text \cup {Missing}, stamp : 0..MaxWrites]]
    BY <1>2, NoteAssumption DEF TypeOK, Text
  <1>3. CASE ~(UNCHANGED <<disk, work>> /\ faults' = faults \cup {"write"})
    BY <1>2, <1>3 DEF WriteFile, TypeOK
  <1> QED
    BY <1>1, <1>3

\* What a checkpoint saves of the tab.
LEMMA SnapshotType == TypeOK => Snapshot \in [note : {0} \cup Note, text : Text]
  BY DEF TypeOK, Snapshot, Text

\* The state of a tab that is gone.
LEMMA CloseType ==
    ASSUME TypeOK, FinishClose
    PROVE  /\ open' \in BOOLEAN /\ text' \in Text /\ modified' \in BOOLEAN /\ note' \in Note
           /\ watch' \in [path : Path \cup {None}, stamp : 0..MaxWrites, triggered : BOOLEAN, timer : BOOLEAN]
           /\ view' \in [shown : BOOLEAN, realized : BOOLEAN]
           /\ ~watch'.timer
  <1>1. watch' = NoWatch
    BY DEF FinishClose
  <1>2. NoWatch \in [path : Path \cup {None}, stamp : 0..MaxWrites, triggered : BOOLEAN, timer : BOOLEAN]
    BY NoteAssumption DEF NoWatch
  <1>3. ~NoWatch.timer
    BY DEF NoWatch
  <1>4. view' \in [shown : BOOLEAN, realized : BOOLEAN]
    BY DEF FinishClose
  <1>5. open' \in BOOLEAN /\ text' \in Text /\ modified' \in BOOLEAN /\ note' \in Note
    BY DEF FinishClose, Text, TypeOK
  <1> QED
    BY <1>1, <1>2, <1>3, <1>4, <1>5

\* Steps that touch neither the dialogs nor the watcher.
LEMMA AsideIInv ==
    ASSUME IInv,
           \/ \E t \in Body : Type(t)
           \/ \E reload \in BOOLEAN, close \in Closes : SetSetting(reload, close)
           \/ Switch \/ CloseOther \/ Checkpoint
           \/ \E p \in Path, t \in Body \cup {Missing} : External(p, t)
    PROVE  IInv'
  <1>1. /\ UNCHANGED <<dialogs, watch, open, note, paths>>
        /\ IsStack(dialogs)' /\ Latched' /\ Bound' /\ Watching' /\ CallbackTargetAlive'
    BY DEF IInv, Type, SetSetting, Switch, CloseOther, Checkpoint, External, tab, buffer,
           Latched, Bound, Watching, Top, path, CallbackTargetAlive, IsStack, Quiet
  <1>2. ASSUME NEW t \in Body, Type(t) PROVE TypeOK'
    BY <1>2 DEF IInv, TypeOK, Type, tab, Text
  <1>3. ASSUME NEW reload \in BOOLEAN, NEW close \in Closes, SetSetting(reload, close) PROVE TypeOK'
    BY <1>3 DEF IInv, TypeOK, SetSetting, tab, buffer
  <1>4. ASSUME Switch PROVE TypeOK'
    <2>1. (view.realized \/ ~view.shown) \in BOOLEAN /\ (~view.shown) \in BOOLEAN
      OBVIOUS
    <2>2. view' \in [shown : BOOLEAN, realized : BOOLEAN]
      BY <1>4, <2>1, Zenon DEF Switch
    <2> QED
      BY <1>4, <2>2 DEF IInv, TypeOK, Switch, buffer
  <1>5. ASSUME CloseOther PROVE TypeOK'
    <2>1. view.shown \in BOOLEAN
      BY DEF IInv, TypeOK
    <2>2. PICK shown \in BOOLEAN : view' = [shown |-> shown, realized |-> shown]
      BY <1>5, <2>1 DEF CloseOther
    <2> QED
      BY <1>5, <2>2 DEF IInv, TypeOK, CloseOther, buffer
  <1>6. ASSUME Checkpoint PROVE TypeOK'
    BY <1>6, SnapshotType DEF IInv, TypeOK, Checkpoint, tab, buffer
  <1>7. ASSUME NEW p \in Path, NEW t \in Body \cup {Missing}, External(p, t) PROVE TypeOK'
    <2>1. disk' \in [Path -> [text : Text \cup {Missing}, stamp : 0..MaxWrites]]
      BY <1>7, NoteAssumption DEF IInv, TypeOK, External, Text
    <2> QED
      BY <1>7, <2>1 DEF IInv, TypeOK, External, tab, buffer
  <1> QED
    BY <1>1, <1>2, <1>3, <1>4, <1>5, <1>6, <1>7 DEF IInv

\* An empty stack shows no prompt.
LEMMA EmptyStack == IsStack(<< >>) /\ Quiet(<< >>)
  BY DEF IsStack, Quiet

\* The user opens a dialog on an empty stack.
LEMMA AskStack ==
    ASSUME NEW d \in Asked
    PROVE  IsStack(<<d>>) /\ Quiet(<<d>>)
  BY DEF IsStack, Quiet

\* A stack without the prompt satisfies what the invariant says of it.
LEMMA QuietIInv ==
    ASSUME TypeOK', Quiet(dialogs'), CallbackTargetAlive', Watching',
           dialogs' = <<"conflict">> => path' # None
    PROVE  IInv'
  <1>1. IsStack(dialogs')
    BY DEF IsStack
  <1>2. Latched'
    BY <1>1, QuietStack DEF Latched, Top
  <1>3. dialogs' # <<"reload", "conflict">>
    BY <1>1, QuietStack, StackFacts, Zenon
  <1>4. Bound'
    BY <1>3 DEF Bound
  <1> QED
    BY <1>1, <1>2, <1>4 DEF IInv

\* save_now() and save_as()
LEMMA SaveIInv ==
    ASSUME IInv, Save \/ SaveAs
    PROVE  IInv'
  <1>1. "saveas" \in Asked /\ open /\ dialogs = << >>
    BY DEF Asked, Dialogs, Save, SaveAs, Idle
  <1>2. Quiet(dialogs') /\ IsStack(dialogs')
    BY <1>1, AskStack, EmptyStack DEF Save, SaveAs, SaveToPath
  <1>3. dialogs' \in Seq(Dialogs)
    BY <1>2, StackType
  <1>4. CallbackTargetAlive' /\ Watching' /\ dialogs' # <<"conflict">>
    <2>1. open' /\ UNCHANGED watch /\ (dialogs' = << >> \/ dialogs' = <<"saveas">>)
      BY <1>1 DEF Save, SaveAs, tab
    <2> QED
      BY <2>1 DEF CallbackTargetAlive, Watching, IInv
  <1>5. CASE SaveAs
    <2>1. TypeOK'
      BY <1>3, <1>5 DEF IInv, TypeOK, SaveAs, tab, buffer
    <2> QED
      BY <1>2, <1>4, <2>1, QuietIInv
  <1>6. CASE Save /\ path = None
    <2>1. TypeOK'
      BY <1>3, <1>6 DEF IInv, TypeOK, Save, tab
    <2> QED
      BY <1>2, <1>4, <2>1, QuietIInv
  <1>7. CASE Save /\ path # None
    <2>1. path \in Path /\ WriteFile(path) /\ modified' = FALSE /\ saved' \in {saved, Snapshot}
      BY <1>7 DEF IInv, TypeOK, Save, SaveToPath, path
    <2>2. TypeOK'
      BY <1>3, <1>7, <2>1, WriteType, SnapshotType DEF IInv, TypeOK, Save, tab
    <2> QED
      BY <1>2, <1>4, <2>2, QuietIInv
  <1> QED
    BY <1>5, <1>6, <1>7

\* A tab that is closed with no dialog left.
LEMMA ClosedIInv ==
    ASSUME IInv, FinishClose, dialogs' = << >>,
           disk' \in [Path -> [text : Text \cup {Missing}, stamp : 0..MaxWrites]],
           paths' \in [Note -> Path \cup {None}],
           settings' \in [reload : BOOLEAN, close : Closes],
           saved' \in [note : {0} \cup Note, text : Text],
           work' \in Body \cup {None}, faults' \subseteq {"write", "restart", "crash"}
    PROVE  IInv'
  <1>1. TypeOK'
    BY CloseType, EmptyStack, StackType DEF IInv, TypeOK
  <1>2. CallbackTargetAlive' /\ Watching'
    BY CloseType DEF IInv, CallbackTargetAlive, Watching
  <1> QED
    BY <1>1, <1>2, EmptyStack, StackFacts, QuietIInv

\* close_keep_note(), called with only the close prompt, or nothing, open.
LEMMA CloseKeepIInv ==
    ASSUME IInv, open, CloseKeepNote(<< >>)
    PROVE  IInv'
  <1>1. CASE path # None
    <2>1. /\ path \in Path /\ WriteFile(path) /\ saved' \in {saved, Snapshot}
          /\ FinishClose /\ dialogs' = << >> /\ UNCHANGED <<paths, settings>>
      BY <1>1 DEF IInv, TypeOK, CloseKeepNote, SaveToPath, path
    <2>2. saved' \in [note : {0} \cup Note, text : Text]
      BY <2>1, SnapshotType DEF IInv, TypeOK
    <2>3. /\ disk' \in [Path -> [text : Text \cup {Missing}, stamp : 0..MaxWrites]]
          /\ work' \in Body \cup {None} /\ faults' \subseteq {"write", "restart", "crash"}
      BY <2>1, WriteType DEF IInv
    <2>4. /\ paths' \in [Note -> Path \cup {None}]
          /\ settings' \in [reload : BOOLEAN, close : Closes]
      BY <2>1 DEF IInv, TypeOK
    <2> QED
      BY <2>1, <2>2, <2>3, <2>4, ClosedIInv
  <1>2. CASE path = None
    <2>1. "savethenclose" \in Asked
      BY DEF Asked, Dialogs
    <2>2. dialogs' = <<"savethenclose">>
      BY <1>2, StackFacts DEF CloseKeepNote
    <2>3. Quiet(dialogs') /\ dialogs' \in Seq(Dialogs)
      BY <2>1, <2>2, AskStack, StackType
    <2>4. TypeOK'
      BY <1>2, <2>3 DEF IInv, TypeOK, CloseKeepNote, tab, buffer
    <2>5. CallbackTargetAlive' /\ Watching' /\ dialogs' # <<"conflict">>
      BY <1>2, <2>2 DEF CloseKeepNote, CallbackTargetAlive, Watching, IInv, tab
    <2> QED
      BY <2>3, <2>4, <2>5, QuietIInv
  <1> QED
    BY <1>1, <1>2

\* close_tab()
LEMMA CloseIInv ==
    ASSUME IInv, Close
    PROVE  IInv'
  <1>1. open /\ dialogs = << >>
    BY DEF Close, Idle
  <1>2. CASE /\ FinishClose /\ (IF modified THEN GiveUp ELSE UNCHANGED work)
             /\ UNCHANGED <<disk, paths, dialogs, settings, saved, faults, starts>>
    BY <1>1, <1>2, ClosedIInv DEF IInv, TypeOK, GiveUp
  <1>3. CASE CloseKeepNote(<< >>)
    BY <1>1, <1>3, CloseKeepIInv
  <1>4. CASE /\ dialogs' = <<"close">>
             /\ UNCHANGED <<disk, paths, tab, buffer, watch, settings, saved, faults, starts>>
    <2>1. Quiet(dialogs') /\ dialogs' \in Seq(Dialogs)
      BY <1>4, AskStack, StackType DEF Asked, Dialogs
    <2>2. TypeOK'
      BY <1>4, <2>1 DEF IInv, TypeOK, tab, buffer
    <2>3. CallbackTargetAlive' /\ Watching' /\ dialogs' # <<"conflict">>
      BY <1>1, <1>4 DEF CallbackTargetAlive, Watching, IInv, tab
    <2> QED
      BY <2>1, <2>2, <2>3, QuietIInv
  <1> QED
    BY <1>2, <1>3, <1>4 DEF Close

\* A new tab, or the tab of the file shown again.
LEMMA OpenIInv ==
    ASSUME IInv, NewNote \/ Reopen \/ \E p \in Path : OpenFile(p)
    PROVE  IInv'
  <1>1. NoWatch \in [path : Path \cup {None}, stamp : 0..MaxWrites, triggered : BOOLEAN, timer : BOOLEAN]
    BY NoteAssumption DEF NoWatch
  <1>2. dialogs = << >>
    BY DEF NewNote, Reopen, OpenFile, Idle, IInv, CallbackTargetAlive
  <1>3. "conflict" \in Asked
    BY DEF Asked, Dialogs
  <1>4. Quiet(dialogs') /\ dialogs' \in Seq(Dialogs)
    BY <1>2, <1>3, AskStack, EmptyStack, StackType DEF NewNote, Reopen, OpenFile
  <1>5. CallbackTargetAlive'
    BY DEF NewNote, Reopen, OpenFile, Idle, CallbackTargetAlive
  <1>6. view' \in [shown : BOOLEAN, realized : BOOLEAN]
    <2>1. view' = [shown |-> TRUE, realized |-> TRUE]
      BY DEF NewNote, Reopen, OpenFile
    <2> QED
      BY <2>1
  <1>7. ASSUME NewNote PROVE TypeOK'
    <2>1. note' \in Note /\ paths' \in [Note -> Path \cup {None}] /\ text' \in Text
      BY <1>7, NoteAssumption DEF NewNote, IInv, TypeOK, Note, Text
    <2> QED
      BY <1>1, <1>4, <1>6, <1>7, <2>1 DEF NewNote, IInv, TypeOK
  <1>8. ASSUME Reopen PROVE TypeOK'
    BY <1>4, <1>6, <1>8 DEF Reopen, IInv, TypeOK, buffer
  <1>9. ASSUME NEW p \in Path, OpenFile(p) PROVE TypeOK'
    <2>1. note' \in Note /\ paths' \in [Note -> Path \cup {None}]
      BY <1>9, NoteAssumption DEF OpenFile, IInv, TypeOK, Note
    <2>2. text' \in Text
      BY <1>9 DEF OpenFile, IInv, TypeOK
    <2>3. watch' \in [path : Path \cup {None}, stamp : 0..MaxWrites, triggered : BOOLEAN, timer : BOOLEAN]
      BY <1>1, <1>9, WatcherType DEF OpenFile, IInv, TypeOK
    <2> QED
      BY <1>4, <1>6, <1>9, <2>1, <2>2, <2>3 DEF OpenFile, IInv, TypeOK
  <1>10. dialogs' = <<"conflict">> => path' # None
    BY <1>2, StackFacts DEF NewNote, Reopen, OpenFile, path
  <1>11. Watching'
    BY TextAssumption DEF NewNote, Reopen, OpenFile, NoWatch, StartWatcher, Watching, IInv
  <1> QED
    BY <1>4, <1>5, <1>7, <1>8, <1>9, <1>10, <1>11, QuietIInv

\* The answer to a dialog d is in front of a quiet rest.
LEMMA AnswerFacts ==
    ASSUME IInv, NEW d, Top(d)
    PROVE  /\ open /\ Quiet(Tail(dialogs)) /\ Tail(dialogs) \in Seq(Dialogs)
           /\ d # "reload" => Tail(dialogs) = << >>
           /\ d = "conflict" \/ Tail(dialogs) = <<"conflict">> => path # None
  BY PopStack, StackType DEF IInv, Top, Bound, CallbackTargetAlive

\* prompt_reload()
LEMMA AnswerReloadIInv ==
    ASSUME IInv, NEW yes \in BOOLEAN, AnswerReload(yes)
    PROVE  IInv'
  <1>1. open /\ Quiet(dialogs') /\ dialogs' \in Seq(Dialogs)
    BY AnswerFacts DEF AnswerReload, Pop
  <1>2. /\ watch' \in [path : Path \cup {None}, stamp : 0..MaxWrites, triggered : BOOLEAN, timer : BOOLEAN]
        /\ Watching'
    BY DEF AnswerReload, IInv, TypeOK, Watching
  <1>3. text' \in Text /\ modified' \in BOOLEAN /\ work' \in Body \cup {None}
    BY DEF AnswerReload, Reloads, GiveUp, buffer, IInv, TypeOK
  <1>4. TypeOK'
    BY <1>1, <1>2, <1>3 DEF AnswerReload, IInv, TypeOK, tab
  <1>5. CallbackTargetAlive' /\ (dialogs' = <<"conflict">> => path' # None)
    BY <1>1, AnswerFacts DEF AnswerReload, Pop, CallbackTargetAlive, tab, path
  <1> QED
    BY <1>1, <1>2, <1>4, <1>5, QuietIInv

\* prompt_open_conflict()
LEMMA AnswerConflictIInv ==
    ASSUME IInv, NEW answer \in {"save", "discard", "cancel"}, AnswerConflict(answer)
    PROVE  IInv'
  <1>1. open /\ Quiet(dialogs') /\ dialogs' \in Seq(Dialogs)
    BY AnswerFacts DEF AnswerConflict, Pop
  <1>2. /\ watch' \in [path : Path \cup {None}, stamp : 0..MaxWrites, triggered : BOOLEAN, timer : BOOLEAN]
        /\ Watching' /\ watch.path \in Path \cup {None}
    BY DEF AnswerConflict, IInv, TypeOK, Watching
  <1>3. /\ CallbackTargetAlive' /\ (dialogs' = <<"conflict">> => path' # None)
        /\ path \in Path
    BY <1>1, AnswerFacts DEF AnswerConflict, Pop, CallbackTargetAlive, tab, path, IInv, TypeOK
  <1>4. ASSUME answer = "save" PROVE TypeOK'
    <2>1. /\ saved' \in {saved, Snapshot} /\ WriteFile(path)
          /\ IF Reloads(disk') THEN text' = disk'[watch.path].text /\ modified' = TRUE
                               ELSE modified' = FALSE /\ UNCHANGED text
      BY <1>4 DEF AnswerConflict
    <2>2. saved' \in [note : {0} \cup Note, text : Text]
      BY <2>1, SnapshotType DEF IInv, TypeOK
    <2>3. /\ disk' \in [Path -> [text : Text \cup {Missing}, stamp : 0..MaxWrites]]
          /\ work' \in Body \cup {None} /\ faults' \subseteq {"write", "restart", "crash"}
      BY <1>3, <2>1, WriteType DEF IInv
    <2>4. text' \in Text /\ modified' \in BOOLEAN
      <3>1. CASE Reloads(disk')
        <4>1. watch.path \in Path /\ disk'[watch.path].text # Missing
          BY <1>2, <3>1 DEF Reloads
        <4>2. disk'[watch.path].text \in Text \cup {Missing}
          BY <2>3, <4>1
        <4> QED
          BY <2>1, <3>1, <4>1, <4>2
      <3>2. CASE ~Reloads(disk')
        BY <2>1, <3>2 DEF IInv, TypeOK
      <3> QED
        BY <3>1, <3>2
    <2> QED
      BY <1>1, <1>2, <2>2, <2>3, <2>4 DEF AnswerConflict, IInv, TypeOK, tab
  <1>5. ASSUME answer # "save" PROVE TypeOK'
    <2>1. /\ text' \in Text /\ modified' \in BOOLEAN /\ work' \in Body \cup {None}
          /\ UNCHANGED <<disk, saved, faults>>
      BY <1>5 DEF AnswerConflict, Reloads, GiveUp, buffer, IInv, TypeOK
    <2> QED
      BY <1>1, <1>2, <2>1 DEF AnswerConflict, IInv, TypeOK, tab
  <1> QED
    BY <1>1, <1>2, <1>3, <1>4, <1>5, QuietIInv

\* prompt_close_note()
LEMMA AnswerCloseIInv ==
    ASSUME IInv, NEW keep \in BOOLEAN, AnswerClose(keep)
    PROVE  IInv'
  <1>1. open /\ Tail(dialogs) = << >>
    BY AnswerFacts DEF AnswerClose
  <1>2. CASE keep
    BY <1>1, <1>2, CloseKeepIInv DEF AnswerClose
  <1>3. CASE ~keep
    BY <1>1, <1>3, ClosedIInv DEF AnswerClose, Pop, GiveUp, IInv, TypeOK
  <1> QED
    BY <1>2, <1>3

\* The response handler of save_as().
LEMMA AnswerSaveAsIInv ==
    ASSUME IInv, NEW p \in Path \cup {None}, AnswerSaveAs(p)
    PROVE  IInv'
  <1>1. open /\ dialogs' = << >>
    BY AnswerFacts DEF AnswerSaveAs, Pop
  <1>2. Quiet(dialogs') /\ dialogs' \in Seq(Dialogs) /\ dialogs' # <<"conflict">>
    BY <1>1, EmptyStack, StackType
  <1>3. CASE p = None
    <2>1. TypeOK' /\ CallbackTargetAlive' /\ Watching'
      BY <1>1, <1>2, <1>3
      DEF AnswerSaveAs, IInv, TypeOK, CallbackTargetAlive, Watching, tab, buffer
    <2> QED
      BY <1>2, <2>1, QuietIInv
  <1>4. CASE p # None
    <2>1. p \in Path /\ WriteFile(p)
      BY <1>4 DEF AnswerSaveAs
    <2>2. /\ disk' \in [Path -> [text : Text \cup {Missing}, stamp : 0..MaxWrites]]
          /\ work' \in Body \cup {None} /\ faults' \subseteq {"write", "restart", "crash"}
      BY <2>1, WriteType DEF IInv
    <2>3. /\ paths' \in [Note -> Path \cup {None}]
          /\ settings' \in [reload : BOOLEAN, close : Closes]
          /\ saved' \in [note : {0} \cup Note, text : Text]
      BY <1>4 DEF AnswerSaveAs, IInv, TypeOK
    <2>4. CASE FinishClose
      BY <1>1, <2>2, <2>3, <2>4, ClosedIInv
    <2>5. CASE watch' = StartWatcher(p, disk', watch) /\ UNCHANGED <<tab, text>>
      <3>1. /\ watch' \in [path : Path \cup {None}, stamp : 0..MaxWrites, triggered : BOOLEAN, timer : BOOLEAN]
            /\ Watching'
        BY <2>2, <2>5, WatcherType DEF IInv, TypeOK, Watching
      <3>2. modified' = FALSE
        BY <1>4 DEF AnswerSaveAs
      <3>3. TypeOK'
        BY <1>2, <2>2, <2>3, <2>5, <3>1, <3>2 DEF IInv, TypeOK, tab
      <3>4. CallbackTargetAlive'
        BY <1>1, <2>5 DEF CallbackTargetAlive, tab
      <3> QED
        BY <1>2, <3>1, <3>3, <3>4, QuietIInv
    <2> QED
      BY <1>4, <2>4, <2>5 DEF AnswerSaveAs
  <1> QED
    BY <1>3, <1>4

\* The poll: a prompt is pushed only on a stack that does not show one.
LEMMA PollIInv ==
    ASSUME IInv, Poll
    PROVE  IInv'
  <1> DEFINE seen == [watch EXCEPT !.stamp = disk[path].stamp]
             WatchRec == [path : Path \cup {None}, stamp : 0..MaxWrites,
                          triggered : BOOLEAN, timer : BOOLEAN]
  <1>1. path \in Path \cup {None} /\ watch \in WatchRec
    BY DEF IInv, TypeOK, path
  <1>2. open /\ open' /\ CallbackTargetAlive' /\ path' = path
    BY DEF Poll, CallbackTargetAlive, tab, path
  <1>3. CASE path # watch.path
    <2>1. Quiet(dialogs) /\ watch' = StartWatcher(path, disk, watch) /\ UNCHANGED <<buffer, dialogs>>
      BY <1>3, QuietStack DEF Poll, IInv, Latched, Top
    <2>2. watch' \in WatchRec /\ Watching'
      BY <1>1, <2>1, WatcherType DEF IInv, TypeOK, Watching
    <2>3. TypeOK'
      BY <2>1, <2>2 DEF Poll, IInv, TypeOK, tab, buffer
    <2>4. dialogs' = <<"conflict">> => path' # None
      BY <1>2, <2>1 DEF IInv, Bound
    <2> QED
      BY <1>2, <2>1, <2>2, <2>3, <2>4, QuietIInv
  <1>4. CASE path = watch.path
    <2>1. path \in Path /\ disk[path].text # Missing
      BY <1>1, <1>4 DEF Poll, IInv, Watching
    <2>2. seen \in WatchRec /\ [seen EXCEPT !.triggered = TRUE] \in WatchRec
      BY <1>1, <2>1 DEF IInv, TypeOK
    <2>3. CASE /\ ~watch.triggered
               /\ text' = disk[path].text /\ modified' = TRUE /\ GiveUp
               /\ watch' = seen /\ UNCHANGED dialogs
      <3>1. Quiet(dialogs)
        BY <2>3, QuietStack DEF IInv, Latched, Top
      <3>2. TypeOK'
        BY <2>1, <2>2, <2>3 DEF Poll, IInv, TypeOK, tab, GiveUp
      <3>3. Watching' /\ (dialogs' = <<"conflict">> => path' # None)
        BY <1>1, <1>2, <2>3 DEF IInv, Bound, Watching
      <3> QED
        BY <1>2, <2>3, <3>1, <3>2, <3>3, QuietIInv
    <2>4. CASE /\ watch' = [seen EXCEPT !.triggered = TRUE] /\ UNCHANGED buffer
               /\ dialogs' = dialogs \/ (~watch.triggered /\ dialogs' = <<"reload">> \o dialogs)
      <3>1. watch'.triggered /\ path' = watch'.path
        BY <1>1, <1>2, <1>4, <2>4
      <3>2. IsStack(dialogs')
        BY <2>4, QuietStack, PushStack DEF IInv, Latched, Top
      <3>3. dialogs' \in Seq(Dialogs)
        BY <3>2, StackType
      <3>4. TypeOK'
        BY <2>2, <2>4, <3>3 DEF Poll, IInv, TypeOK, tab, buffer
      <3>5. Latched' /\ Bound' /\ Watching'
        BY <1>2, <2>1, <3>1, TextAssumption DEF Latched, Bound, Watching
      <3> QED
        BY <1>2, <3>2, <3>4, <3>5 DEF IInv
    <2> QED
      BY <1>4, <2>3, <2>4 DEF Poll
  <1> QED
    BY <1>3, <1>4

\* A restart, orderly or not.
LEMMA RestoreIInv ==
    ASSUME IInv, Quit \/ Crash
    PROVE  IInv'
  <1>1. saved' \in [note : {0} \cup Note, text : Text]
    BY SnapshotType DEF Quit, Crash, IInv, TypeOK
  <1>2. /\ dialogs' = << >> /\ UNCHANGED <<disk, paths, settings>>
        /\ faults' \subseteq {"write", "restart", "crash"} /\ work' \in Body \cup {None}
    BY DEF Quit, Crash, Restore, GiveUp, IInv, TypeOK
  <1>3. CASE saved'.note = 0
    BY <1>1, <1>2, <1>3, ClosedIInv DEF Quit, Crash, Restore, IInv, TypeOK
  <1>4. CASE saved'.note # 0
    <2>1. /\ open' = TRUE /\ note' = saved'.note /\ text' = saved'.text /\ modified' = FALSE
          /\ watch' = StartWatcher(paths[note'], disk, NoWatch)
          /\ \E shown \in BOOLEAN : view' = [shown |-> shown, realized |-> shown]
      BY <1>4 DEF Quit, Crash, Restore
    <2>2. note' \in Note /\ text' \in Text /\ paths[note'] \in Path \cup {None}
      BY <1>1, <1>4, <2>1 DEF IInv, TypeOK
    <2>3. /\ NoWatch \in [path : Path \cup {None}, stamp : 0..MaxWrites, triggered : BOOLEAN, timer : BOOLEAN]
          /\ ~NoWatch.timer
      BY NoteAssumption DEF NoWatch
    <2>4. /\ watch' \in [path : Path \cup {None}, stamp : 0..MaxWrites, triggered : BOOLEAN, timer : BOOLEAN]
          /\ Watching'
      BY <2>1, <2>2, <2>3, WatcherType DEF IInv, TypeOK, Watching
    <2>5. view' \in [shown : BOOLEAN, realized : BOOLEAN]
      <3>1. PICK shown \in BOOLEAN : view' = [shown |-> shown, realized |-> shown]
        BY <2>1
      <3> QED
        BY <3>1
    <2>6. TypeOK'
      BY <1>1, <1>2, <2>1, <2>2, <2>4, <2>5, EmptyStack, StackType DEF IInv, TypeOK
    <2>7. CallbackTargetAlive' /\ dialogs' # <<"conflict">>
      BY <1>2, <2>1, StackFacts DEF CallbackTargetAlive
    <2> QED
      BY <1>2, <2>4, <2>6, <2>7, EmptyStack, QuietIInv
  <1> QED
    BY <1>3, <1>4

\* Every step.
LEMMA NextIInv == IInv /\ [Next]_vars => IInv'
  <1> SUFFICES ASSUME IInv, [Next]_vars
               PROVE  IInv'
    OBVIOUS
  <1>1. CASE UNCHANGED vars
    BY <1>1 DEF vars, IInv, TypeOK, IsStack, Quiet, Latched, Top, Bound, path, Watching,
                CallbackTargetAlive
  <1>2. CASE Next
    BY <1>2, AsideIInv, SaveIInv, CloseIInv, OpenIInv, AnswerReloadIInv, AnswerConflictIInv,
       AnswerCloseIInv, AnswerSaveAsIInv, PollIInv, RestoreIInv DEF Next
  <1> QED
    BY <1>1, <1>2

\* Stacks of the invariant have the prompt, if at all, in front.
LEMMA StackBound ==
    ASSUME IsStack(dialogs)
    PROVE  OneReloadPrompt
  <1>1. "reload" \notin Asked
    BY DEF Asked
  <1>2. CASE dialogs = << >>
    <2>1. Len(dialogs) = 0 /\ DOMAIN dialogs = {}
      BY <1>2
    <2> QED
      BY <2>1 DEF OneReloadPrompt
  <1>3. CASE dialogs = <<"reload">>
    <2>1. Len(dialogs) = 1 /\ DOMAIN dialogs = {1}
      BY <1>3
    <2> QED
      BY <2>1 DEF OneReloadPrompt
  <1>4. ASSUME NEW d \in Asked, dialogs = <<d>>
        PROVE  OneReloadPrompt
    <2>1. Len(dialogs) = 1 /\ DOMAIN dialogs = {1}
      BY <1>4
    <2> QED
      BY <2>1 DEF OneReloadPrompt
  <1>5. ASSUME NEW d \in Asked, dialogs = <<"reload", d>>
        PROVE  OneReloadPrompt
    <2>1. Len(dialogs) = 2 /\ DOMAIN dialogs = {1, 2} /\ dialogs[2] # "reload"
      BY <1>1, <1>5
    <2> QED
      BY <2>1 DEF OneReloadPrompt
  <1> QED
    BY <1>2, <1>3, <1>4, <1>5 DEF IsStack, Quiet

(* Types of the tab, its watcher and the file system (TypeOK).             *)
THEOREM TypeCorrect == Spec => []TypeOK
  <1>1. IInv => TypeOK
    BY DEF IInv
  <1> QED
    BY InitIInv, NextIInv, <1>1, PTL DEF Spec

(* No callback that points to the tab outlives it (CallbackTargetAlive):   *)
(* neither the poll's timer nor the answer of a dialog.                    *)
THEOREM NoCallbackAfterClose == Spec => []CallbackTargetAlive
  <1>1. IInv => CallbackTargetAlive
    BY DEF IInv
  <1> QED
    BY InitIInv, NextIInv, <1>1, PTL DEF Spec

(* The poll never opens a second prompt about the file (OneReloadPrompt).  *)
THEOREM SinglePrompt == Spec => []OneReloadPrompt
  <1>1. IInv => OneReloadPrompt
    BY StackBound DEF IInv
  <1> QED
    BY InitIInv, NextIInv, <1>1, PTL DEF Spec

-----------------------------------------------------------------------------
(* No typed text is lost                                                   *)

\* A write puts the typed text into the file or leaves a fault behind.
LEMMA WriteDelivers ==
    ASSUME TypeOK, EditsKept, NEW p \in Path, WriteFile(p)
    PROVE  /\ work' # None => "write" \in faults' \/ ~(faults \subseteq {"crash"})
           /\ faults \subseteq faults'
  <1>1. Torn \notin Body /\ None \notin Body /\ work \in Body \cup {None}
    BY TextAssumption DEF TypeOK
  <1>2. CASE work = None \/ ~(faults \subseteq {"crash"})
    BY <1>2 DEF WriteFile
  <1>3. CASE work # None /\ faults \subseteq {"crash"}
    <2>1. text = work /\ text # Torn
      BY <1>1, <1>3 DEF EditsKept
    <2> QED
      BY <2>1 DEF WriteFile
  <1> QED
    BY <1>2, <1>3

\* Handlers that save: what they do to the buffer afterwards is harmless.
LEMMA SavedKept ==
    ASSUME IInv, EditsKept, NEW p \in Path, WriteFile(p)
    PROVE  EditsKept'
  <1>1. /\ work' # None => "write" \in faults' \/ ~(faults \subseteq {"crash"})
        /\ faults \subseteq faults'
    BY WriteDelivers DEF IInv
  <1> QED
    BY <1>1 DEF EditsKept

\* Handlers that ask, close or replace the buffer.
LEMMA StepKept ==
    ASSUME IInv, EditsKept, Next
    PROVE  EditsKept'
  <1>1. ASSUME NEW t \in Body, Type(t) PROVE EditsKept'
    BY <1>1 DEF Type, Idle, tab, EditsKept
  <1>2. CASE Save
    <2>1. CASE path = None
      BY <1>2, <2>1 DEF Save, tab, EditsKept
    <2>2. CASE path # None
      BY <1>2, <2>2, SavedKept DEF Save, SaveToPath, IInv, TypeOK, path
    <2> QED
      BY <2>1, <2>2
  <1>3. CASE SaveAs \/ Reopen \/ Switch \/ CloseOther \/ Checkpoint
    BY <1>3 DEF SaveAs, Reopen, Switch, CloseOther, Checkpoint, tab, buffer, EditsKept
  <1>4. ASSUME NEW rest, CloseKeepNote(rest) PROVE EditsKept'
    <2>1. CASE path # None
      BY <1>4, <2>1, SavedKept DEF CloseKeepNote, SaveToPath, IInv, TypeOK, path
    <2>2. CASE path = None
      BY <1>4, <2>2 DEF CloseKeepNote, tab, buffer, EditsKept
    <2> QED
      BY <2>1, <2>2
  <1>5. CASE Close
    <2>1. CASE /\ ~modified \/ settings.close = "skip"
               /\ FinishClose /\ (IF modified THEN GiveUp ELSE UNCHANGED work)
               /\ UNCHANGED <<disk, paths, dialogs, settings, saved, faults, starts>>
      BY <2>1 DEF GiveUp, EditsKept
    <2>2. CASE CloseKeepNote(<< >>)
      BY <1>4, <2>2
    <2>3. CASE /\ dialogs' = <<"close">>
               /\ UNCHANGED <<disk, paths, tab, buffer, watch, settings, saved, faults, starts>>
      BY <2>3 DEF tab, buffer, EditsKept
    <2> QED
      BY <1>5, <2>1, <2>2, <2>3 DEF Close
  <1>6. CASE NewNote \/ \E p \in Path : OpenFile(p)
    BY <1>6 DEF NewNote, OpenFile, EditsKept
  <1>7. ASSUME NEW reload \in BOOLEAN, NEW close \in Closes, SetSetting(reload, close) PROVE EditsKept'
    BY <1>7 DEF SetSetting, tab, buffer, EditsKept
  <1>8. ASSUME NEW yes \in BOOLEAN, AnswerReload(yes) PROVE EditsKept'
    BY <1>8 DEF AnswerReload, GiveUp, tab, buffer, EditsKept
  <1>9. ASSUME NEW keep \in BOOLEAN, AnswerClose(keep) PROVE EditsKept'
    BY <1>4, <1>9 DEF AnswerClose, GiveUp, EditsKept
  <1>10. ASSUME NEW answer \in {"save", "discard", "cancel"}, AnswerConflict(answer) PROVE EditsKept'
    <2>1. CASE answer = "save"
      <3>1. path \in Path
        BY <1>10, AnswerFacts DEF AnswerConflict, IInv, TypeOK, path
      <3> QED
        BY <1>10, <2>1, <3>1, SavedKept DEF AnswerConflict
    <2>2. CASE answer # "save"
      BY <1>10, <2>2 DEF AnswerConflict, GiveUp, tab, buffer, EditsKept
    <2> QED
      BY <2>1, <2>2
  <1>11. ASSUME NEW p \in Path \cup {None}, AnswerSaveAs(p) PROVE EditsKept'
    <2>1. CASE p = None
      BY <1>11, <2>1 DEF AnswerSaveAs, tab, buffer, EditsKept
    <2>2. CASE p # None
      BY <1>11, <2>2, SavedKept DEF AnswerSaveAs
    <2> QED
      BY <2>1, <2>2
  <1>12. ASSUME NEW p \in Path, NEW t \in Body \cup {Missing}, External(p, t) PROVE EditsKept'
    BY <1>12 DEF External, tab, buffer, EditsKept
  <1>13. CASE Poll
    BY <1>13 DEF Poll, GiveUp, tab, buffer, EditsKept
  <1>14. CASE Quit \/ Crash
    BY <1>14 DEF Quit, Crash, GiveUp, EditsKept
  <1> QED
    BY <1>1, <1>2, <1>3, <1>5, <1>6, <1>7, <1>8, <1>9, <1>10, <1>11, <1>12, <1>13, <1>14 DEF Next

(* Typed text that was neither saved nor given up is in an open, modified  *)
(* editor (EditsKept), whatever the dialogs, the poll, the settings and    *)
(* other programs do, until a write fails or the program is quit.          *)
THEOREM NoEditLost == Spec => []EditsKept
  <1>1. Init => EditsKept
    BY DEF Init, EditsKept
  <1>2. IInv /\ EditsKept /\ [Next]_vars => EditsKept'
    <2>1. CASE UNCHANGED vars
      BY <2>1 DEF vars, EditsKept
    <2> QED
      BY <2>1, StepKept
  <1> QED
    BY InitIInv, NextIInv, <1>1, <1>2, PTL DEF Spec
=============================================================================
