------------------------- MODULE HistorySync_proofs -------------------------
(***************************************************************************)
(* Proofs about the history of a pane, for every command set and every     *)
(* bound: the GTK thread and the inotify worker never lock the mutex of a  *)
(* PaneHistoryTracker twice, a pin survives what they reload and merge,    *)
(* and syncs that nothing overlaps read the file exactly.                  *)
(***************************************************************************)
EXTENDS HistorySync, Operators_proofs

\* Until initial_load() has finished only the GTK thread is inside the
\* tracker, and the pane is registered with the watcher after that.
LoadedFirst ==
    /\ registered => loaded
    /\ ~loaded => pc["watcher"] = "done" /\ pc["gtk"] \in {"load", "measure"}

IInv == pc \in [Thread -> Steps] /\ LoadedFirst /\ NoSelfDeadlock

\* A new pane: GTK is about to load its history file.
LEMMA InitIInv == Init => IInv
  BY DEF Init, IInv, LoadedFirst, NoSelfDeadlock, Thread, Steps

\* One step of a thread inside sync() or initial_load(): only Check can
\* block, and Check is reached with a loaded tracker only.
LEMMA SyncIInv ==
    ASSUME IInv, NEW t \in Thread, Sync(t)
    PROVE  IInv'
  <1> USE DEF IInv, LoadedFirst, NoSelfDeadlock, Thread, Steps, Goto
  <1>1. CASE Stat(t)
    BY <1>1 DEF Stat, tracker, gui
  <1>2. CASE Check(t)
    <2>1. loaded
      BY <1>2 DEF Check
    <2>2. /\ loaded' = loaded /\ registered' = registered
          /\ \E step \in {"done", "merge", "load"} : pc' = [pc EXCEPT ![t] = step]
      BY <1>2, <2>1 DEF Check, Return, gui
    <2> QED
      BY <2>1, <2>2
  <1>3. CASE MergeChunk(t)
    BY <1>3 DEF MergeChunk, Return
  <1>4. CASE Load(t)
    BY <1>4 DEF Load, gui
  <1>5. CASE Measure(t)
    BY <1>5 DEF Measure, Return
  <1> QED
    BY <1>1, <1>2, <1>3, <1>4, <1>5 DEF Sync

\* The steps of the shell, of the page and of the callers of sync().
LEMMA NextIInv == IInv /\ [Next]_vars => IInv'
  <1> SUFFICES ASSUME IInv, [Next]_vars
               PROVE  IInv'
    OBVIOUS
  <1> USE DEF IInv, LoadedFirst, NoSelfDeadlock, Thread, Steps, Goto
  <1>1. ASSUME NEW c \in Command, Append1(c)
        PROVE  IInv'
    BY <1>1 DEF Append1, tracker
  <1>2. ASSUME NEW c \in Command, Pin(c)
        PROVE  IInv'
    BY <1>2 DEF Pin
  <1>3. ASSUME NEW n \in 1..MaxFile, Truncate(n)
        PROVE  IInv'
    BY <1>3 DEF Truncate, tracker
  <1>4. ASSUME NEW t \in Thread, Sync(t)
        PROVE  IInv'
    BY <1>4, SyncIInv
  <1>5. CASE Register
    BY <1>5 DEF Register, tracker
  <1>6. CASE Commit
    BY <1>6 DEF Commit, tracker, gui
  <1>7. CASE HandleEvent
    BY <1>7 DEF HandleEvent, tracker
  <1>8. CASE Idle
    BY <1>8 DEF Idle
  <1>9. CASE UNCHANGED vars
    BY <1>9 DEF vars
  <1> QED
    BY <1>1, <1>2, <1>3, <1>4, <1>5, <1>6, <1>7, <1>8, <1>9 DEF Next

(* No thread ever waits for the tracker mutex it holds (NoSelfDeadlock):   *)
(* sync() reaches the nested initial_load() in no interleaving of the two  *)
(* threads, the shell and the page.                                        *)
THEOREM NeverSelfDeadlocked == Spec => []NoSelfDeadlock
  <1>1. IInv => NoSelfDeadlock
    BY DEF IInv
  <1> QED
    BY InitIInv, NextIInv, <1>1, PTL DEF Spec

-----------------------------------------------------------------------------
(* Types                                                                   *)

LEMMA FilesAreSequences ==
    ASSUME NEW f
    PROVE  f \in Files <=> f \in Seq(Command) /\ Len(f) <= MaxFile
<1>0. MaxFile \in Nat
  BY HistoryAssumption
<1>1. ASSUME f \in Files PROVE f \in Seq(Command) /\ Len(f) <= MaxFile
  <2>1. PICK n \in 0..MaxFile : f \in [1..n -> Command]
    BY <1>1 DEF Files
  <2>2. n \in Nat /\ f \in Seq(Command) /\ Len(f) = n
    BY <1>0, <2>1
  <2> QED BY <2>1, <2>2
<1>2. ASSUME f \in Seq(Command), Len(f) <= MaxFile PROVE f \in Files
  <2>1. Len(f) \in 0..MaxFile /\ f \in [1..Len(f) -> Command]
    BY <1>0, <1>2
  <2> QED BY <2>1 DEF Files
<1> QED BY <1>1, <1>2

LEMMA EntriesOf ==
    ASSUME NEW s \in Seq(Command)
    PROVE  /\ Unpinned(s) \in Seq(Entry) /\ Len(Unpinned(s)) = Len(s)
           /\ \A i \in 1..Len(s) : Unpinned(s)[i] = [command |-> s[i], pinned |-> FALSE]
<1>1. Len(s) \in Nat /\ DOMAIN s = 1..Len(s) /\ \A i \in 1..Len(s) : s[i] \in Command
  OBVIOUS
<1>2. \A i \in 1..Len(s) : [command |-> s[i], pinned |-> FALSE] \in Entry
  BY <1>1 DEF Entry
<1> QED BY <1>1, <1>2 DEF Unpinned

LEMMA FlagsOf ==
    ASSUME NEW es \in Seq(Entry), NEW cs, NEW f \in BOOLEAN
    PROVE  /\ SetPinned(es, cs, f) \in Seq(Entry) /\ Len(SetPinned(es, cs, f)) = Len(es)
           /\ DOMAIN SetPinned(es, cs, f) = DOMAIN es
           /\ \A i \in DOMAIN es : SetPinned(es, cs, f)[i].command = es[i].command
<1>1. Len(es) \in Nat /\ DOMAIN es = 1..Len(es) /\ \A i \in 1..Len(es) : es[i] \in Entry
  OBVIOUS
<1> DEFINE H == {i \in DOMAIN es : es[i].command \in cs
                    /\ \A j \in i + 1 .. Len(es) : es[j].command # es[i].command}
           e == [i \in DOMAIN es |-> IF i \in H THEN [es[i] EXCEPT !.pinned = f] ELSE es[i]]
<1>2. SetPinned(es, cs, f) = e
  BY DEF SetPinned
<1>3. \A r \in Entry : /\ [r EXCEPT !.pinned = f] \in Entry
                       /\ [r EXCEPT !.pinned = f].command = r.command
  BY DEF Entry
<1> HIDE DEF H
<1>4. \A i \in 1..Len(es) : e[i] \in Entry /\ e[i].command = es[i].command
  BY <1>1, <1>3
<1>5. e \in Seq(Entry) /\ Len(e) = Len(es) /\ DOMAIN e = DOMAIN es
  BY <1>1, <1>4
<1> HIDE DEF e
<1> QED BY <1>1, <1>2, <1>4, <1>5

-----------------------------------------------------------------------------
(* parse_and_merge                                                         *)

\* g is the table of Merge(old, new) up to n.
Merges(g, old, new, n) == g[0] = old /\ \A i \in 1..n : g[i] = MergeOne(g[i - 1], new[i])

LEMMA MergesAgree ==
    ASSUME NEW n \in Nat, NEW old, NEW s, NEW r, NEW f, NEW g, \A i \in 1..n : s[i] = r[i],
           Merges(f, old, s, n), Merges(g, old, r, n)
    PROVE  f[n] = g[n]
<1> DEFINE P == {k \in 0..n : f[k] = g[k]}
<1>1. 0 \in P
  BY DEF Merges
<1>2. ASSUME NEW k \in 1..n, k - 1 \in P PROVE k \in P
  BY <1>2 DEF Merges
<1> HIDE DEF P
<1>3. n \in P
  BY <1>1, <1>2, CountUp
<1> QED BY <1>3 DEF P

LEMMA MergesExists ==
    ASSUME NEW n \in Nat, NEW old, NEW s
    PROVE  \E g : DOMAIN g = 0..n /\ g = [i \in 0..n |-> g[i]] /\ Merges(g, old, s, n)
<1> DEFINE Is(g, k) == DOMAIN g = 0..k /\ g = [i \in 0..k |-> g[i]] /\ Merges(g, old, s, k)
           P == {k \in 0..n : \E g : Is(g, k)}
<1>1. 0 \in P
  <2> DEFINE g == [i \in 0..0 |-> old]
  <2>1. Is(g, 0)
    BY DEF Merges
  <2> QED BY <2>1
<1>2. ASSUME NEW k \in 1..n, k - 1 \in P PROVE k \in P
  <2>1. PICK g : Is(g, k - 1)
    BY <1>2
  <2> DEFINE h == [i \in 0..k |-> IF i < k THEN g[i] ELSE MergeOne(g[k - 1], s[k])]
  <2>2. Is(h, k)
    <3>1. h[0] = old
      BY <2>1 DEF Merges
    <3>2. ASSUME NEW i \in 1..k PROVE h[i] = MergeOne(h[i - 1], s[i])
      <4>1. CASE i < k
        <5>1. h[i] = g[i] /\ h[i - 1] = g[i - 1] /\ i \in 1..(k - 1)
          BY <4>1
        <5>2. g[i] = MergeOne(g[i - 1], s[i])
          BY <2>1, <5>1 DEF Merges
        <5> QED BY <5>1, <5>2, Zenon
      <4>2. CASE i = k
        BY <4>2
      <4> QED BY <4>1, <4>2
    <3> HIDE DEF h
    <3>3. Merges(h, old, s, k)
      BY <3>1, <3>2 DEF Merges
    <3>4. DOMAIN h = 0..k /\ h = [i \in 0..k |-> h[i]]
      BY DEF h
    <3> QED BY <3>3, <3>4
  <2> HIDE DEF Is
  <2> QED BY <2>2
<1> HIDE DEF P
<1>3. n \in P
  BY <1>1, <1>2, CountUp
<1> QED BY <1>3 DEF P

LEMMA MergeTable ==
    ASSUME NEW S, NEW s \in Seq(S), NEW old
    PROVE  \E g : Merges(g, old, s, Len(s)) /\ Merge(old, s) = g[Len(s)]
<1> DEFINE n == Len(s)
           Body(f) == [i \in 0..n |-> IF i = 0 THEN old ELSE MergeOne(f[i - 1], s[i])]
           f == CHOOSE g : g = Body(g)
<1>0. n \in Nat
  OBVIOUS
<1>1. PICK g : DOMAIN g = 0..n /\ g = [i \in 0..n |-> g[i]] /\ Merges(g, old, s, n)
  BY <1>0, MergesExists
<1>2. g = Body(g)
  <2>1. ASSUME NEW i \in 0..n PROVE g[i] = Body(g)[i]
    BY <1>1 DEF Merges
  <2> QED BY <1>1, <2>1
<1>3. f = Body(f)
  BY <1>2
<1>4. Merges(f, old, s, n)
  <2>1. \A i \in 0..n : f[i] = Body(f)[i]
    BY <1>3, Zenon
  <2> HIDE DEF f
  <2> QED BY <1>0, <2>1 DEF Merges
<1>5. Merge(old, s) = f[n]
  BY DEF Merge
<1> QED BY <1>4, <1>5

LEMMA MergeEmpty == ASSUME NEW old PROVE Merge(old, <<>>) = old
<1>1. <<>> \in Seq({}) /\ Len(<<>>) = 0
  OBVIOUS
<1>2. PICK g : Merges(g, old, <<>>, Len(<<>>)) /\ Merge(old, <<>>) = g[Len(<<>>)]
  BY <1>1, MergeTable
<1> QED BY <1>1, <1>2 DEF Merges

LEMMA MergeAppend ==
    ASSUME NEW S, NEW s \in Seq(S), NEW x \in S, NEW old
    PROVE  Merge(old, Append(s, x)) = MergeOne(Merge(old, s), x)
<1> DEFINE r == Append(s, x)
           n == Len(s)
<1>1. r \in Seq(S) /\ Len(r) = n + 1 /\ n \in Nat /\ r[n + 1] = x /\ \A i \in 1..n : s[i] = r[i]
  BY AppendProperties
<1> HIDE DEF r
<1>2. PICK f : Merges(f, old, s, n) /\ Merge(old, s) = f[n]
  BY MergeTable
<1>3. PICK g : Merges(g, old, r, n + 1) /\ Merge(old, r) = g[n + 1]
  BY <1>1, MergeTable
<1> HIDE DEF n
<1>4. Merges(g, old, r, n)
  BY <1>1, <1>3 DEF Merges
<1>5. f[n] = g[n]
  BY <1>1, <1>2, <1>4, MergesAgree
<1>6. g[n + 1] = MergeOne(g[n], x)
  BY <1>1, <1>3 DEF Merges
<1> QED BY <1>2, <1>3, <1>5, <1>6 DEF r

\* One record: the last command of the result is its text, and the commands
\* grow by it unless it repeats the last one.
LEMMA MergeOneFacts ==
    ASSUME NEW es \in Seq(Entry), NEW c \in Command
    PROVE  /\ MergeOne(es, c) \in Seq(Entry) /\ MergeOne(es, c) # <<>>
           /\ Last(MergeOne(es, c)).command = c
           /\ Records(MergeOne(es, c)) = IF es # <<>> /\ Last(es).command = c THEN Records(es)
                                         ELSE Append(Records(es), c)
<1> DEFINE x == [command |-> c, pinned |-> FALSE]
           r == Append(es, x)
           n == Len(es)
<1>1. CASE es # <<>> /\ Last(es).command = c
  BY <1>1 DEF MergeOne
<1>2. CASE ~(es # <<>> /\ Last(es).command = c)
  <2>1. x \in Entry /\ x.command = c
    BY DEF Entry
  <2> HIDE DEF x
  <2>2. /\ r \in Seq(Entry) /\ Len(r) = n + 1 /\ n \in Nat /\ r[n + 1] = x /\ DOMAIN r = 1..(n + 1)
        /\ DOMAIN es = 1..n /\ \A i \in 1..n : r[i] = es[i] /\ es[i].command \in Command
    <3>1. \A i \in 1..n : es[i] \in Entry
      OBVIOUS
    <3>2. \A i \in 1..n : es[i].command \in Command
      BY <3>1 DEF Entry
    <3>3. /\ r \in Seq(Entry) /\ Len(r) = n + 1 /\ n \in Nat /\ r[n + 1] = x
          /\ DOMAIN r = 1..(n + 1) /\ DOMAIN es = 1..n /\ \A i \in 1..n : r[i] = es[i]
      BY <2>1, AppendProperties
    <3> QED BY <3>2, <3>3
  <2>3. MergeOne(es, c) = r
    BY <1>2 DEF MergeOne, x
  <2> HIDE DEF r, n
  <2>4. r # <<>> /\ Last(r).command = c
    BY <2>1, <2>2 DEF Last
  <2>5. Records(r) = Append(Records(es), c)
    <3>1. Records(es) \in Seq(Command) /\ Len(Records(es)) = n
      BY <2>2 DEF Records
    <3>2. DOMAIN Append(Records(es), c) = 1..(n + 1)
          /\ \A i \in 1..(n + 1) : Append(Records(es), c)[i] = IF i = n + 1 THEN c ELSE es[i].command
      BY <2>2, <3>1, AppendProperties DEF Records
    <3>3. Records(r) = [i \in 1..(n + 1) |-> r[i].command]
      BY <2>2 DEF Records
    <3>4. \A i \in 1..(n + 1) : r[i].command = IF i = n + 1 THEN c ELSE es[i].command
      BY <2>1, <2>2
    <3> DEFINE u == Append(Records(es), c)
               v == Records(r)
    <3>5. u \in Seq(Command) /\ Len(u) = n + 1
      BY <3>1, AppendProperties
    <3>6. v \in Seq(Command) /\ Len(v) = n + 1
      BY <2>2, <3>2, <3>3, <3>4
    <3>7. \A i \in 1..(n + 1) : u[i] = v[i]
      BY <3>2, <3>3, <3>4
    <3> HIDE DEF u, v
    <3>8. u = v
      BY <3>5, <3>6, <3>7, SeqEqual
    <3> QED BY <3>8 DEF u, v
  <2> QED BY <1>2, <2>2, <2>3, <2>4, <2>5
<1> QED BY <1>1, <1>2

LEMMA MergeTyped ==
    ASSUME NEW es \in Seq(Entry), NEW s \in Seq(Command)
    PROVE  Merge(es, s) \in Seq(Entry)
<1> DEFINE P == {r \in Seq(Command) : Merge(es, r) \in Seq(Entry)}
<1>1. <<>> \in P
  BY MergeEmpty
<1>2. ASSUME NEW r \in Seq(Command), NEW x \in Command, r \in P PROVE Append(r, x) \in P
  BY <1>2, MergeAppend, MergeOneFacts, AppendProperties
<1>3. s \in P
  <2> HIDE DEF P
  <2> QED BY <1>1, <1>2, SeqInduct
<1> QED BY <1>3

-----------------------------------------------------------------------------
(* The type invariant                                                      *)

LocalsOK ==
    /\ pc \in [Thread -> Steps] /\ seen \in [Thread -> 0..MaxFile]
    /\ chunk \in [Thread -> Files] /\ before \in [Thread -> Nat]

LEMMA NoRecords == <<>> \in Files /\ <<>> \in Seq(Command) /\ <<>> \in Seq(Entry)
<1>1. MaxFile \in Nat /\ <<>> \in Seq(Command) /\ Len(<<>>) = 0
  BY HistoryAssumption
<1>2. <<>> \in Files
  <2>1. 0 \in 0..MaxFile /\ <<>> \in [1..0 -> Command]
    BY <1>1
  <2> QED BY <2>1, Zenon DEF Files
<1>3. <<>> \in Seq(Entry)
  OBVIOUS
<1> QED BY <1>1, <1>2, <1>3

LEMMA ReturnTyped ==
    ASSUME LocalsOK, NEW t \in Thread, Return(t)
    PROVE  LocalsOK'
<1>1. MaxFile \in Nat /\ 0 \in 0..MaxFile /\ "done" \in Steps
  BY HistoryAssumption DEF Steps
<1> QED BY <1>1, NoRecords DEF LocalsOK, Return, Goto

LEMMA UsesTyped ==
    ASSUME used \in [DOMAIN NoUse -> Nat], NEW w \in {"append", "trunc", "commit", "pin"}, Use(w)
    PROVE  used' \in [DOMAIN NoUse -> Nat]
BY DEF Use, NoUse

LEMMA SyncTypes ==
    ASSUME TypeOK, NEW t \in Thread, Sync(t)
    PROVE  TypeOK'
<1>0. /\ LocalsOK /\ file \in Seq(Command) /\ Len(file) <= MaxFile /\ Len(file) \in Nat
      /\ MaxFile \in Nat
  BY FilesAreSequences, HistoryAssumption DEF TypeOK, LocalsOK
<1>1. CASE Stat(t)
  <2>1. LocalsOK'
    BY <1>0, <1>1 DEF Stat, LocalsOK, Goto, Steps
  <2>2. serial' \in BOOLEAN
    BY <1>1 DEF Stat
  <2> QED BY <1>1, <2>1, <2>2 DEF Stat, TypeOK, LocalsOK, tracker, gui
<1>2. CASE Check(t)
  <2>1. LocalsOK'
    <3>1. CASE ~loaded
      BY <1>0, <1>2, <3>1 DEF Check, LocalsOK, Goto, Steps, locals
    <3>2. CASE loaded /\ seen[t] = size
      BY <1>0, <1>2, <3>2, ReturnTyped DEF Check
    <3>3. CASE loaded /\ seen[t] # size
      <4>1. Len(cache) \in Nat
        BY DEF TypeOK
      <4>2. SubSeq(file, size + 1, Len(file)) \in Files
        <5>1. size \in Nat
          BY <1>0 DEF TypeOK
        <5>2. SubSeq(file, size + 1, Len(file)) \in Seq(Command)
              /\ Len(SubSeq(file, size + 1, Len(file))) <= Len(file)
          BY <1>0, <5>1
        <5>3. Len(SubSeq(file, size + 1, Len(file))) \in Nat
          BY <5>2
        <5>4. Len(SubSeq(file, size + 1, Len(file))) <= MaxFile
          BY <1>0, <5>2, <5>3
        <5> QED BY <5>2, <5>4, FilesAreSequences
      <4>3. /\ seen' = seen /\ before' = [before EXCEPT ![t] = Len(cache)]
            /\ \/ chunk' = [chunk EXCEPT ![t] = SubSeq(file, size + 1, Len(file))]
                  /\ pc' = [pc EXCEPT ![t] = "merge"]
               \/ chunk' = chunk /\ pc' = [pc EXCEPT ![t] = "load"]
        BY <1>2, <3>3 DEF Check, Goto
      <4> QED BY <1>0, <4>1, <4>2, <4>3 DEF LocalsOK, Steps
    <3> QED BY <3>1, <3>2, <3>3
  <2>2. holder' \in Thread \cup {"none"}
    BY <1>2 DEF Check, TypeOK
  <2> QED BY <1>2, <2>1, <2>2 DEF Check, TypeOK, LocalsOK, gui
<1>3. CASE MergeChunk(t)
  <2>1. chunk[t] \in Seq(Command) /\ seen[t] \in 0..MaxFile
    BY <1>0, FilesAreSequences DEF LocalsOK
  <2>2. cache' \in Seq(Entry) /\ size' \in 0..MaxFile
    BY <1>3, <2>1, MergeTyped DEF MergeChunk, TypeOK
  <2>3. LocalsOK'
    BY <1>0, <1>3, ReturnTyped DEF MergeChunk
  <2>4. idle' \in BOOLEAN /\ unreported' \in BOOLEAN
    BY <1>3 DEF MergeChunk
  <2> QED BY <1>3, <2>2, <2>3, <2>4 DEF MergeChunk, TypeOK, LocalsOK
<1>4. CASE Load(t)
  <2>1. cache' \in Seq(Entry)
    BY <1>0, <1>4, EntriesOf DEF Load
  <2>2. LocalsOK'
    BY <1>0, <1>4 DEF Load, LocalsOK, Goto, Steps, locals
  <2>3. holder' \in Thread \cup {"none"}
    BY <1>4 DEF Load
  <2> QED BY <1>4, <2>1, <2>2, <2>3 DEF Load, TypeOK, LocalsOK, gui
<1>5. CASE Measure(t)
  <2>1. size' \in 0..MaxFile /\ holder' \in Thread \cup {"none"}
    BY <1>0, <1>5 DEF Measure
  <2>2. LocalsOK'
    BY <1>0, <1>5, ReturnTyped DEF Measure
  <2> QED BY <1>5, <2>1, <2>2 DEF Measure, TypeOK, LocalsOK
<1> QED BY <1>1, <1>2, <1>3, <1>4, <1>5 DEF Sync

LEMMA TypesInitially == Init => TypeOK
<1> SUFFICES ASSUME Init PROVE TypeOK
  OBVIOUS
<1>1. MaxFile \in Nat
  BY HistoryAssumption
<1>2. LocalsOK
  BY <1>1, NoRecords DEF Init, LocalsOK, Thread, Steps
<1>3. used \in [DOMAIN NoUse -> Nat]
  BY DEF Init, NoUse
<1>4. /\ file \in Files /\ cache \in Seq(Entry) /\ shown \in Seq(Entry)
      /\ size \in 0..MaxFile /\ pins \subseteq Command
  BY <1>1, NoRecords DEF Init
<1>5. /\ loaded \in BOOLEAN /\ holder \in Thread \cup {"none"} /\ registered \in BOOLEAN
      /\ event \in BOOLEAN /\ idle \in BOOLEAN /\ serial \in BOOLEAN /\ unreported \in BOOLEAN
  BY DEF Init
<1> QED BY <1>2, <1>3, <1>4, <1>5 DEF TypeOK, LocalsOK

LEMMA TypesStep == TypeOK /\ [Next]_vars => TypeOK'
<1> SUFFICES ASSUME TypeOK, [Next]_vars PROVE TypeOK'
  OBVIOUS
<1>0. file \in Seq(Command) /\ Len(file) <= MaxFile /\ Len(file) \in Nat /\ MaxFile \in Nat
  BY FilesAreSequences, HistoryAssumption DEF TypeOK
<1>1. ASSUME NEW c \in Command, Append1(c) PROVE TypeOK'
  <2>1. /\ Append(file, c) \in Seq(Command) /\ Len(Append(file, c)) = Len(file) + 1
        /\ Len(file) < MaxFile
    BY <1>0, <1>1, AppendProperties DEF Append1
  <2>2. file' \in Files
    <3>1. Len(Append(file, c)) <= MaxFile
      BY <1>0, <2>1
    <3> QED BY <1>1, <2>1, <3>1, FilesAreSequences DEF Append1
  <2>3. used' \in [DOMAIN NoUse -> Nat]
    BY <1>1, UsesTyped DEF Append1, TypeOK
  <2>4. serial' \in BOOLEAN
    BY <1>1 DEF Append1
  <2> QED BY <1>1, <2>2, <2>3, <2>4 DEF Append1, TypeOK, tracker, locals
<1>2. ASSUME NEW n \in 1..MaxFile, Truncate(n) PROVE TypeOK'
  <2>1. SubSeq(file, n + 1, Len(file)) \in Seq(Command)
        /\ Len(SubSeq(file, n + 1, Len(file))) <= Len(file)
    BY <1>0
  <2>2. file' \in Files
    <3>1. Len(SubSeq(file, n + 1, Len(file))) \in Nat
      BY <2>1
    <3>2. Len(SubSeq(file, n + 1, Len(file))) <= MaxFile
      BY <1>0, <2>1, <3>1
    <3> QED BY <1>2, <2>1, <3>2, FilesAreSequences DEF Truncate
  <2>3. used' \in [DOMAIN NoUse -> Nat]
    BY <1>2, UsesTyped DEF Truncate, TypeOK
  <2>4. serial' \in BOOLEAN
    BY <1>2 DEF Truncate
  <2> QED BY <1>2, <2>2, <2>3, <2>4 DEF Truncate, TypeOK, tracker, locals
<1>3. ASSUME NEW c \in Command, Pin(c) PROVE TypeOK'
  <2> DEFINE on == ~ \E i \in DOMAIN shown : shown[i] = [command |-> c, pinned |-> TRUE]
  <2>1. on \in BOOLEAN /\ cache' = SetPinned(cache, {c}, on) /\ shown' = cache'
    BY <1>3 DEF Pin
  <2>2. pins' \subseteq Command
    BY <1>3 DEF Pin, TypeOK
  <2> HIDE DEF on
  <2>3. cache' \in Seq(Entry) /\ shown' \in Seq(Entry)
    BY <2>1, FlagsOf DEF TypeOK
  <2>4. used' \in [DOMAIN NoUse -> Nat]
    BY <1>3, UsesTyped DEF Pin, TypeOK
  <2> QED BY <1>3, <2>2, <2>3, <2>4 DEF Pin, TypeOK, locals
<1>4. ASSUME NEW t \in Thread, Sync(t) PROVE TypeOK'
  BY <1>4, SyncTypes
<1>5. CASE Register
  BY <1>5 DEF Register, TypeOK, tracker, locals
<1>6. CASE Commit
  <2>1. used' \in [DOMAIN NoUse -> Nat]
    BY <1>6, UsesTyped DEF Commit, TypeOK
  <2> QED BY <1>6, <2>1 DEF Commit, TypeOK, tracker, locals, gui, Goto, Thread, Steps
<1>7. CASE HandleEvent
  BY <1>7 DEF HandleEvent, TypeOK, tracker, locals, Goto, Thread, Steps
<1>8. CASE Idle
  <2>1. cache' \in Seq(Entry) /\ shown' \in Seq(Entry)
    BY <1>8, FlagsOf DEF Idle, TypeOK
  <2> QED BY <1>8, <2>1 DEF Idle, TypeOK, locals
<1>9. CASE UNCHANGED vars
  BY <1>9 DEF vars, TypeOK
<1> QED BY <1>1, <1>2, <1>3, <1>4, <1>5, <1>6, <1>7, <1>8, <1>9 DEF Next

(* The tracker, the locals of both threads and the page keep their types,  *)
(* and no file, size or chunk exceeds the bound on the file.               *)
THEOREM HistoryTypes == Spec => []TypeOK
  BY TypesInitially, TypesStep, PTL DEF Spec

-----------------------------------------------------------------------------
(* Pins                                                                    *)

\* Each command of cs that es holds has a pinned entry in es.
PinnedIn(es, cs) ==
    \A c \in cs : c \in Range(Records(es))
        => \E i \in DOMAIN es : es[i] = [command |-> c, pinned |-> TRUE]

LEMMA InRecords ==
    ASSUME NEW es, NEW c
    PROVE  c \in Range(Records(es)) <=> \E i \in DOMAIN es : es[i].command = c
BY DEF Range, Records

\* The newest entry of c is the i-th.
Newest(es, c, i) ==
    i \in DOMAIN es /\ es[i].command = c /\ \A j \in i + 1 .. Len(es) : es[j].command # c

LEMMA NewestExists ==
    ASSUME NEW es \in Seq(Entry), NEW c, NEW k \in DOMAIN es, es[k].command = c
    PROVE  \E i : Newest(es, c, i)
<1> DEFINE n == Len(es)
           T == {m \in 0..n : n - m \in DOMAIN es /\ es[n - m].command = c}
<1>1. n \in Nat /\ DOMAIN es = 1..n
  OBVIOUS
<1> HIDE DEF n
<1>2. T \in SUBSET Nat /\ n - k \in T
  <2>1. n - k \in 0..n /\ n - (n - k) = k
    BY <1>1
  <2> QED BY <2>1
<1>3. PICK m \in T : \A y \in T : m <= y
  <2> HIDE DEF T
  <2> QED BY <1>2, LeastExists
<1>4. n - m \in DOMAIN es /\ es[n - m].command = c
  OBVIOUS
<1>5. ASSUME NEW j \in (n - m) + 1 .. n PROVE es[j].command # c
  <2>1. j \in 1..n /\ n - j \in 0..n /\ n - (n - j) = j /\ ~(m <= n - j)
    BY <1>1, <1>4
  <2>2. n - j \notin T
    BY <1>3, <2>1
  <2> QED BY <1>1, <2>1, <2>2
<1> QED BY <1>4, <1>5 DEF n, Newest

\* What SetPinned does to one entry.
LEMMA FlaggedAt ==
    ASSUME NEW es \in Seq(Entry), NEW cs, NEW f \in BOOLEAN, NEW i \in DOMAIN es
    PROVE  /\ es[i].command \in cs
              /\ (\A j \in i + 1 .. Len(es) : es[j].command # es[i].command)
              => SetPinned(es, cs, f)[i] = [command |-> es[i].command, pinned |-> f]
           /\ es[i].command \notin cs => SetPinned(es, cs, f)[i] = es[i]
<1>1. es[i] \in Entry
  OBVIOUS
<1>2. \A r \in Entry : [r EXCEPT !.pinned = f] = [command |-> r.command, pinned |-> f]
  BY DEF Entry
<1>3. [es[i] EXCEPT !.pinned = f] = [command |-> es[i].command, pinned |-> f]
  BY <1>1, <1>2
<1>4. SetPinned(es, cs, f)[i] =
        IF es[i].command \in cs
           /\ \A j \in i + 1 .. Len(es) : es[j].command # es[i].command
        THEN [es[i] EXCEPT !.pinned = f] ELSE es[i]
  BY DEF SetPinned
<1> QED BY <1>3, <1>4

\* Pinning cs pins each of them, and keeps the pins of the others.
LEMMA PinningPins ==
    ASSUME NEW es \in Seq(Entry), NEW cs
    PROVE  PinnedIn(SetPinned(es, cs, TRUE), cs)
<1> DEFINE e == SetPinned(es, cs, TRUE)
<1> SUFFICES ASSUME NEW c \in cs, c \in Range(Records(e))
             PROVE  \E i \in DOMAIN e : e[i] = [command |-> c, pinned |-> TRUE]
  BY DEF PinnedIn
<1>1. DOMAIN e = DOMAIN es /\ \A i \in DOMAIN es : e[i].command = es[i].command
  BY FlagsOf
<1> HIDE DEF e
<1>2. PICK k \in DOMAIN e : e[k].command = c
  BY InRecords
<1>3. PICK i : Newest(es, c, i)
  BY <1>1, <1>2, NewestExists
<1>4. i \in DOMAIN es /\ e[i] = [command |-> c, pinned |-> TRUE]
  BY <1>3, FlaggedAt DEF e, Newest
<1> QED BY <1>1, <1>4

LEMMA OthersKeepPins ==
    ASSUME NEW es \in Seq(Entry), NEW cs, NEW f \in BOOLEAN, NEW ds, PinnedIn(es, ds),
           ds \cap cs = {}
    PROVE  PinnedIn(SetPinned(es, cs, f), ds)
<1> DEFINE e == SetPinned(es, cs, f)
<1> SUFFICES ASSUME NEW c \in ds, c \in Range(Records(e))
             PROVE  \E i \in DOMAIN e : e[i] = [command |-> c, pinned |-> TRUE]
  BY DEF PinnedIn
<1>1. DOMAIN e = DOMAIN es /\ \A i \in DOMAIN es : e[i].command = es[i].command
  BY FlagsOf
<1>2. c \in Range(Records(es))
  <2>1. PICK k \in DOMAIN e : e[k].command = c
    BY InRecords
  <2>2. k \in DOMAIN es /\ es[k].command = c
    BY <1>1, <2>1
  <2> QED BY <2>2, InRecords
<1>3. PICK i \in DOMAIN es : es[i] = [command |-> c, pinned |-> TRUE]
  BY <1>2, Zenon DEF PinnedIn
<1>4. es[i].command = c /\ c \notin cs
  BY <1>3
<1>5. e[i] = es[i]
  BY <1>4, FlaggedAt
<1> QED BY <1>1, <1>3, <1>5

LEMMA PinsForm ==
    PinsKept <=> ((~idle /\ holder = "none" /\ ~unreported) => PinnedIn(cache, pins))
BY DEF PinsKept, PinnedIn

LEMMA PinsStep == TypeOK /\ PinsKept /\ [Next]_vars => PinsKept'
<1> SUFFICES ASSUME TypeOK, PinsKept, [Next]_vars, ~idle', holder' = "none", ~unreported'
             PROVE  PinnedIn(cache', pins')
  <2>1. PinsKept' <=> ((~idle' /\ holder' = "none" /\ ~unreported') => PinnedIn(cache', pins'))
    BY DEF PinsKept, PinnedIn
  <2> QED BY <2>1
<1>0. cache \in Seq(Entry)
  BY DEF TypeOK
<1> DEFINE Same == cache' = cache /\ pins' = pins /\ ~idle /\ holder = "none" /\ ~unreported
<1>a. ASSUME Same PROVE PinnedIn(cache', pins')
  BY <1>a, PinsForm
<1>1. ASSUME NEW c \in Command, Append1(c) PROVE Same
  BY <1>1 DEF Append1, tracker
<1>2. ASSUME NEW n \in 1..MaxFile, Truncate(n) PROVE Same
  BY <1>2 DEF Truncate, tracker
<1>3. ASSUME NEW c \in Command, Pin(c) PROVE PinnedIn(cache', pins')
  <2> DEFINE on == ~ \E i \in DOMAIN shown : shown[i] = [command |-> c, pinned |-> TRUE]
  <2>1. /\ on \in BOOLEAN /\ cache' = SetPinned(cache, {c}, on)
        /\ pins' = IF on THEN pins \cup {c} ELSE pins \ {c}
        /\ ~idle /\ holder = "none" /\ ~unreported
    BY <1>3 DEF Pin
  <2> HIDE DEF on
  <2> DEFINE ds == pins \ {c}
  <2>2. PinnedIn(cache, ds) /\ ds \cap {c} = {}
    BY <2>1, PinsForm DEF PinnedIn
  <2> HIDE DEF ds
  <2>3. PinnedIn(cache', ds)
    BY <1>0, <2>1, <2>2, OthersKeepPins
  <2>4. CASE on
    <3>1. PinnedIn(cache', {c})
      BY <1>0, <2>1, <2>4, PinningPins
    <3>2. pins' \subseteq ds \cup {c}
      BY <2>1, <2>4 DEF ds
    <3> QED BY <2>3, <3>1, <3>2 DEF PinnedIn
  <2>5. CASE ~on
    BY <2>1, <2>3, <2>5 DEF ds
  <2> QED BY <2>1, <2>4, <2>5
<1>4. ASSUME NEW t \in Thread, Sync(t) PROVE Same
  <2>1. CASE Stat(t)
    BY <2>1 DEF Stat, tracker, gui
  <2>2. CASE Check(t)
    <3>1. t # "none"
      BY DEF Thread
    <3> QED BY <2>2, <3>1 DEF Check, gui
  <2>3. CASE MergeChunk(t)
    BY <2>3 DEF MergeChunk
  <2>4. CASE Load(t)
    <3>1. t # "none"
      BY DEF Thread
    <3> QED BY <2>4, <3>1 DEF Load
  <2>5. CASE Measure(t)
    BY <2>5 DEF Measure
  <2> QED BY <1>4, <2>1, <2>2, <2>3, <2>4, <2>5 DEF Sync
<1>5. CASE Register
  BY <1>5, <1>a DEF Register, tracker
<1>6. CASE Commit
  BY <1>6, <1>a DEF Commit, tracker, gui
<1>7. CASE HandleEvent
  BY <1>7, <1>a DEF HandleEvent, tracker
<1>8. CASE Idle
  BY <1>0, <1>8, PinningPins DEF Idle
<1>9. CASE UNCHANGED vars
  BY <1>9, <1>a DEF vars
<1> HIDE DEF Same
<1> QED BY <1>a, <1>1, <1>2, <1>3, <1>4, <1>5, <1>6, <1>7, <1>8, <1>9 DEF Next

(* Whatever the two threads reload, merge and lose of each other's work, a *)
(* pin is back in the cache once the callbacks have run: every reload      *)
(* queues one, and so does every merge that sync() reports.                *)
THEOREM PinsSurvive == Spec => []PinsKept
<1>1. Init => PinsKept
  <2>1. ASSUME Init PROVE PinnedIn(cache, pins)
    BY <2>1 DEF Init, PinnedIn, Range, Records
  <2> QED BY <2>1, PinsForm
<1>2. TypeOK /\ PinsKept /\ [Next]_vars => PinsKept'
  BY PinsStep
<1> QED BY <1>1, <1>2, HistoryTypes, PTL DEF Spec

-----------------------------------------------------------------------------
(* A file read up to its k-th record                                       *)

\* Collapsed, of the first k records.
KeptTo(f, n, k) ==
    LET keep == Only(Upto(k), Kept(f, n))
    IN  [j \in DOMAIN keep |-> f[keep[j]]]

LEMMA CollapsedForm ==
    ASSUME NEW f \in Seq(Command), NEW n
    PROVE  Collapsed(f, n) = KeptTo(f, n, Len(f))
<1>1. DOMAIN f = 1..Len(f)
  OBVIOUS
<1>2. [i \in DOMAIN f |-> i] = Upto(Len(f))
  BY <1>1 DEF Upto
<1> QED BY <1>2, Zenon DEF Collapsed, KeptTo

\* The indices kept of the first k are among them.
LEMMA KeepFacts ==
    ASSUME NEW f \in Seq(Command), NEW n, NEW k \in Nat
    PROVE  /\ Only(Upto(k), Kept(f, n)) \in Seq(Nat)
           /\ \A j \in DOMAIN Only(Upto(k), Kept(f, n)) :
                  Only(Upto(k), Kept(f, n))[j] \in (1..k) \cap Kept(f, n)
<1> DEFINE keep == Only(Upto(k), Kept(f, n))
<1>1. keep \in Seq(Nat) /\ ToSet(keep) = (1..k) \cap Kept(f, n)
  <2>1. Upto(k) \in Seq(Nat) /\ ToSet(Upto(k)) = 1..k
    BY UptoFacts
  <2>2. keep \in Seq(Nat) /\ ToSet(keep) = ToSet(Upto(k)) \cap Kept(f, n)
    BY <2>1, OnlySet
  <2> QED BY <2>1, <2>2
<1> HIDE DEF keep
<1>2. \A j \in DOMAIN keep : keep[j] \in (1..k) \cap Kept(f, n)
  BY <1>1 DEF ToSet
<1> QED BY <1>1, <1>2 DEF keep

LEMMA KeptStep ==
    ASSUME NEW f \in Seq(Command), NEW n, NEW k \in Nat, k + 1 \in DOMAIN f
    PROVE  KeptTo(f, n, k + 1) = IF k + 1 \in Kept(f, n) THEN Append(KeptTo(f, n, k), f[k + 1])
                                 ELSE KeptTo(f, n, k)
<1> DEFINE K == Kept(f, n)
           a == Only(Upto(k), K)
           b == Only(Upto(k + 1), K)
<1>1. b = IF k + 1 \in K THEN Append(a, k + 1) ELSE a
  <2>1. Only(Append(Upto(k), k + 1), K) = IF k + 1 \in K THEN Append(a, k + 1) ELSE a
    <3>1. Upto(k) \in Seq(Nat) /\ k + 1 \in Nat
      BY UptoFacts
    <3> DEFINE u == Upto(k)
               x == k + 1
    <3> HIDE DEF K, u, x
    <3>2. Only(Append(u, x), K) = IF x \in K THEN Append(Only(u, K), x) ELSE Only(u, K)
      <4>1. u \in Seq(Nat) /\ x \in Nat
        BY <3>1 DEF u, x
      <4> QED BY <4>1, OnlyAppend
    <3> QED BY <3>2 DEF u, x
  <2>2. Upto(k + 1) = Append(Upto(k), k + 1)
    BY UptoFacts
  <2> QED BY <2>1, <2>2, Zenon
<1>2. a \in Seq(Nat) /\ (\A j \in DOMAIN a : a[j] \in DOMAIN f)
  BY KeepFacts DEF Kept
<1>3. /\ KeptTo(f, n, k) = [j \in DOMAIN a |-> f[a[j]]]
      /\ KeptTo(f, n, k + 1) = [j \in DOMAIN b |-> f[b[j]]]
  BY DEF KeptTo
<1> HIDE DEF a, b, K
<1>4. CASE k + 1 \in K
  <2> DEFINE m == Len(a)
             u == [j \in DOMAIN a |-> f[a[j]]]
             v == [j \in DOMAIN b |-> f[b[j]]]
             w == Append(u, f[k + 1])
  <2>1. b = Append(a, k + 1)
    BY <1>1, <1>4
  <2>2. /\ m \in Nat /\ DOMAIN a = 1..m /\ DOMAIN b = 1..(m + 1) /\ b[m + 1] = k + 1
        /\ \A j \in 1..m : b[j] = a[j]
    BY <1>2, <2>1, AppendProperties
  <2> HIDE DEF m
  <2>3. \A i \in DOMAIN f : f[i] \in Command
    OBVIOUS
  <2>4. \A j \in 1..m : f[a[j]] \in Command
    BY <1>2, <2>2, <2>3
  <2>5. u \in Seq(Command) /\ Len(u) = m /\ \A j \in 1..m : u[j] = f[a[j]]
    BY <2>2, <2>4
  <2>6. \A j \in 1..(m + 1) : f[b[j]] \in Command /\ f[b[j]] = IF j = m + 1 THEN f[k + 1] ELSE f[a[j]]
    BY <2>2, <2>3, <2>4
  <2>7. v \in Seq(Command) /\ Len(v) = m + 1 /\ \A j \in 1..(m + 1) : v[j] = f[b[j]]
    BY <2>2, <2>6
  <2> HIDE DEF u, v
  <2>8. w \in Seq(Command) /\ Len(w) = m + 1
        /\ \A j \in 1..(m + 1) : w[j] = IF j = m + 1 THEN f[k + 1] ELSE u[j]
    BY <2>2, <2>3, <2>5, AppendProperties
  <2>9. \A j \in 1..(m + 1) : w[j] = v[j]
    BY <2>2, <2>5, <2>6, <2>7, <2>8
  <2>10. v = w
    <3> HIDE DEF w
    <3> QED BY <2>7, <2>8, <2>9, SeqEqual
  <2> QED BY <1>3, <1>4, <2>10 DEF u, v, K
<1>5. CASE k + 1 \notin K
  BY <1>1, <1>3, <1>5 DEF K
<1> QED BY <1>4, <1>5

\* A longer file keeps the same of its first k records.
LEMMA KeptStable ==
    ASSUME NEW f \in Seq(Command), NEW n, NEW c \in Command, NEW k \in Nat, k <= Len(f)
    PROVE  KeptTo(Append(f, c), n, k) = KeptTo(f, n, k)
<1> DEFINE g == Append(f, c)
           K == Kept(f, n)
           L == Kept(g, n)
<1>1. /\ g \in Seq(Command) /\ Len(g) = Len(f) + 1 /\ Len(f) \in Nat
      /\ DOMAIN g = 1..(Len(f) + 1) /\ DOMAIN f = 1..Len(f) /\ \A i \in 1..Len(f) : g[i] = f[i]
  BY AppendProperties
<1> HIDE DEF g
<1>2. ASSUME NEW i \in 1..k PROVE i \in K <=> i \in L
  <2>1. i \in DOMAIN f /\ i \in DOMAIN g /\ g[i] = f[i]
    BY <1>1
  <2>2. i # 1 => g[i - 1] = f[i - 1]
    <3>1. ASSUME i # 1 PROVE i - 1 \in 1..Len(f)
      BY <1>1, <2>1, <3>1
    <3> QED BY <1>1, <3>1
  <2> QED BY <2>1, <2>2 DEF Kept
<1>3. Only(Upto(k), K) = Only(Upto(k), L)
  <2>1. Upto(k) \in Seq(Nat) /\ ToSet(Upto(k)) \cap K = ToSet(Upto(k)) \cap L
    BY <1>2, UptoFacts
  <2> HIDE DEF K, L
  <2> QED BY <2>1, OnlyMembers
<1> DEFINE a == Only(Upto(k), K)
<1>4. \A j \in DOMAIN a : a[j] \in 1..Len(f)
  <2>1. \A j \in DOMAIN a : a[j] \in 1..k
    BY KeepFacts
  <2> HIDE DEF a
  <2> QED BY <1>1, <2>1
<1>5. KeptTo(f, n, k) = [j \in DOMAIN a |-> f[a[j]]]
  BY DEF KeptTo
<1>6. KeptTo(g, n, k) = [j \in DOMAIN a |-> g[a[j]]]
  BY <1>3 DEF KeptTo
<1> HIDE DEF a
<1>7. KeptTo(g, n, k) = KeptTo(f, n, k)
  BY <1>1, <1>4, <1>5, <1>6
<1> QED BY <1>7 DEF g

\* es is what reading the first k records of f one by one gives, when the
\* first n of them were loaded as they are.
Reads(es, f, n, k) ==
    /\ Records(es) = KeptTo(f, n, k)
    /\ k = 0 => es = <<>>
    /\ k > 0 => es # <<>> /\ Last(es).command = f[k]

LEMMA ReadsLoaded ==
    ASSUME NEW f \in Seq(Command)
    PROVE  Reads(Unpinned(f), f, Len(f), Len(f))
<1> DEFINE n == Len(f)
           K == Kept(f, n)
           a == Only(Upto(n), K)
           es == Unpinned(f)
<1>1. n \in Nat /\ DOMAIN f = 1..n /\ f = [i \in 1..n |-> f[i]]
  OBVIOUS
<1>2. K = 1..n
  BY <1>1 DEF Kept
<1>3. a = Upto(n)
  <2>1. Upto(n) \in Seq(Nat) /\ ToSet(Upto(n)) \subseteq K
    BY <1>1, <1>2, UptoFacts
  <2> HIDE DEF K, n
  <2> QED BY <2>1, OnlyAll
<1>4. KeptTo(f, n, n) = f
  <2>1. DOMAIN Upto(n) = 1..n /\ \A i \in 1..n : Upto(n)[i] = i
    BY DEF Upto
  <2>2. KeptTo(f, n, n) = [j \in DOMAIN a |-> f[a[j]]]
    BY DEF KeptTo
  <2> HIDE DEF a, n
  <2> QED BY <1>1, <1>3, <2>1, <2>2
<1>5. es \in Seq(Entry) /\ Len(es) = n /\ \A i \in 1..n : es[i] = [command |-> f[i], pinned |-> FALSE]
  BY EntriesOf
<1> HIDE DEF es, n
<1>6. DOMAIN es = 1..n /\ \A i \in 1..n : es[i].command = f[i]
  BY <1>5
<1>7. Records(es) = f
  BY <1>1, <1>6 DEF Records
<1>8. n = 0 => es = <<>>
  BY <1>5
<1>9. n > 0 => es # <<>> /\ Last(es).command = f[n]
  <2>1. n > 0 => n \in 1..n
    BY <1>1
  <2>2. n > 0 => es # <<>>
    BY <1>5
  <2> QED BY <1>5, <1>6, <2>1, <2>2 DEF Last
<1>10. Reads(es, f, n, n)
  BY <1>4, <1>7, <1>8, <1>9 DEF Reads
<1> QED BY <1>10 DEF es, n

LEMMA ReadsOne ==
    ASSUME NEW f \in Seq(Command), NEW n \in Nat, NEW k \in Nat, k + 1 \in DOMAIN f, n <= k,
           NEW es \in Seq(Entry), Reads(es, f, n, k)
    PROVE  Reads(MergeOne(es, f[k + 1]), f, n, k + 1)
<1> DEFINE c == f[k + 1]
           r == MergeOne(es, c)
<1>1. c \in Command
  OBVIOUS
<1>2. /\ r # <<>> /\ Last(r).command = c
      /\ Records(r) = IF es # <<>> /\ Last(es).command = c THEN Records(es)
                      ELSE Append(Records(es), c)
  BY <1>1, MergeOneFacts
<1>3. KeptTo(f, n, k + 1) = IF k + 1 \in Kept(f, n) THEN Append(KeptTo(f, n, k), c)
                            ELSE KeptTo(f, n, k)
  BY KeptStep
<1>4. k + 1 \in Kept(f, n) <=> ~(es # <<>> /\ Last(es).command = c)
  <2>1. k + 1 \in Kept(f, n) <=> k + 1 = 1 \/ k + 1 <= n \/ f[k + 1] # f[(k + 1) - 1]
    BY DEF Kept
  <2>2. ~(k + 1 <= n) /\ (k + 1) - 1 = k /\ (k + 1 = 1 <=> k = 0) /\ (k = 0 \/ k > 0)
    OBVIOUS
  <2> QED BY <2>1, <2>2 DEF Reads
<1> HIDE DEF r, c
<1>5. Records(r) = KeptTo(f, n, k + 1)
  BY <1>2, <1>3, <1>4 DEF Reads
<1>6. ~(k + 1 = 0)
  OBVIOUS
<1> QED BY <1>2, <1>5, <1>6 DEF Reads, r, c

LEMMA ReadsChunk ==
    ASSUME NEW f \in Seq(Command), NEW n \in Nat, NEW k \in Nat, n <= k, k <= Len(f),
           NEW es \in Seq(Entry), Reads(es, f, n, k)
    PROVE  Reads(Merge(es, SubSeq(f, k + 1, Len(f))), f, n, Len(f))
<1> DEFINE m == Len(f) - k
           part(j) == SubSeq(f, k + 1, k + j)
           P == {j \in 0..m : Reads(Merge(es, part(j)), f, n, k + j)}
<1>0. Len(f) \in Nat /\ m \in Nat /\ k + m = Len(f) /\ DOMAIN f = 1..Len(f)
  OBVIOUS
<1>1. 0 \in P
  <2>1. part(0) = <<>> /\ k + 0 = k
    OBVIOUS
  <2>2. Merge(es, part(0)) = es
    BY <2>1, MergeEmpty, Zenon
  <2>3. Reads(Merge(es, part(0)), f, n, k + 0)
    BY <2>1, <2>2, Zenon
  <2> QED BY <1>0, <2>3
<1>2. ASSUME NEW j \in 1..m, j - 1 \in P PROVE j \in P
  <2> DEFINE i == k + (j - 1)
             q == Merge(es, part(j - 1))
             c == f[i + 1]
  <2>1. i \in Nat /\ i + 1 = k + j /\ i + 1 \in DOMAIN f /\ n <= i
    BY <1>0
  <2>2. c \in Command /\ part(j - 1) \in Seq(Command)
    BY <1>0, <2>1
  <2>3. part(j) = Append(part(j - 1), c)
    <3>1. k + 1 \in 1..Len(f) /\ k + j \in k + 1 .. Len(f) /\ (k + j) - 1 = k + (j - 1)
      BY <1>0
    <3>2. SubSeq(f, k + 1, k + j) = Append(SubSeq(f, k + 1, (k + j) - 1), f[k + j])
      BY <1>0, <3>1
    <3> QED BY <2>1, <3>1, <3>2
  <2>4. q \in Seq(Entry)
    BY <2>2, MergeTyped
  <2>5. Merge(es, part(j)) = MergeOne(q, c)
    <3> HIDE DEF c, part
    <3> QED BY <2>2, <2>3, MergeAppend
  <2>6. Reads(q, f, n, i)
    BY <1>2
  <2> HIDE DEF q, i, part
  <2>7. Reads(MergeOne(q, f[i + 1]), f, n, i + 1)
    BY <2>1, <2>4, <2>6, ReadsOne
  <2>8. Reads(Merge(es, part(j)), f, n, k + j)
    BY <2>1, <2>5, <2>7
  <2> QED BY <2>8
<1> HIDE DEF P
<1>3. m \in P
  <2>1. \A j \in 1..m : j - 1 \in P => j \in P
    BY <1>2
  <2>2. m \in Nat
    BY <1>0
  <2> HIDE DEF m
  <2>3. 0..m \subseteq P
    BY <1>1, <2>1, <2>2, CountUp
  <2> QED BY <2>2, <2>3
<1>4. Reads(Merge(es, part(m)), f, n, k + m)
  BY <1>3 DEF P
<1> QED BY <1>0, <1>4

LEMMA ReadsFlagged ==
    ASSUME NEW f, NEW n, NEW k \in Nat, NEW es \in Seq(Entry), Reads(es, f, n, k), NEW cs,
           NEW b \in BOOLEAN
    PROVE  Reads(SetPinned(es, cs, b), f, n, k)
<1> DEFINE e == SetPinned(es, cs, b)
<1>1. /\ e \in Seq(Entry) /\ Len(e) = Len(es) /\ DOMAIN e = DOMAIN es
      /\ \A i \in DOMAIN es : e[i].command = es[i].command
  BY FlagsOf
<1> HIDE DEF e
<1>2. Records(e) = Records(es)
  BY <1>1 DEF Records
<1>3. es = <<>> <=> e = <<>>
  BY <1>1
<1>4. es # <<>> => Last(e).command = Last(es).command
  <2>1. es # <<>> => Len(es) \in DOMAIN es
    OBVIOUS
  <2> QED BY <1>1, <2>1 DEF Last
<1>5. Reads(e, f, n, k)
  BY <1>2, <1>3, <1>4 DEF Reads
<1> QED BY <1>5 DEF e

-----------------------------------------------------------------------------
(* Syncs that nothing overlaps                                             *)

Loading == used.append = 0 /\ (pc["gtk"] = "measure" => cache = Unpinned(file))

\* The cache is the file up to last_known_size_; at most one thread is past
\* its stat(), with the file's size and, at the merge, all that is new.
Reading ==
    /\ Len(file) - used.append <= size /\ size <= Len(file)
    /\ Reads(cache, file, Len(file) - used.append, size)
    /\ \A t \in Thread :
           /\ pc[t] \in {"done", "stat", "check", "merge"}
           /\ pc[t] \in {"check", "merge"} =>
                  seen[t] = Len(file) /\ \A u \in Thread \ {t} : pc[u] \in {"done", "stat"}
           /\ pc[t] = "merge" => chunk[t] = SubSeq(file, size + 1, Len(file))

SerialInv ==
    serial /\ used.trunc = 0 =>
        used.append <= Len(file) /\ (loaded => Reading) /\ (~loaded => Loading)

LEMMA UseFacts ==
    ASSUME used \in [DOMAIN NoUse -> Nat]
    PROVE  /\ used.append \in Nat /\ used.trunc \in Nat
           /\ Use("append") => used'.append = used.append + 1 /\ used'.trunc = used.trunc
           /\ Use("trunc") => used'.trunc = used.trunc + 1
           /\ Use("commit") \/ Use("pin") => used'.append = used.append /\ used'.trunc = used.trunc
BY DEF Use, NoUse

LEMMA SerialInitially == Init => SerialInv
<1> SUFFICES ASSUME Init PROVE SerialInv
  OBVIOUS
<1>1. used.append = 0 /\ loaded = FALSE /\ pc["gtk"] = "load"
  BY DEF Init, NoUse, Thread
<1>2. Len(file) \in Nat
  BY FilesAreSequences DEF Init
<1> QED BY <1>1, <1>2 DEF SerialInv, Loading

\* Steps that leave the file, the sizes and the cache's commands alone, and
\* let a thread at most enter sync().
LEMMA SerialKept ==
    ASSUME TypeOK, SerialInv, file' = file, size' = size, loaded' = loaded, chunk' = chunk,
           seen' = seen, used'.append = used.append, used'.trunc = used.trunc, serial' = serial,
           cache' = cache \/ loaded,
           \A n, k : Reads(cache, file, n, k) /\ k \in Nat => Reads(cache', file, n, k),
           \A t \in Thread : pc'[t] = pc[t] \/ (loaded /\ pc[t] = "done" /\ pc'[t] = "stat")
    PROVE  SerialInv'
<1> SUFFICES ASSUME serial, used.trunc = 0
             PROVE  used.append <= Len(file) /\ (loaded => Reading') /\ (~loaded => Loading')
  BY DEF SerialInv
<1>1. used.append <= Len(file) /\ (loaded => Reading) /\ (~loaded => Loading) /\ size \in Nat
  BY HistoryAssumption DEF SerialInv, TypeOK
<1>2. ASSUME ~loaded PROVE Loading'
  BY <1>1, <1>2 DEF Loading, Thread
<1>3. ASSUME loaded PROVE Reading'
  <2>1. Reads(cache', file', Len(file') - used'.append, size')
    BY <1>1, <1>3 DEF Reading
  <2>2. ASSUME NEW t \in Thread
        PROVE  /\ pc'[t] \in {"done", "stat", "check", "merge"}
               /\ pc'[t] \in {"check", "merge"} =>
                    seen'[t] = Len(file') /\ \A u \in Thread \ {t} : pc'[u] \in {"done", "stat"}
               /\ pc'[t] = "merge" => chunk'[t] = SubSeq(file', size' + 1, Len(file'))
    BY <1>1, <1>3 DEF Reading
  <2> QED BY <1>1, <1>3, <2>1, <2>2 DEF Reading
<1> QED BY <1>1, <1>2, <1>3

LEMMA SerialSync ==
    ASSUME TypeOK, IInv, SerialInv, NEW t \in Thread, Sync(t)
    PROVE  SerialInv'
<1> SUFFICES ASSUME serial', used'.trunc = 0 PROVE SerialInv'
  BY DEF SerialInv
<1>0. /\ file \in Seq(Command) /\ Len(file) \in Nat /\ cache \in Seq(Entry) /\ size \in Nat
      /\ MaxFile \in Nat /\ used.append \in Nat /\ pc \in [Thread -> Steps]
      /\ seen \in [Thread -> 0..MaxFile] /\ chunk \in [Thread -> Files]
  <2>1. file \in Seq(Command) /\ Len(file) \in Nat
    BY FilesAreSequences DEF TypeOK
  <2>2. MaxFile \in Nat /\ used.append \in Nat
    BY HistoryAssumption, UseFacts DEF TypeOK
  <2> QED BY <2>1, <2>2 DEF TypeOK
<1>1. used' = used /\ file' = file /\ serial
  BY DEF Sync, Stat, Check, MergeChunk, Load, Measure
<1>2. used.append <= Len(file) /\ (loaded => Reading) /\ (~loaded => Loading)
  BY <1>1 DEF SerialInv
<1>3. pc[t] \in {"stat", "check", "merge"} => loaded
  BY DEF IInv, LoadedFirst, Thread
<1>4. CASE Stat(t)
  <2>1. /\ loaded /\ loaded' = loaded /\ cache' = cache /\ size' = size /\ chunk' = chunk
        /\ pc' = [pc EXCEPT ![t] = "check"] /\ seen' = [seen EXCEPT ![t] = Len(file)]
        /\ \A u \in Thread \ {t} : pc[u] = "done"
    BY <1>3, <1>4 DEF Stat, tracker, Goto, Busy
  <2>2. ASSUME NEW u \in Thread
        PROVE  /\ pc'[u] \in {"done", "stat", "check", "merge"}
               /\ pc'[u] \in {"check", "merge"} =>
                    seen'[u] = Len(file') /\ \A v \in Thread \ {u} : pc'[v] \in {"done", "stat"}
               /\ pc'[u] = "merge" => chunk'[u] = SubSeq(file', size' + 1, Len(file'))
    BY <1>0, <1>1, <2>1
  <2>3. Reading'
    BY <1>1, <1>2, <2>1, <2>2 DEF Reading
  <2> QED BY <1>1, <1>2, <2>1, <2>3 DEF SerialInv
<1>5. CASE Check(t)
  <2>1. loaded /\ Reading /\ pc[t] = "check"
    BY <1>2, <1>3, <1>5 DEF Check
  <2>2. seen[t] = Len(file) /\ size <= Len(file) /\ \A u \in Thread \ {t} : pc[u] \in {"done", "stat"}
    BY <2>1 DEF Reading
  <2>3. CASE seen[t] = size
    <3>1. /\ loaded' = loaded /\ cache' = cache /\ size' = size
          /\ pc' = [pc EXCEPT ![t] = "done"]
      BY <1>5, <2>1, <2>3 DEF Check, Return, Goto
    <3>2. \A u \in Thread : pc'[u] \in {"done", "stat"}
      BY <1>0, <2>2, <3>1
    <3>3. Reading'
      BY <1>1, <2>1, <3>1, <3>2 DEF Reading
    <3> QED BY <1>1, <1>2, <2>1, <3>1, <3>3 DEF SerialInv
  <2>4. CASE seen[t] # size
    <3>1. seen[t] > size /\ Len(file) > size
      BY <1>0, <2>2, <2>4
    <3>2. /\ loaded' = loaded /\ cache' = cache /\ size' = size /\ seen' = seen
          /\ pc' = [pc EXCEPT ![t] = "merge"]
          /\ chunk' = [chunk EXCEPT ![t] = SubSeq(file, size + 1, Len(file))]
      BY <1>5, <2>1, <2>4, <3>1 DEF Check, Goto
    <3>3. ASSUME NEW u \in Thread
          PROVE  /\ pc'[u] \in {"done", "stat", "check", "merge"}
                 /\ pc'[u] \in {"check", "merge"} =>
                      seen'[u] = Len(file') /\ \A v \in Thread \ {u} : pc'[v] \in {"done", "stat"}
                 /\ pc'[u] = "merge" => chunk'[u] = SubSeq(file', size' + 1, Len(file'))
      BY <1>0, <1>1, <2>2, <3>2
    <3>4. Reading'
      BY <1>1, <2>1, <3>2, <3>3 DEF Reading
    <3> QED BY <1>1, <1>2, <2>1, <3>2, <3>4 DEF SerialInv
  <2> QED BY <2>3, <2>4
<1>6. CASE MergeChunk(t)
  <2>1. loaded /\ Reading /\ pc[t] = "merge"
    BY <1>2, <1>3, <1>6 DEF MergeChunk
  <2>2. /\ seen[t] = Len(file) /\ chunk[t] = SubSeq(file, size + 1, Len(file))
        /\ \A u \in Thread \ {t} : pc[u] \in {"done", "stat"}
    BY <2>1 DEF Reading
  <2>3. /\ loaded' = loaded /\ cache' = Merge(cache, SubSeq(file, size + 1, Len(file)))
        /\ size' = Len(file) /\ pc' = [pc EXCEPT ![t] = "done"]
    BY <1>6, <2>2 DEF MergeChunk, Return, Goto
  <2>4. \A u \in Thread : pc'[u] \in {"done", "stat"}
    BY <1>0, <2>2, <2>3
  <2> DEFINE n == Len(file) - used.append
  <2>5. n \in Nat /\ n <= size /\ size <= Len(file) /\ Reads(cache, file, n, size) /\ n <= Len(file)
    BY <1>0, <1>2, <2>1 DEF Reading
  <2>6. Reads(cache', file, n, Len(file))
    <3> HIDE DEF n
    <3> QED BY <1>0, <2>3, <2>5, ReadsChunk
  <2>7. Reading'
    BY <1>0, <1>1, <2>3, <2>4, <2>5, <2>6 DEF Reading
  <2> QED BY <1>1, <1>2, <2>1, <2>3, <2>7 DEF SerialInv
<1>7. CASE Load(t)
  <2>1. pc[t] = "load"
    BY <1>7 DEF Load
  <2>2. ~loaded
    BY <1>2, <2>1 DEF Reading
  <2>3. loaded' = loaded /\ cache' = Unpinned(file)
    BY <1>7 DEF Load
  <2>4. Loading'
    BY <1>1, <1>2, <2>2, <2>3 DEF Loading
  <2> QED BY <1>1, <1>2, <2>2, <2>3, <2>4 DEF SerialInv
<1>8. CASE Measure(t)
  <2>1. pc[t] = "measure"
    BY <1>8 DEF Measure
  <2>2. ~loaded
    BY <1>2, <2>1 DEF Reading
  <2>3. t = "gtk" /\ pc["watcher"] = "done"
    BY <2>1, <2>2 DEF IInv, LoadedFirst, Thread
  <2>4. /\ loaded' /\ size' = Len(file) /\ cache' = cache /\ pc' = [pc EXCEPT ![t] = "done"]
    BY <1>8 DEF Measure, Return, Goto
  <2>5. used.append = 0 /\ cache = Unpinned(file)
    BY <1>2, <2>1, <2>2, <2>3 DEF Loading
  <2>6. \A u \in Thread : pc'[u] = "done"
    BY <1>0, <2>3, <2>4 DEF Thread
  <2>7. Reads(cache, file, Len(file), Len(file))
    BY <1>0, <2>5, ReadsLoaded
  <2>8. Len(file') - used'.append = Len(file)
    BY <1>0, <1>1, <2>5
  <2>9. Reading'
    BY <1>0, <1>1, <2>4, <2>6, <2>7, <2>8 DEF Reading
  <2> QED BY <1>1, <1>2, <2>4, <2>9 DEF SerialInv
<1> QED BY <1>4, <1>5, <1>6, <1>7, <1>8 DEF Sync

LEMMA SerialStep == TypeOK /\ IInv /\ SerialInv /\ [Next]_vars => SerialInv'
<1> SUFFICES ASSUME TypeOK, IInv, SerialInv, [Next]_vars PROVE SerialInv'
  OBVIOUS
<1>0. /\ file \in Seq(Command) /\ Len(file) \in Nat /\ cache \in Seq(Entry) /\ size \in Nat
      /\ used \in [DOMAIN NoUse -> Nat] /\ used.append \in Nat /\ used.trunc \in Nat
      /\ pc \in [Thread -> Steps]
  <2>1. file \in Seq(Command) /\ Len(file) \in Nat
    BY FilesAreSequences DEF TypeOK
  <2>2. MaxFile \in Nat /\ used.append \in Nat /\ used.trunc \in Nat
    BY HistoryAssumption, UseFacts DEF TypeOK
  <2> QED BY <2>1, <2>2 DEF TypeOK
<1>1. ASSUME NEW c \in Command, Append1(c) PROVE SerialInv'
  <2> SUFFICES ASSUME serial', used'.trunc = 0 PROVE SerialInv'
    BY DEF SerialInv
  <2>1. /\ registered /\ serial /\ (\A t \in Thread : pc[t] = "done") /\ file' = Append(file, c)
        /\ cache' = cache /\ size' = size /\ loaded' = loaded /\ pc' = pc
    BY <1>1 DEF Append1, tracker, Busy
  <2>2. used'.append = used.append + 1 /\ used.trunc = 0
    BY <1>0, <1>1, UseFacts DEF Append1
  <2>3. loaded /\ Reading /\ used.append <= Len(file)
    BY <2>1, <2>2 DEF SerialInv, IInv, LoadedFirst
  <2> DEFINE n == Len(file) - used.append
  <2>4. n <= size /\ size <= Len(file) /\ Reads(cache, file, n, size) /\ n \in Nat
    BY <1>0, <2>3 DEF Reading
  <2>5. Len(file') = Len(file) + 1 /\ \A i \in 1..Len(file) : file'[i] = file[i]
    BY <1>0, <2>1, AppendProperties
  <2>6. Len(file') - used'.append = n /\ used'.append <= Len(file')
    <3> DEFINE L == Len(file)
               M == Len(file')
               x == used.append
               y == used'.append
    <3>1. L \in Nat /\ x \in Nat /\ M = L + 1 /\ y = x + 1 /\ x <= L
      BY <1>0, <2>2, <2>3, <2>5
    <3> HIDE DEF L, M, x, y
    <3>2. M - y = L - x /\ y <= M
      BY <3>1
    <3> QED BY <3>2 DEF L, M, x, y
  <2> HIDE DEF n
  <2>7. KeptTo(file', n, size) = KeptTo(file, n, size)
    BY <1>0, <2>1, <2>4, KeptStable
  <2>8. size > 0 => file'[size] = file[size]
    <3>1. size > 0 => size \in 1..Len(file)
      BY <1>0, <2>4
    <3> QED BY <2>5, <3>1
  <2>9. Reads(cache, file', n, size)
    BY <2>4, <2>7, <2>8 DEF Reads
  <2>10. size <= Len(file')
    BY <1>0, <2>4, <2>5
  <2>11. Reading'
    <3>1. \A t \in Thread : pc'[t] = "done"
      BY <2>1
    <3>2. Len(file') - used'.append <= size' /\ size' <= Len(file')
      BY <2>1, <2>4, <2>6, <2>10
    <3>3. Reads(cache', file', Len(file') - used'.append, size')
      BY <2>1, <2>6, <2>9
    <3> QED BY <3>1, <3>2, <3>3 DEF Reading
  <2> QED BY <2>1, <2>3, <2>6, <2>11 DEF SerialInv
<1>2. ASSUME NEW n \in 1..MaxFile, Truncate(n) PROVE SerialInv'
  <2>1. used'.trunc = used.trunc + 1
    BY <1>0, <1>2, UseFacts DEF Truncate
  <2> QED BY <1>0, <2>1 DEF SerialInv
<1>3. ASSUME NEW c \in Command, Pin(c) PROVE SerialInv'
  <2> DEFINE on == ~ \E i \in DOMAIN shown : shown[i] = [command |-> c, pinned |-> TRUE]
  <2>1. on \in BOOLEAN /\ cache' = SetPinned(cache, {c}, on) /\ loaded
    BY <1>3 DEF Pin, IInv, LoadedFirst
  <2> HIDE DEF on
  <2>2. \A n, k : Reads(cache, file, n, k) /\ k \in Nat => Reads(cache', file, n, k)
    BY <1>0, <2>1, ReadsFlagged
  <2>3. used'.append = used.append /\ used'.trunc = used.trunc
    BY <1>0, <1>3, UseFacts DEF Pin
  <2> QED BY <1>3, <2>1, <2>2, <2>3, SerialKept DEF Pin, locals
<1>4. ASSUME NEW t \in Thread, Sync(t) PROVE SerialInv'
  BY <1>4, SerialSync
<1>5. CASE Register
  BY <1>5, SerialKept DEF Register, tracker, locals
<1>6. CASE Commit
  <2>1. used'.append = used.append /\ used'.trunc = used.trunc
    BY <1>0, <1>6, UseFacts DEF Commit
  <2>2. \A t \in Thread : pc'[t] = pc[t] \/ (loaded /\ pc[t] = "done" /\ pc'[t] = "stat")
    BY <1>0, <1>6 DEF Commit, Goto, IInv, LoadedFirst, Thread
  <2> QED BY <1>6, <2>1, <2>2, SerialKept DEF Commit, tracker, locals
<1>7. CASE HandleEvent
  <2>1. \A t \in Thread : pc'[t] = pc[t] \/ (loaded /\ pc[t] = "done" /\ pc'[t] = "stat")
    BY <1>0, <1>7 DEF HandleEvent, Goto, IInv, LoadedFirst, Thread
  <2> QED BY <1>7, <2>1, SerialKept DEF HandleEvent, tracker, locals
<1>8. CASE Idle
  <2>1. cache' = SetPinned(cache, pins, TRUE) /\ loaded
    BY <1>8 DEF Idle, IInv, LoadedFirst
  <2>2. \A n, k : Reads(cache, file, n, k) /\ k \in Nat => Reads(cache', file, n, k)
    BY <1>0, <2>1, ReadsFlagged
  <2> QED BY <1>8, <2>1, <2>2, SerialKept DEF Idle, locals
<1>9. CASE UNCHANGED vars
  BY <1>9, SerialKept DEF vars
<1> QED BY <1>1, <1>2, <1>3, <1>4, <1>5, <1>6, <1>7, <1>8, <1>9 DEF Next

(* Files, commits, events and pins of any number: as long as no sync()     *)
(* overlaps another or a write, merging chunk by chunk gives the whole     *)
(* file with the appended repeats collapsed, nothing lost and nothing      *)
(* twice (SerialExact).                                                    *)
THEOREM SerialReadsExact == Spec => []SerialExact
<1>1. TypeOK /\ SerialInv => SerialExact
  <2> SUFFICES ASSUME TypeOK, SerialInv, serial, used.trunc = 0, loaded, size = Len(file)
               PROVE  Records(cache) = Collapsed(file, Len(file) - used.append)
    BY DEF SerialExact
  <2>1. file \in Seq(Command)
    BY FilesAreSequences DEF TypeOK
  <2>2. Reads(cache, file, Len(file) - used.append, Len(file))
    BY DEF SerialInv, Reading
  <2> QED BY <2>1, <2>2, CollapsedForm DEF Reads
<1>2. Init => TypeOK /\ IInv /\ SerialInv
  BY TypesInitially, InitIInv, SerialInitially
<1>3. (TypeOK /\ IInv /\ SerialInv) /\ [Next]_vars => (TypeOK /\ IInv /\ SerialInv)'
  BY TypesStep, NextIInv, SerialStep
<1> QED BY <1>1, <1>2, <1>3, PTL DEF Spec
=============================================================================
