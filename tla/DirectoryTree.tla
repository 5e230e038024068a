--------------------------- MODULE DirectoryTree ---------------------------
(***************************************************************************)
(* The file panel (gui/window/directory_tree_panel.cpp): its State (root,  *)
(* expanded directories, selection, filter), the rows that render it, the  *)
(* monitor of the root with its debounced refresh, and the changes made by *)
(* the panel, by saving notes and by other programs.                       *)
(*                                                                         *)
(* A path is the sequence of names below the topmost directory <<>>.  Rows *)
(* are kept as functions from paths; order, sizes and scrolling are left   *)
(* out, and so are errors of the file system.                              *)
(***************************************************************************)
EXTENDS Naturals, Sequences, SequencesExt, FiniteSets

CONSTANTS
    Names,      \* file names
    Paths,      \* the paths that may exist below <<>>, closed under parents
    Filtered,   \* names that match the search text
    NoPath      \* an empty path

TopDir == <<>>

ASSUME TreeAssumption ==
    /\ Paths \subseteq Seq(Names)
    /\ \A p \in Paths : p # TopDir /\ (Len(p) > 1 => Front(p) \in Paths)
    /\ NoPath \notin Paths

VARIABLES
    fs,         \* file system: each existing path is a "dir" or a "file"
    root,       \* state_.current_dir
    expanded,   \* state_.expanded
    selected,   \* state_.selected
    filtering,  \* state_.filter is not empty
    rows,       \* rendered rows: dir and kids (a directory, has_children, when
                \* the row was made), open (the children box is visible)
    lit,        \* rows with the class remin-selected
    watched,    \* directory of monitor_
    due         \* directory debounce_ will reconcile

treeState == <<root, expanded, selected, filtering>>
treeVars == <<fs, treeState, rows, lit, watched, due>>

IsDir(f, d) == d = TopDir \/ (d \in DOMAIN f /\ f[d] = "dir")
Up(p) == Front(p)
Below(d, p) == Len(p) > Len(d) /\ SubSeq(p, 1, Len(d)) = d
AtOrBelow(d, p) == p = d \/ Below(d, p)
Entries(f, d) == IF IsDir(f, d) THEN {p \in DOMAIN f : Up(p) = d} ELSE {}

-----------------------------------------------------------------------------
(* Rendering                                                               *)

NewRow(f, x, p) ==
    LET kids == IsDir(f, p) /\ Entries(f, p) # {} IN
    [dir |-> IsDir(f, p), kids |-> kids, open |-> kids /\ p \in x]

\* populate_children(d): a row for every entry, and below the open ones.
populate_children(f, x, d) ==
    {p \in DOMAIN f : Below(d, p)
        /\ \A n \in (Len(d) + 1)..(Len(p) - 1) :
              LET q == SubSeq(p, 1, n) IN q \in x /\ Entries(f, q) # {}}

matches_filter(on, p) == ~on \/ p[Len(p)] \in Filtered

\* rebuild_top_level: the filter applies to the entries of the root only.
rebuild_top_level(f, x, r, on) ==
    LET shown == {p \in populate_children(f, x, r) :
                     matches_filter(on, SubSeq(p, 1, Len(r) + 1))}
    IN  [p \in shown |-> NewRow(f, x, p)]

\* create_row lights the selected path.
refresh(f, x, r, on, s) ==
    /\ rows' = rebuild_top_level(f, x, r, on)
    /\ lit' = DOMAIN rows' \cap {s}

\* The rows after reconcile_directory(d) for a directory below the root: not
\* rendered or a file, nothing; expanded, its children are made anew;
\* collapsed, they stay as they are behind the closed row.
Reconciled(f, x, d) ==
    IF d \notin DOMAIN rows \/ ~rows[d].dir THEN rows
    ELSE IF d \in x
    THEN LET kept == {p \in DOMAIN rows : ~Below(d, p)}
             new == populate_children(f, x, d)
         IN  [p \in kept \cup new |->
                 IF p \in new THEN NewRow(f, x, p)
                 ELSE IF p = d THEN [rows[p] EXCEPT !.open = TRUE] ELSE rows[p]]
    ELSE [rows EXCEPT ![d].open = FALSE]

\* reconcile_directory(d) on the file system f with expansion x and
\* selection s; the selection is drawn on every row at the end.
reconcile_directory(f, x, s, d) ==
    IF d = root THEN refresh(f, x, root, filtering, s)
    ELSE /\ rows' = Reconciled(f, x, d)
         /\ lit' = IF d \in DOMAIN rows /\ rows[d].dir THEN DOMAIN rows' \cap {s} ELSE lit

\* Mutant: a change is not scheduled while the timer runs.
ReportedWhenIdle(p) ==
    due' = IF due = NoPath /\ Up(p) = watched THEN watched ELSE due

\* The monitor reports a change of an entry of the directory it watches; the
\* timer starts anew, for that directory.
Reported(p) == due' = IF Up(p) = watched THEN watched ELSE due

Visible(p) ==
    /\ p \in DOMAIN rows
    /\ \A n \in (Len(root) + 1)..(Len(p) - 1) : rows[SubSeq(p, 1, n)].open

-----------------------------------------------------------------------------
(* Clicks                                                                  *)

\* Mutant: the class is added to the new row and never removed.
SelectMore(p) == selected' = p /\ lit' = (lit \cup {p}) \cap DOMAIN rows'

set_selected(p) == selected' = p /\ lit' = DOMAIN rows' \cap {p}

\* One click on a row: a directory that had entries when its row was made is
\* also opened, with fresh rows, or closed.
ClickRow(p) ==
    /\ Visible(p)
    /\ IF ~rows[p].kids
       THEN UNCHANGED <<expanded, rows>>
       ELSE IF p \in expanded
       THEN /\ expanded' = expanded \ {p}
            /\ rows' = [rows EXCEPT ![p].open = FALSE]
       ELSE /\ expanded' = expanded \cup {p}
            /\ LET kept == {q \in DOMAIN rows : ~Below(p, q)}
                   new == populate_children(fs, expanded', p)
               IN  rows' = [q \in kept \cup new |->
                               IF q \in new THEN NewRow(fs, expanded', q)
                               ELSE IF q = p THEN [rows[q] EXCEPT !.open = TRUE]
                               ELSE rows[q]]
    /\ set_selected(p)
    /\ UNCHANGED <<fs, root, filtering, watched, due>>

\* set_root: a double click on a directory, "..", the home button.
set_root(d) ==
    /\ d # root /\ IsDir(fs, d)
    /\ d = TopDir \/ Visible(d) \/ (root # TopDir /\ d = Up(root))
    /\ root' = d /\ expanded' = {} /\ selected' = NoPath
    /\ watched' = d
    /\ refresh(fs, {}, d, filtering, NoPath)
    /\ UNCHANGED <<fs, filtering, due>>

\* The search text changes, to another filter or none.
SetFilter(on) ==
    /\ on # filtering /\ filtering' = on
    /\ refresh(fs, expanded, root, on, selected)
    /\ UNCHANGED <<fs, root, expanded, selected, watched, due>>

\* The reload button, and showing the panel.
Reload ==
    /\ refresh(fs, expanded, root, filtering, selected)
    /\ UNCHANGED <<fs, treeState, watched, due>>

-----------------------------------------------------------------------------
(* The context menu                                                        *)

\* Ancestors of d below the root, and d itself.
reveal_after_create(d) ==
    {SubSeq(d, 1, n) : n \in (Len(root) + 1)..Len(d)}

\* create_new_file, create_new_folder in a directory with a row.
CreateItem(p, kind) ==
    /\ p \in Paths \ DOMAIN fs /\ Visible(Up(p)) /\ IsDir(fs, Up(p))
    /\ fs' = [q \in DOMAIN fs \cup {p} |-> IF q = p THEN kind ELSE fs[q]]
    /\ expanded' = expanded \cup reveal_after_create(Up(p))
    /\ selected' = p
    /\ refresh(fs', expanded', root, filtering, p)
    /\ Reported(p)
    /\ UNCHANGED <<root, filtering, watched>>

\* The path q after p was renamed to r.
Moved(p, r, q) == IF AtOrBelow(p, q) THEN r \o SubSeq(q, Len(p) + 1, Len(q)) ELSE q

\* rename_item: only the entry of the path itself follows the rename.
rename_item(p, r) ==
    LET x == IF p \in expanded THEN (expanded \ {p}) \cup {r} ELSE expanded IN
    /\ Visible(p) /\ p \in DOMAIN fs /\ r \in Paths \ DOMAIN fs /\ Up(r) = Up(p)
    /\ {Moved(p, r, q) : q \in DOMAIN fs} \subseteq Paths
    /\ fs' = [s \in {Moved(p, r, q) : q \in DOMAIN fs} |->
                 fs[CHOOSE q \in DOMAIN fs : Moved(p, r, q) = s]]
    /\ expanded' = x /\ selected' = r
    /\ reconcile_directory(fs', x, r, Up(p))
    /\ Reported(p)
    /\ UNCHANGED <<root, filtering, watched>>

\* delete_item: expansion and selection forget the path and all below it.
delete_item(p) ==
    /\ Visible(p)
    /\ fs' = [q \in {s \in DOMAIN fs : ~AtOrBelow(p, s)} |-> fs[q]]
    /\ expanded' = {s \in expanded : ~AtOrBelow(p, s)}
    /\ selected' = IF selected # NoPath /\ AtOrBelow(p, selected) THEN NoPath ELSE selected
    /\ reconcile_directory(fs', expanded', selected', Up(p))
    /\ Reported(p)
    /\ UNCHANGED <<root, filtering, watched>>

-----------------------------------------------------------------------------
(* Changes from outside                                                    *)

\* Another program creates or removes an entry.
OthersCreate(p, kind) ==
    /\ p \in Paths \ DOMAIN fs /\ IsDir(fs, Up(p))
    /\ fs' = [q \in DOMAIN fs \cup {p} |-> IF q = p THEN kind ELSE fs[q]]
    /\ Reported(p)
    /\ UNCHANGED <<treeState, rows, lit, watched>>

OthersRemove(p) ==
    /\ p \in DOMAIN fs /\ ~AtOrBelow(p, root)
    /\ fs' = [q \in {s \in DOMAIN fs : ~AtOrBelow(p, s)} |-> fs[q]]
    /\ Reported(p)
    /\ UNCHANGED <<treeState, rows, lit, watched>>

\* The debounce timer fires.
DebounceTick ==
    /\ due # NoPath /\ due' = NoPath
    /\ reconcile_directory(fs, expanded, selected, due)
    /\ UNCHANGED <<fs, treeState, watched>>

\* A note is saved to a new or an existing file; a new one is not rendered
\* and its directory is reconciled.
on_note_saved(p) ==
    /\ p \in Paths /\ IsDir(fs, Up(p)) /\ ~IsDir(fs, p)
    /\ fs' = [q \in DOMAIN fs \cup {p} |-> IF q = p THEN "file" ELSE fs[q]]
    /\ IF p \in DOMAIN rows THEN UNCHANGED <<rows, lit>>
       ELSE reconcile_directory(fs', expanded, selected, Up(p))
    /\ Reported(p)
    /\ UNCHANGED <<treeState, watched>>

\* A new session: the constructor's panel watches the home directory, then
\* apply_state puts back what capture_state saved.
Restart ==
    /\ refresh(fs, expanded, root, filtering, selected)
    /\ watched' = TopDir /\ due' = NoPath
    /\ UNCHANGED <<fs, treeState>>

-----------------------------------------------------------------------------
TreeInit ==
    /\ fs = [p \in {} |-> "dir"]
    /\ root = TopDir /\ expanded = {} /\ selected = NoPath /\ filtering = FALSE
    /\ rows = [p \in {} |-> NewRow(fs, {}, p)] /\ lit = {}
    /\ watched = TopDir /\ due = NoPath

TreeNext ==
    \/ \E p \in Paths : \/ ClickRow(p) \/ delete_item(p) \/ OthersRemove(p)
                        \/ on_note_saved(p)
    \/ \E p \in Paths \cup {TopDir} : set_root(p)
    \/ \E p \in Paths, kind \in {"dir", "file"} : CreateItem(p, kind) \/ OthersCreate(p, kind)
    \/ \E p \in Paths, r \in Paths : rename_item(p, r)
    \/ \E on \in BOOLEAN : SetFilter(on)
    \/ Reload \/ DebounceTick \/ Restart

TreeSpec == TreeInit /\ [][TreeNext]_treeVars

-----------------------------------------------------------------------------
(* Types of the panel's state.                                             *)
TreeTypeOK ==
    /\ DOMAIN fs \subseteq Paths /\ \A p \in DOMAIN fs : IsDir(fs, Up(p))
    /\ root \in Paths \cup {TopDir} /\ expanded \subseteq Paths
    /\ selected \in Paths \cup {NoPath} /\ filtering \in BOOLEAN
    /\ DOMAIN rows \subseteq Paths /\ lit \subseteq DOMAIN rows
    /\ watched \in Paths \cup {TopDir} /\ due \in Paths \cup {TopDir, NoPath}

(* "Rows are a rendering of State": through clicks, filters, renames,      *)
(* deletions, saves and late refreshes, the highlighted row is the selected*)
(* one; a row is open only if its directory is in expanded, and one whose  *)
(* directory is in it and had entries is open; every row has its parent's. *)
RowsReflectState ==
    /\ lit = DOMAIN rows \cap {selected}
    /\ \A p \in DOMAIN rows :
          /\ rows[p].open => p \in expanded
          /\ p \in expanded /\ rows[p].kids => rows[p].open
          /\ Up(p) # root => Up(p) \in DOMAIN rows

(* The monitor keeps the listing of the root right: while the root is the  *)
(* directory that is watched and no refresh is due, the rows of the root   *)
(* are its entries that match the filter, whoever changed them.            *)
ListingFresh ==
    (watched = root /\ due # root) =>
        {p \in DOMAIN rows : Up(p) = root} =
        {p \in Entries(fs, root) : matches_filter(filtering, p)}
=============================================================================
