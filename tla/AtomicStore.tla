---------------------------- MODULE AtomicStore ----------------------------
(***************************************************************************)
(* What a checkpoint promises (docs/configuration.md: "committed together  *)
(* or not at all"): the saved workspace is replaced as a whole by one      *)
(* image, every saved image stays in the snapshot history, and an image is *)
(* acknowledged only after it is saved.                                    *)
(*                                                                         *)
(* An image is a record with the attempt at which it was captured and the  *)
(* panes whose terminal contents it holds, among others.  Nothing is       *)
(* promised of its generation, which restore_snapshot takes back.          *)
(***************************************************************************)
EXTENDS Naturals

CONSTANT Initial     \* the image of a workspace that was only created

VARIABLES
    current,    \* the saved image, what the next launch reads
    contents,   \* terminal contents of the panes of current, by capture time
    history,    \* every image saved by a checkpoint
    acked       \* the images whose checkpoint returned true

avars == <<current, contents, history, acked>>

ContentsOf(img) == [p \in img.panes |-> img.at]

AInit ==
    /\ current = Initial
    /\ contents = ContentsOf(Initial)
    /\ history = {} /\ acked = {}

\* Images are saved in the order they were captured, each of them once.
Save ==
    /\ \A old \in history \cup {current} : current'.at > old.at
    /\ contents' = ContentsOf(current')
    /\ history' = history \cup {current'}
    /\ UNCHANGED acked

\* Only what the next launch would read is acknowledged.
Acknowledge ==
    /\ current \in history /\ acked' = acked \cup {current}
    /\ UNCHANGED <<current, contents, history>>

ANext == Save \/ Acknowledge

ASpec == AInit /\ [][ANext]_avars
=============================================================================
