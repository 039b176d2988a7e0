--------------------------- MODULE PublishedFrames ---------------------------
(***************************************************************************)
(* What a native view promises its client: the client shows frames the     *)
(* session has published, whole and never going back.  It may skip frames, *)
(* but is told of every replacement of the thread it is on.                *)
(***************************************************************************)
EXTENDS Integers, Sequences

VARIABLES
    frames,  \* published so far; frame number n is the n-th
    shown    \* the frame the client shows, with number 0 before the first
feedVars == <<frames, shown>>

Start == frames = <<>> /\ shown.n = 0

Publication ==
    /\ Len(frames') = Len(frames) + 1
    /\ SubSeq(frames', 1, Len(frames)) = frames
    /\ frames'[Len(frames')].n = Len(frames')
    /\ UNCHANGED shown

Replaced(i) == i > 1 /\ frames[i].thread # frames[i - 1].thread

Showing ==
    /\ \E n \in shown.n + 1 .. Len(frames) :
        /\ shown' = frames[n]
        /\ \A i, j \in shown.n + 1 .. n : Replaced(i) /\ Replaced(j) => i = j
    /\ UNCHANGED frames

Promise == Start /\ [][Publication \/ Showing]_feedVars
=============================================================================
