------------------------------ MODULE Alignment ------------------------------
(***************************************************************************)
(* The timeline of the clips: each begins where its first line did, or     *)
(* where the clip before it ends; one that is a little too long for that   *)
(* line is compressed to it, one that is far too long shifts what follows. *)
(***************************************************************************)
EXTENDS Synthesis

VARIABLE
    cursor    \* how many clips are placed, and where the last of them ends

OrigStart(c) == script[c.unit].start
OrigLength(c) == script[c.unit].end - script[c.unit].start

Later(a, b) == IF a < b THEN b ELSE a

\* At most 1.3 times its line.
Squeezed(c) == c.length > OrigLength(c) /\ 10 * c.length <= 13 * OrigLength(c)

Placed_Unsqueezed(c) == [c EXCEPT !.at = Later(OrigStart(c), cursor.end)]
Placed(c) ==
    [c EXCEPT !.at = Later(OrigStart(c), cursor.end),
              !.length = IF Squeezed(c) THEN OrigLength(c) ELSE @]

AlignClip ==
    LET k == cursor.placed + 1 IN
    /\ phase = "align" /\ k <= Len(spoken)
    /\ spoken' = [spoken EXCEPT ![k] = Placed(@)]
    /\ cursor' = [placed |-> k, end |-> spoken'[k].at + spoken'[k].length]
    /\ UNCHANGED <<phase, lines, tr, voices, jobs, clips, raised, left>>

AlignmentEnds ==
    /\ phase = "align" /\ cursor.placed = Len(spoken)
    /\ Ends("done")
    /\ UNCHANGED <<lines, tr, voices, jobs, clips, spoken, raised, left, cursor>>

AlignmentStep == AlignClip \/ AlignmentEnds
=============================================================================
