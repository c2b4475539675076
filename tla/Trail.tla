-------------------------------- MODULE Trail --------------------------------
(***************************************************************************)
(* What navigation promises: a place, and a bounded trail of the places    *)
(* forward steps have left behind.  Back undoes the latest step that the   *)
(* trail still remembers.  Whatever does not arrive leaves both alone.     *)
(***************************************************************************)
EXTENDS Integers, Sequences

CONSTANTS
    Place,
    Start,
    MaxTrail   \* at least one

VARIABLES place, trail

vars == <<place, trail>>

Init == place = Start /\ trail = <<>>

\* A step to a new place; the oldest place is forgotten when the trail is full.
Forward(to) ==
    /\ to # place
    /\ place' = to
    /\ trail' = LET longer == Append(trail, place)
                IN  IF Len(longer) > MaxTrail THEN Tail(longer) ELSE longer

\* The trail ends in the place returned to.
Back ==
    /\ trail # <<>>
    /\ place' = trail[Len(trail)]
    /\ trail' = SubSeq(trail, 1, Len(trail) - 1)

Next == Back \/ \E to \in Place : Forward(to)

Spec == Init /\ [][Next]_vars
=============================================================================
