--------------------------- MODULE MCLandingPickup ---------------------------
(* LandingPickup and TrackedTask, which share no state, each explored on its  *)
(* own while the other rests in its initial state.                            *)
EXTENDS LandingPickup, TrackedTask, TLC

CONSTANTS here, there

VARIABLE part

\* A meet of three days, and one of two whose days begin first.
MCStartsOn == (here :> 1) @@ (there :> 1)
MCEndsOn == (here :> 3) @@ (there :> 2)
MCAhead == (here :> 0) @@ (there :> 1)

MCInit ==
    /\ part \in {"landing", "task"} /\ Init /\ TrackInit
    /\ part = "landing" => today = 1 /\ enters = [p \in Flyers |-> {}]

MCNext ==
    \/ part = "landing" /\ Next /\ UNCHANGED <<part, trackvars>>
    \/ part = "task" /\ TrackNext /\ UNCHANGED <<part, vars>>

MCSpec == MCInit /\ [][MCNext]_<<part, vars, trackvars>> /\ (part = "landing" => Fairness)

\* LandedIsRecorded, of its part.
EveryLandingRecorded == part = "landing" => LandedIsRecorded
==============================================================================
