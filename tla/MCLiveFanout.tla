---------------------------- MODULE MCLiveFanout ----------------------------
(* LiveFanout and PublicStreams, which share no state, each explored on its  *)
(* own while the other rests in its initial state.                           *)
EXTENDS LiveFanout, PublicStreams, TLC

CONSTANTS entrant, outsider, theirs, another, driver

VARIABLE part

allvars == <<part, vars, pubvars>>

MCPilotOf == (theirs :> entrant) @@ (another :> outsider) @@ (driver :> Nobody)

\* A pilot in the meet, one who files under its task all the same, its driver,
\* and the pilot's account with a driver's device.
MCSubjects ==
    { [pilot |-> entrant, user |-> theirs, filed |-> TRUE],
      [pilot |-> outsider, user |-> another, filed |-> TRUE],
      [pilot |-> Nobody, user |-> driver, filed |-> TRUE],
      [pilot |-> Nobody, user |-> theirs, filed |-> FALSE] }

MCInit ==
    /\ part \in {"task", "public"} /\ Init
    /\ PubInit /\ entrants = {entrant} /\ driving = {driver}

MCNext ==
    \/ part = "task" /\ Next /\ UNCHANGED <<part, pubvars>>
    \/ part = "public" /\ PubNext /\ UNCHANGED <<part, vars>>

MCSpec == MCInit /\ [][MCNext]_allvars /\ (part = "task" => Fairness)

\* ViewCatchesUp, of its part.
ViewsCatchUp == part = "task" => ViewCatchesUp
=============================================================================
