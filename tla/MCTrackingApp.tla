--------------------------- MODULE MCTrackingApp ---------------------------
(* PositionUplink and FlightRecorder, two services of the mobile app that    *)
(* share no state, each explored on its own while the other rests.           *)
EXTENDS PositionUplink, FlightRecorder

VARIABLE part

MCInit == part \in {"uplink", "recorder"} /\ Init /\ RecInit

MCNext ==
    \/ part = "uplink" /\ Next /\ UNCHANGED <<part, recvars>>
    \/ part = "recorder" /\ RecNext /\ UNCHANGED <<part, vars>>

MCSpec == MCInit /\ [][MCNext]_<<part, vars, recvars>> /\ (part = "uplink" => Fairness)

\* BufferDrains, of its part.
AppBufferDrains == part = "uplink" => BufferDrains
=============================================================================
