--------------------------- MODULE MCServerQueues ---------------------------
(* DeployQueue and MeetStatsCache, which share no state, each explored on    *)
(* its own while the other rests in its initial state.                       *)
EXTENDS DeployQueue, MeetStatsCache

VARIABLES part

allvars == <<part, vars, statsvars>>

MCInit == part \in {"deploy", "stats"} /\ Init /\ StatsInit

MCNext ==
    \/ part = "deploy" /\ Next /\ UNCHANGED <<part, statsvars>>
    \/ part = "stats" /\ StatsNext /\ UNCHANGED <<part, vars>>

MCSpec ==
    /\ MCInit /\ [][MCNext]_allvars
    /\ \/ part = "deploy" /\ Fairness
       \/ part = "stats" /\ StatsFairness

\* ViewedBecomesFresh, of its part.
StatsBecomeFresh == part = "stats" => ViewedBecomesFresh
=============================================================================
