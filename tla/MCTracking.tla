----------------------------- MODULE MCTracking -----------------------------
(***************************************************************************)
(* LivePositions, MeshNodes, TurnpointLibrary and AirspaceFiles, which     *)
(* share no state, each explored on its own; the others rest in one        *)
(* initial state.  Of LivePositions, one subject does everything, or two   *)
(* send positions that compete for the rows of a map.  Pruning, which may  *)
(* happen or not, is switched while nothing is stored.  Once two requests  *)
(* about one subject have crossed, only one position more is stored; once  *)
(* packets about one node have, nothing is said any more.                  *)
(***************************************************************************)
EXTENDS LivePositions, MeshNodes, TurnpointLibrary, AirspaceFiles, TLC

VARIABLE part

Init ==
    /\ part \in {"positions", "crowd", "nodes", "turnpoints", "airspace"}
    /\ LiveInit /\ (part # "positions" => pruning)
    /\ NodeInit
    /\ LibInit
    /\ CASE part # "turnpoints" -> Rows = {}
         [] Cardinality(Rows) = 2 -> Cardinality({path[f] : f \in Rows}) = 1 /\ {point[p] : p \in Points} = {None}
         [] OTHER -> Cardinality(Rows) = 1
    /\ AirInit /\ (part # "airspace" => \A e \in Meets : meet[e] = "unused")

Somebody == CHOOSE u \in Subjects : TRUE

Next ==
    \/ /\ part = "positions" /\ LiveNext /\ UNCHANGED <<part, nodevars, libvars, airvars>>
       /\ \A r \in Requests : storing'[r] # None => storing'[r].new.who = Somebody
       /\ purging' # None => purging'.who = Somebody
       /\ pruning' # pruning => Stored = {} /\ \A r \in Requests : storing[r] = None
    \/ /\ part = "crowd" /\ UNCHANGED <<part, nodevars, libvars, airvars>>
       /\ \/ \E r \in Requests, who \in Subjects, task \in Scopes, at \in HalfDays, app \in BOOLEAN :
                BeginStore(r, who, task, at, app)
          \/ \E r \in Requests : CommitStore(r)
          \/ PassHalfDay
    \/ part = "nodes" /\ NodeNext /\ UNCHANGED <<part, livevars, libvars, airvars>>
    \/ part = "turnpoints" /\ LibNext /\ UNCHANGED <<part, livevars, nodevars, airvars>>
    \/ part = "airspace" /\ AirNext /\ UNCHANGED <<part, livevars, nodevars, libvars>>

Bound == ~mixed /\ (crossed = {} \/ Cardinality(Stored) <= 1)

Symmetry == Permutations(Requests) \cup Permutations(Library)
=============================================================================
