--------------------------- MODULE MCScoringDesk ---------------------------
(***************************************************************************)
(* UploadFiles and ScoringDesk, which share no state: each is explored on  *)
(* its own, from its initial state and with the other's.                   *)
(***************************************************************************)
EXTENDS UploadFiles, ScoringDesk, TLC

VARIABLE part

Init == part \in {"files", "scores"} /\ FileInit /\ DeskInit

Only(p) == part = p /\ UNCHANGED part

Next ==
    \/ Only("files") /\ FileNext /\ UNCHANGED deskvars
    \/ Only("scores") /\ DeskNext /\ UNCHANGED filevars

\* Nothing more is said of a file once it is shared or torn; a second content
\* is stored only by attaching it, before there are uploads; two uploads of
\* the task are explored for one pilot, two pilots with one upload and one
\* status at a time; results are official in the first round, while at most
\* one request is at work: nothing depends on it but what Publish may do.
Named == {f.path : f \in flights} \cup {filing[r].path : r \in Storers}
Bounded ==
    /\ Cardinality(shared \cup torn) <= 1
    /\ Cardinality({ContentOf(path) : path \in (Named \cup disk) \ {None}}) > 1 =>
          /\ shared \cup torn = {} /\ lastUpload = 0 /\ tasks = Tasks /\ disk \subseteq Named
          /\ \A r \in Storers : filing[r].kind = "attach"
    /\ (\E p \in Scored : result[p] # NoRow /\ result[p].state = "official")
          => rounds = 1 /\ Cardinality({r \in Requests : desk[r] # Free}) <= 1
    /\ Cardinality({p \in Scored : input[p] # NoRow /\ input[p].status # None}) <= 1
    /\ lastFile < 2 \/ \E p \in Scored :
          input[p] = NoRow /\ result[p] = NoRow /\ \A u \in Files : owner[u] # p

Symmetry == Permutations(Requests) \cup Permutations(Scored) \cup Permutations(Tasks)
              \cup Permutations(Contents)
=============================================================================
