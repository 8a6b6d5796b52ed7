----------------------------- MODULE MeshNodes -----------------------------
(***************************************************************************)
(* What is known of a mesh node (backend/app/routers/tracking.py and       *)
(* services/mqtt_subscriber.py).  Packets about it come from the MQTT      *)
(* subscriber, from phones that relay positions and from the phone that    *)
(* reads it over BLE.  Each reads the node's row, changes it and commits;  *)
(* requests run side by side with the subscriber, the session writes the   *)
(* changed columns only, and fixes may come late.                          *)
(***************************************************************************)
EXTENDS Integers, Sequences, FiniteSets, Database

CONSTANTS Nodes,
          Levels,      \* battery levels
          Tolerance,   \* MESH_GATEWAY_METADATA_TOLERANCE_SECONDS
          MaxNow,      \* bound on the time
          MaxPackets   \* bound on the packets

ASSUME LimitsAssumption == Tolerance \in Nat /\ MaxNow \in Nat

VARIABLES now,
          status,   \* mesh_node_statuses
          hearing,  \* the packets being recorded, with the rows that were read
          fix,      \* live_positions from the mesh, the latest of each node
          heard,    \* history: the packets recorded
          single,   \* history: the requests that nothing crossed since they began
          mixed     \* history: a packet was recorded that was crossed

nodevars == <<now, status, hearing, fix, heard, single, mixed>>

Times == 0..MaxNow
Sources == {"mqtt_gateway", "mesh_relay", "app_ble"}
Status == [seen : Times, src : Sources \cup {None}, gw : Nodes \cup {None}, pos : BOOLEAN, count : Nat,
           level : Levels \cup {None}, levelAt : Times \cup {None}]
Packet == [dev : Nodes, src : Sources, gw : Nodes \cup {None}, level : Levels \cup {None},
           at : Times, pos : BOOLEAN, fixAt : Times \cup {None}]
\* A packet with the rows of some nodes.
Reading(S) == [packet : Packet, was : [S -> Status \cup {None}]]

ASSUME RowAssumption == None \notin Status /\ \A S \in SUBSET Nodes : None \notin Reading(S)

NodeTypeOK ==
    /\ now \in Times
    /\ status \in [Nodes -> Status \cup {None}]
    /\ \A r \in Requests : hearing[r] # None => \E S \in SUBSET Nodes : hearing[r] \in Reading(S)
    /\ fix \in [Nodes -> [at : Times, src : Sources] \cup {None}]
    /\ heard \in Seq(Packet)
    /\ single \subseteq Requests
    /\ mixed \in BOOLEAN

NodeInit ==
    /\ now = 0
    /\ status = [d \in Nodes |-> None]
    /\ hearing = [r \in Requests |-> None]
    /\ fix = [d \in Nodes |-> None]
    /\ heard = <<>>
    /\ single = {}
    /\ mixed = FALSE

-----------------------------------------------------------------------------
(* Recording a packet                                                      *)

\* The rows of a packet: the sender's and the gateway's.
Touched(p) == {p.dev} \cup ({p.gw} \ {None})

\* _record_mesh_node_status, _upsert_mesh_position_status and
\* post_mesh_radio_telemetry, which leaves the gateway as it is.
Sighting(old, p, d) ==
    LET reported == d = p.dev /\ p.level # None
    IN  [seen |-> p.at, src |-> p.src, pos |-> p.pos,
         gw |-> IF p.src = "app_ble" THEN old.gw ELSE p.gw, count |-> old.count + 1,
         level |-> IF reported THEN p.level ELSE old.level,
         levelAt |-> IF reported THEN p.at ELSE old.levelAt]

NewStatus(p) == [seen |-> p.at, src |-> None, gw |-> None, pos |-> FALSE, count |-> 0, level |-> None, levelAt |-> None]

\* Mutant of Inserted: a row is always added.
AddAlways(w) == DOMAIN w.was
Inserted(w) == {d \in DOMAIN w.was : w.was[d] = None}

\* The rows as this packet would have them, from what was read.
Becomes(w, d) == Sighting(IF d \in Inserted(w) THEN NewStatus(w.packet) ELSE w.was[d], w.packet, d)

\* A row is inserted whole; of another only the changed columns are written.
Written(w, d) ==
    IF d \in Inserted(w) THEN Becomes(w, d)
    ELSE [k \in DOMAIN status[d] |-> IF Becomes(w, d)[k] = w.was[d][k] THEN status[d][k]
                                      ELSE Becomes(w, d)[k]]

\* post_mesh_radio_telemetry: a newer level is known.
Ignored(p) ==
    /\ p.src = "app_ble"
    /\ status[p.dev] # None
    /\ status[p.dev].levelAt # None
    /\ status[p.dev].levelAt > p.at

Hear(r, p) ==
    /\ hearing[r] = None
    /\ ~Ignored(p)
    /\ Len(heard) + Cardinality({q \in Requests : hearing[q] # None}) < MaxPackets
    /\ hearing' = [hearing EXCEPT ![r] = [packet |-> p, was |-> [d \in Touched(p) |-> status[d]]]]
    /\ single' = single \cup {r}
    /\ UNCHANGED <<now, status, fix, heard, mixed>>

\* _handle_message: seen when received, whenever the fix was made.  A JSON
\* message names no gateway; the position of an unassigned node is not stored.
HandleMessage(r, d, g, level, pos, fixAt) ==
    /\ fixAt # None => pos
    /\ Hear(r, [dev |-> d, src |-> "mqtt_gateway", gw |-> g, level |-> level,
                at |-> now, pos |-> pos, fixAt |-> fixAt])

\* post_position for a mesh source: seen when the fix was made.  Of a relay the
\* gateway is the caller's tracker, else the node itself.
RelayPosition(r, d, g, src, level, at) ==
    /\ src = "mqtt_gateway" => g = d
    /\ Hear(r, [dev |-> d, src |-> src, gw |-> g, level |-> level, at |-> at, pos |-> TRUE, fixAt |-> at])

ReadOverBle(r, d, level, at) ==
    Hear(r, [dev |-> d, src |-> "app_ble", gw |-> None, level |-> level,
             at |-> at, pos |-> FALSE, fixAt |-> None])

\* device_id is unique.
Collides(w) == \E d \in Inserted(w) : status[d] # None

\* Requests under way about one of the nodes.
CrossedBy(r) == {q \in Requests \ {r} : hearing[q] # None /\
                    DOMAIN hearing[q].was \cap DOMAIN hearing[r].was # {}}

Newer(p) == p.fixAt # None /\ (fix[p.dev] = None \/ p.fixAt > fix[p.dev].at)

Record(r) ==
    LET w == hearing[r] IN
    /\ w # None
    /\ ~Collides(w)
    /\ status' = [d \in Nodes |-> IF d \in DOMAIN w.was THEN Written(w, d) ELSE status[d]]
    /\ fix' = IF Newer(w.packet)
              THEN [fix EXCEPT ![w.packet.dev] = [at |-> w.packet.fixAt, src |-> w.packet.src]] ELSE fix
    /\ heard' = Append(heard, w.packet)
    /\ mixed' = (mixed \/ r \notin single)
    /\ single' = single \ ({r} \cup CrossedBy(r))
    /\ hearing' = [hearing EXCEPT ![r] = None]
    /\ UNCHANGED now

\* IntegrityError: the packet is lost, its position too.
LosePacket(r) ==
    /\ hearing[r] # None
    /\ Collides(hearing[r])
    /\ hearing' = [hearing EXCEPT ![r] = None]
    /\ single' = single \ {r}
    /\ UNCHANGED <<now, status, fix, heard, mixed>>

PassTime ==
    /\ now < MaxNow
    /\ now' = now + 1
    /\ UNCHANGED <<status, hearing, fix, heard, single, mixed>>

NodeNext ==
    \/ \E r \in Requests, d \in Nodes :
          \/ \E g \in Nodes \cup {None}, level \in Levels \cup {None} :
                \/ \E pos \in BOOLEAN, fixAt \in (0..now) \cup {None} :
                      HandleMessage(r, d, g, level, pos, fixAt)
                \/ \E src \in {"mesh_relay", "mqtt_gateway"}, at \in 0..now :
                      RelayPosition(r, d, g, src, level, at)
          \/ \E level \in Levels, at \in 0..now : ReadOverBle(r, d, level, at)
    \/ \E r \in Requests : Record(r) \/ LosePacket(r)
    \/ PassTime

NodeSpec == NodeInit /\ [][NodeNext]_nodevars

-----------------------------------------------------------------------------
(* get_mesh_nodes                                                          *)

PositionNewer(d) == fix[d] # None /\ (status[d] = None \/ fix[d].at > status[d].seen)

ShownAt(d) == IF PositionNewer(d) THEN fix[d].at ELSE status[d].seen
ShownSource(d) == IF PositionNewer(d) THEN fix[d].src ELSE status[d].src

\* _status_gateway_id_for_latest
ShownGateway(d) ==
    IF status[d] = None THEN None
    ELSE IF ~PositionNewer(d) THEN status[d].gw
    ELSE IF /\ fix[d].src = status[d].src /\ status[d].pos
            /\ fix[d].at - status[d].seen <= Tolerance
         THEN status[d].gw
    ELSE None

-----------------------------------------------------------------------------
(* Properties                                                              *)

Recorded == {heard[i] : i \in DOMAIN heard}

\* The gateway shown for a node has relayed a packet of this node, or was itself
\* the gateway of one, from the source and at about the time shown with it,
\* however late the packets came.  Over BLE no gateway is involved: the one shown
\* is then an older one.
GatewayShownRelayed ==
    \A d \in Nodes :
       /\ ~mixed /\ status[d] # None
       /\ ShownGateway(d) # None /\ ShownSource(d) # "app_ble"
       => \E p \in Recorded :
             /\ d \in Touched(p) /\ p.gw = ShownGateway(d) /\ p.src = ShownSource(d)
             /\ ShownAt(d) - p.at \in 0..Tolerance

\* A battery level is shown with the time of a packet that reported it, and a
\* node's packets are counted.
SightingWhole ==
    \A d \in Nodes :
       ~mixed /\ status[d] # None =>
          /\ status[d].level # None => \E p \in Recorded :
                p.dev = d /\ p.level = status[d].level /\ p.at = status[d].levelAt
          /\ status[d].count = Cardinality({i \in DOMAIN heard : d \in Touched(heard[i])})

\* A packet is lost only when another one about the same new node crossed it.
OnlyCrossedLost == [][\A r \in Requests : LosePacket(r) => r \notin single]_nodevars

\* What a phone reads over BLE never replaces a level that is newer, unless the
\* newer one came while it was being recorded.
LevelStays ==
    [][\A r \in Requests, d \in Nodes :
         /\ r \in single /\ Record(r) /\ hearing[r].packet.src = "app_ble"
         /\ status[d] # None /\ status[d].levelAt # None
         => status'[d].levelAt >= status[d].levelAt]_nodevars

\* What is shown of a node was told by its packets, and a packet or a level is
\* lost only where two crossed.
NodesHold == [](NodeTypeOK /\ GatewayShownRelayed /\ SightingWhole) /\ OnlyCrossedLost /\ LevelStays
=============================================================================
