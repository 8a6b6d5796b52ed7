--------------------------- MODULE MqttSubscriber ---------------------------
(***************************************************************************)
(* The thread that keeps the server subscribed to the MQTT broker          *)
(* (backend/app/services/mqtt_subscriber.py), the network thread of its    *)
(* client (paho-mqtt) and the requests that change the broker's settings   *)
(* and then ask for a reconnection.                                        *)
(***************************************************************************)
EXTENDS Naturals, Database

CONSTANTS Brokers,
          MaxChanges,  \* bound on the changes of the settings
          MaxFaults    \* bound on outages and on answers that take too long

ASSUME MqttAssumption == MaxChanges \in Nat /\ MaxFaults \in Nat

VARIABLES saved,      \* the broker in site_settings, None when disabled
          announcing, \* a request has committed settings and has not set the event
          event,      \* mqtt_reconnect_event
          thread,     \* where the subscriber's loop is
          using,      \* the broker it read
          client,     \* none, offline, asked (no CONNACK yet), up
          acked,      \* connected_event
          connected,  \* mqtt_connected, which the administrator sees
          reachable,  \* the brokers that can be reached
          changes, faults

mqttvars == <<saved, announcing, event, thread, using, client, acked, connected, reachable, changes, faults>>

MqttTypeOK ==
    /\ saved \in Brokers \cup {None}
    /\ announcing \in BOOLEAN /\ event \in BOOLEAN
    /\ thread \in {"reading", "disabled", "connecting", "waiting", "monitoring", "stopping", "pause", "dead"}
    /\ using \in Brokers \cup {None}
    /\ client \in {"none", "offline", "asked", "up"}
    /\ acked \in BOOLEAN /\ connected \in BOOLEAN
    /\ reachable \subseteq Brokers
    /\ changes \in 0..MaxChanges /\ faults \in 0..MaxFaults

MqttInit ==
    /\ saved \in Brokers \cup {None}
    /\ announcing = FALSE /\ event = FALSE
    /\ thread = "reading"
    /\ using = None
    /\ client = "none"
    /\ acked = FALSE /\ connected = FALSE
    /\ reachable = Brokers
    /\ changes = 0 /\ faults = 0

-----------------------------------------------------------------------------
(* Requests                                                                *)

\* update_site_settings commits, and calls request_mqtt_reconnect after that.
SaveSettings(b) ==
    /\ changes < MaxChanges
    /\ ~announcing
    /\ saved' = b
    /\ announcing' = TRUE
    /\ changes' = changes + 1
    /\ UNCHANGED <<event, thread, using, client, acked, connected, reachable, faults>>

RequestReconnect ==
    /\ announcing
    /\ announcing' = FALSE
    /\ event' = TRUE
    /\ UNCHANGED <<saved, thread, using, client, acked, connected, reachable, changes, faults>>

-----------------------------------------------------------------------------
(* _paho_subscribe_loop                                                    *)

\* Mutant of KeptEvent: what was asked for is done by reading.
ClearEvent == FALSE
KeptEvent == event

ReadConfig ==
    /\ thread = "reading"
    /\ using' = saved
    /\ acked' = FALSE
    /\ IF saved = None
       THEN thread' = "disabled" /\ connected' = FALSE /\ UNCHANGED client
       ELSE thread' = "connecting" /\ client' = "offline" /\ UNCHANGED connected
    /\ UNCHANGED <<saved, announcing, event, reachable, changes, faults>>

\* Nothing catches what the database raises: the thread ends.
DatabaseFails ==
    /\ thread = "reading"
    /\ faults < MaxFaults
    /\ faults' = faults + 1
    /\ thread' = "dead"
    /\ UNCHANGED <<saved, announcing, event, using, client, acked, connected, reachable, changes>>

Connect ==
    /\ thread = "connecting"
    /\ event' = KeptEvent
    /\ IF using \in reachable
       THEN thread' = "waiting" /\ client' = "asked" /\ UNCHANGED connected
       ELSE thread' = "pause" /\ client' = "none" /\ connected' = FALSE
    /\ UNCHANGED <<saved, announcing, using, acked, reachable, changes, faults>>

GetAck ==
    /\ thread = "waiting"
    /\ acked
    /\ thread' = "monitoring"
    /\ UNCHANGED <<saved, announcing, event, using, client, acked, connected, reachable, changes, faults>>

\* A broker that can be reached is late only as one of the faults.
TimeOut ==
    /\ thread = "waiting"
    /\ ~acked
    /\ using \in reachable => faults < MaxFaults
    /\ faults' = IF using \in reachable THEN faults + 1 ELSE faults
    /\ thread' = "stopping"
    /\ UNCHANGED <<saved, announcing, event, using, client, acked, connected, reachable, changes>>

Monitor ==
    /\ thread = "monitoring"
    /\ client # "up" \/ event
    /\ event' = (event /\ client # "up")
    /\ thread' = "stopping"
    /\ UNCHANGED <<saved, announcing, using, client, acked, connected, reachable, changes, faults>>

\* loop_stop, then disconnect, which calls on_disconnect.
Disconnected == FALSE

Stop ==
    /\ thread = "stopping"
    /\ client' = "none"
    /\ connected' = IF client = "up" THEN Disconnected ELSE connected
    /\ thread' = "pause"
    /\ UNCHANGED <<saved, announcing, event, using, acked, reachable, changes, faults>>

Sleep ==
    /\ thread \in {"pause", "disabled"}
    /\ thread' = "reading"
    /\ UNCHANGED <<saved, announcing, event, using, client, acked, connected, reachable, changes, faults>>

-----------------------------------------------------------------------------
(* The network thread, which runs until loop_stop, and the network         *)

\* on_connect, after the first connection or one of paho's own
OnConnect ==
    /\ client = "asked"
    /\ using \in reachable
    /\ client' = "up"
    /\ connected' = TRUE
    /\ acked' = TRUE
    /\ UNCHANGED <<saved, announcing, event, thread, using, reachable, changes, faults>>

BreakDown(b) ==
    /\ faults < MaxFaults
    /\ b \in reachable
    /\ faults' = faults + 1
    /\ reachable' = reachable \ {b}
    /\ IF client = "up" /\ using = b
       THEN client' = "asked" /\ connected' = FALSE
       ELSE UNCHANGED <<client, connected>>
    /\ UNCHANGED <<saved, announcing, event, thread, using, acked, changes>>

Recover(b) ==
    /\ b \notin reachable
    /\ reachable' = reachable \cup {b}
    /\ UNCHANGED <<saved, announcing, event, thread, using, client, acked, connected, changes, faults>>

Loop == ReadConfig \/ Connect \/ GetAck \/ TimeOut \/ Monitor \/ Stop \/ Sleep

MqttNext ==
    \/ \E b \in Brokers \cup {None} : SaveSettings(b)
    \/ RequestReconnect
    \/ Loop \/ DatabaseFails \/ OnConnect
    \/ \E b \in Brokers : BreakDown(b) \/ Recover(b)

\* The loop and the client's thread go on, and so does a request that has committed.
MqttFairness ==
    /\ WF_mqttvars(Loop)
    /\ WF_mqttvars(OnConnect)
    /\ WF_mqttvars(RequestReconnect)

-----------------------------------------------------------------------------
(* Properties                                                              *)

\* A connection to a broker that is no longer the one in the settings will be
\* given up: the event is set, or about to be.
ChangeAnnounced ==
    thread \in {"connecting", "waiting", "monitoring"} /\ using # saved => event \/ announcing

\* What the administrator sees as connected is.
ShownConnected == connected => client = "up"

\* If the broker of the settings can be reached from some time on, the server is
\* at last subscribed to it for good, and to none when MQTT is disabled, whatever
\* was changed, lost or late before.  Unless the thread has ended.
SettingsApply ==
    <>[](saved \in reachable \cup {None})
       => \/ <>(thread = "dead")
          \/ <>[](IF saved = None THEN client = "none" /\ ~connected
                  ELSE client = "up" /\ using = saved)
=============================================================================
