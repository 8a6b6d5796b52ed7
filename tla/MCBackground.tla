---------------------------- MODULE MCBackground ----------------------------
(***************************************************************************)
(* MqttSubscriber, CloudflareDdns, ServerStart and AirspaceRefresh, which  *)
(* share no state, each explored on its own; the others rest in an initial *)
(* state.                                                                  *)
(***************************************************************************)
EXTENDS MqttSubscriber, CloudflareDdns, ServerStart, AirspaceRefresh, TLC

MCChosen == {<<"class", "class">>}

VARIABLE part

vars == <<part, mqttvars, ddnsvars, startvars, faavars>>

Init ==
    /\ part \in {"mqtt", "ddns", "start", "faa"}
    /\ MqttInit /\ (part # "mqtt" => saved = None)
    /\ DdnsInit /\ (part # "ddns" => enabled /\ record = [n \in Names |-> address]
                                     /\ address = CHOOSE a \in Addresses : TRUE)
    /\ StartInit /\ (part # "start" => columns = Schema /\ mode = "cloud_vm" /\ ~meet.listed
                                       /\ meet.vis = "private" /\ owned = {} /\ slot = {})
    /\ FaaInit /\ (part # "faa" => ~broken /\ \A s \in Feeds : meta[s] = None)

Next ==
    \/ part = "mqtt" /\ MqttNext /\ UNCHANGED <<part, ddnsvars, startvars, faavars>>
    \/ part = "ddns" /\ DdnsNext /\ UNCHANGED <<part, mqttvars, startvars, faavars>>
    \/ part = "start" /\ StartNext /\ UNCHANGED <<part, mqttvars, ddnsvars, faavars>>
    \/ part = "faa" /\ FaaNext /\ UNCHANGED <<part, mqttvars, ddnsvars, startvars>>

Spec ==
    /\ Init /\ [][Next]_vars
    /\ \/ part = "mqtt" /\ MqttFairness
       \/ part = "ddns" /\ DdnsFairness
       \/ part = "start" /\ StartFairness
       \/ part = "faa" /\ FaaFairness

\* What the background tasks say is so: a connection that is shown is one, to
\* the broker of the settings unless it is about to be given up; a server that
\* serves has the current schema and the choices made before; a date kept with
\* airspace is the date of what is stored.  A check corrects every record it can,
\* and an answer without features clears nothing.
BackgroundHolds ==
    /\ [](MqttTypeOK /\ ChangeAnnounced /\ ShownConnected)
    /\ [](StartTypeOK /\ ServesCurrent /\ UnlistedStaysHidden /\ ChoicesStand)
    /\ [](DdnsTypeOK /\ FaaTypeOK /\ DatedAsRead)
    /\ OthersCorrected /\ NeverEmptied

\* ComesUp and CatchesUp, each of its own part.
ServerComesUp == <>[](part = "start" => step = None)
FaaCatchesUp == <>[](part = "faa" => AllUpToDate)

\* Each background task comes to what the settings, or the sources, say, from
\* whatever faults, crossings and kills it went through.
BackgroundSettles == SettingsApply /\ RecordsCatchUp /\ ServerComesUp /\ FaaCatchesUp
=============================================================================
