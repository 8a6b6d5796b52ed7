--------------------------- MODULE FlightRecorder ---------------------------
(***************************************************************************)
(* A pilot's day in the mobile app: the tracking states, the automatic     *)
(* detection of landings and re-launches, and the saving of IGC files      *)
(* (mobile/lib/services/tracking_service.dart and igc_service.dart).       *)
(*                                                                         *)
(* Two operations save a flight, _onLandingConfirmed and stopTracking.     *)
(* Both await the file system with the track still in memory and write     *)
(* the tracking state after or before the awaits, so they overlap each     *)
(* other, the GPS stream and the pilot's next tap.  A saver is one such    *)
(* call.  A GPS update in flight awaits the upload of its position before  *)
(* it looks for a landing, so it may do that long after the flight.  A     *)
(* start awaits the location permission, so a second tap is a second start *)
(*                                                                         *)
(* One day and one pilot, so a file is named by the flight number alone;   *)
(* driver and debug mode, which record no flights or detect no landings,   *)
(* and the restoring of a session after a crash are left out.              *)
(***************************************************************************)
EXTENDS Naturals, FiniteSets

CONSTANTS MaxFlights,   \* bound: flights of the day
          MaxHandlers,  \* bound: GPS updates that await an upload
          MaxStarts,    \* bound: starts that await the permission
          Savers        \* calls of stopTracking and _onLandingConfirmed

ASSUME MaxFlightsAssumption == MaxFlights \in Nat \ {0}
ASSUME MaxHandlersAssumption == MaxHandlers \in Nat
ASSUME MaxStartsAssumption == MaxStarts \in Nat

Flights == 1..MaxFlights
Numbers == 1..MaxFlights + 1

VARIABLES
    mode,       \* _trackingState
    starting,   \* calls of startTracking that await the permission
    number,     \* _flightNumberToday
    flight,     \* flights flown so far (history)
    track,      \* points of each flight in _currentTrack; 2 is "two or more"
    landing,    \* "slow": _landingDetectionStart is set; then "countdown"
    handlers,   \* GPS updates of a flight that await an upload
    at,         \* where a saver is suspended
    kind,       \* which operation it is, and for a stop: from a flight or not
    name,       \* the number in the name of the file it writes
    content,    \* the flights in the text it writes
    files,      \* the flights in the file of each number
    written,    \* files written since tracking was started (history)
    disturbed   \* see Disturb (history)

recvars == <<mode, starting, number, flight, track, landing, handlers, at, kind, name,
          content, files, written, disturbed>>

savers == <<at, kind, name, content>>

RecTypeOK ==
    /\ mode \in {"idle", "preFlight", "inFlight", "monitoring"}
    /\ starting \in 0..MaxStarts
    /\ number \in {0} \cup Numbers
    /\ flight \in {0} \cup Flights
    /\ track \in [Flights -> 0..2]
    /\ landing \in {"none", "slow", "countdown"}
    /\ handlers \in 0..MaxHandlers
    /\ at \in [Savers -> {"idle", "clear", "dir", "write"}]
    /\ kind \in [Savers -> {"landing", "stop", "stopFlight"}]
    /\ name \in [Savers -> Numbers]
    /\ content \in [Savers -> SUBSET Flights]
    /\ files \in [Numbers -> SUBSET Flights]
    /\ written \subseteq Numbers
    /\ disturbed \in BOOLEAN

NoTrack == [f \in Flights |-> 0]

RecInit ==
    /\ mode = "idle"
    /\ starting = 0
    /\ number = 0
    /\ flight = 0
    /\ track = NoTrack
    /\ landing = "none"
    /\ handlers = 0
    /\ at = [s \in Savers |-> "idle"]
    /\ kind = [s \in Savers |-> "stop"]
    /\ name = [s \in Savers |-> 1]
    /\ content = [s \in Savers |-> {}]
    /\ files = [n \in Numbers |-> {}]
    /\ written = {}
    /\ disturbed = FALSE

-----------------------------------------------------------------------------
\* Mutants of NextNumber and AfterWrite, below.
SameNumber == number
TrackKept == track

FirstNumber == IF number = 0 THEN 1 ELSE number
NextNumber == number + 1

\* flightNumber: 0 is passed as null, and null is written as 1.
FileNumber == IF number > 0 THEN number ELSE 1

\* _currentTrack.clear()
AfterWrite == NoTrack

Recorded(t) == {f \in Flights : t[f] > 0}

\* Fewer than two points.
TooShort == \A f \in Flights : track[f] < 2 /\ \A g \in Flights \ {f} : track[f] + track[g] < 2

AddPoints(f, n) ==
    track' = [track EXCEPT ![f] = IF @ + n > 2 THEN 2 ELSE @ + n]

Busy == \E s \in Savers : at[s] # "idle"

\* The pilot or the GPS interferes with a save that is under way, a landing is
\* confirmed when nobody is flying, or tracking is started when it is on.
Disturb(when) == disturbed' = (disturbed \/ when)

\* The save is over; a landing then sets the tracking state, whatever it is.
AfterSave(s) ==
    /\ at' = [at EXCEPT ![s] = "idle"]
    /\ IF kind'[s] = "landing"
       THEN \/ mode' = "monitoring" /\ UNCHANGED number
            \/ mode' = "idle" /\ number' = 0
       ELSE UNCHANGED <<mode, number>>

\* saveCurrentFlight up to its first await.
BeginSave(s) ==
    IF TooShort
    THEN /\ track' = NoTrack
         /\ AfterSave(s)
         /\ UNCHANGED name
    ELSE /\ at' = [at EXCEPT ![s] = "dir"]
         /\ name' = [name EXCEPT ![s] = FileNumber]
         /\ UNCHANGED <<mode, number, track>>

-----------------------------------------------------------------------------
\* startTracking up to the location permission.
RequestStart ==
    /\ mode \in {"idle", "monitoring"}
    /\ starting < MaxStarts
    /\ starting' = starting + 1
    /\ UNCHANGED <<mode, number, flight, track, landing, handlers, savers,
                   files, written, disturbed>>

PermissionDenied ==
    /\ starting > 0
    /\ starting' = starting - 1
    /\ UNCHANGED <<mode, number, flight, track, landing, handlers, savers,
                   files, written, disturbed>>

\* startTracking with the permission; the state is not looked at again.
StartRecording ==
    /\ starting > 0
    /\ starting' = starting - 1
    /\ mode' = "preFlight"
    /\ number' = FirstNumber
    /\ landing' = "none"
    /\ written' = {}
    /\ Disturb(Busy \/ mode \in {"preFlight", "inFlight"})
    /\ UNCHANGED <<flight, track, handlers, savers, files>>

\* _transitionToInFlight, on take-off or forced by the pilot, with what is in
\* the pre-flight buffer.
TakeOff(n) ==
    /\ mode = "preFlight"
    /\ flight < MaxFlights
    /\ mode' = "inFlight"
    /\ flight' = flight + 1
    /\ AddPoints(flight + 1, n)
    /\ landing' = "none"
    /\ UNCHANGED <<starting, number, handlers, savers, files, written,
                   disturbed>>

\* _handleInFlight up to the upload; a task's throttling may skip the point.
GpsUpdate(n) ==
    /\ mode = "inFlight"
    /\ handlers < MaxHandlers
    /\ handlers' = handlers + 1
    /\ AddPoints(flight, n)
    /\ UNCHANGED <<mode, starting, number, flight, landing, savers, files,
                   written, disturbed>>

\* _checkLandingConditions, when the upload is over: too fast or too high, or
\* a landing that lasts, or lasts until the countdown begins.
CheckLanding(to) ==
    /\ handlers > 0
    /\ handlers' = handlers - 1
    /\ \/ to = "none"
       \/ to = "slow" /\ landing # "countdown"
       \/ to = "countdown" /\ landing # "none"
    /\ landing' = to
    /\ UNCHANGED <<mode, starting, number, flight, track, savers, files,
                   written, disturbed>>

\* The countdown is over: _onLandingConfirmed.
ConfirmLanding(s) ==
    /\ handlers > 0
    /\ handlers' = handlers - 1
    /\ landing = "countdown"
    /\ landing' = "none"
    /\ at[s] = "idle"
    /\ kind' = [kind EXCEPT ![s] = "landing"]
    /\ BeginSave(s)
    /\ Disturb(Busy \/ mode # "inFlight")
    /\ UNCHANGED <<starting, flight, content, files, written>>

\* stopTracking up to its first await; _landingDetectionStart is kept.
StopRecording(s) ==
    /\ mode # "idle"
    /\ at[s] = "idle"
    /\ at' = [at EXCEPT ![s] = "clear"]
    /\ kind' = [kind EXCEPT ![s] = IF mode = "inFlight" THEN "stopFlight"
                                   ELSE "stop"]
    /\ mode' = "idle"
    /\ number' = 0
    /\ landing' = IF landing = "countdown" THEN "slow" ELSE landing
    /\ Disturb(Busy)
    /\ UNCHANGED <<starting, flight, track, handlers, name, content, files,
                   written>>

\* stopTracking after its awaits.
SaveOrDiscard(s) ==
    /\ at[s] = "clear"
    /\ IF kind[s] = "stopFlight"
       THEN /\ UNCHANGED kind
            /\ BeginSave(s)
       ELSE /\ track' = NoTrack
            /\ at' = [at EXCEPT ![s] = "idle"]
            /\ UNCHANGED <<mode, number, kind, name>>
    /\ UNCHANGED <<starting, flight, landing, handlers, content, files,
                   written, disturbed>>

\* The directory is known: the text is built, or there is no track any more,
\* and an exception ends the save.
BuildFile(s) ==
    /\ at[s] = "dir"
    /\ UNCHANGED kind
    /\ IF track = NoTrack
       THEN AfterSave(s) /\ UNCHANGED content
       ELSE /\ at' = [at EXCEPT ![s] = "write"]
            /\ content' = [content EXCEPT ![s] = Recorded(track)]
            /\ UNCHANGED <<mode, number>>
    /\ UNCHANGED <<starting, flight, track, landing, handlers, name, files,
                   written, disturbed>>

\* writeAsString returns.
FileWritten(s) ==
    /\ at[s] = "write"
    /\ UNCHANGED kind
    /\ files' = [files EXCEPT ![name[s]] = content[s]]
    /\ written' = written \cup {name[s]}
    /\ track' = AfterWrite
    /\ AfterSave(s)
    /\ UNCHANGED <<starting, flight, landing, handlers, name, content,
                   disturbed>>

\* writeAsString throws; the track stays.
WriteFails(s) ==
    /\ at[s] = "write"
    /\ UNCHANGED kind
    /\ AfterSave(s)
    /\ Disturb(TRUE)
    /\ UNCHANGED <<starting, flight, track, landing, handlers, name, content,
                   files, written>>

\* _onMonitoringPositionUpdate detects a take-off.
Relaunch(n) ==
    /\ mode = "monitoring"
    /\ flight < MaxFlights
    /\ mode' = "inFlight"
    /\ number' = NextNumber
    /\ flight' = flight + 1
    /\ AddPoints(flight + 1, n)
    /\ landing' = "none"
    /\ UNCHANGED <<starting, handlers, savers, files, written, disturbed>>

\* _checkMonitoringConditions: too late, too far, battery low.
MonitoringEnds ==
    /\ mode = "monitoring"
    /\ mode' = "idle"
    /\ number' = 0
    /\ UNCHANGED <<starting, flight, track, landing, handlers, savers, files,
                   written, disturbed>>

-----------------------------------------------------------------------------
RecNext ==
    \/ RequestStart \/ PermissionDenied \/ StartRecording
    \/ \E n \in 0..2 : TakeOff(n)
    \/ \E n \in 0..1 : GpsUpdate(n)
    \/ \E to \in {"none", "slow", "countdown"} : CheckLanding(to)
    \/ \E s \in Savers : \/ ConfirmLanding(s) \/ StopRecording(s)
                         \/ SaveOrDiscard(s) \/ BuildFile(s)
                         \/ FileWritten(s) \/ WriteFails(s)
    \/ \E n \in 1..2 : Relaunch(n)
    \/ MonitoringEnds

RecSpec == RecInit /\ [][RecNext]_recvars

-----------------------------------------------------------------------------
(* Properties *)

\* However stops, landings and starts overlap, a flight has a number: a save
\* that ends late never takes it away (tracking_service.dart 805, 1475-1526).
FlyingIsNumbered == mode \in {"preFlight", "inFlight"} => number > 0

\* A file holds the points of one flight, unless a save was overlapped, failed
\* or was made by a landing that nobody flew, or a second start came in flight
\* (igc_service.dart 86-155, tracking_service.dart 774-833).
FilesHoldOneFlight ==
    ~disturbed => \A n \in Numbers : Cardinality(files[n]) <= 1

\* Between a start and the next one, and with the same exceptions, a flight
\* that ends in a detected landing overwrites no other flight's file
\* (tracking_service.dart 1475-1526, 1600, 1780-1786).
LandingsKeepFiles ==
    [][~disturbed' =>
         \A s \in Savers :
            FileWritten(s) /\ kind[s] = "landing" /\ name[s] \in written
              => files[name[s]] \subseteq content[s]]_recvars
=============================================================================
