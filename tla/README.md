# Aervyx, modelled in TLA+

Aervyx is a live-tracking and competition-scoring platform for free flight. A
mobile app (Flutter, `mobile/`) records flights and sends positions. A server
(FastAPI, `backend/`) stores them, streams them live, detects landings, scores
tasks and publishes results. A web frontend (`frontend/`) and a driver's view of
the app show them. A small listener (`deploy/`) deploys the branches of the
repository when they are pushed.

This directory models the parts of the system that are hard to test: those that
run side by side, fail half-way, or compute something that many cases must agree
on. Each part is a TLA+ module that TLC checks on small instances (`MC*.tla`,
`MC*.cfg`). For the parts where it can be done, a module of theorems
(`*Proofs.tla`) holds proofs that TLAPS checks for every value of the constants.
`PROJECT.json` ties every definition to the lines of the source it models.

## 1. The system

| component | source | state | operations |
|---|---|---|---|
| position uplink | `tracking_service.dart` | `_positionBuffer` in memory | post a fix, keep it when the post fails, drain after a success and on stop |
| flight recorder | `tracking_service.dart`, `igc_service.dart` | tracking state, flight number, track, files | start, take off, land, save, monitor, stop |
| live fan-out | `services/tracking.py`, `routers/tracking.py`, `routers/public.py` | channels, a bounded queue per stream | publish, subscribe, snapshot, stream |
| driver's app | `driver_service.dart` | pilots it shows | stream, poll, pick up |
| stored positions | `services/tracking.py` | positions, sessions | store, show by day, prune, purge |
| landings and pickups | `landing_detector.py`, `driver_routing.py` | a buffer per pilot, landing rows | confirm, cancel, pick up, undo |
| which task a position is of | `services/tracking.py`, `routers/public.py` | tasks, dates, assignments | plan, publish, activate, assign |
| mesh nodes | `routers/tracking.py`, `mqtt_subscriber.py` | status rows | hear, relay, read over BLE |
| meet-statistics cache | `scoring.py` | cache rows, pending set, a thread | invalidate, queue, refresh, read |
| scoring desk | `uploads.py`, `task_uploads.py`, `results.py`, `logbook.py` | uploads, selections, results, files | upload, select, delete, rescore |
| scoring | `scoring.py`, `airscore/` | distance lists of the module `airscore/task.py`, shared by the threads | evaluate, weigh, penalise, rank |
| result pages | `results.py`, `public.py` | published tasks, results, entries | publish, unpublish, show |
| accounts, pilots, devices | `auth.py`, `pilots.py`, `pilot_identity.py` | rows that point at each other | link, merge, hand over, sign in |
| turnpoint library, airspace | `turnpoints.py`, `airspace.py`, `faa_airspace.py` | rows and stored files | edit, copy, refresh, delete |
| weather rasters | `raster_*.py`, `demand_tracker.py` | rows, files, demand | ask, fetch ahead, evict |
| background | `mqtt_subscriber.py`, `cloudflare_ddns.py`, `main.py`, `schema.py` | connection, records, schema | connect, correct, migrate |
| deploy queue | `webhook_listener.py`, `deploy-common.sh` | active and pending branches, a lock | take a push, deploy, time out |

A GPS fix enters the recorder, which appends it to the track and starts a call of
the uplink; that call ends with a check for a landing. A POST is one
transaction: it finds the task, stores position and session, publishes to the
fan-out and runs landing detection. Packets from the mesh come in through the
MQTT subscriber and do the same. Drivers write the landing rows that the
detector writes. Changes of tasks, uploads and scores invalidate the statistics,
and a thread refreshes them after they commit.

What is hard here:

* **Asynchronous calls of one object** (Dart): every `await` lets another call
  run, and state read before it is used after it.
* **Requests side by side** (Python threads, READ COMMITTED): a request reads,
  decides, writes the columns that differ from what it read, and commits. What it
  decided on may have changed. Unique constraints make some of these fail.
* **Memory, files and rows** change at different moments of one transaction,
  which may fail or be killed between them.
* **Late, lost and overtaking messages**: answers lost on a mountain, polls, packets
  through several gateways.
* **Bounds**: the position buffer, a stream's queue, the single refresh thread.
* **State of a module** that was written for one process and runs in threads: the distance lists
  of `airscore/task.py`, which every evaluation overwrites and reads without a lock.
* **Copies of one rule** in several places that have to agree: whose positions are
  public, the two scans of a track, three audiences of one result.

`hazards` in `PROJECT.json` lists these line by line, with the properties that
would catch each going wrong, or why none does.

## 2. The modules

Every module keeps the control of its code: an action per step between two points
at which something else may run, with the code's guards and early returns. Times,
places, names and payloads are reduced to what a property tells apart. History
variables say which excuse a property allows, such as "two drains overlapped"; no guard
reads one, but where a comment says so. A definition that is only there to be put in
place of another one, as a bug might, is marked *mutant*.

**Mobile app.** `PositionUplink`: calls of `_sendPosition` and `stopTracking` as
workers that meet in the buffer; lost answers, refusals, a killed app. A drain
posts the first fix of the buffer and removes the first after the await: with one
drain the same fix, with two not. `FlightRecorder`: starts, GPS updates that await an
upload, landings, saves, stops and the numbering of flights. Without a disturbance,
which is named, a file holds one flight and a landing overwrites nothing.

**Live.** `LiveFanout`: one task's channel: flush, publish, commit, subscribe,
snapshot, the queue, polls that overtake each other. A stream misses a stored fix
only if its queue was full or the fix was published before it subscribed and
committed after its snapshot. `PublicStreams`: the four streams anybody may watch.
They look up whom they may show once, when opened; the generator starts later; positions
go over channels of task, pilot and account. Seen while modelling: a stream goes on
showing subjects that are no longer public; a viewer who leaves before the start leaves
a subscriber behind; a stream dropped because an announcement found its queue full
stays open and silent; callbacks hand positions over with `call_soon_threadsafe`,
whose result nobody reads, so that publishing never notices a full queue.
`LivePositions`: a position and its session, the pages of the day in the event's time
zone, pruning, the purge of an account. The live pages read the newest 1000 rows (`RowLimit`), of
rows as late in any choice; so a subject whose rows are crowded out by a busier one's is missing, though the
docstring of `get_all_active_positions` says every active subject. `MeshNodes`: packets about a node that come
late and through several gateways. `LandingPickup`: the detector's buffer and the
rows of landings under concurrent positions and a driver. `TrackedTask`: the task a
position is filed under, the one the map opens with, the driver's pilots; these three
agree when one task is active and may differ when two are.

**Competition.** `UploadFiles`: rows and files of uploads and logbook, which share
stored files by content; deleting one of two flights with the same file takes it from
the other. `ScoringDesk`: selections, rescorings and results as transactions that
cross. `TaskEvaluation`: the scan of a track through a task, by both copies of the
rules, every track of a small line. Each point has a margin of its own, since `verify.py` uses at least 5 m and
`scoring.py` the meet's minimum (and 0 stands for one that was not set). The evaluation of another task in another
thread overwrites the distance lists: beside this one's reading (`FlyBeside`) it yields any distance of `Misread`;
while this one prepares its task (`FlyAcross`) its number of points (`Lengths`) may also end the loops of
`precompute_waypoint_dist` early, which loses the goal, the end of the speed section, or margins. `overlap`
remembers which; there the code promises no distance, and not that a course flown is goal. `GapScoring`: from
evaluations to points, penalties, handicaps and ranks. `ResultPages`: what organisers, pilots and the public
read of one set of rows. A rescoring is three steps: it reads (`RescoreTask`), its DELETE sees the rows committed by
then (`DeleteScores`), it inserts and commits (`InsertScores`). Of two that cross with no pilot in common, the rows of
both stay, ranked apart: `latest` marks the rows of the last one, `mixed` the tasks where that happened. With
handicaps pilots are ranked by points after penalties, without by points before; ties go by status, time and
distance, then by the pilots' ids. Seen while modelling the formulae: a start between two fixes
between which the next point is passed too is missed; a restart gives up the points
made since; distance after the finish counts; departure points exceed what is
available when a pilot who reached the end of speed section but not goal started
first; they rise again with a later start, from a third to a half of the nominal time after
the first; a leading weight factor above 0.875 makes the speed share negative; pilots who need the
same time take places of arrival in the order of their ids, whoever crosses first; a penalty above
100 % entered twice raises a score again. Of the pages: the
public one ignores FTV; pilots see only official results while the public sees
provisional ones; the track of a removed pilot stays public.

**Accounts.** `PilotIdentity`: one operator per function of `pilot_identity.py`, one
action per request, over two pilot records and three accounts. `DeviceOwnership`: the
tracker an account points at and the inventory, written one UPDATE after the other. A stationary node is
registered without a look at the inventory: where its device has a row, its positions stay credited to the owner of
the row (`nodes` remembers such accounts).
`AccountAccess`: roles, queued preferences, passkey ceremonies. The last
administrator can be deactivated, since the count looks at roles only.

**Files and background.** `TurnpointLibrary` and `AirspaceFiles`: rows and the files they name. A library
file is written, its rows flushed, committed, and only then answered (`answering`): an error before the flush leaves the
file behind, one after the commit removes it from the committed row. Airspace: an answer whose features have no
geometry (`Bare`) clears a source, an empty one does not; a manual refresh that names a source twice forgets
its first outcome, and may so leave the cache as it was (`unloaded`). `AirspaceRefresh`, `MqttSubscriber`, `CloudflareDdns`, `ServerStart`: loops and starts that are
interrupted anywhere. `RasterCache`: the overlays and their cache. `MeetStatsCache`: the
pending set, the thread, viewers. `DeployQueue`: handlers, threads, the script's lock;
`DeployPromise` is what it promises, one deploy at a time and one more for the pushes
meanwhile, and `DeployQueue` implements it by the mapping in `Promise`.

`Database` holds the two constants that modules about requests share.

## 3. What TLC checks

Modules without common state share a run: each is explored while the others rest in
an initial state. So "one run" below is several questions, and a bundled property
(`StreamsServe`, `PositionsHold`, `IdentitiesHold` ...) is the conjunction of the
named ones defined above it.

| run | instance | properties |
|---|---|---|
| `app` | uplink: 3 fixes, one refused for good, a stop, buffer and drain limit 2; recorder: 2 flights, 2 savers, 2 late updates, 2 starts | `SoleDrainHoldsHead`, `LossOnlyWhenDrainsOverlap`, `DuplicateOnlyAfterLostAck`, `AppBufferDrains`, `FilesHoldOneFlight`, `LandingsKeepFiles` |
| `queues` | deploy: 2 branches, 2 handlers, 3 threads; statistics: 1 event, 2 scopes, a writer, a viewer | `OneDeployPerBranch`, `LostOnlyInMishap`, `KeepsPromise`, `PendingIsOneJob`, `WrongOnlyAfterOverlap`, `StatsBecomeFresh` |
| `landing` | 2 positions at once, a driver, 3 landings, 2 mishaps; 2 tasks of 2 meets with every status and date, a pilot, 2 days | `DuplicateNeedsRaceOrUndo`, `PickupStands`, `EveryLandingRecorded`, `TasksOfTheDay`, `OtherMeetsMoveNobody` |
| `live` | 2 posts, a stream, 3 fixes, queue of 1, 2 polls; a public stream of each kind, 4 kinds of subject, 2 messages, queue of 1, a change of what is public | `GapNeedsOverflowOrEarlyFix`, `ViewsCatchUp`, `OnlyPublicShown`, `StreamsServe` |
| `accounts` | 3 accounts, 2 records, 2 addresses, 3 requests in a row; 2 requests at once about 2 devices, roles, choices, passkeys | `IdentitiesHold`, `IdentitiesKept`, `AccountsHold`, `DevicesHold`, `LateRequestsYield` |
| `desk` | 2 requests at once; 2 uploads, 2 flights, a second content that is attached before there are uploads; 2 scored pilots, 2 rescorings | `FilesHold`, `DeskHolds`, `ScoredAsSelected`, `SelectionsHold` |
| `tracking` | 2 requests at once, 2 positions over 3 half days; 2 packets, 2 nodes; 3 files of turnpoints, 3 edits; airspace of 2 meets, 4 requests | `PositionsHold`, `NodesHold`, `LibraryHolds`, `AirspaceHolds` |
| `background` | 2 brokers, 2 faults; 2 checks of 2 records; a start killed twice; 3 feeds, a revision, an outage | `BackgroundHolds`, `BackgroundSettles` |
| `scoring` | every track of up to 5 fixes in 15 tasks, another evaluation beside; 3 pilots, 2 penalties, 3 sets of rules; 2 tasks of 2 pilots, 2 rescorings at once, every order of publishing | `FlownIsScored`, `FixesNeverHurt`, `DayIsFair`, `PagesAgree` |

Three runs check a statement of a comment or a docstring that the code violates:

* `uplink_loss`, `NoFixVanishes`: two sends succeed, both drain and post the head `f`. The
  first removes `f`, the second the next fix, which was never sent.
* `raster_instant`, `VisitIsInstant`: a raster that was fetched in advance is fetched
  again on the next visit. The path formats the hour, a text, as a number; the error is
  swallowed, and nothing is ever stored.
* `list_replaces`, `ListReplaces`: a driver's new list that keeps a pilot is refused, because
  the new row is inserted before the old one is deleted.

### Bounds, and why they are enough

Two of everything that may run side by side is enough for the hazards that are listed,
which are all of two actors; the proofs say what happens with more. The sizes are
chosen so that every bound of the code is reached: a buffer of 2 is full, empty and in between;
queues of 1 overflow at once; a thread more than there are branches would let a second
deploy of a branch run. *LivePositions* takes three half days: a
position is of today, of yesterday at midnight, and prunable. *TurnpointLibrary* has three
files, since a merge makes a third of two. *PilotIdentity*'s three requests in a row
link, merge and then repair. *TaskEvaluation* takes every track on a line of four places
with five fixes: out, start, turn point, back, goal. Races have three clocks, elapsed-time and open-distance tasks one each;
a distance read from another's lists is beyond any course (9) or right, and another task has two points, fewer than
these have. In *ResultPages* rescorings run on drafts of a public meet and cross in one task, whose rows
of two rescorings are then published, practised and edited; one of the two tasks has handicaps, the other a tie.
`CONSTRAINT`s cut what no property
speaks of any more: `Bound` in `tracking` (crossed packets; positions after a crossing),
`Bounded` in `desk` and `scoring`, `Uncrossed` in `accounts`. Symmetry is used for requests, files
and points only where no property is temporal with fairness. A `RowLimit` of 1 cuts the rows of a live page, an
answer of the FAA has features, features without geometry or none, and a manual refresh asks for one source twice
(`MCChosen`).

`CHECK_DEADLOCK FALSE` stands where the modelled part may really stop: a pilot on the ground, every
stream closed, no request left within the bound.

### Fairness

It is assumed of the program's own scheduling: the event loop runs every
continuation, threads and requests run to their end, timers fire. Nothing is assumed of
the network, users, crashes, failing transactions or deploy scripts, which may hang.
What a property needs of these is its premise (`<>[]...`), stated there.


## 4. What TLAPS proves

TLC's instances are small; a theorem holds for every value of the constants that the
named `ASSUME`s admit, which say what the code guarantees: a limit is a number, a queue
has a place, no identifier is taken for `None`, no status for an upload, a channel belongs to one subject. `PagesAssumption` numbers the pilots by name,
below `Unranked`, gives each an id of its own, and says of what a scoring makes of them (`Scorings`): without handicaps
points after penalties are at most those before, with them they may be any, a status competes or stands alone, and a
track in a task without a course is "uploaded".
`EvalAssumption` gives tasks their fields, at least one point, places, margins and distances that are whole numbers, and lets the
lists of another task yield any distance and any length;
`GapAssumption` gives settings and flights their fields, in whole numbers.

| module | theorem | says |
|---|---|---|
| `AppProofs` | `TypeCorrect` | types; the buffer never exceeds its limit |
| | `SoleDrainSafe` | `[]SoleDrainHoldsHead`: a drain that nothing overlapped removes what it sent |
| | `LossNeedsOverlap` | `LossOnlyWhenDrainsOverlap`: a fix vanishes, for no reason the code names, only while drains overlap |
| | `DuplicateNeedsCause` | `DuplicateOnlyAfterLostAck`: a fix is stored twice only after a lost answer or by overlapping drains |
| | `RecTypeCorrect`, `Numbered` | types; whoever flies has a flight number |
| | `OneFlightPerFile`, `LandingsKeep` | `[]FilesHoldOneFlight`, `LandingsKeepFiles`: without a named disturbance a file holds one flight and a landing overwrites none |
| `LiveFanoutProofs` | `TypeCorrect`, `GapNeeds` | `[]GapNeedsOverflowOrEarlyFix`, for any number of posts, streams and polls |
| | `OnlyPublic` | `[]OnlyPublicShown`: what a public stream shows was public when it was opened |
| | `StreamsAreServed` | `[]StreamsServe`: an open stream is registered, is owed nothing its queue had room for, and a position takes at most two places of it |
| `LandingProofs` | `TypeCorrect`, `DuplicateNeeds`, `PickupStandsHolds` | two landings wait only after a race or an undone pickup; a pickup is cancelled only by a resumed flight it overtook |
| | `DayHolds`, `OthersMove` | `[]TasksOfTheDay`, `OtherMeetsMoveNobody`, for any pilots, meets, tasks and dates |
| `TrackingProofs` | `PositionsAlwaysHold` | `PositionsHold`: a stored position has an open session, stays its day, is the one shown if newest and not crowded out of the rows read, and goes with its account |
| | `NodesAlwaysHold` | `NodesHold`: gateway and level shown of a node are of a recorded packet; a packet is lost only to one that crossed it |
| | `LibraryAlwaysHolds` | `[]LibraryHolds`: a listed file is stored and says its rows, and no file is left behind, but for overlaps, kills, a creation that failed before its flush and one that failed after its commit |
| | `AirspaceAlwaysHolds` | `[]AirspaceHolds`: a listed airspace has its file, a copy its own, and is drawn as the kind it is listed as, but for named crossings |
| `ServerProofs` | `AccountsAlwaysHold` | `[]AccountsHold`: an active administrator remains, but after requests that counted at once or a deactivation; a challenge signs in once |
| | `DevicesAlwaysHold` | `DevicesHold`: a position of a tracker goes to the account that shows it, unless that is a node registered past the inventory; a request that nothing crossed fails only where it takes the device of a later account or of such a node |
| | `IdentitiesAlwaysHold` | `[]IdentitiesHold`: rows are whole, and no request that merges, adopts, edits or unifies leaves an account linked to a record that is gone |
| | `LateAlwaysYield` | `LateRequestsYield`: a queued choice replaces no later one, and the counter of a passkey moves back, only where requests crossed |
| | `BackgroundAlwaysHolds` | `BackgroundHolds`: a connection shown is one, to the broker of the settings unless about to be given up; a server that serves has its schema and the choices made before; airspace with the FAA's date is the FAA's, but for an edit during its import; an uncrossed check of the DNS corrects every record it can; only an answer of features without geometry clears a source |
| `DeskProofs` | `DeskAlwaysHolds` | `[]DeskHolds`: a result, and a selection, names an upload of its own pilot, however requests cross |
| | `AlwaysScoredAsSelected` | `ScoredAsSelected`: a rescoring that no commit crossed leaves just the results its selections ask for; no score of a deleted file remains |
| | `SelectionsAlwaysHold` | `SelectionsHold`: an upload replaces no selection, and a pilot gets a file and a status at once only from requests that crossed |
| | `FilesAlwaysHold` | `[]FilesHold`: a file that a row names is stored, an upload has one flight with its file, and a pilot one upload of a file for a task, but where two named the path or stored the upload at once, or an attachment tore it |
| | `PagesAlwaysAgree` | `[]PagesAgree`: the pages of a task are of one scoring, unless the last rescoring was crossed by another after its DELETE; where they are, they order the pilots alike but for penalties without handicaps and minimum distances; totals agree once everything is out, nobody stands behind a pilot who did no better on any day, and exactly the public lines are replayed |
| | `FlownIsAlwaysScored` | `EvalSpec => []FlownIsScored`, for tracks, tasks and margins of any size, whatever runs beside: hits lie in order, in their cylinders and before the deadline; a start has its gate; the two scans agree about a point and a margin. While no other task is prepared at once, a course flown in order and in time is made, where the point after the start is one to enter; when none is evaluated beside, no distance is beyond the course, and the leading time is what each unit took to be gained first |
| `GapProofs` | `DayIsAlwaysFair` | `GapSpec => []DayIsFair`, for any number of pilots and any rules: no share but the departure's exceeds what the day makes available; nobody is behind a pilot who was no better; somebody takes the leading points; with a clock, pilots who exchange flights exchange points; the handicap keeps the order of the multiplied scores; the lines shown explain penalties of at most 100 % |
| `ServerQueuesProofs` | `StatsTypeCorrect`, `OneJob` | types, and `[]PendingIsOneJob`: a pending event has one job, so no refresh is blocked for good |
| | `WrongNeedsOverlap` | `[]WrongOnlyAfterOverlap`: outdated statistics are marked fresh only after an overlap |
| | `TypeCorrect`, `OneDeploy`, `RefusalNeedsOrphan` | types; one deploy of a branch at a time; the lock is found taken only by the remains of a killed script |
| | `LossNeedsMishap` | `[]LostOnlyInMishap`: a push is forgotten only in a named mishap |
| | `Implements` | `Spec => Promise!Spec`: the queue implements `DeployPromise`, step by step |

Most of these properties are not inductive; what had to be added is the argument:

* **Uplink.** A drain is at an await with the fix it read; `WorkerShape` says what each
  worker holds at each await. A drain nothing has joined still holds the head, since everything
  else only appends. Duplicates: a copy beyond the first is of a fix that is in the buffer or under
  way though it is stored, which needs its reason before.
* **Recorder.** `Calm`, no disturbance yet, with the relation between the
  number, the track and the files that each save preserves.
* **Fan-out.** `PublishedIsHeld` and `StoredIsHeld` place each fix: published and in
  the queue, or not yet committed, or in the snapshot.
* **Public streams.** Privacy: what is registered, looked up and listened to stays
  within what was public then (`PubInv`). Service: `ServeInv` adds that registrations
  and subscribers agree, that the message being published goes to a stream at most
  once by each channel left (`Distinct`, `Bounded`: the places taken and still to come are
  no more than the channels), and that what is owed is held (`NoneMissed`).
* **Positions.** `LiveInv`: a request that will store has read an open session of its own
  (`ReadsOwn`), a purge has read all the rows of its account unless something crossed it
  (`PurgesOwn`), and the count of a session covers what was answered (`CountsAll`).
* **Nodes.** A packet that nothing crossed still sees its rows as they are (`SingleReads`); what is
  stored of a node was told by packets recorded (`StatusTold`).
* **Library.** `LibInv`: transactions lock apart; what an uncrossed edit will write is what its file
  should say; the path of a creation, or of a removal that shares no file, is nobody else's (`Owned`); what a creation
  has committed and not answered is still its own to take back.
* **Airspace.** `AirInv`: the place of a copy names its meet (`PathsKnown`), so no other row has it;
  what an uncrossed change has read is still there (`ChangeKnows`), what a duplication has read of a source
  that is not `apart` was read as one (`ReadAsOne`); the rows of a duplicate get new ids (`NewIds`).
* **Accounts.** A request that nothing crossed still sees what it read: another administrator stays
  after its demotion, its choice is the later one, the counter it compared is the stored one.
* **Desk.** `DeskInv`: files are numbered and owned once; what an uncrossed transaction read is still there
  (`UncrossedRead`), and what it will delete nobody else holds (`UncrossedDeletes`); a result stands on
  what its rescoring read (`BasisStands`).
* **Identities.** `IdInv`: `Whole` (tables and links) with room for the next ids. Each operator of
  `pilot_identity.py` keeps a database whole, so that the requests, which chain them, do: `MergeWhole`,
  `EnsureWhole`, `RepairUserWhole`; what the look-ups return exists (`CanonicalIs`, `BestIs`). The start
  runs two loops (`AccountsRepaired`, `RecordsUnified`), which keep it step by step.
* **Devices.** A request that nothing crossed has read its account, the row of its device and the holders
  as they still are (`Knows`, `Agree`), and a device has one row (`OneDevice`); so the unique index
  refuses it only where it writes its own pointer before it clears that of a holder, or where a node holds the device
  beside its row (`nodes`, which only a change of that pointer leaves).
* **Files.** A path neither shared nor torn is named by one row or one request (`AllNamedOnce`); its
  file is found or written before the row is, and what a deletion will unlink no row names
  (`AllKept`); an upload has its one flight, or a request at work that will write it (`AllFollowed`);
  a request that alone stores an upload found no row of it, and there is none yet (`StoredOnce`).
* **Pages.** `PagesInv`: of a task that is not `mixed` every row is of its latest scoring, and of two ranked rows the one
  ranked first was scored no lower (`OfOneScoring`). It needs that a request whose DELETE
  nothing crossed has seen all rows there are, so that it leaves none of another (`Survivors` is empty). Publishing and
  promoting leave the rows alone, a rescoring makes them anew (`RankIs`: pilots behind another are counted with it). The rest
  reads the rows.
  Standings are sums over a finite set; `SmallestSubset` stands in for induction: of the subsets that break
  a claim one is least, which leaves a claim about one more element (`FoldExists`, `SumRemoves`,
  `SumOfLess`). The order of two lines is that of their keys, compared from the left (`LessFour`).
* **Evaluation.** `EvalInv`: what is scored is `Evaluation` of the task and the track, or what one beside it makes of that:
  the same walk with distances of the lists (`Confused`), or the walk of the task with points and margins lost (`Shortened`),
  which is a task like any other; the rest is about that function. Its loops are recursive functions over an interval, which exist and keep what each step keeps
  (`RunExists`, `RunStays`). A scan holds the last fix it armed on, and finds the first or the last crossing there is
  (`IsScan`, `IsFound`); a walk holds hits in order before its cursor, and what it missed no fix after the cursor
  crosses (`Walked`). That what was flown is made is an exchange: a pilot who crosses all points in order
  crosses each no later than the walk does, as the walk takes first crossings, and of the start the last one before the next
  point (`StartIsTimely`). The leading time is summed by gain, and by units of distance: both count a unit
  when its first fix gains it.
* **Scores.** `GapInv`: the sheet is `Scores` of what was entered; the rest is about that function. A quotient of whole
  numbers grows with what is divided (`DivGrows`), and so do products (`ProductGrows`); of two pilots each share is
  compared by itself and the sum follows (`RawNotBehind`). The totals of a day are sums, counts and extremes of
  sets of pilots, which an exchange of two maps onto each other (`SwapTotals`), and then each share (`SwapRaw`). Ranks
  count the pilots ahead in a linear order of keys (`KeysOrder`). The two loops over penalties, of the score and of
  the lines shown, take the same steps (`RunsAgree`).
* **Background.** Four invariants, of which one moves at a time. A client of MQTT is there just between
  connecting and stopping (`ClientOfThread`). A check of the DNS that nothing crossed is the only one and knows
  the address as it is (`SoleCheck`). A start has added what its transactions so far add (`ColumnsSoFar`), and what
  is remembered of a choice is of a server that had come up, with whose columns no transaction
  changes it (`ChosenStands`). A job of the airspace that knows of no edit has read the pages as they are (`JobFits`), and
  no stored date is still to come (`NoLaterDate`): so an edit outdates it.
* **Statistics.** A fresh row that is wrong was marked by a job that read before a change
  committed: `LostIsRaced`, `UnmarkedIsRaced`.
* **Deploys.** A branch is active exactly while one thread holds it; the mapping counts the
  active deploy and the one push remembered for later. `KeepsPromise` rests on it.

Left to TLC:

* Liveness (`AppBufferDrains`, `StatsBecomeFresh`, `EveryLandingRecorded`, `ViewsCatchUp`,
  `BackgroundSettles`): fairness and ENABLED are beyond the prover.
* `FixesNeverHurt` compares the evaluations of a track and of the same track with one more fix, walk by walk: two
  runs of one loop that may part at any point, and no relation between them is proved here.
* `IdentitiesKept`: which entries and addresses an account keeps compares the state before a request with the one after
  all its merges, which may be in either direction.
* Induction over data: the library's induction takes an operator as a parameter, which no installed prover can
  instantiate. `IdentitiesHold`, `PagesAgree`, `FlownIsScored` and `DayIsFair` get by with its well-founded minimum: a set
  of numbers has a least one (`LeastNumber`), so a recursive function over an interval exists (`RunExists`) and what
  each of its steps keeps all of them keep (`RunStays`), and a claim fails first on a smallest finite set.
* `RasterCache`: its one run checks the comment that the code does not keep; no passing run states a property of it.

## 5. What is not modelled

* The app's retry queue of IGC uploads, and saving and restoring a session when the app is
  killed: the next modules to write.
* The app's MQTT proxy, its BLE link and its background runtime: their order is that of libraries
  and platform services outside the repository.
* The route optimiser: a sequential heuristic, better tested against a reference than explored.
* Administration, SOS and audit; the web frontend; the provisioner: queries, presentation, device I/O.
* Inside modelled components: the debug simulation and the shadow recorder of the
  monitoring mode; ordering and geometry of drivers' routes; thinning of shown tracks; the
  organisers' and buddies' own streams, which register as the public ones do; buddy groups and
  sites; passwords, tokens and mails; the decoding of packets; the forecasts behind the rasters;
  titles and notes.

Seen on the way, and in no finding because nothing in the repository claims otherwise:
the routes `/api/track/live/pilots` and `/positions/pilots` stand behind `/{task_id}` and are never
reached; a draft of today takes positions before a published task does; a driver without a task of the day
gets the latest published task of any meet; a ranking keeps the gap of a tied or
removed pilot; registering a stationary node overwrites the type of its profile.

## 6. What comes next

1. The app's retry queue and its stored session, as modules beside `FlightRecorder`.
