---------------------------- MODULE LandingPickup ----------------------------
(***************************************************************************)
(* The server's landing detection and the driver's pickups, for one pilot  *)
(* in one task (backend/app/services/routing/landing_detector.py and       *)
(* routers/driver_routing.py).                                             *)
(*                                                                         *)
(* Every position of the pilot runs check_landing in the thread of its own *)
(* request, or of the MQTT subscriber, between the flush and the commit of *)
(* the position's transaction.  The detector's buffer is in memory and is  *)
(* shared; the landings are rows.  The buffer changes at once, the rows at *)
(* the commit, which may fail or come after another thread has looked.     *)
(*                                                                         *)
(* Times and places of the fixes are abstracted to the three speeds the    *)
(* detector tells apart; the altitude check and the 15 seconds are the     *)
(* choice not to confirm yet.  Announcing a landing to the drivers' apps   *)
(* is left out: it rides on the channels LiveFanout models.                *)
(***************************************************************************)
EXTENDS Naturals, FiniteSets

CONSTANTS Handlers,     \* positions of the pilot that are being processed
          Drivers,      \* requests of drivers
          MaxLandings,  \* bound: identifiers of landings
          MaxMishaps    \* bound: failed transactions and restarts

ASSUME MaxLandingsAssumption == MaxLandings \in Nat
ASSUME MaxMishapsAssumption == MaxMishaps \in Nat

Landings == 1..MaxLandings

VARIABLES
    candidate,  \* buf.landing_candidate_start is set
    confirmed,  \* buf.confirmed_landing_id, 0 for None
    row,        \* status of each committed landing
    next,       \* the next identifier of the table's sequence
    pc,         \* where a handler is in its transaction
    target,     \* the landing it inserts or cancels
    write,      \* what its commit will do
    request,    \* what a driver's request will write, after its read
    wanted,     \* the landing that request is about
    grounded,   \* the pilot has stopped for good
    mishaps,    \* failed transactions and restarts so far
    raced,      \* two handlers were in their transactions at once (history)
    undone,     \* a pickup was undone (history)
    unsaved,    \* the insertion of a landing was rolled back (history)
    overtaken   \* handlers whose landing was written since they read it (history)

buffer == <<candidate, confirmed>>
handlers == <<pc, target, write>>
drivers == <<request, wanted>>
history == <<raced, undone, unsaved, overtaken>>

vars == <<buffer, row, next, handlers, drivers, grounded, mishaps, history>>

Statuses == {"none", "landed", "ready", "picked_up", "cancelled"}

TypeOK ==
    /\ candidate \in BOOLEAN
    /\ confirmed \in 0..next - 1
    /\ row \in [Landings -> Statuses]
    /\ next \in 1..MaxLandings + 1
    /\ pc \in [Handlers -> {"idle", "query", "insert", "load", "flush", "commit"}]
    /\ target \in [Handlers -> 0..next - 1]
    /\ write \in [Handlers -> {"none", "insert", "cancel"}]
    /\ request \in [Drivers -> {"none", "pickup", "undo"}]
    /\ wanted \in [Drivers -> 0..next - 1]
    /\ grounded \in BOOLEAN
    /\ mishaps \in 0..MaxMishaps
    /\ raced \in BOOLEAN /\ undone \in BOOLEAN /\ unsaved \in BOOLEAN
    /\ overtaken \subseteq Handlers

Init ==
    /\ candidate = FALSE
    /\ confirmed = 0
    /\ row = [l \in Landings |-> "none"]
    /\ next = 1
    /\ pc = [h \in Handlers |-> "idle"]
    /\ target = [h \in Handlers |-> 0]
    /\ write = [h \in Handlers |-> "none"]
    /\ request = [d \in Drivers |-> "none"]
    /\ wanted = [d \in Drivers |-> 0]
    /\ grounded = FALSE
    /\ mishaps = 0
    /\ raced = FALSE /\ undone = FALSE /\ unsaved = FALSE
    /\ overtaken = {}

-----------------------------------------------------------------------------
\* An identifier is left for a landing: bounds what makes another one needed.
Left == next <= MaxLandings

\* Mutants of Found, Cancellable and AfterCancel, below.
FoundNone == {}
AnyStatus == Statuses \ {"none"}
KeptAfterCancel(h) == target[h]

\* The statuses of a landing that waits for a driver.
Active == {"landed", "ready"}
ActiveLandings == {l \in Landings : row[l] \in Active}

\* What the query of _confirm_landing returns, and the landings that
\* _cancel_landing cancels.
Found == ActiveLandings
Cancellable == {"landed", "ready"}

\* The sequence of the table moves on, whether or not the row is committed.
NextId == next + 1

\* buf.confirmed_landing_id at the end of _cancel_landing.
AfterCancel(h) == 0

\* A landing whose row a handler has flushed: others that write it wait.
Locked(l) ==
    \E h \in Handlers : pc[h] = "commit" /\ write[h] = "cancel" /\ target[h] = l

Busy == \E h \in Handlers : pc[h] # "idle"

\* A handler's transaction goes on to the landings.
Enter(h, to, l) ==
    /\ pc[h] = "idle"
    /\ pc' = [pc EXCEPT ![h] = to]
    /\ target' = [target EXCEPT ![h] = l]
    /\ raced' = (raced \/ Busy)
    /\ overtaken' = overtaken \ {h}

Leave(h) ==
    /\ pc' = [pc EXCEPT ![h] = "idle"]
    /\ target' = [target EXCEPT ![h] = 0]
    /\ write' = [write EXCEPT ![h] = "none"]

-----------------------------------------------------------------------------
(* A position is processed: check_landing *)

\* The first slow position.
SlowDown ==
    /\ confirmed = 0
    /\ candidate' = TRUE
    /\ UNCHANGED <<confirmed, row, next, handlers, drivers, grounded, mishaps,
                   history>>

\* One that is not slow, or has no speed.
MoveOn ==
    /\ ~grounded
    /\ confirmed = 0
    /\ candidate' = FALSE
    /\ UNCHANGED <<confirmed, row, next, handlers, drivers, grounded, mishaps,
                   history>>

\* A slow one at a steady altitude, 15 seconds later: _confirm_landing.
Confirm(h) ==
    /\ confirmed = 0 /\ candidate
    /\ Enter(h, "query", 0)
    /\ UNCHANGED <<buffer, row, next, write, drivers, grounded, mishaps,
                   undone, unsaved>>

\* A fast one after a confirmed landing: _cancel_landing.
Resume(h) ==
    /\ ~grounded /\ Left
    /\ confirmed # 0
    /\ Enter(h, "load", confirmed)
    /\ UNCHANGED <<buffer, row, next, write, drivers, grounded, mishaps,
                   undone, unsaved>>

\* _confirm_landing finds an active landing and adopts it, or none.
Query(h) ==
    /\ pc[h] = "query"
    /\ \/ /\ \E l \in Found : confirmed' = l
          /\ Leave(h)
       \/ /\ Found = {}
          /\ pc' = [pc EXCEPT ![h] = "insert"]
          /\ UNCHANGED <<confirmed, target, write>>
    /\ UNCHANGED <<candidate, row, next, drivers, grounded, mishaps, history>>

\* The landing is flushed, which gives it an identifier.
Insert(h) ==
    /\ pc[h] = "insert"
    /\ Left
    /\ next' = NextId
    /\ confirmed' = next
    /\ target' = [target EXCEPT ![h] = next]
    /\ write' = [write EXCEPT ![h] = "insert"]
    /\ pc' = [pc EXCEPT ![h] = "commit"]
    /\ UNCHANGED <<candidate, row, drivers, grounded, mishaps, history>>

\* _cancel_landing reads the landing: there is none yet, or it is not active.
LoadOther(h) ==
    /\ pc[h] = "load"
    /\ row[target[h]] \notin Cancellable
    /\ confirmed' = AfterCancel(h)
    /\ candidate' = FALSE
    /\ Leave(h)
    /\ UNCHANGED <<row, next, drivers, grounded, mishaps, history>>

LoadActive(h) ==
    /\ pc[h] = "load"
    /\ row[target[h]] \in Cancellable
    /\ pc' = [pc EXCEPT ![h] = "flush"]
    /\ UNCHANGED <<buffer, row, next, target, write, drivers, grounded,
                   mishaps, history>>

\* The UPDATE, of the landing's identifier alone.
Flush(h) ==
    /\ pc[h] = "flush"
    /\ ~Locked(target[h])
    /\ write' = [write EXCEPT ![h] = "cancel"]
    /\ pc' = [pc EXCEPT ![h] = "commit"]
    /\ confirmed' = AfterCancel(h)
    /\ candidate' = FALSE
    /\ UNCHANGED <<row, next, target, drivers, grounded, mishaps, history>>

\* The request that stored the position commits.
Commit(h) ==
    /\ pc[h] = "commit"
    /\ row' = [row EXCEPT ![target[h]] =
                 IF write[h] = "insert" THEN "landed" ELSE "cancelled"]
    /\ Leave(h)
    /\ UNCHANGED <<buffer, next, drivers, grounded, mishaps, history>>

\* It fails, here or in an earlier query; the buffer stays as it is.
RollBack(h) ==
    /\ pc[h] # "idle"
    /\ mishaps < MaxMishaps /\ Left
    /\ mishaps' = mishaps + 1
    /\ unsaved' = (unsaved \/ write[h] = "insert")
    /\ Leave(h)
    /\ UNCHANGED <<buffer, row, next, drivers, grounded, raced, undone,
                   overtaken>>

-----------------------------------------------------------------------------
(* Requests of drivers, whose read and write are two statements *)

\* mark_picked_up, of any landing that is not picked up.
ReadToPickUp(d, l) ==
    /\ request[d] = "none"
    /\ row[l] \notin {"none", "picked_up"}
    /\ request' = [request EXCEPT ![d] = "pickup"]
    /\ wanted' = [wanted EXCEPT ![d] = l]
    /\ UNCHANGED <<buffer, row, next, handlers, grounded, mishaps, history>>

\* cancel_pickup.
ReadToUndo(d, l) ==
    /\ request[d] = "none"
    /\ row[l] = "picked_up"
    /\ request' = [request EXCEPT ![d] = "undo"]
    /\ wanted' = [wanted EXCEPT ![d] = l]
    /\ UNCHANGED <<buffer, row, next, handlers, grounded, mishaps, history>>

\* Either one writes and commits.
WriteStatus(d) ==
    /\ request[d] # "none"
    /\ ~Locked(wanted[d])
    /\ row' = [row EXCEPT ![wanted[d]] =
                 IF request[d] = "pickup" THEN "picked_up" ELSE "ready"]
    /\ request' = [request EXCEPT ![d] = "none"]
    /\ wanted' = [wanted EXCEPT ![d] = 0]
    /\ undone' = (undone \/ request[d] = "undo")
    /\ overtaken' = overtaken \cup
         {h \in Handlers : pc[h] = "flush" /\ target[h] = wanted[d]}
    /\ UNCHANGED <<buffer, next, handlers, grounded, mishaps, raced, unsaved>>

-----------------------------------------------------------------------------
\* The pilot stops for good: every position from now on is slow.
Settle ==
    /\ ~grounded
    /\ grounded' = TRUE
    /\ UNCHANGED <<buffer, row, next, handlers, drivers, mishaps, history>>

\* The server restarts: the rows are all that is kept.
Restart ==
    /\ mishaps < MaxMishaps /\ Left
    /\ mishaps' = mishaps + 1
    /\ candidate' = FALSE
    /\ confirmed' = 0
    /\ pc' = [h \in Handlers |-> "idle"]
    /\ target' = [h \in Handlers |-> 0]
    /\ write' = [h \in Handlers |-> "none"]
    /\ request' = [d \in Drivers |-> "none"]
    /\ wanted' = [d \in Drivers |-> 0]
    /\ UNCHANGED <<row, next, grounded, history>>

-----------------------------------------------------------------------------
Step(h) ==
    \/ Query(h) \/ Insert(h) \/ LoadOther(h) \/ LoadActive(h)
    \/ Flush(h) \/ Commit(h)

Next ==
    \/ SlowDown \/ MoveOn
    \/ \E h \in Handlers : Confirm(h) \/ Resume(h) \/ Step(h) \/ RollBack(h)
    \/ \E d \in Drivers : \/ \E l \in Landings : \/ ReadToPickUp(d, l)
                                                 \/ ReadToUndo(d, l)
                          \/ WriteStatus(d)
    \/ Settle \/ Restart

Spec == Init /\ [][Next]_vars

\* Positions keep coming, and requests run to their end.  Nothing is assumed
\* of drivers, of failures or of what the pilot does.
Fairness ==
    /\ WF_vars(SlowDown)
    /\ WF_vars(\E h \in Handlers : Confirm(h))
    /\ \A h \in Handlers : WF_vars(Step(h))

FairSpec == Spec /\ Fairness

-----------------------------------------------------------------------------
(* Properties *)

OneActiveLanding == Cardinality(ActiveLandings) <= 1

\* Only two positions processed at once, or a pickup that is undone, give a
\* pilot two landings that wait: no restart, failed transaction, pickup or
\* resumed flight does (landing_detector.py 119-203, driver_routing.py 269-306).
DuplicateNeedsRaceOrUndo == raced \/ undone \/ OneActiveLanding

\* The pilot being driven away does not cancel the pickup: only a flight that
\* resumed before the pickup was written does (landing_detector.py 185-189).
PickupStands ==
    [][\A l \in Landings :
         row[l] = "picked_up" /\ row'[l] = "cancelled"
           => \E h \in overtaken : target[h] = l]_vars

\* The buffer knows of a landing, and it is one a driver may see or has served.
Recorded == confirmed # 0 /\ row[confirmed] \in {"landed", "ready", "picked_up"}

\* A pilot who stops for good ends with a landing that stands, unless the
\* insertion of one was rolled back or positions raced
\* (landing_detector.py 74-174, 194-196).
LandedIsRecorded ==
    <>grounded /\ [](~unsaved /\ ~raced) => <>[]Recorded
=============================================================================
