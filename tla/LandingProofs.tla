--------------------------- MODULE LandingProofs ---------------------------
(***************************************************************************)
(* Proofs about landings, for any positions, drivers, meets, tasks and     *)
(* days.  LandingPickup: without a race one handler at a time is at the    *)
(* landings; without an undone pickup nothing but its own commit adds an   *)
(* active one, so what its query did not find is still not there.          *)
(* TrackedTask: an order puts one task before all others when the first    *)
(* number of its key is the least, or, among equals, when its identifier   *)
(* is the largest; what an order puts first is what the code takes.        *)
(***************************************************************************)
EXTENDS LandingPickup, TrackedTask, TLAPS, FiniteSetTheorems, WellFoundedInduction

-----------------------------------------------------------------------------
(* Landings and pickups                                                    *)

\* Rows have identifiers that the sequence has given.
RowsGiven == \A l \in Landings : row[l] # "none" => l < next

\* Without a race, one handler at a time.
OneAtATime ==
    ~raced => \A g, h \in Handlers : pc[g] # "idle" /\ pc[h] # "idle" => g = h

\* A handler that inserts a landing, or has, found none.
Inserting(h) == pc[h] = "insert" \/ (pc[h] = "commit" /\ write[h] = "insert")

AtMostOne ==
    ~raced /\ ~undone =>
        /\ \A k, l \in ActiveLandings : k = l
        /\ \A h \in Handlers : Inserting(h) => ActiveLandings = {}

TInv == TypeOK /\ RowsGiven
IInv == TInv /\ OneAtATime /\ AtMostOne

-----------------------------------------------------------------------------
LEMMA InitInv == Init => IInv
<1> SUFFICES ASSUME Init PROVE IInv
  OBVIOUS
<1>1. TInv
  <2>1. 1 \in 1..MaxLandings + 1 /\ 0 \in 0..1 - 1 /\ 0 \in 0..MaxMishaps
    BY MaxLandingsAssumption, MaxMishapsAssumption
  <2> QED
  BY <2>1, MaxLandingsAssumption, MaxMishapsAssumption
  DEF Init, TInv, TypeOK, RowsGiven, Landings, Statuses
<1>2. OneAtATime
  BY DEF Init, OneAtATime
<1>3. ActiveLandings = {}
  BY DEF Init, ActiveLandings, Active
<1>4. AtMostOne
  BY <1>3 DEF AtMostOne
<1> QED
  BY <1>1, <1>2, <1>4 DEF IInv

\* The types, and rows only at identifiers given, are kept by every step.
LEMMA NextTyped == TInv /\ [Next]_vars => TInv'
<1> SUFFICES ASSUME TInv, [Next]_vars PROVE TInv'
  OBVIOUS
<1> USE MaxLandingsAssumption, MaxMishapsAssumption
    DEF TInv, TypeOK, RowsGiven, Landings, Statuses
<1>0. 0 \in 0..next - 1
  OBVIOUS
<1>1. CASE SlowDown
  BY <1>1 DEF SlowDown, handlers, drivers, history
<1>2. CASE MoveOn
  BY <1>2 DEF MoveOn, handlers, drivers, history
<1>3. ASSUME NEW h \in Handlers, Confirm(h) PROVE TInv'
  BY <1>3 DEF Confirm, Enter, buffer, drivers
<1>4. ASSUME NEW h \in Handlers, Resume(h) PROVE TInv'
  BY <1>4 DEF Resume, Enter, buffer, drivers
<1>5. ASSUME NEW h \in Handlers, Query(h) PROVE TInv'
  <2>1. confirmed' \in 0..next - 1
    BY <1>5 DEF Query, Found, ActiveLandings, Active
  <2>2. /\ pc' \in [Handlers -> {"idle", "query", "insert", "load", "flush",
                                 "commit"}]
        /\ target' \in [Handlers -> 0..next - 1]
        /\ write' \in [Handlers -> {"none", "insert", "cancel"}]
    BY <1>0, <1>5 DEF Query, Leave
  <2> QED
    BY <1>5, <2>1, <2>2 DEF Query, drivers, history
<1>6. ASSUME NEW h \in Handlers, Insert(h) PROVE TInv'
  BY <1>6 DEF Insert, NextId, Left, drivers, history
<1>7. ASSUME NEW h \in Handlers, LoadOther(h) PROVE TInv'
  BY <1>0, <1>7 DEF LoadOther, Leave, AfterCancel, drivers, history
<1>8. ASSUME NEW h \in Handlers, LoadActive(h) PROVE TInv'
  BY <1>8 DEF LoadActive, buffer, drivers, history
<1>9. ASSUME NEW h \in Handlers, Flush(h) PROVE TInv'
  BY <1>0, <1>9 DEF Flush, AfterCancel, drivers, history
<1>10. ASSUME NEW h \in Handlers, Commit(h) PROVE TInv'
  <2>1. row' \in [Landings -> Statuses]
    BY <1>10 DEF Commit
  <2>3. RowsGiven'
    <3>1. next' = next /\ target[h] \in 0..next - 1
      BY <1>10 DEF Commit
    <3>2. \A l \in Landings : l = target[h] \/ row'[l] = row[l]
      BY <1>10 DEF Commit
    <3> QED
      BY <3>1, <3>2
  <2>2. /\ pc' \in [Handlers -> {"idle", "query", "insert", "load", "flush",
                                 "commit"}]
        /\ target' \in [Handlers -> 0..next - 1]
        /\ write' \in [Handlers -> {"none", "insert", "cancel"}]
    BY <1>0, <1>10 DEF Commit, Leave
  <2> QED
    BY <1>10, <2>1, <2>2, <2>3 DEF Commit, buffer, drivers, history
<1>11. ASSUME NEW h \in Handlers, RollBack(h) PROVE TInv'
  BY <1>11 DEF RollBack, Leave, buffer, drivers
<1>12. ASSUME NEW d \in Drivers, NEW l \in Landings, ReadToPickUp(d, l)
       PROVE  TInv'
  BY <1>12 DEF ReadToPickUp, buffer, handlers, history
<1>13. ASSUME NEW d \in Drivers, NEW l \in Landings, ReadToUndo(d, l)
       PROVE  TInv'
  BY <1>13 DEF ReadToUndo, buffer, handlers, history
<1>14. ASSUME NEW d \in Drivers, WriteStatus(d) PROVE TInv'
  <2>1. row' \in [Landings -> Statuses]
    BY <1>14 DEF WriteStatus
  <2>4. RowsGiven'
    <3>1. next' = next /\ wanted[d] \in 0..next - 1
      BY <1>14 DEF WriteStatus
    <3>2. \A l \in Landings : l = wanted[d] \/ row'[l] = row[l]
      BY <1>14 DEF WriteStatus
    <3> QED
      BY <3>1, <3>2
  <2>2. /\ request' \in [Drivers -> {"none", "pickup", "undo"}]
        /\ wanted' \in [Drivers -> 0..next - 1]
    BY <1>0, <1>14 DEF WriteStatus
  <2>3. undone' \in BOOLEAN /\ overtaken' \subseteq Handlers
    BY <1>14 DEF WriteStatus
  <2> QED
    BY <1>14, <2>1, <2>2, <2>3, <2>4 DEF WriteStatus, buffer, handlers
<1>15. CASE Settle
  BY <1>15 DEF Settle, buffer, handlers, drivers, history
<1>16. CASE Restart
  <2>1. /\ pc' \in [Handlers -> {"idle", "query", "insert", "load", "flush",
                                 "commit"}]
        /\ target' \in [Handlers -> 0..next - 1]
        /\ write' \in [Handlers -> {"none", "insert", "cancel"}]
        /\ request' \in [Drivers -> {"none", "pickup", "undo"}]
        /\ wanted' \in [Drivers -> 0..next - 1]
    BY <1>0, <1>16 DEF Restart
  <2>2. /\ candidate' = FALSE /\ confirmed' = 0
        /\ mishaps' \in 0..MaxMishaps
    BY <1>16 DEF Restart
  <2>3. /\ row' = row /\ next' = next /\ grounded' = grounded
        /\ raced' = raced /\ undone' = undone /\ unsaved' = unsaved
        /\ overtaken' = overtaken
    BY <1>16 DEF Restart, history
  <2> QED
    BY <1>0, <2>1, <2>2, <2>3
<1>17. CASE UNCHANGED vars
  BY <1>17 DEF vars, buffer, handlers, drivers, history
<1> QED
  BY <1>1, <1>2, <1>3, <1>4, <1>5, <1>6, <1>7, <1>8, <1>9, <1>10, <1>11,
     <1>12, <1>13, <1>14, <1>15, <1>16, <1>17
  DEF Next, Step

\* Enter records a race, and no other step adds a handler to the landings.
LEMMA NextOneAtATime ==
    ASSUME TInv, OneAtATime, [Next]_vars
    PROVE  OneAtATime'
<1> USE DEF TInv, TypeOK, OneAtATime
<1>1. ASSUME NEW h \in Handlers, NEW to, NEW l, Enter(h, to, l)
      PROVE  OneAtATime'
  BY <1>1 DEF Enter, Busy
<1>2. ASSUME NEW h \in Handlers, Leave(h), raced' = raced
      PROVE  OneAtATime'
  BY <1>2 DEF Leave
<1>3. ASSUME pc' = pc, raced' = raced
      PROVE  OneAtATime'
  BY <1>3
<1>4. ASSUME NEW h \in Handlers, Confirm(h) \/ Resume(h)
      PROVE  OneAtATime'
  BY <1>4, <1>1 DEF Confirm, Resume
<1>5. ASSUME NEW h \in Handlers, Query(h)
      PROVE  OneAtATime'
  BY <1>5, <1>2 DEF Query, history
<1>6. ASSUME NEW h \in Handlers, Insert(h) \/ LoadActive(h) \/ Flush(h)
      PROVE  OneAtATime'
  BY <1>6 DEF Insert, LoadActive, Flush, history
<1>7. ASSUME NEW h \in Handlers, LoadOther(h) \/ Commit(h) \/ RollBack(h)
      PROVE  OneAtATime'
  BY <1>7, <1>2 DEF LoadOther, Commit, RollBack, history
<1>8. CASE Restart
  BY <1>8 DEF Restart, history
<1>9. CASE \/ SlowDown \/ MoveOn \/ Settle \/ UNCHANGED vars
           \/ \E d \in Drivers :
                \/ \E l \in Landings : ReadToPickUp(d, l) \/ ReadToUndo(d, l)
                \/ WriteStatus(d)
  BY <1>9, <1>3 DEF SlowDown, MoveOn, Settle, vars, ReadToPickUp, ReadToUndo,
                    WriteStatus, handlers, history
<1> QED
  BY <1>4, <1>5, <1>6, <1>7, <1>8, <1>9 DEF Next, Step

\* A step after which no landing is active that was not, and no handler
\* inserts that did not, keeps AtMostOne.
LEMMA FewerActive ==
    ASSUME AtMostOne, ActiveLandings' \subseteq ActiveLandings,
           \A h \in Handlers : Inserting(h)' => Inserting(h),
           ~raced' => ~raced, ~undone' => ~undone
    PROVE  AtMostOne'
  BY DEF AtMostOne

LEMMA NextAtMostOne ==
    ASSUME IInv, [Next]_vars
    PROVE  AtMostOne'
<1> USE DEF IInv, TInv, TypeOK
<1>1. ASSUME row' = row, pc' = pc, write' = write, raced' = raced,
             undone' = undone
      PROVE  AtMostOne'
  BY <1>1, FewerActive DEF ActiveLandings, Inserting
<1>2. CASE \/ SlowDown \/ MoveOn \/ Settle \/ UNCHANGED vars
           \/ \E d \in Drivers, l \in Landings :
                ReadToPickUp(d, l) \/ ReadToUndo(d, l)
  BY <1>2, <1>1 DEF SlowDown, MoveOn, Settle, vars, ReadToPickUp, ReadToUndo,
                    handlers, history
<1>3. ASSUME NEW h \in Handlers,
             Confirm(h) \/ Resume(h) \/ LoadActive(h) \/ LoadOther(h)
               \/ RollBack(h) \/ Flush(h)
      PROVE  AtMostOne'
  <2>1. row' = row
    BY <1>3 DEF Confirm, Resume, LoadActive, LoadOther, RollBack, Flush
  <2>2. (~raced' => ~raced) /\ (~undone' => ~undone)
    BY <1>3 DEF Confirm, Resume, LoadActive, LoadOther, RollBack, Flush,
                Enter, history
  <2>3. \A g \in Handlers : Inserting(g)' => Inserting(g)
    <3>1. CASE Confirm(h) \/ Resume(h) \/ LoadActive(h)
      BY <3>1 DEF Confirm, Resume, LoadActive, Enter, Inserting
    <3>2. CASE LoadOther(h) \/ RollBack(h)
      BY <3>2 DEF LoadOther, RollBack, Leave, Inserting
    <3>3. CASE Flush(h)
      BY <3>3 DEF Flush, Inserting
    <3> QED
      BY <1>3, <3>1, <3>2, <3>3
  <2> QED
    BY <2>1, <2>2, <2>3, FewerActive DEF ActiveLandings
<1>4. ASSUME NEW h \in Handlers, Query(h)
      PROVE  AtMostOne'
  <2>1. row' = row /\ raced' = raced /\ undone' = undone
    BY <1>4 DEF Query, history
  <2>2. CASE Leave(h)
    BY <2>1, <2>2, FewerActive DEF Leave, Inserting, ActiveLandings
  <2>3. CASE Found = {}
    BY <2>1, <2>3 DEF AtMostOne, Found, ActiveLandings
  <2> QED
    BY <1>4, <2>2, <2>3 DEF Query
<1>5. ASSUME NEW h \in Handlers, Insert(h)
      PROVE  AtMostOne'
  <2>1. row' = row /\ raced' = raced /\ undone' = undone
    BY <1>5 DEF Insert, history
  <2>2. \A g \in Handlers : Inserting(g)' => Inserting(g)
    BY <1>5 DEF Insert, Inserting
  <2> QED
    BY <2>1, <2>2, FewerActive DEF ActiveLandings
<1>6. ASSUME NEW h \in Handlers, Commit(h)
      PROVE  AtMostOne'
  <2>1. raced' = raced /\ undone' = undone
    BY <1>6 DEF Commit, history
  <2>2. \A g \in Handlers : g # h => Inserting(g)' = Inserting(g)
    BY <1>6 DEF Commit, Leave, Inserting
  <2>3. ~Inserting(h)'
    BY <1>6 DEF Commit, Leave, Inserting
  <2>4. CASE write[h] # "insert"
    <3>1. ActiveLandings' \subseteq ActiveLandings
      BY <1>6, <2>4 DEF Commit, ActiveLandings, Active
    <3> QED
      BY <2>1, <2>2, <2>3, <3>1, FewerActive
  <2>5. CASE write[h] = "insert" /\ ~raced /\ ~undone
    <3>1. Inserting(h) /\ ActiveLandings = {}
      BY <1>6, <2>5 DEF Commit, Inserting, AtMostOne
    <3>2. ActiveLandings' \subseteq {target[h]}
      BY <1>6, <3>1 DEF Commit, ActiveLandings
    <3>3. \A g \in Handlers : ~Inserting(g)'
      BY <1>6, <2>2, <2>3, <2>5 DEF Commit, Inserting, OneAtATime
    <3> QED
      BY <3>2, <3>3 DEF AtMostOne
  <2> QED
    BY <2>1, <2>4, <2>5 DEF AtMostOne
<1>7. ASSUME NEW d \in Drivers, WriteStatus(d)
      PROVE  AtMostOne'
  <2>1. CASE request[d] = "undo"
    BY <1>7, <2>1 DEF WriteStatus, AtMostOne
  <2>2. CASE request[d] = "pickup"
    <3>1. ActiveLandings' \subseteq ActiveLandings
      BY <1>7, <2>2 DEF WriteStatus, ActiveLandings, Active
    <3> QED
      BY <1>7, <2>2, <3>1, FewerActive DEF WriteStatus, Inserting, handlers
  <2> QED
    BY <1>7, <2>1, <2>2 DEF WriteStatus
<1>8. CASE Restart
  BY <1>8, FewerActive DEF Restart, Inserting, ActiveLandings, history
<1> QED
  BY <1>2, <1>3, <1>4, <1>5, <1>6, <1>7, <1>8 DEF Next, Step

-----------------------------------------------------------------------------
\* The inductive invariant.
THEOREM Invariant == Spec => []IInv
<1>1. IInv /\ [Next]_vars => IInv'
  BY NextTyped, NextOneAtATime, NextAtMostOne DEF IInv
<1> QED
  BY InitInv, <1>1, PTL DEF Spec

\* The buffer, the handlers and the drivers' requests refer to landings whose
\* identifiers the table has given.
THEOREM TypeCorrect == Spec => []TypeOK
  BY Invariant, PTL DEF IInv, TInv

\* Two landings of a pilot wait for a driver only after two positions were
\* processed at once or a pickup was undone.
THEOREM DuplicateNeeds == Spec => []DuplicateNeedsRaceOrUndo
<1>1. IInv => DuplicateNeedsRaceOrUndo
  <2> SUFFICES ASSUME IInv, ~raced, ~undone PROVE OneActiveLanding
    BY DEF DuplicateNeedsRaceOrUndo
  <2>1. \A k, l \in ActiveLandings : k = l
    BY DEF IInv, AtMostOne
  <2>2. CASE ActiveLandings = {}
    BY <2>2, FS_EmptySet DEF OneActiveLanding
  <2>3. ASSUME NEW l \in ActiveLandings PROVE OneActiveLanding
    <3>1. ActiveLandings = {l}
      BY <2>1
    <3> QED
      BY <3>1, FS_Singleton DEF OneActiveLanding
  <2> QED
    BY <2>2, <2>3
<1> QED
  BY Invariant, <1>1, PTL

-----------------------------------------------------------------------------
(* PickupStands: a handler that is about to cancel a landing read it as one *)
(* that waits; if it is picked up by now, the pickup was written since, and *)
(* the handler is noted.  Once it has flushed, the row is locked.           *)
Cancelling(h) == pc[h] = "flush" \/ (pc[h] = "commit" /\ write[h] = "cancel")

Noted ==
    \A h \in Handlers :
        /\ pc[h] = "commit" => write[h] \in {"insert", "cancel"}
        /\ Cancelling(h) /\ row[target[h]] = "picked_up" => h \in overtaken

LEMMA NextNoted ==
    ASSUME TInv, Noted, [Next]_vars
    PROVE  Noted'
<1> USE DEF TInv, TypeOK, Noted, Cancelling
<1>1. ASSUME row' = row, pc' = pc, write' = write, target' = target, overtaken' = overtaken
      PROVE  Noted'
  BY <1>1
<1>2. CASE SlowDown
  BY <1>1, <1>2 DEF SlowDown, handlers, history
<1>3. CASE MoveOn
  BY <1>1, <1>3 DEF MoveOn, handlers, history
<1>4. ASSUME NEW h \in Handlers, Confirm(h) PROVE Noted'
  BY <1>4 DEF Confirm, Enter, buffer, drivers
<1>5. ASSUME NEW h \in Handlers, Resume(h) PROVE Noted'
  BY <1>5 DEF Resume, Enter, buffer, drivers
<1>6. ASSUME NEW h \in Handlers, Query(h) PROVE Noted'
  BY <1>6 DEF Query, Leave, history
<1>7. ASSUME NEW h \in Handlers, Insert(h) PROVE Noted'
  BY <1>7 DEF Insert, history
<1>8. ASSUME NEW h \in Handlers, LoadOther(h) PROVE Noted'
  BY <1>8 DEF LoadOther, Leave, history
<1>9. ASSUME NEW h \in Handlers, LoadActive(h) PROVE Noted'
  BY <1>9 DEF LoadActive, Cancellable, history
<1>10. ASSUME NEW h \in Handlers, Flush(h) PROVE Noted'
  BY <1>10 DEF Flush, history
<1>11. ASSUME NEW h \in Handlers, Commit(h) PROVE Noted'
  BY <1>11 DEF Commit, Leave, history, Landings, Statuses
<1>12. ASSUME NEW h \in Handlers, RollBack(h) PROVE Noted'
  BY <1>12 DEF RollBack, Leave, buffer
<1>13. ASSUME NEW d \in Drivers, NEW l \in Landings, ReadToPickUp(d, l) PROVE Noted'
  BY <1>1, <1>13 DEF ReadToPickUp, handlers, history
<1>14. ASSUME NEW d \in Drivers, NEW l \in Landings, ReadToUndo(d, l) PROVE Noted'
  BY <1>1, <1>14 DEF ReadToUndo, handlers, history
<1>15. ASSUME NEW d \in Drivers, WriteStatus(d) PROVE Noted'
  BY <1>15 DEF WriteStatus, Locked, handlers, Landings, Statuses
<1>16. CASE Settle
  BY <1>1, <1>16 DEF Settle, handlers, history
<1>17. CASE Restart
  BY <1>17 DEF Restart, history
<1>18. CASE UNCHANGED vars
  BY <1>1, <1>18 DEF vars, handlers, history
<1> QED
  BY <1>2, <1>3, <1>4, <1>5, <1>6, <1>7, <1>8, <1>9, <1>10, <1>11, <1>12,
     <1>13, <1>14, <1>15, <1>16, <1>17, <1>18 DEF Next, Step

\* Only the commit of a handler cancels a landing.
LEMMA CancelNeedsCommit ==
    ASSUME TInv, Noted, [Next]_vars, NEW l \in Landings,
           row[l] = "picked_up", row'[l] = "cancelled"
    PROVE  \E h \in overtaken : target[h] = l
<1> USE DEF TInv, TypeOK
<1>1. row' # row
  OBVIOUS
<1>2. ASSUME NEW h \in Handlers, Commit(h) PROVE \E k \in overtaken : target[k] = l
  BY <1>2 DEF Commit, Noted, Cancelling
<1>3. ASSUME NEW d \in Drivers, WriteStatus(d) PROVE FALSE
  BY <1>3 DEF WriteStatus
<1>4. (\E h \in Handlers : Commit(h)) \/ (\E d \in Drivers : WriteStatus(d))
  BY <1>1 DEF Next, Step, SlowDown, MoveOn, Confirm, Resume, Query, Insert, LoadOther,
     LoadActive, Flush, RollBack, ReadToPickUp, ReadToUndo, Settle, Restart, vars
<1> QED
  BY <1>2, <1>3, <1>4

\* A landing that was picked up is cancelled only by a handler that had read it
\* before the pickup was written.
THEOREM PickupStandsHolds == Spec => PickupStands
<1>1. Init => Noted
  BY DEF Init, Noted, Cancelling
<1>2. Noted /\ TInv /\ [Next]_vars => Noted'
  BY NextNoted
<1>3. Noted /\ TInv /\ [Next]_vars =>
        [\A l \in Landings : row[l] = "picked_up" /\ row'[l] = "cancelled"
             => \E h \in overtaken : target[h] = l]_vars
  BY CancelNeedsCommit
<1> QED
  BY Invariant, <1>1, <1>2, <1>3, PTL DEF Spec, PickupStands, IInv

-----------------------------------------------------------------------------
(* The task of the day                                                     *)

\* Identifiers are bounded, so that a set of tasks has one of the largest.
LEMMA Largest ==
    ASSUME NEW S, S \subseteq TaskIds, S # {}
    PROVE  \E m \in S : \A t \in S : t <= m
<1> DEFINE T == {MaxId - t : t \in S}
<1>0. MaxId \in Nat
  BY SMT DEF MaxId
<1>1. S \subseteq 1..MaxId
  BY DaysAssumption
<1>2. T \subseteq Nat /\ T # {}
  <2>1. \A t \in S : MaxId - t \in Nat
    BY <1>0, <1>1
  <2>2. T # {}
    OBVIOUS
  <2> QED
    BY <2>1, <2>2
<1> DEFINE R == OpToRel(<, Nat)
<1>3. PICK x \in T : \A y \in T : ~ (<<y, x>> \in R)
  <2> HIDE DEF T
  <2> QED
    BY <1>2, WFMin, NatLessThanWellFounded, Zenon
<1>4. \A y \in T : ~(y < x)
  <2>1. R = {ss \in Nat \X Nat : ss[1] < ss[2]}
    BY Zenon DEF OpToRel
  <2> HIDE DEF T, R
  <2>2. ASSUME NEW y \in T, y < x PROVE <<y, x>> \in R
    BY <1>2, <2>1, <2>2
  <2> QED
    BY <1>3, <2>2
<1> HIDE DEF R
<1>5. PICK m \in S : x = MaxId - m
  OBVIOUS
<1>6. ASSUME NEW t \in S PROVE t <= m
  <2>1. ~(MaxId - t < x)
    BY <1>4
  <2> QED
    BY <2>1, <1>0, <1>1, <1>5
<1> QED
  BY <1>6

-----------------------------------------------------------------------------
(* The types.                                                              *)
LEMMA TrackInitTyped == TrackInit => TrackTypeOK
  BY DEF TrackInit, TrackTypeOK

LEMMA Amended ==
    ASSUME TrackTypeOK, NEW t \in Existing, NEW s \in TaskStatuses, NEW d \in Dates \cup {NoDate}
    PROVE  [meet |-> MeetOf(t), status |-> s, date |-> d] \in Task
<1>1. planned[t] \in Task
  BY DEF TrackTypeOK, Existing
<1> QED
  BY <1>1 DEF Task, MeetOf

LEMMA TrackNextTyped == TrackTypeOK /\ [TrackNext]_trackvars => TrackTypeOK'
<1> SUFFICES ASSUME TrackTypeOK, [TrackNext]_trackvars PROVE TrackTypeOK'
  OBVIOUS
<1> USE NoTaskAssumption DEF TrackTypeOK
<1>1. ASSUME NEW t \in TaskIds, NEW e \in Meets, NEW s \in TaskStatuses, NEW d \in Dates \cup {NoDate},
             Plan(t, e, s, d)
      PROVE  TrackTypeOK'
  <2>1. [meet |-> e, status |-> s, date |-> d] \in Task
    BY DEF Task
  <2> QED
    BY <1>1, <2>1 DEF Plan
<1>2. ASSUME NEW t \in TaskIds, NEW s \in TaskStatuses, NEW d \in Dates \cup {NoDate}, Amend(t, s, d)
      PROVE  TrackTypeOK'
  BY <1>2, Amended DEF Amend, Existing
<1>3. ASSUME NEW t \in TaskIds, NEW s \in TaskStatuses, SetOut(t, s) PROVE TrackTypeOK'
  <2>1. planned[t] \in Task /\ t \in Existing
    BY <1>3 DEF Existing, SetOut
  <2>2. DayOf(t) \in Dates \cup {NoDate}
    BY <2>1 DEF DayOf, Task
  <2> QED
    BY <1>3, <2>1, <2>2, Amended DEF SetOut, Existing
<1>4. ASSUME NEW t \in TaskIds, Drop(t) PROVE TrackTypeOK'
  BY <1>4 DEF Drop
<1>5. ASSUME NEW t \in TaskIds, NEW pilots \in SUBSET Flyers, Assign(t, pilots) PROVE TrackTypeOK'
  <2>1. Replaced(t, pilots) \in SUBSET Flyers
    BY DEF Replaced
  <2> QED
    BY <1>5, <2>1 DEF Assign, Existing
<1>6. ASSUME NEW p \in Flyers, NEW e \in Meets, EnterMeet(p, e) \/ LeaveMeet(p, e) PROVE TrackTypeOK'
  BY <1>6 DEF EnterMeet, LeaveMeet
<1>7. CASE DayPasses
  BY <1>7 DEF DayPasses
<1>8. CASE UNCHANGED trackvars
  BY <1>8 DEF trackvars
<1> QED
  BY <1>1, <1>2, <1>3, <1>4, <1>5, <1>6, <1>7, <1>8 DEF TrackNext

LEMMA TaskTypes ==
    ASSUME TrackTypeOK, NEW t \in Existing
    PROVE  /\ t \in Int /\ MeetOf(t) \in Meets /\ LocalDay(MeetOf(t)) \in Int
           /\ StartsOn[MeetOf(t)] \in Int
           /\ IsDated(t) => DayOf(t) \in Int
           /\ IsToday(t) => IsDated(t)
           /\ planned[t].status \in TaskStatuses
<1>1. t \in TaskIds /\ planned[t] \in Task
  BY DEF TrackTypeOK, Existing
<1>2. t \in Int
  BY <1>1, DaysAssumption
<1>3. MeetOf(t) \in Meets /\ DayOf(t) \in Dates \cup {NoDate} /\ planned[t].status \in TaskStatuses
  BY <1>1 DEF Task, MeetOf, DayOf
<1>4. today \in Int /\ Ahead[MeetOf(t)] \in {0, 1} /\ StartsOn[MeetOf(t)] \in Int
  BY <1>3, DaysAssumption DEF TrackTypeOK
<1>5. LocalDay(MeetOf(t)) \in Int
  BY <1>4 DEF LocalDay
<1>6. IsDated(t) => DayOf(t) \in Int
  BY <1>3, DaysAssumption DEF IsDated, DayOf
<1>7. IsToday(t) => IsDated(t)
  BY <1>5, NoneAssumption DEF IsToday, IsDated, DayOf
<1> QED
  BY <1>2, <1>3, <1>4, <1>5, <1>6, <1>7

-----------------------------------------------------------------------------
(* Tuples in their order: the first number decides, or one before which   *)
(* they agree.                                                             *)
LEMMA FirstDecides ==
    ASSUME NEW n \in Nat \ {0}, NEW a, NEW b, DOMAIN a = 1..n, DOMAIN b = 1..n,
           a[1] \in Int, b[1] \in Int, a[1] < b[1]
    PROVE  Before(a, b) /\ ~Before(b, a)
<1>1. Before(a, b)
  BY DEF Before
<1>2. ASSUME NEW i \in DOMAIN b, b[i] < a[i], \A j \in 1..(i - 1) : b[j] = a[j]
      PROVE  FALSE
  BY <1>2
<1> QED
  BY <1>1, <1>2 DEF Before

LEMMA DecidedAt ==
    ASSUME NEW n \in Nat \ {0}, NEW k \in 1..n, NEW a, NEW b, DOMAIN a = 1..n, DOMAIN b = 1..n,
           \A i \in 1..n : a[i] \in Int, \A i \in 1..(k - 1) : a[i] = b[i], b[k] \in Int, a[k] < b[k]
    PROVE  Before(a, b) /\ ~Before(b, a)
<1>1. Before(a, b)
  BY DEF Before
<1>2. ASSUME NEW i \in DOMAIN b, b[i] < a[i], \A j \in 1..(i - 1) : b[j] = a[j]
      PROVE  FALSE
  <2>1. CASE i = k
    BY <1>2, <2>1
  <2>2. CASE i < k
    <3>1. i \in 1..(k - 1)
      BY <2>2
    <3>2. a[i] = b[i] /\ a[i] \in Int
      BY <3>1
    <3> QED
      BY <1>2, <3>2
  <2>3. CASE k < i
    BY <1>2, <2>3
  <2> QED
    BY <2>1, <2>2, <2>3
<1> QED
  BY <1>1, <1>2 DEF Before

\* What stands before all others, and none of them before it, is first.
LEMMA FirstForPilots ==
    ASSUME NEW S, NEW m \in S,
           \A u \in S \ {m} : Before(PilotKey(m), PilotKey(u)) /\ ~Before(PilotKey(u), PilotKey(m))
    PROVE  FirstBy(S, PilotKey) = m
<1> DEFINE first == {t \in S : \A u \in S \ {t} : Before(PilotKey(t), PilotKey(u))}
<1>1. first = {m}
  OBVIOUS
<1> HIDE DEF first
<1>2. (CHOOSE t \in first : TRUE) = m
  BY <1>1
<1> QED
  BY <1>2, Zenon DEF FirstBy, Firsts, first

LEMMA FirstForDrivers ==
    ASSUME NEW S, NEW m \in S,
           \A u \in S \ {m} : Before(NewestKey(m), NewestKey(u)) /\ ~Before(NewestKey(u), NewestKey(m))
    PROVE  FirstBy(S, NewestKey) = m
<1> DEFINE first == {t \in S : \A u \in S \ {t} : Before(NewestKey(t), NewestKey(u))}
<1>1. first = {m}
  OBVIOUS
<1> HIDE DEF first
<1>2. (CHOOSE t \in first : TRUE) = m
  BY <1>1
<1> QED
  BY <1>2, Zenon DEF FirstBy, Firsts, first

LEMMA FirstForMap ==
    ASSUME NEW S, NEW m \in S,
           \A u \in S \ {m} : Before(MapKey(m), MapKey(u)) /\ ~Before(MapKey(u), MapKey(m))
    PROVE  FirstBy(S, MapKey) = m
<1> DEFINE first == {t \in S : \A u \in S \ {t} : Before(MapKey(t), MapKey(u))}
<1>1. first = {m}
  OBVIOUS
<1> HIDE DEF first
<1>2. (CHOOSE t \in first : TRUE) = m
  BY <1>1
<1> QED
  BY <1>2, Zenon DEF FirstBy, Firsts, first

-----------------------------------------------------------------------------
(* Keys are tuples of numbers.                                             *)
LEMMA PilotKeyTyped ==
    ASSUME TrackTypeOK, NEW t \in Existing
    PROVE  /\ DOMAIN PilotKey(t) = 1..5 /\ \A i \in 1..5 : PilotKey(t)[i] \in Int
           /\ PilotKey(t)[1] = Bucket(t) /\ Bucket(t) \in 0..3
<1>1. Bucket(t) \in 0..3
  BY DEF Bucket
<1>2. Flag(~IsDated(t)) \in Int
  BY DEF Flag
<1>3. (IF IsDated(t) THEN Apart(LocalDay(MeetOf(t)), DayOf(t)) ELSE 0) \in Int
  BY TaskTypes DEF Apart
<1>4. -(IF IsDated(t) THEN DayOf(t) ELSE StartsOn[MeetOf(t)]) \in Int /\ -t \in Int
  BY TaskTypes
<1> QED
  BY <1>1, <1>2, <1>3, <1>4 DEF PilotKey

LEMMA MapKeyTyped ==
    ASSUME TrackTypeOK, NEW t \in Existing
    PROVE  /\ DOMAIN MapKey(t) = 1..4 /\ \A i \in 1..4 : MapKey(t)[i] \in Int
           /\ IF IsActive(t) THEN MapKey(t)[1] = 0 ELSE IF IsToday(t) THEN MapKey(t)[1] = 1 ELSE MapKey(t)[1] \in 2..4
<1> DEFINE day == LocalDay(MeetOf(t))
<1>1. t \in Int /\ -t \in Int /\ day \in Int /\ (IsDated(t) => DayOf(t) \in Int /\ -DayOf(t) \in Int)
  BY TaskTypes
<1>2. CASE IsActive(t)
  <2>1. MapKey(t) = <<0, Flag(~IsDated(t)), IF IsDated(t) THEN -DayOf(t) ELSE 0, -t>>
    BY <1>2 DEF MapKey
  <2> QED
    BY <1>1, <1>2, <2>1 DEF Flag
<1>3. CASE ~IsActive(t) /\ IsToday(t)
  <2>1. MapKey(t) = <<1, 0, 0, -t>>
    BY <1>1, <1>3, TaskTypes DEF MapKey, IsToday
  <2> QED
    BY <1>1, <1>3, <2>1
<1>4. CASE ~IsActive(t) /\ IsDated(t) /\ DayOf(t) > day
  <2>1. MapKey(t) = <<2, 0, DayOf(t) - day, t>>
    BY <1>1, <1>4 DEF MapKey, IsToday
  <2>2. ~IsToday(t)
    BY <1>1, <1>4, TaskTypes DEF IsToday
  <2> QED
    BY <1>1, <1>4, <2>1, <2>2
<1>5. CASE ~IsActive(t) /\ IsDated(t) /\ DayOf(t) < day
  <2>1. MapKey(t) = <<3, 0, day - DayOf(t), -t>>
    BY <1>1, <1>5 DEF MapKey, IsToday
  <2>2. ~IsToday(t)
    BY <1>1, <1>5, TaskTypes DEF IsToday
  <2> QED
    BY <1>1, <1>5, <2>1, <2>2
<1>6. CASE ~IsActive(t) /\ ~IsDated(t)
  <2>1. MapKey(t) = <<4, 0, 0, -t>>
    BY <1>1, <1>6, TaskTypes DEF MapKey
  <2>2. ~IsToday(t)
    BY <1>1, <1>6, TaskTypes DEF IsToday
  <2> QED
    BY <1>1, <1>6, <2>1, <2>2
<1>7. IsDated(t) => IsToday(t) \/ DayOf(t) > day \/ DayOf(t) < day
  BY <1>1 DEF IsToday
<1> QED
  BY <1>2, <1>3, <1>4, <1>5, <1>6, <1>7

LEMMA NewestKeyTyped ==
    ASSUME TrackTypeOK, NEW t \in Existing
    PROVE  DOMAIN NewestKey(t) = 1..4 /\ NewestKey(t)[1] = (IF IsActive(t) THEN 0 ELSE 1)
  BY DEF NewestKey, Flag

-----------------------------------------------------------------------------
(* The one active task stands before all others in each of the orders.     *)
LEMMA ActiveBefore ==
    ASSUME TrackTypeOK, NEW t \in Existing, NEW u \in Existing, IsActive(t), ~IsActive(u)
    PROVE  /\ Before(PilotKey(t), PilotKey(u)) /\ ~Before(PilotKey(u), PilotKey(t))
           /\ Before(MapKey(t), MapKey(u)) /\ ~Before(MapKey(u), MapKey(t))
           /\ Before(NewestKey(t), NewestKey(u)) /\ ~Before(NewestKey(u), NewestKey(t))
<1>1. Bucket(t) = 0 /\ Bucket(u) \in 1..3
  BY DEF Bucket, IsActive
<1>2. Before(PilotKey(t), PilotKey(u)) /\ ~Before(PilotKey(u), PilotKey(t))
  <2>1. /\ DOMAIN PilotKey(t) = 1..5 /\ DOMAIN PilotKey(u) = 1..5
        /\ PilotKey(t)[1] \in Int /\ PilotKey(u)[1] \in Int /\ PilotKey(t)[1] < PilotKey(u)[1] /\ 5 \in Nat \ {0}
    BY <1>1, PilotKeyTyped
  <2> QED
    BY <2>1, FirstDecides, Zenon
<1>3. Before(MapKey(t), MapKey(u)) /\ ~Before(MapKey(u), MapKey(t))
  <2>1. /\ DOMAIN MapKey(t) = 1..4 /\ DOMAIN MapKey(u) = 1..4
        /\ MapKey(t)[1] \in Int /\ MapKey(u)[1] \in Int /\ MapKey(t)[1] < MapKey(u)[1] /\ 4 \in Nat \ {0}
    BY MapKeyTyped
  <2> QED
    BY <2>1, FirstDecides, Zenon
<1>4. Before(NewestKey(t), NewestKey(u)) /\ ~Before(NewestKey(u), NewestKey(t))
  <2>1. /\ DOMAIN NewestKey(t) = 1..4 /\ DOMAIN NewestKey(u) = 1..4
        /\ NewestKey(t)[1] \in Int /\ NewestKey(u)[1] \in Int /\ NewestKey(t)[1] < NewestKey(u)[1] /\ 4 \in Nat \ {0}
    BY NewestKeyTyped
  <2> QED
    BY <2>1, FirstDecides, Zenon
<1> QED
  BY <1>2, <1>3, <1>4

LEMMA ActiveGathers == TrackTypeOK => OneActiveGathersAll
<1> SUFFICES ASSUME TrackTypeOK, NEW t \in Existing, IsActive(t), \A u \in Existing \ {t} : ~IsActive(u)
             PROVE  /\ MapTask(MeetOf(t)) = t
                    /\ Running(MeetOf(t)) => \A p \in Flyers : MeetOf(t) \in enters[p] => TaskOf(p) = t
                    /\ (\A u \in Existing \ {t} : assigned[u] = {}) => DriversTask = t
  BY DEF OneActiveGathersAll
<1>1. IsOut(t)
  BY DEF IsOut, IsActive
<1>2. MapTask(MeetOf(t)) = t
  <2> DEFINE S == {u \in Existing : MeetOf(u) = MeetOf(t) /\ IsOut(u)}
  <2>1. t \in S /\ S \subseteq Existing
    BY <1>1
  <2> HIDE DEF S
  <2>2. \A u \in S \ {t} : Before(MapKey(t), MapKey(u)) /\ ~Before(MapKey(u), MapKey(t))
    BY <2>1, ActiveBefore
  <2>3. FirstBy(S, MapKey) = t
    BY <2>1, <2>2, FirstForMap
  <2> QED
    BY <2>3 DEF MapTask, S
<1>3. ASSUME Running(MeetOf(t)), NEW p \in Flyers, MeetOf(t) \in enters[p] PROVE TaskOf(p) = t
  <2>1. t \in Candidates(p) /\ Candidates(p) \subseteq Existing
    BY <1>3 DEF Candidates, Bucket
  <2>2. \A u \in Candidates(p) \ {t} : Before(PilotKey(t), PilotKey(u)) /\ ~Before(PilotKey(u), PilotKey(t))
    BY <2>1, ActiveBefore
  <2> QED
    BY <2>1, <2>2, FirstForPilots DEF TaskOf
<1>4. ASSUME \A u \in Existing \ {t} : assigned[u] = {} PROVE DriversTask = t
  <2> DEFINE own == {u \in Existing : assigned[u] # {} /\ IsOut(u)}
             S == IF own # {} THEN own ELSE {u \in Existing : IsOut(u)}
  <2>1. t \in S /\ S \subseteq Existing
    BY <1>1, <1>4
  <2> HIDE DEF S
  <2>2. \A u \in S \ {t} : Before(NewestKey(t), NewestKey(u)) /\ ~Before(NewestKey(u), NewestKey(t))
    BY <2>1, ActiveBefore
  <2>3. FirstBy(S, NewestKey) = t
    BY <2>1, <2>2, FirstForDrivers
  <2> QED
    BY <2>3 DEF DriversTask, S
<1> QED
  BY <1>2, <1>3, <1>4

\* A driver sees the pilots assigned, and without any those of the meet.
LEMMA DriverSees == TrackTypeOK => DriverHasPilots
  BY DEF DriverHasPilots, PilotsShown

-----------------------------------------------------------------------------
(* Without an active task, the day's draft of the largest identifier is    *)
(* before all other tasks of a pilot's meet, and if there is no draft of   *)
(* the day, so is its task that is out and has the largest identifier,     *)
(* with which the map opens as well.                                       *)
LEMMA DayKeys ==
    ASSUME TrackTypeOK, NEW t \in Existing, IsToday(t), ~IsActive(t)
    PROVE  /\ Bucket(t) = (IF IsOut(t) THEN 2 ELSE 1)
           /\ PilotKey(t) = <<Bucket(t), 0, 0, -LocalDay(MeetOf(t)), -t>>
           /\ MapKey(t) = <<1, 0, 0, -t>>
<1>1. IsDated(t) /\ DayOf(t) = LocalDay(MeetOf(t)) /\ DayOf(t) \in Int /\ planned[t].status \in TaskStatuses
  BY TaskTypes DEF IsToday
<1>2. Bucket(t) = (IF IsOut(t) THEN 2 ELSE 1)
  BY <1>1 DEF Bucket, TaskStatuses, IsOut, IsActive
<1>3. Apart(LocalDay(MeetOf(t)), DayOf(t)) = 0
  BY <1>1 DEF Apart
<1>4. PilotKey(t) = <<Bucket(t), 0, 0, -LocalDay(MeetOf(t)), -t>>
  BY <1>1, <1>3 DEF PilotKey, Flag
<1>5. MapKey(t) = <<1, 0, 0, -t>>
  BY <1>1 DEF MapKey
<1> QED
  BY <1>2, <1>4, <1>5

\* Of two tasks of a meet's day, the one with the larger identifier.
LEMMA LargerBefore ==
    ASSUME TrackTypeOK, NEW m \in Existing, NEW u \in Existing, u < m, MeetOf(m) = MeetOf(u),
           IsToday(m), IsToday(u), ~IsActive(m), ~IsActive(u), IsOut(m) <=> IsOut(u)
    PROVE  /\ Before(PilotKey(m), PilotKey(u)) /\ ~Before(PilotKey(u), PilotKey(m))
           /\ Before(MapKey(m), MapKey(u)) /\ ~Before(MapKey(u), MapKey(m))
<1>1. m \in Int /\ u \in Int /\ LocalDay(MeetOf(m)) \in Int /\ Bucket(m) \in Int
  BY TaskTypes DEF Bucket
<1>2. Bucket(m) = Bucket(u)
  BY DayKeys
<1>3. Before(PilotKey(m), PilotKey(u)) /\ ~Before(PilotKey(u), PilotKey(m))
  <2> DEFINE a == <<Bucket(m), 0, 0, -LocalDay(MeetOf(m)), -m>>
             b == <<Bucket(m), 0, 0, -LocalDay(MeetOf(m)), -u>>
  <2>1. PilotKey(m) = a /\ PilotKey(u) = b
    BY <1>2, DayKeys
  <2>2. /\ DOMAIN a = 1..5 /\ DOMAIN b = 1..5 /\ \A i \in 1..5 : a[i] \in Int
        /\ \A i \in 1..(5 - 1) : a[i] = b[i]
        /\ b[5] \in Int /\ a[5] < b[5] /\ 5 \in Nat \ {0} /\ 5 \in 1..5
    <3>1. 1..5 = {1, 2, 3, 4, 5} /\ 1..(5 - 1) = {1, 2, 3, 4} /\ 5 \in Nat \ {0} /\ 5 \in 1..5
      OBVIOUS
    <3>2. DOMAIN a = 1..5 /\ DOMAIN b = 1..5
      OBVIOUS
    <3>3. -m \in Int /\ -u \in Int /\ -m < -u /\ -LocalDay(MeetOf(m)) \in Int
      BY <1>1
    <3>4. a[1] \in Int /\ a[2] \in Int /\ a[3] \in Int /\ a[4] \in Int /\ a[5] \in Int
      BY <1>1, <3>3
    <3>5. a[1] = b[1] /\ a[2] = b[2] /\ a[3] = b[3] /\ a[4] = b[4]
      OBVIOUS
    <3>6. a[5] < b[5] /\ b[5] \in Int
      BY <3>3
    <3> HIDE DEF a, b
    <3> QED
      BY <3>1, <3>2, <3>4, <3>5, <3>6
  <2> HIDE DEF a, b
  <2>3. Before(a, b) /\ ~Before(b, a)
    BY <2>2, DecidedAt, ZenonT(30)
  <2> QED
    BY <2>1, <2>3
<1>4. Before(MapKey(m), MapKey(u)) /\ ~Before(MapKey(u), MapKey(m))
  <2> DEFINE a == <<1, 0, 0, -m>>
             b == <<1, 0, 0, -u>>
  <2>1. MapKey(m) = a /\ MapKey(u) = b
    BY DayKeys
  <2>2. /\ DOMAIN a = 1..4 /\ DOMAIN b = 1..4 /\ \A i \in 1..4 : a[i] \in Int
        /\ \A i \in 1..(4 - 1) : a[i] = b[i]
        /\ b[4] \in Int /\ a[4] < b[4] /\ 4 \in Nat \ {0} /\ 4 \in 1..4
    <3>1. 1..4 = {1, 2, 3, 4} /\ 1..(4 - 1) = {1, 2, 3} /\ 4 \in Nat \ {0} /\ 4 \in 1..4
      OBVIOUS
    <3>2. DOMAIN a = 1..4 /\ DOMAIN b = 1..4
      OBVIOUS
    <3>3. -m \in Int /\ -u \in Int /\ -m < -u /\ -LocalDay(MeetOf(m)) \in Int
      BY <1>1
    <3>4. a[1] \in Int /\ a[2] \in Int /\ a[3] \in Int /\ a[4] \in Int
      BY <1>1, <3>3
    <3>5. a[1] = b[1] /\ a[2] = b[2] /\ a[3] = b[3]
      OBVIOUS
    <3>6. a[4] < b[4] /\ b[4] \in Int
      BY <3>3
    <3> HIDE DEF a, b
    <3> QED
      BY <3>1, <3>2, <3>4, <3>5, <3>6
  <2> HIDE DEF a, b
  <2>3. Before(a, b) /\ ~Before(b, a)
    BY <2>2, DecidedAt, ZenonT(30)
  <2> QED
    BY <2>1, <2>3
<1> QED
  BY <1>3, <1>4

\* A task of the day is before the published ones of other days, or of none.
LEMMA DayBefore ==
    ASSUME TrackTypeOK, NEW m \in Existing, NEW u \in Existing, MeetOf(m) = MeetOf(u), IsToday(m),
           ~IsActive(m), ~IsActive(u), IsOut(m), Bucket(u) = 2, ~IsToday(u)
    PROVE  Before(PilotKey(m), PilotKey(u)) /\ ~Before(PilotKey(u), PilotKey(m))
<1> DEFINE a == PilotKey(m)
           b == PilotKey(u)
<1>1. a = <<2, 0, 0, -LocalDay(MeetOf(m)), -m>>
  BY DayKeys
<1>2. /\ DOMAIN a = 1..5 /\ DOMAIN b = 1..5 /\ 5 \in Nat \ {0}
      /\ \A i \in 1..5 : a[i] \in Int /\ b[i] \in Int
  BY PilotKeyTyped
<1>3. CASE ~IsDated(u)
  <2>1. b[1] = 2 /\ b[2] = 1
    BY <1>3 DEF PilotKey, Flag
  <2>2. 2 \in 1..5 /\ (\A i \in 1..(2 - 1) : a[i] = b[i]) /\ b[2] \in Int /\ a[2] < b[2]
    BY <1>1, <2>1
  <2> HIDE DEF a, b
  <2>3. Before(a, b) /\ ~Before(b, a)
    BY <1>2, <2>2, DecidedAt, Zenon
  <2> QED
    BY <2>3 DEF a, b
<1>4. CASE IsDated(u)
  <2>1. DayOf(u) \in Int /\ LocalDay(MeetOf(u)) \in Int /\ DayOf(u) # LocalDay(MeetOf(u))
    BY <1>4, TaskTypes DEF IsToday
  <2>2. Apart(LocalDay(MeetOf(u)), DayOf(u)) > 0
    BY <2>1 DEF Apart
  <2>3. b[1] = 2 /\ b[2] = 0 /\ b[3] = Apart(LocalDay(MeetOf(u)), DayOf(u))
    BY <1>4 DEF PilotKey, Flag
  <2>4. 3 \in 1..5 /\ (\A i \in 1..(3 - 1) : a[i] = b[i]) /\ b[3] \in Int /\ a[3] < b[3]
    <3>1. a[1] = 2 /\ a[2] = 0 /\ a[3] = 0 /\ b[3] \in Int
      BY <1>1, <1>2
    <3> HIDE DEF a, b
    <3> QED
      BY <2>2, <2>3, <3>1
  <2> HIDE DEF a, b
  <2>5. Before(a, b) /\ ~Before(b, a)
    <3>1. DOMAIN a = 1..5 /\ DOMAIN b = 1..5 /\ a[3] \in Int /\ b[3] \in Int
      BY <1>2
    <3>2. a[1] = b[1] /\ a[2] = b[2] /\ a[1] \in Int /\ a[2] \in Int
      BY <1>2, <2>4
    <3>3. Before(a, b)
      BY <2>4, <3>1 DEF Before
    <3>4. ASSUME NEW i \in 1..5, b[i] < a[i], \A j \in 1..(i - 1) : b[j] = a[j] PROVE FALSE
      <4>1. i \in {1, 2, 3} \/ 3 \in 1..(i - 1)
        OBVIOUS
      <4> QED
        BY <2>4, <3>1, <3>2, <3>4, <4>1
    <3> QED
      BY <3>1, <3>3, <3>4 DEF Before
  <2> QED
    BY <2>5 DEF a, b
<1> QED
  BY <1>3, <1>4

LEMMA MapShows == TrackTypeOK => MapShowsTheDay
<1> SUFFICES ASSUME TrackTypeOK, NEW p \in Flyers, NEW e \in Meets, enters[p] = {e}, Running(e),
                    \A t \in Existing : ~IsActive(t),
                    \E t \in Existing : MeetOf(t) = e /\ IsOut(t) /\ IsToday(t)
             PROVE  \/ TaskOf(p) = MapTask(e)
                    \/ planned[TaskOf(p)].status = "draft" /\ IsToday(TaskOf(p))
  BY DEF MapShowsTheDay
<1> DEFINE Drafts == {t \in Existing : MeetOf(t) = e /\ IsToday(t) /\ ~IsOut(t)}
           Outs == {t \in Existing : MeetOf(t) = e /\ IsToday(t) /\ IsOut(t)}
<1>1. Existing \subseteq TaskIds /\ \A t \in Existing : planned[t].status \in {"draft", "published"}
  BY TaskTypes DEF Existing, TaskStatuses, IsActive
<1>2. \A t \in Candidates(p) : t \in Existing /\ MeetOf(t) = e /\ Bucket(t) < 3
  BY DEF Candidates
<1>3. \A t \in Drafts \cup Outs : t \in Candidates(p)
  BY DayKeys DEF Candidates
<1>4. \A t \in Candidates(p) : t \in Drafts \/ (Bucket(t) = 2 /\ IsOut(t))
  BY <1>1, <1>2 DEF Bucket, IsOut, IsActive
<1>5. CASE Drafts # {}
  <2>1. PICK m \in Drafts : \A t \in Drafts : t <= m
    <3>1. Drafts \subseteq TaskIds
      BY <1>1
    <3> HIDE DEF Drafts
    <3> QED
      BY <1>5, <3>1, Largest
  <2>2. m \in Candidates(p) /\ m \in Existing /\ Bucket(m) = 1
    BY <1>3, DayKeys
  <2>3. ASSUME NEW u \in Candidates(p) \ {m}
        PROVE  Before(PilotKey(m), PilotKey(u)) /\ ~Before(PilotKey(u), PilotKey(m))
    <3>1. u \in Existing /\ MeetOf(u) = e
      BY <1>2
    <3>2. CASE u \in Drafts
      <4>1. u < m
        BY <2>1, <2>2, <3>1, <3>2, TaskTypes
      <4> QED
        BY <2>1, <3>1, <3>2, <4>1, LargerBefore
    <3>3. CASE u \notin Drafts
      <4>1. /\ DOMAIN PilotKey(m) = 1..5 /\ DOMAIN PilotKey(u) = 1..5 /\ 5 \in Nat \ {0}
            /\ PilotKey(m)[1] \in Int /\ PilotKey(u)[1] \in Int /\ PilotKey(m)[1] < PilotKey(u)[1]
        BY <1>4, <2>2, <3>1, <3>3, PilotKeyTyped
      <4> QED
        BY <4>1, FirstDecides, Zenon
    <3> QED
      BY <3>2, <3>3
  <2>4. TaskOf(p) = m
    BY <2>2, <2>3, FirstForPilots DEF TaskOf
  <2> QED
    BY <1>1, <2>1, <2>2, <2>4 DEF IsOut
<1>6. CASE Drafts = {}
  <2>1. PICK m \in Outs : \A t \in Outs : t <= m
    <3>1. Outs \subseteq TaskIds /\ Outs # {}
      BY <1>1
    <3> HIDE DEF Outs
    <3> QED
      BY <3>1, Largest
  <2>2. m \in Candidates(p) /\ m \in Existing
    BY <1>3
  <2>3. ASSUME NEW u \in Existing \ {m}, MeetOf(u) = e, IsToday(u), IsOut(u)
        PROVE  /\ Before(PilotKey(m), PilotKey(u)) /\ ~Before(PilotKey(u), PilotKey(m))
               /\ Before(MapKey(m), MapKey(u)) /\ ~Before(MapKey(u), MapKey(m))
    <3>1. u < m
      BY <2>1, <2>2, <2>3, TaskTypes
    <3> QED
      BY <2>1, <2>3, <3>1, LargerBefore
  <2>4. ASSUME NEW u \in Candidates(p) \ {m}
        PROVE  Before(PilotKey(m), PilotKey(u)) /\ ~Before(PilotKey(u), PilotKey(m))
    <3>1. u \in Existing \ {m} /\ MeetOf(u) = e /\ Bucket(u) = 2 /\ IsOut(u)
      BY <1>2, <1>4, <1>6
    <3>2. CASE IsToday(u)
      BY <2>3, <3>1, <3>2
    <3>3. CASE ~IsToday(u)
      BY <2>1, <2>2, <3>1, <3>3, DayBefore
    <3> QED
      BY <3>2, <3>3
  <2>5. TaskOf(p) = m
    BY <2>2, <2>4, FirstForPilots DEF TaskOf
  <2> DEFINE S == {t \in Existing : MeetOf(t) = e /\ IsOut(t)}
  <2>6. m \in S /\ S \subseteq Existing
    BY <2>1
  <2>7. ASSUME NEW u \in S \ {m}
        PROVE  Before(MapKey(m), MapKey(u)) /\ ~Before(MapKey(u), MapKey(m))
    <3>1. u \in Existing \ {m} /\ MeetOf(u) = e /\ IsOut(u)
      OBVIOUS
    <3>2. CASE IsToday(u)
      BY <2>3, <3>1, <3>2
    <3>3. CASE ~IsToday(u)
      <4>1. /\ DOMAIN MapKey(m) = 1..4 /\ DOMAIN MapKey(u) = 1..4 /\ 4 \in Nat \ {0}
            /\ MapKey(m)[1] \in Int /\ MapKey(u)[1] \in Int /\ MapKey(m)[1] < MapKey(u)[1]
        BY <2>1, <2>2, <3>1, <3>3, MapKeyTyped
      <4> QED
        BY <4>1, FirstDecides, Zenon
    <3> QED
      BY <3>2, <3>3
  <2>8. MapTask(e) = m
    <3> HIDE DEF S
    <3>1. FirstBy(S, MapKey) = m
      BY <2>6, <2>7, FirstForMap
    <3> QED
      BY <3>1 DEF MapTask, S
  <2> QED
    BY <2>5, <2>8
<1> QED
  BY <1>5, <1>6

-----------------------------------------------------------------------------
\* The tasks chosen by three pieces of code agree with one another and with
\* the day.
THEOREM DayHolds == TrackSpec => []TasksOfTheDay
<1>1. TrackTypeOK => TasksOfTheDay
  BY ActiveGathers, MapShows, DriverSees DEF TasksOfTheDay
<1> QED
  BY <1>1, TrackInitTyped, TrackNextTyped, PTL DEF TrackSpec

-----------------------------------------------------------------------------
(* A pilot's candidates and their keys depend on the tasks of the meets the *)
(* pilot has entered, and on the day.                                       *)
LEMMA SameFirst ==
    ASSUME NEW p \in Flyers, Candidates(p)' = Candidates(p),
           \A t \in Candidates(p) : PilotKey(t)' = PilotKey(t)
    PROVE  TaskOf(p)' = TaskOf(p)
<1> DEFINE S == Candidates(p)
           first == {t \in S : \A u \in S \ {t} : Before(PilotKey(t), PilotKey(u))}
<1>1. first' = first
  BY DEF Before
<1> HIDE DEF first
<1>2. (CHOOSE t \in first' : TRUE) = (CHOOSE t \in first : TRUE)
  BY <1>1
<1>3. TaskOf(p) = IF S = {} THEN NoTask ELSE CHOOSE t \in first : TRUE
  BY Zenon DEF FirstBy, Firsts, first, TaskOf
<1>4. TaskOf(p)' = IF S' = {} THEN NoTask ELSE CHOOSE t \in first' : TRUE
  BY Zenon DEF FirstBy, Firsts, first, TaskOf, Before
<1> DEFINE c == CHOOSE t \in first : TRUE
<1>5. S' = S
  OBVIOUS
<1>6. TaskOf(p) = (IF S = {} THEN NoTask ELSE c)
  BY <1>3
<1>7. TaskOf(p)' = (IF S' = {} THEN NoTask ELSE c')
  BY <1>4
<1>8. c' = c
  BY <1>2
<1> HIDE DEF S, c
<1> QED
  BY <1>5, <1>6, <1>7, <1>8

LEMMA OthersMoveNobody ==
    ASSUME NEW p \in Flyers, today' = today, enters'[p] = enters[p],
           \A t \in TaskIds : planned'[t] # planned[t] =>
               ~HeldIn(planned[t], enters[p]) /\ ~HeldIn(planned'[t], enters[p])
    PROVE  TaskOf(p)' = TaskOf(p)
<1>1. ASSUME NEW t \in TaskIds, planned'[t] = planned[t]
      PROVE  /\ t \in Candidates(p)' <=> t \in Candidates(p)
             /\ PilotKey(t)' = PilotKey(t)
  <2>1. MeetOf(t)' = MeetOf(t) /\ DayOf(t)' = DayOf(t) /\ (t \in Existing' <=> t \in Existing)
    BY <1>1 DEF MeetOf, DayOf, Existing
  <2>2. LocalDay(MeetOf(t))' = LocalDay(MeetOf(t))
    BY <2>1 DEF LocalDay
  <2>3. /\ IsActive(t)' <=> IsActive(t)
        /\ IsDated(t)' <=> IsDated(t)
        /\ IsToday(t)' <=> IsToday(t)
    BY <1>1, <2>1, <2>2 DEF IsActive, IsDated, IsToday, DayOf
  <2>4. Bucket(t)' = Bucket(t)
    BY <1>1, <2>1, <2>2, <2>3 DEF Bucket
  <2>5. Running(MeetOf(t))' <=> Running(MeetOf(t))
    BY <2>1, <2>2 DEF Running
  <2>6. t \in Candidates(p)' <=> t \in Candidates(p)
    BY <2>1, <2>4, <2>5 DEF Candidates
  <2>7. PilotKey(t)' = PilotKey(t)
    BY <2>1, <2>2, <2>3, <2>4 DEF PilotKey, Flag, Apart
  <2> QED
    BY <2>6, <2>7
<1>2. ASSUME NEW t \in TaskIds, planned'[t] # planned[t]
      PROVE  t \notin Candidates(p)' /\ t \notin Candidates(p)
  <2>1. ~HeldIn(planned[t], enters[p]) /\ ~HeldIn(planned'[t], enters'[p])
    BY <1>2
  <2> QED
    BY <2>1 DEF HeldIn, Candidates, Existing, MeetOf
<1>3. Candidates(p) \subseteq TaskIds /\ Candidates(p)' \subseteq TaskIds
  BY DEF Candidates, Existing
<1>4. Candidates(p)' = Candidates(p)
  BY <1>1, <1>2, <1>3
<1>5. \A t \in Candidates(p) : PilotKey(t)' = PilotKey(t)
  BY <1>1, <1>2, <1>3
<1> QED
  BY <1>4, <1>5, SameFirst

\* A pilot is filed under another task only when the day, the pilot's own
\* entries or a task of a meet the pilot has entered changed.
THEOREM OthersMove == TrackSpec => OtherMeetsMoveNobody
<1>1. ASSUME NEW p \in Flyers, TaskOf(p)' # TaskOf(p)
      PROVE  \/ today' # today
             \/ enters'[p] # enters[p]
             \/ \E t \in TaskIds :
                   /\ planned'[t] # planned[t]
                   /\ HeldIn(planned[t], enters[p]) \/ HeldIn(planned'[t], enters[p])
  <2> SUFFICES ASSUME today' = today, enters'[p] = enters[p],
                      \A t \in TaskIds : planned'[t] # planned[t] =>
                         ~HeldIn(planned[t], enters[p]) /\ ~HeldIn(planned'[t], enters[p])
               PROVE  FALSE
    OBVIOUS
  <2>1. TaskOf(p)' = TaskOf(p)
    BY OthersMoveNobody
  <2> QED
    BY <1>1, <2>1
<1>2. \A p \in Flyers :
          TaskOf(p)' # TaskOf(p) =>
              \/ today' # today
              \/ enters'[p] # enters[p]
              \/ \E t \in TaskIds :
                    /\ planned'[t] # planned[t]
                    /\ HeldIn(planned[t], enters[p]) \/ HeldIn(planned'[t], enters[p])
  BY <1>1
<1> QED
  BY <1>2, PTL DEF TrackSpec, OtherMeetsMoveNobody
=============================================================================
