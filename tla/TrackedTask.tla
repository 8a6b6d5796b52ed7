---------------------------- MODULE TrackedTask ----------------------------
(***************************************************************************)
(* Which task a position without one is filed under, which task the public *)
(* map of a meet opens with, and which pilots a driver is shown:           *)
(* resolve_active_task_id and its driver's form in backend/app/services/   *)
(* tracking.py, get_public_live_sources in routers/public.py, the tasks of *)
(* routers/tasks.py and the assignments of routers/driver_routing.py.      *)
(*                                                                         *)
(* Organisers plan, date, publish and activate tasks of meets whose days   *)
(* begin at different times; pilots enter meets; the day passes.  Each     *)
(* choice is the first in an order of its own, given by a sequence of      *)
(* numbers compared from the left.                                         *)
(***************************************************************************)
EXTENDS Integers, Sequences, FiniteSets

CONSTANTS Meets,
          StartsOn, EndsOn,  \* a meet's first and last day
          Ahead,             \* days its time zone is ahead of the clock's
          TaskIds,           \* ids, numbers
          Dates,             \* days tasks are planned for
          Clock,             \* the days that pass
          Flyers,            \* pilots
          NoDate, NoTask

\* The identifiers are of an Integer column.
MaxId == 2147483647

ASSUME DaysAssumption ==
    /\ Dates \subseteq Int /\ Clock \subseteq Int
    /\ TaskIds \subseteq 1..MaxId
    /\ \A e \in Meets : /\ StartsOn[e] \in Int /\ EndsOn[e] \in Int
                        /\ StartsOn[e] <= EndsOn[e] /\ Ahead[e] \in {0, 1}
ASSUME NoneAssumption == NoDate \notin Int /\ NoTask \notin TaskIds

VARIABLES
    planned,   \* each task: [meet, status, date], or NoTask
    today,     \* the clock's day
    enters,    \* the meets each pilot has entered
    assigned,  \* the pilots of the one driver, for each task
    refused    \* tasks whose driver's list was last refused (history)

trackvars == <<planned, today, enters, assigned, refused>>

TaskStatuses == {"draft", "published", "active"}
Task == [meet : Meets, status : TaskStatuses, date : Dates \cup {NoDate}]

ASSUME NoTaskAssumption == NoTask \notin Task

TrackTypeOK ==
    /\ planned \in [TaskIds -> Task \cup {NoTask}]
    /\ today \in Clock
    /\ enters \in [Flyers -> SUBSET Meets]
    /\ assigned \in [TaskIds -> SUBSET Flyers]
    /\ refused \subseteq TaskIds
    /\ \A t \in TaskIds : planned[t] = NoTask => assigned[t] = {}

TrackInit ==
    /\ planned = [t \in TaskIds |-> NoTask]
    /\ today \in Clock
    /\ enters \in [Flyers -> SUBSET Meets]
    /\ assigned = [t \in TaskIds |-> {}]
    /\ refused = {}

-----------------------------------------------------------------------------
(* Orders *)

Existing == {t \in TaskIds : planned[t] # NoTask}
MeetOf(t) == planned[t].meet
IsActive(t) == planned[t].status = "active"
IsOut(t) == planned[t].status \in {"published", "active"}
IsDated(t) == planned[t].date # NoDate
DayOf(t) == planned[t].date

\* The date in the meet's time zone; the meet is on.
LocalDay(e) == today + Ahead[e]
Running(e) == StartsOn[e] <= LocalDay(e) /\ LocalDay(e) <= EndsOn[e]

\* Tuples in Python's order.
Before(a, b) ==
    \E i \in DOMAIN a : a[i] < b[i] /\ \A j \in 1..(i - 1) : a[j] = b[j]

\* What stands before all others.
Firsts(tasks, Key(_)) == {t \in tasks : \A u \in tasks \ {t} : Before(Key(t), Key(u))}
FirstBy(tasks, Key(_)) == IF tasks = {} THEN NoTask ELSE CHOOSE t \in Firsts(tasks, Key) : TRUE

Flag(b) == IF b THEN 1 ELSE 0
Apart(d, e) == IF d < e THEN e - d ELSE d - e

-----------------------------------------------------------------------------
(* The task of a pilot *)

IsToday(t) == DayOf(t) = LocalDay(MeetOf(t))

\* A mutant of Bucket: the day before the activation.
BucketByDay(t) ==
    CASE IsToday(t) -> 0
      [] ~IsToday(t) /\ IsActive(t) -> 1
      [] ~IsToday(t) /\ ~IsActive(t) /\ IsOut(t) -> 2
      [] OTHER -> 3

\* Active, a draft of the day, published for the day, earlier or no day.
Bucket(t) ==
    CASE IsActive(t) -> 0
      [] planned[t].status = "draft" /\ IsToday(t) -> 1
      [] planned[t].status = "published" /\ (~IsDated(t) \/ DayOf(t) <= LocalDay(MeetOf(t))) -> 2
      [] OTHER -> 3

\* A mutant of Candidates: entries are not asked for.
CandidatesAnywhere(p) == {t \in Existing : Running(MeetOf(t)) /\ Bucket(t) < 3}

Candidates(p) ==
    {t \in Existing : MeetOf(t) \in enters[p] /\ Running(MeetOf(t)) /\ Bucket(t) < 3}

PilotKey(t) ==
    <<Bucket(t), Flag(~IsDated(t)),
      IF IsDated(t) THEN Apart(LocalDay(MeetOf(t)), DayOf(t)) ELSE 0,
      -(IF IsDated(t) THEN DayOf(t) ELSE StartsOn[MeetOf(t)]), -t>>

TaskOf(p) == FirstBy(Candidates(p), PilotKey)

-----------------------------------------------------------------------------
(* The task of a driver, and the pilots the driver is shown for one *)

NewestKey(t) ==
    <<Flag(~IsActive(t)), Flag(~IsDated(t)), IF IsDated(t) THEN -DayOf(t) ELSE 0, -t>>

DriversTask ==
    LET own == {t \in Existing : assigned[t] # {} /\ IsOut(t)}
    IN FirstBy(IF own # {} THEN own ELSE {t \in Existing : IsOut(t)}, NewestKey)

\* Without any assigned, all pilots of the meet.
PilotsShown(t) ==
    IF assigned[t] # {} THEN assigned[t] ELSE {p \in Flyers : MeetOf(t) \in enters[p]}

-----------------------------------------------------------------------------
(* The task the public map of a meet opens with *)

MapKey(t) ==
    LET day == LocalDay(MeetOf(t))
    IN CASE IsActive(t) -> <<0, Flag(~IsDated(t)), IF IsDated(t) THEN -DayOf(t) ELSE 0, -t>>
         [] ~IsActive(t) /\ IsToday(t) -> <<1, 0, 0, -t>>
         [] ~IsActive(t) /\ IsDated(t) /\ DayOf(t) > day -> <<2, 0, DayOf(t) - day, t>>
         [] ~IsActive(t) /\ IsDated(t) /\ DayOf(t) < day -> <<3, 0, day - DayOf(t), -t>>
         [] ~IsActive(t) /\ ~IsDated(t) -> <<4, 0, 0, -t>>

MapTask(e) == FirstBy({t \in Existing : MeetOf(t) = e /\ IsOut(t)}, MapKey)

-----------------------------------------------------------------------------
(* Organisers, pilots and the clock *)

\* create_task, with any status, and update_task.
Plan(t, e, status, date) ==
    /\ planned[t] = NoTask
    /\ planned' = [planned EXCEPT ![t] = [meet |-> e, status |-> status, date |-> date]]
    /\ UNCHANGED <<today, enters, assigned, refused>>

Amend(t, status, date) ==
    /\ t \in Existing
    /\ planned' = [planned EXCEPT ![t] = [meet |-> MeetOf(t), status |-> status, date |-> date]]
    /\ UNCHANGED <<today, enters, assigned, refused>>

\* publish_task and unpublish_task.
SetOut(t, status) ==
    /\ t \in Existing /\ status \in {"published", "draft"}
    /\ planned' = [planned EXCEPT ![t] = [meet |-> MeetOf(t), status |-> status, date |-> DayOf(t)]]
    /\ UNCHANGED <<today, enters, assigned, refused>>

\* delete_task; the assignments go with it.
Drop(t) ==
    /\ t \in Existing
    /\ planned' = [planned EXCEPT ![t] = NoTask]
    /\ assigned' = [assigned EXCEPT ![t] = {}]
    /\ refused' = refused \ {t}
    /\ UNCHANGED <<today, enters>>

\* What set_driver_assignments leaves: the new rows are inserted before the
\* old ones are deleted, so that a pilot in both lists fails the request.
Replaced(t, pilots) ==
    IF pilots \cap assigned[t] = {} THEN pilots ELSE assigned[t]

Assign(t, pilots) ==
    /\ t \in Existing
    /\ assigned' = [assigned EXCEPT ![t] = Replaced(t, pilots)]
    /\ refused' = IF assigned'[t] = pilots /\ (pilots = {} \/ pilots # assigned[t])
                  THEN refused \ {t} ELSE refused \cup {t}
    /\ UNCHANGED <<planned, today, enters>>

EnterMeet(p, e) ==
    /\ enters' = [enters EXCEPT ![p] = @ \cup {e}]
    /\ UNCHANGED <<planned, today, assigned, refused>>

LeaveMeet(p, e) ==
    /\ enters' = [enters EXCEPT ![p] = @ \ {e}]
    /\ UNCHANGED <<planned, today, assigned, refused>>

DayPasses ==
    /\ today + 1 \in Clock
    /\ today' = today + 1
    /\ UNCHANGED <<planned, enters, assigned, refused>>

TrackNext ==
    \/ \E t \in TaskIds, d \in Dates \cup {NoDate}, s \in TaskStatuses :
          Amend(t, s, d) \/ \E e \in Meets : Plan(t, e, s, d)
    \/ \E t \in TaskIds : \/ \E s \in TaskStatuses : SetOut(t, s)
                          \/ Drop(t)
                          \/ \E pilots \in SUBSET Flyers : Assign(t, pilots)
    \/ \E p \in Flyers, e \in Meets : EnterMeet(p, e) \/ LeaveMeet(p, e)
    \/ DayPasses

TrackSpec == TrackInit /\ [][TrackNext]_trackvars

-----------------------------------------------------------------------------
(* Properties *)

\* While one task is active, whatever else is planned, dated or published in
\* any meet, every pilot of its meet is filed under it if the meet is on, so
\* is the driver unless assigned elsewhere, and the map opens with it: three
\* orders written apart agree (tracking.py 354-457, public.py 568-583).
OneActiveGathersAll ==
    \A t \in Existing :
        IsActive(t) /\ (\A u \in Existing \ {t} : ~IsActive(u)) =>
            /\ MapTask(MeetOf(t)) = t
            /\ Running(MeetOf(t)) => \A p \in Flyers : MeetOf(t) \in enters[p] => TaskOf(p) = t
            /\ (\A u \in Existing \ {t} : assigned[u] = {}) => DriversTask = t

\* With no task active, the map opens with the task of the day the pilots of a
\* meet that is on are filed under, unless a draft of that day, which the
\* public does not see, takes their positions.
MapShowsTheDay ==
    \A p \in Flyers, e \in Meets :
        /\ enters[p] = {e} /\ Running(e)
        /\ \A t \in Existing : ~IsActive(t)
        /\ \E t \in Existing : MeetOf(t) = e /\ IsOut(t) /\ IsToday(t)
        => \/ TaskOf(p) = MapTask(e)
           \/ planned[TaskOf(p)].status = "draft" /\ IsToday(TaskOf(p))

HeldIn(task, meets) == task # NoTask /\ task.meet \in meets

\* A pilot's task changes only with the day, the pilot's own entries or a task
\* of a meet the pilot has entered: organisers of other meets move nobody.
OtherMeetsMoveNobody ==
    [][\A p \in Flyers :
          TaskOf(p)' # TaskOf(p) =>
              \/ today' # today
              \/ enters'[p] # enters[p]
              \/ \E t \in TaskIds :
                    /\ planned'[t] # planned[t]
                    /\ HeldIn(planned[t], enters[p]) \/ HeldIn(planned'[t], enters[p])]_trackvars

\* A driver is always shown somebody to drive for if the meet of the driver's
\* task has pilots, and only the driver's own once there are any: losing the
\* last of them brings back all (routers/tracking.py 1309-1355).
DriverHasPilots ==
    \A t \in Existing :
        /\ (\E p \in Flyers : MeetOf(t) \in enters[p]) => PilotsShown(t) # {}
        /\ assigned[t] # {} => PilotsShown(t) = assigned[t]

\* set_driver_assignments "replaces existing assignments" (driver_routing.py
\* 317): no list for an existing task is refused.
ListReplaces == refused = {}

\* The tasks chosen by three pieces of code for a position, for the map and for
\* a driver are those of the day.
TasksOfTheDay == TrackTypeOK /\ OneActiveGathersAll /\ MapShowsTheDay /\ DriverHasPilots
=============================================================================
