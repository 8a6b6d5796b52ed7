--------------------------- MODULE MeetStatsCache ---------------------------
(***************************************************************************)
(* The cache of an event's meet statistics (backend/app/services/          *)
(* scoring.py 804-982, its callers in backend/app/routers).  Every request *)
(* that changes scores marks the event's cache rows stale in its own       *)
(* transaction and, once that has committed, queues a background refresh;  *)
(* every viewer who finds a row that is not fresh queues one too.  A set   *)
(* of pending event ids keeps at most one refresh per event under way.     *)
(*                                                                         *)
(* What a payload says is abstracted to one bit: whether it is computed    *)
(* from the scores as they are committed now.  Transactions are READ       *)
(* COMMITTED: a request writes at its commit what it decided at its read.  *)
(***************************************************************************)
EXTENDS Naturals, Sequences, FiniteSets

CONSTANTS Events,     \* events with statistics
          NumScopes,  \* variants of the statistics, refreshed in this order
          Writers,    \* requests that change scores, at any one time
          Viewers,    \* requests that show statistics, at any one time
          NoEvent     \* the refresh thread is idle

ASSUME NumScopesAssumption == NumScopes \in Nat \ {0}
ASSUME ClientsAssumption == Writers \cap Viewers = {}
ASSUME NoEventAssumption == NoEvent \notin Events
ASSUME EventsAssumption == IsFiniteSet(Events)

Scopes == 1..NumScopes
Clients == Writers \cup Viewers

VARIABLES
    row,       \* cache_status of the committed row, or "none": no row
    current,   \* the row's payload is computed from the committed scores
    pending,   \* _meet_stats_refresh_pending
    jobs,      \* the queue of the executor, which has one thread
    running,   \* the event that thread refreshes
    stage,     \* where the thread is
    cursor,    \* the scope it is at; those before it are flushed, not committed
    built,     \* its payloads that are computed from the committed scores
    pc,        \* where each request is
    on,        \* the event a request is about
    scope,     \* the scope a viewer asks for
    marks,     \* the rows a writer will mark stale
    seen,      \* the status a viewer read
    raced      \* events with a change and a refresh that overlapped (history)

statsvars == <<row, current, pending, jobs, running, stage, cursor, built, pc, on,
          scope, marks, seen, raced>>

Statuses == {"none", "stale", "refreshing", "fresh"}

StatsTypeOK ==
    /\ row \in [Events -> [Scopes -> Statuses]]
    /\ current \in [Events -> [Scopes -> BOOLEAN]]
    /\ pending \subseteq Events
    /\ jobs \in Seq(Events) /\ Len(jobs) <= Cardinality(Events)
    /\ running \in Events \cup {NoEvent}
    /\ stage \in {"idle", "build", "store", "finish"}
    /\ cursor \in 1..NumScopes + 1
    /\ built \subseteq Scopes
    /\ pc \in [Clients -> {"idle", "invalidated", "queueing", "marking"}]
    /\ on \in [Clients -> Events \cup {NoEvent}]
    /\ scope \in [Viewers -> Scopes]
    /\ marks \in [Writers -> SUBSET Scopes]
    /\ seen \in [Viewers -> Statuses]
    /\ raced \subseteq Events

StatsInit ==
    /\ row = [e \in Events |-> [s \in Scopes |-> "none"]]
    /\ current = [e \in Events |-> [s \in Scopes |-> FALSE]]
    /\ pending = {}
    /\ jobs = <<>>
    /\ running = NoEvent
    /\ stage = "idle"
    /\ cursor = 1
    /\ built = {}
    /\ pc = [c \in Clients |-> "idle"]
    /\ on = [c \in Clients |-> NoEvent]
    /\ scope = [v \in Viewers |-> 1]
    /\ marks = [w \in Writers |-> {}]
    /\ seen = [v \in Viewers |-> "none"]
    /\ raced = {}

worker == <<running, stage, cursor, built>>
clients == <<pc, on, scope, marks, seen>>

-----------------------------------------------------------------------------
\* The refresh of e has begun and has not committed: its transaction is open.
Refreshing(e) == running = e /\ stage \in {"build", "store"}

\* Rows the refresh has flushed: locked until it commits.
Locked(e) == IF Refreshing(e) THEN {s \in Scopes : s < cursor} ELSE {}

ChangeOpen(e) == \E w \in Writers : pc[w] = "invalidated" /\ on[w] = e

Return(c) ==
    /\ pc' = [pc EXCEPT ![c] = "idle"]
    /\ on' = [on EXCEPT ![c] = NoEvent]

\* Mutants of NeedsJob, LeftAsIs and Finished, below.
AlwaysNeedsJob(e) == TRUE
AllMarked == Statuses
FinishedIfCommitted(e) == IF cursor > NumScopes THEN {e} ELSE {}

\* The test under _meet_stats_refresh_lock.
NeedsJob(e) == e \notin pending

\* Statuses a row may have that invalidation leaves as they are: there is no
\* row, or the payload with status "stale" equals the one that was read and
\* SQLAlchemy writes no UPDATE.
LeftAsIs == {"none", "stale"}

AllStored == cursor > NumScopes

\* What the finally clause takes out of the pending set.
Finished(e) == {e}

-----------------------------------------------------------------------------
(* Requests that change scores *)

\* invalidate_event_meet_stats_cache, within the transaction of the change.
Invalidate(w, e) ==
    /\ pc[w] = "idle"
    /\ pc' = [pc EXCEPT ![w] = "invalidated"]
    /\ on' = [on EXCEPT ![w] = e]
    /\ marks' = [marks EXCEPT ![w] = {s \in Scopes : row[e][s] \notin LeftAsIs}]
    /\ UNCHANGED <<row, current, pending, jobs, worker, scope, seen, raced>>

\* The commit: the scores change and the marked rows are written, which waits
\* for a refresh that has flushed one of them.
CommitChange(w) ==
    LET e == on[w] IN
    /\ pc[w] = "invalidated"
    /\ marks[w] \cap Locked(e) = {}
    /\ row' = [row EXCEPT ![e] =
                 [s \in Scopes |-> IF s \in marks[w] THEN "stale" ELSE @[s]]]
    /\ current' = [current EXCEPT ![e] = [s \in Scopes |-> FALSE]]
    /\ built' = IF running = e THEN {} ELSE built
    /\ raced' = IF Refreshing(e) THEN raced \cup {e} ELSE raced
    /\ pc' = [pc EXCEPT ![w] = "queueing"]
    /\ UNCHANGED <<pending, jobs, running, stage, cursor, on, scope, marks,
                   seen>>

\* The request fails: after_rollback forgets the refresh it would have queued.
RollBack(w) ==
    /\ pc[w] = "invalidated"
    /\ Return(w)
    /\ UNCHANGED <<row, current, pending, jobs, worker, scope, marks, seen,
                   raced>>

-----------------------------------------------------------------------------
(* Requests that show statistics *)

\* build_cached_meet_stats_payload: a row that is not fresh.
View(v, e, s) ==
    /\ pc[v] = "idle"
    /\ row[e][s] # "fresh"
    /\ pc' = [pc EXCEPT ![v] = "queueing"]
    /\ on' = [on EXCEPT ![v] = e]
    /\ scope' = [scope EXCEPT ![v] = s]
    /\ seen' = [seen EXCEPT ![v] = row[e][s]]
    /\ UNCHANGED <<row, current, pending, jobs, worker, marks, raced>>

\* queue_event_meet_stats_refresh, called by a viewer, or after the commit of
\* a change.
QueueRefresh(c) ==
    LET e == on[c] IN
    /\ pc[c] = "queueing"
    /\ IF NeedsJob(e)
       THEN /\ pending' = pending \cup {e}
            /\ jobs' = Append(jobs, e)
       ELSE UNCHANGED <<pending, jobs>>
    /\ IF c \in Viewers
       THEN pc' = [pc EXCEPT ![c] = "marking"] /\ UNCHANGED on
       ELSE Return(c)
    /\ UNCHANGED <<row, current, worker, scope, marks, seen, raced>>

\* The viewer's write and commit, decided by what it read: INSERT if it saw no
\* row (an IntegrityError if there is one by now, and a rollback), UPDATE if it
\* saw a stale one, nothing if the row was marked already.
MarkRefreshing(v) ==
    LET e == on[v]
        s == scope[v]
        writes == seen[v] = "stale" \/ (seen[v] = "none" /\ row[e][s] = "none")
    IN
    /\ pc[v] = "marking"
    /\ seen[v] # "refreshing" => s \notin Locked(e)
    /\ IF writes
       THEN /\ row' = [row EXCEPT ![e][s] = "refreshing"]
            /\ current' = [current EXCEPT ![e][s] = FALSE]
       ELSE UNCHANGED <<row, current>>
    /\ Return(v)
    /\ UNCHANGED <<pending, jobs, worker, scope, marks, seen, raced>>

-----------------------------------------------------------------------------
(* The refresh thread: _run_event_meet_stats_refresh *)

\* The thread takes the next job; the sleep before the first read is here.
StartJob ==
    /\ stage = "idle"
    /\ jobs # <<>>
    /\ running' = Head(jobs)
    /\ jobs' = Tail(jobs)
    /\ stage' = "build"
    /\ cursor' = 1
    /\ built' = {}
    /\ UNCHANGED <<row, current, pending, clients, raced>>

\* build_meet_stats_payload of the next scope.
Build ==
    /\ stage = "build"
    /\ ~AllStored
    /\ built' = built \cup {cursor}
    /\ stage' = "store"
    /\ UNCHANGED <<row, current, pending, jobs, running, cursor, clients, raced>>

\* _store_meet_stats_cache_payload: the row is flushed, not committed.
Store ==
    /\ stage = "store"
    /\ cursor' = cursor + 1
    /\ stage' = "build"
    /\ UNCHANGED <<row, current, pending, jobs, running, built, clients, raced>>

\* The commit: every row becomes "fresh".  A refresh that no change overlaps
\* makes up for earlier ones that were overlapped.
CommitJob ==
    /\ stage = "build"
    /\ AllStored
    /\ row' = [row EXCEPT ![running] = [s \in Scopes |-> "fresh"]]
    /\ current' = [current EXCEPT ![running] = [s \in Scopes |-> s \in built]]
    /\ stage' = "finish"
    /\ raced' = IF ChangeOpen(running) THEN raced \cup {running}
                ELSE IF built = Scopes THEN raced \ {running} ELSE raced
    /\ UNCHANGED <<pending, jobs, running, cursor, built, clients>>

\* An exception, logged; the transaction is rolled back.
FailJob ==
    /\ stage \in {"build", "store"}
    /\ stage' = "finish"
    /\ UNCHANGED <<row, current, pending, jobs, running, cursor, built, clients,
                   raced>>

\* The finally clause.
FinishJob ==
    /\ stage = "finish"
    /\ pending' = pending \ Finished(running)
    /\ running' = NoEvent
    /\ stage' = "idle"
    /\ cursor' = 1
    /\ built' = {}
    /\ UNCHANGED <<row, current, jobs, clients, raced>>

\* The server restarts: the rows are all that is kept.
ServerRestart ==
    /\ pending' = {}
    /\ jobs' = <<>>
    /\ running' = NoEvent
    /\ stage' = "idle"
    /\ cursor' = 1
    /\ built' = {}
    /\ pc' = [c \in Clients |-> "idle"]
    /\ on' = [c \in Clients |-> NoEvent]
    /\ UNCHANGED <<row, current, scope, marks, seen, raced>>

-----------------------------------------------------------------------------
StatsNext ==
    \/ \E w \in Writers : \/ \E e \in Events : Invalidate(w, e)
                          \/ CommitChange(w)
                          \/ RollBack(w)
    \/ \E v \in Viewers : \/ \E e \in Events, s \in Scopes : View(v, e, s)
                          \/ MarkRefreshing(v)
    \/ \E c \in Clients : QueueRefresh(c)
    \/ StartJob \/ Build \/ Store \/ CommitJob \/ FailJob \/ FinishJob
    \/ ServerRestart

StatsSpec == StatsInit /\ [][StatsNext]_statsvars

\* Requests run to their end, the thread works, and somebody keeps looking at
\* every statistic.  Nothing is assumed of those who change scores.
StatsFairness ==
    /\ WF_statsvars(StartJob) /\ WF_statsvars(Build) /\ WF_statsvars(Store)
    /\ WF_statsvars(CommitJob) /\ WF_statsvars(FinishJob)
    /\ \A c \in Clients : WF_statsvars(QueueRefresh(c))
    /\ \A v \in Viewers : WF_statsvars(MarkRefreshing(v))
    /\ \A w \in Writers : WF_statsvars(CommitChange(w) \/ RollBack(w))
    /\ \A e \in Events, s \in Scopes :
          WF_statsvars(\E v \in Viewers : View(v, e, s))

-----------------------------------------------------------------------------
(* Properties *)

\* The cache hands this row out as the event's statistics, and it is not.
Wrong(e, s) == row[e][s] = "fresh" /\ ~current[e][s]

\* A pending event has exactly one job, queued or running, and an event that
\* is not pending has none: a leftover entry in the pending set would stop the
\* event's refreshes for ever (scoring.py 874-886).
PendingIsOneJob ==
    \A e \in Events :
        Cardinality({i \in 1..Len(jobs) : jobs[i] = e})
          + (IF running = e THEN 1 ELSE 0) = (IF e \in pending THEN 1 ELSE 0)

\* Outdated statistics are handed out as fresh only where a change and a
\* refresh of the same event overlapped: whatever viewers, rollbacks, failed
\* refreshes and restarts do in between (scoring.py 846-911).
WrongOnlyAfterOverlap == \A e \in Events, s \in Scopes : Wrong(e, s) => e \in raced

\* Once changes, failures and restarts have ceased, a statistic somebody looks
\* at becomes fresh (scoring.py 862-893, 937-958): the pending set and the
\* "refreshing" mark never block the refresh they announce.
ViewedBecomesFresh ==
    <>[][~ServerRestart /\ ~FailJob /\ \A w \in Writers : ~CommitChange(w)]_statsvars
        => \A e \in Events, s \in Scopes :
             row[e][s] # "fresh" ~> row[e][s] = "fresh"
=============================================================================
