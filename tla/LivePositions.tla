--------------------------- MODULE LivePositions ---------------------------
(***************************************************************************)
(* The positions of the day (backend/app/services/tracking.py): stored     *)
(* together with a summary of each subject's tracking session, shown by    *)
(* windows in the event's timezone, pruned when their day is over, purged  *)
(* with the account they belong to.                                        *)
(*                                                                         *)
(* Time passes in halves of a day.  A subject is an account with its     *)
(* pilot.  A position is stored by reading the session, then writing both; *)
(* an account is deleted by purging, then deleting.  Only committed rows   *)
(* are seen by others.                                                     *)
(***************************************************************************)
EXTENDS Integers, FiniteSets, Database

CONSTANTS Subjects,
          Tasks,
          Zone,          \* the offset of the events' timezone, in half-days
          RowLimit,      \* the rows that a live map reads, 1000
          MaxPositions,  \* bound on the positions stored
          LastHalf    \* bound on the clock

ASSUME ZoneAssumption == Zone \in -1..1

VARIABLES clock,
          position,  \* live_positions
          session,   \* tracking_sessions, by number
          account,   \* the accounts that exist
          pruning,   \* site_settings.live_position_pruning_enabled
          storing,   \* what each request under way has read
          purging,   \* the account that an administrator is deleting, and its rows
          told,      \* history: the positions of the day that were answered with success
          crossed    \* history: the subjects whose requests ran side by side

livevars == <<clock, position, session, account, pruning, storing, purging, told, crossed>>

Ids == 1..MaxPositions
HalfDays == 0..LastHalf
Scopes == Tasks \cup {None}
Position == [who : Subjects, task : Scopes, at : HalfDays, app : HalfDays \cup {None}]
TrackingSession == [who : Subjects, task : Scopes, seen : HalfDays, count : Ids, active : BOOLEAN]

ASSUME BoundsAssumption == {MaxPositions, LastHalf, RowLimit} \subseteq Nat \ {0}
ASSUME NoneAssumption == None \notin Int /\ None \notin Position /\ None \notin TrackingSession

LiveTypeOK ==
    /\ clock \in HalfDays
    /\ position \in [Ids -> Position \cup {None}]
    /\ session \in [Ids -> TrackingSession \cup {None}]
    /\ account \subseteq Subjects
    /\ pruning \in BOOLEAN
    /\ DOMAIN storing = Requests
    /\ \A r \in Requests : storing[r] # None =>
          storing[r] \in [new : Position, row : TrackingSession, id : Ids \cup {None, 0}]
    /\ purging # None =>
          purging \in [who : Subjects, sessions : SUBSET Ids, found : SUBSET Ids]
    /\ told \subseteq (Ids \X Position)
    /\ crossed \subseteq Subjects

LiveInit ==
    /\ clock = 1
    /\ position = [i \in Ids |-> None]
    /\ session = [i \in Ids |-> None]
    /\ account = Subjects
    /\ pruning \in BOOLEAN
    /\ storing = [r \in Requests |-> None]
    /\ purging = None
    /\ told = {}
    /\ crossed = {}

-----------------------------------------------------------------------------
(* Windows                                                                 *)

\* The day of an instant in the timezone of a task; days are cut at midnight.
LocalDay(task, q) == (q + IF task = None THEN 0 ELSE Zone) \div 2

\* _current_day_position_clause
CurrentDay(p, now) == LocalDay(p.task, p.at) = LocalDay(p.task, now)

\* _received_app_position_clause: received on this UTC day, at most 12 hours old
ReceivedToday(p, now) == p.app # None /\ p.app \div 2 = now \div 2 /\ p.at >= now - 1

\* _live_visibility_position_clause
Visible(p, now) == CurrentDay(p, now) \/ ReceivedToday(p, now)

Stored == {i \in Ids : position[i] # None}

\* get_position_history: what a task's page shows.
History(task) == {i \in Stored : position[i].task = task /\ CurrentDay(position[i], clock)}

Newest(S) == {i \in S : \A j \in S : position[i].who = position[j].who => position[i].at >= position[j].at}

ActiveSessions == {s \in Ids : session[s] # None /\ session[s].active}

\* What the database answers of the rows S: the latest, up to the limit, and of
\* rows of one time any.
Read(S) ==
    {T \in SUBSET S : /\ \A i \in T, j \in S \ T : position[i].at >= position[j].at
                      /\ Cardinality(T) = RowLimit \/ (T = S /\ Cardinality(S) < RowLimit)}

\* get_live_positions, as the set of its answers: of the rows read, the newest of
\* each subject that has an active session.
Live(task) ==
    {Newest(T) : T \in Read({i \in Stored : /\ position[i].task = task
                                            /\ Visible(position[i], clock)
                                            /\ \E s \in ActiveSessions : /\ session[s].task = task
                                                                         /\ session[s].who = position[i].who})}

\* get_all_active_positions: the same over all tasks and free flights.
AllLive ==
    {Newest(T) : T \in Read({i \in Stored : /\ Visible(position[i], clock)
                                            /\ \E s \in ActiveSessions : session[s].who = position[i].who})}

\* The rows of an account that is being deleted are held until that is done.
Deleting(u) == purging # None /\ purging.who = u

-----------------------------------------------------------------------------
(* store_position                                                          *)

\* The lowest number free, as those under way take one as well.
FreeId(f) == CHOOSE i \in Ids : f[i] = None /\ \A j \in 1..(i - 1) : f[j] # None

\* The session that is read: of several, any.
SessionsOf(who, task) == {s \in ActiveSessions : session[s].who = who /\ session[s].task = task}

Later(a, b) == IF a >= b THEN a ELSE b

\* The session with other columns
Updated(s, seen, count, active) ==
    [who |-> session[s].who, task |-> session[s].task, seen |-> seen, count |-> count, active |-> active]

Summary(s, new) == Updated(s, Later(session[s].seen, new.at), session[s].count + 1, session[s].active)

BeginStore(r, who, task, at, app) ==
    LET new == [who |-> who, task |-> task, at |-> at,
                app |-> IF app THEN clock ELSE None]
        busy == \E q \in Requests : storing[q] # None /\ storing[q].new.who = who
    IN  /\ storing[r] = None
        /\ who \in account
        /\ at \in {clock - 1, clock}
        /\ \/ /\ SessionsOf(who, task) = {}
              /\ storing' = [storing EXCEPT ![r] =
                    [new |-> new, id |-> None,
                     row |-> [who |-> who, task |-> task, seen |-> at, count |-> 1, active |-> TRUE]]]
           \/ \E s \in SessionsOf(who, task) :
                 /\ session[s].count < MaxPositions
                 /\ storing' = [storing EXCEPT ![r] = [new |-> new, id |-> s, row |-> Summary(s, new)]]
        /\ crossed' = IF busy \/ Deleting(who) THEN crossed \cup {who} ELSE crossed
        /\ UNCHANGED <<clock, position, session, account, pruning, purging, told>>

\* The session may have been deleted (StaleDataError), the account too (foreign
\* key); its rows may be held by a purge that waits for this request (deadlock).
StoreFails(w) ==
    \/ w.new.who \notin account
    \/ w.id = 0
    \/ w.id # None /\ Deleting(w.new.who)

\* Of the session's columns only those that changed are written: closed stays closed.
CommitStore(r) ==
    LET w == storing[r]
    IN  /\ w # None
        /\ ~StoreFails(w)
        /\ \E i \in Ids : position[i] = None
        /\ LET i == FreeId(position) IN
             /\ position' = [position EXCEPT ![i] = w.new]
             /\ told' = told \cup {<<i, w.new>>}
        /\ IF w.id = None
           THEN \E s \in Ids : session[s] = None
                               /\ session' = [session EXCEPT ![FreeId(session)] = w.row]
           ELSE session' = [session EXCEPT ![w.id] = Updated(w.id, w.row.seen, w.row.count, session[w.id].active)]
        /\ storing' = [storing EXCEPT ![r] = None]
        /\ UNCHANGED <<clock, account, pruning, purging, crossed>>

FailStore(r) ==
    /\ storing[r] # None
    /\ StoreFails(storing[r])
    /\ storing' = [storing EXCEPT ![r] = None]
    /\ UNCHANGED <<clock, position, session, account, pruning, purging, told, crossed>>

-----------------------------------------------------------------------------
(* Deleting                                                                *)

Close(S) == [s \in Ids |-> IF s \in S THEN Updated(s, session[s].seen, session[s].count, FALSE) ELSE session[s]]

\* delete_user_account: the sessions of the account's pilot are closed and the
\* positions deleted; what is stored after that was not seen.
BeginPurge(u) ==
    /\ purging = None
    /\ u \in account
    /\ purging' = [who |-> u, sessions |-> {s \in Ids : session[s] # None /\ session[s].who = u},
                   found |-> {i \in Stored : position[i].who = u}]
    /\ crossed' = IF \E r \in Requests : storing[r] # None /\ storing[r].new.who = u
                  THEN crossed \cup {u} ELSE crossed
    /\ UNCHANGED <<clock, position, session, account, pruning, storing, told>>

\* The account is deleted in the same transaction.
CommitPurge ==
    /\ purging # None
    /\ session' = Close(purging.sessions)
    /\ position' = [i \in Ids |-> IF i \in purging.found THEN None ELSE position[i]]
    /\ told' = {t \in told : t[1] \notin purging.found}
    /\ account' = account \ {purging.who}
    /\ purging' = None
    /\ UNCHANGED <<clock, pruning, storing, crossed>>

\* The victim of a deadlock with a request that has read one of the sessions.
AbortPurge ==
    /\ purging # None
    /\ \E r \in Requests : storing[r] # None /\ storing[r].id \in purging.sessions
    /\ purging' = None
    /\ UNCHANGED <<clock, position, session, account, pruning, storing, told, crossed>>

\* Mutant of Prunable: what is not of UTC's day.
Old(p, now) == p.at \div 2 # now \div 2

Prunable(p, now) == ~CurrentDay(p, now)

\* prune_old_live_positions, every five minutes and when the server starts
Prune ==
    /\ pruning
    /\ purging = None
    /\ \E i \in Stored : Prunable(position[i], clock)
    /\ position' = [i \in Ids |-> IF i \in Stored /\ Prunable(position[i], clock)
                                  THEN None ELSE position[i]]
    /\ UNCHANGED <<clock, session, account, pruning, storing, purging, told, crossed>>

\* delete_all_live_tracking_data
DeleteAllLive ==
    /\ purging = None
    /\ position' = [i \in Ids |-> None]
    /\ session' = [s \in Ids |-> None]
    /\ told' = {}
    /\ storing' = [r \in Requests |->
          IF storing[r] # None /\ storing[r].id # None
          THEN [new |-> storing[r].new, row |-> storing[r].row, id |-> 0] ELSE storing[r]]
    /\ UNCHANGED <<clock, account, pruning, purging, crossed>>

\* update_site_settings
SetPruning ==
    /\ pruning' = ~pruning
    /\ UNCHANGED <<clock, position, session, account, storing, purging, told, crossed>>

\* No request takes that long.
PassHalfDay ==
    /\ clock < LastHalf
    /\ purging = None /\ \A r \in Requests : storing[r] = None
    /\ clock' = clock + 1
    /\ told' = {t \in told : Visible(t[2], clock')}
    /\ UNCHANGED <<position, session, account, pruning, storing, purging, crossed>>

LiveNext ==
    \/ \E r \in Requests :
          \/ \E who \in Subjects, task \in Scopes, at \in HalfDays, app \in BOOLEAN :
                BeginStore(r, who, task, at, app)
          \/ CommitStore(r) \/ FailStore(r)
    \/ \E u \in Subjects : BeginPurge(u)
    \/ CommitPurge \/ AbortPurge
    \/ Prune \/ DeleteAllLive \/ SetPruning \/ PassHalfDay

LiveSpec == LiveInit /\ [][LiveNext]_livevars

-----------------------------------------------------------------------------
(* Properties                                                              *)

\* A position stays on its task's page until midnight of the event's timezone,
\* whatever is pruned, unless an administrator deleted it.
KeptAllDay ==
    \A t \in told : CurrentDay(t[2], clock) => t[1] \in History(t[2].task) /\ position[t[1]] = t[2]

\* A subject is shown where its newest position i is, or others fill the map with
\* rows of S as late.
Shown(i, answer, S) ==
    \/ \E j \in answer : position[j].who = position[i].who /\ position[j].at = position[i].at
    \/ Cardinality({j \in S : position[j].who # position[i].who /\ position[j].at >= position[i].at}) >= RowLimit

\* Whoever has a position today is on the live map with the newest of them, the
\* map of a task and the map of all, as for every position there is an open
\* session: unless others have sent as many since as the map reads at most.
NewestShown ==
    LET visible == {i \in Stored : Visible(position[i], clock)}
    IN  /\ \A task \in Tasks : \A i \in Newest(History(task)), answer \in Live(task) :
              Shown(i, answer, {j \in visible : position[j].task = task})
        /\ \A i \in Newest(visible), answer \in AllLive : Shown(i, answer, visible)

\* A subject whose requests never ran side by side has one open session for a
\* task, which has counted all positions and knows the time of the latest.
SessionCovers ==
    \A t \in told :
       t[2].who \in account \ crossed =>
          \E s \in Ids :
             /\ SessionsOf(t[2].who, t[2].task) = {s}
             /\ session[s].seen >= t[2].at
             /\ session[s].count >= Cardinality({u \in told : u[2].who = t[2].who /\ u[2].task = t[2].task})

\* After an account is deleted nothing of it is left open, unless one of its
\* positions was being stored meanwhile.
DeletedIsGone ==
    \A u \in Subjects \ (account \cup crossed) :
       /\ \A s \in ActiveSessions : session[s].who # u
       /\ \A i \in Stored : position[i].who # u

\* Positions, sessions and what the pages show of them belong together: what is
\* stored stays its day, the newest is shown, a session counts it, and deletion
\* takes all of it.
PositionsHold == LiveTypeOK /\ KeptAllDay /\ NewestShown /\ SessionCovers /\ DeletedIsGone
=============================================================================
