--------------------------- MODULE TrackingProofs ---------------------------
(***************************************************************************)
(* Theorems of LivePositions, MeshNodes, TurnpointLibrary and              *)
(* AirspaceFiles, for any number of requests, subjects, tasks, nodes,      *)
(* files and sources.                                                      *)
(*                                                                         *)
(* PositionsHold: a position has an open session because a request that    *)
(* read one stores into it, and only the deletion of its account closes    *)
(* it; what is answered stays where it was put, as a row is pruned when    *)
(* its day is over and its number is not used before.                      *)
(*                                                                         *)
(* NodesHold: a packet that nothing crossed still sees its rows as they    *)
(* are, so what is stored of a node was told by the packets recorded.      *)
(*                                                                         *)
(* LibraryHolds: transactions lock apart, an edit that nothing crossed has *)
(* read what its file will say, and the path of a creation or of a removal *)
(* that shares no file is nobody else's.                                   *)
(*                                                                         *)
(* AirspaceHolds: a copy lies in a place of its meet, a change that        *)
(* nothing crossed has read the kind and the regions that are there, and   *)
(* what a duplication read of a source that is not apart was read as one.  *)
(***************************************************************************)
EXTENDS LivePositions, MeshNodes, TurnpointLibrary, AirspaceFiles, TLAPS, FiniteSetTheorems,
        WellFoundedInduction

-----------------------------------------------------------------------------
(* The inductive invariant of LivePositions.                               *)
Storing(r, u) == storing[r] # None /\ storing[r].new.who = u
Existing == {s \in Ids : session[s] # None}
ToldOf(u, task) == {t \in told : t[2].who = u /\ t[2].task = task}

\* A position has an open session, which outlives the purge that does not take
\* the position as well.
HasSession ==
    \A i \in Stored :
       /\ position[i].at <= clock
       /\ \E s \in SessionsOf(position[i].who, position[i].task) :
             purging # None /\ s \in purging.sessions => i \in purging.found

\* A request has read an open session of its own, unless there was none, all
\* have been deleted since (0), or its account has.
ReadsOwn ==
    \A r \in Requests : storing[r] # None =>
       LET w == storing[r] IN
       /\ w.new.at <= clock
       /\ w.row.who = w.new.who /\ w.row.task = w.new.task /\ w.row.active
       /\ w.id \in Ids /\ w.new.who \in account => w.id \in SessionsOf(w.new.who, w.new.task)

\* A purge has read rows of its own account, all of them if nothing crossed it.
PurgesOwn ==
    purging # None =>
       /\ purging.who \in account
       /\ \A s \in purging.sessions : s \in Existing /\ session[s].who = purging.who
       /\ \A i \in purging.found : i \in Stored /\ position[i].who = purging.who
       /\ purging.who \notin crossed =>
             /\ \A s \in Existing : session[s].who = purging.who => s \in purging.sessions
             /\ \A i \in Stored : position[i].who = purging.who => i \in purging.found
             /\ \A r \in Requests : ~Storing(r, purging.who)

\* What was answered is where it was put, while its day lasts.
ToldStays ==
    /\ IsFiniteSet(told)
    /\ \A t \in told : t[2].at <= clock /\ (CurrentDay(t[2], clock) => position[t[1]] = t[2])

\* Nothing side by side: one request at a time, which knows the one session,
\* and the session counts what was answered.
Alone(u) ==
    /\ \A q, r \in Requests : Storing(q, u) /\ Storing(r, u) => q = r
    /\ \A task \in Scopes :
          /\ \A s, z \in SessionsOf(u, task) : s = z
          /\ ToldOf(u, task) # {} => SessionsOf(u, task) # {}
          /\ \A s \in SessionsOf(u, task) :
                /\ session[s].count >= Cardinality(ToldOf(u, task))
                /\ \A t \in ToldOf(u, task) : session[s].seen >= t[2].at
Knows(r) ==
    LET w == storing[r] IN
    /\ w.row.seen >= w.new.at
    /\ w.id = None => SessionsOf(w.new.who, w.new.task) = {}
    /\ w.id \in Ids => w.row.count = session[w.id].count + 1 /\ w.row.seen >= session[w.id].seen
CountsAll ==
    \A u \in account \ crossed :
       /\ Alone(u)
       /\ \A r \in Requests : Storing(r, u) => Knows(r)

LiveInv == LiveTypeOK /\ HasSession /\ ReadsOwn /\ PurgesOwn /\ ToldStays /\ CountsAll /\ DeletedIsGone

-----------------------------------------------------------------------------
(* The lowest number free is free.                                         *)
LEMMA FreeIsFree ==
    ASSUME NEW f, NEW k \in Ids, f[k] = None
    PROVE  FreeId(f) \in Ids /\ f[FreeId(f)] = None
<1> DEFINE T == {i \in Ids : f[i] = None}
<1>1. T \subseteq Nat /\ T # {}
  BY BoundsAssumption DEF Ids
<1> DEFINE R == OpToRel(<, Nat)
<1>2. PICK x \in T : \A y \in T : ~ (<<y, x>> \in R)
  <2> HIDE DEF T
  <2> QED
    BY <1>1, WFMin, NatLessThanWellFounded, Zenon
<1>3. \A y \in T : ~(y < x)
  <2>1. R = {ss \in Nat \X Nat : ss[1] < ss[2]}
    BY Zenon DEF OpToRel
  <2> HIDE DEF T, R
  <2>2. ASSUME NEW y \in T, y < x PROVE <<y, x>> \in R
    BY <1>1, <2>1, <2>2
  <2> QED
    BY <1>2, <2>2
<1> HIDE DEF R
<1>4. x \in Ids /\ f[x] = None /\ \A j \in 1..(x - 1) : f[j] # None
  <2>1. ASSUME NEW j \in 1..(x - 1), f[j] = None PROVE FALSE
    <3>1. j \in Ids /\ j < x
      BY <1>1, BoundsAssumption DEF Ids
    <3> QED
      BY <1>3, <2>1, <3>1
  <2> QED
    BY <2>1
<1> HIDE DEF T
<1> QED
  BY <1>4 DEF FreeId

-----------------------------------------------------------------------------
(* What a request does that stores: the position at i, the session at s.   *)
CommitAt(r, i, s) ==
    /\ storing[r] # None /\ storing[r].new.who \in account /\ storing[r].id # 0
    /\ storing[r].id # None => ~Deleting(storing[r].new.who)
    /\ position[i] = None
    /\ position' = [position EXCEPT ![i] = storing[r].new]
    /\ told' = told \cup {<<i, storing[r].new>>}
    /\ \/ /\ storing[r].id = None /\ session[s] = None
          /\ session' = [session EXCEPT ![s] = storing[r].row]
       \/ /\ storing[r].id = s /\ s # None
          /\ session' = [session EXCEPT ![s] =
                Updated(s, storing[r].row.seen, storing[r].row.count, session[s].active)]
    /\ storing' = [storing EXCEPT ![r] = None]
    /\ UNCHANGED <<clock, account, pruning, purging, crossed>>

LEMMA CommitsAt ==
    ASSUME LiveTypeOK, NEW r \in Requests, CommitStore(r)
    PROVE  \E i \in Ids, s \in Ids : CommitAt(r, i, s)
<1> DEFINE w == storing[r]
<1>1. PICK k \in Ids : position[k] = None
  BY DEF CommitStore
<1>2. FreeId(position) \in Ids /\ position[FreeId(position)] = None
  BY <1>1, FreeIsFree
<1>3. w # None /\ w.new.who \in account /\ w.id # 0 /\ (w.id # None => ~Deleting(w.new.who))
  BY DEF CommitStore, StoreFails
<1>4. CASE w.id = None
  <2>1. PICK z \in Ids : session[z] = None
    BY <1>4 DEF CommitStore
  <2>2. FreeId(session) \in Ids /\ session[FreeId(session)] = None
    BY <2>1, FreeIsFree
  <2>3. CommitAt(r, FreeId(position), FreeId(session))
    BY <1>2, <1>3, <1>4, <2>2 DEF CommitStore, CommitAt
  <2> QED
    BY <1>2, <2>2, <2>3
<1>5. CASE w.id # None
  <2>1. w.id \in Ids
    BY <1>3, <1>5 DEF LiveTypeOK
  <2>2. CommitAt(r, FreeId(position), w.id)
    BY <1>2, <1>3, <1>5 DEF CommitStore, CommitAt
  <2> QED
    BY <1>2, <2>1, <2>2
<1> QED
  BY <1>4, <1>5


-----------------------------------------------------------------------------
(* Types.                                                                  *)
LEMMA LiveInitTyped == LiveInit => LiveTypeOK
<1> SUFFICES ASSUME LiveInit PROVE LiveTypeOK
  OBVIOUS
<1>1. clock \in HalfDays
  BY BoundsAssumption DEF LiveInit, HalfDays
<1>2. told \subseteq (Ids \X Position)
  BY DEF LiveInit
<1> QED
  BY <1>1, <1>2 DEF LiveInit, LiveTypeOK

LEMMA SummaryTyped ==
    ASSUME LiveTypeOK, NEW s \in Existing, NEW seen \in HalfDays, NEW count \in Ids, NEW active \in BOOLEAN
    PROVE  Updated(s, seen, count, active) \in TrackingSession
<1>1. session[s] \in TrackingSession
  BY DEF LiveTypeOK, Existing
<1> QED
  BY <1>1 DEF Updated, TrackingSession

LEMMA LiveNextTyped == LiveTypeOK /\ ReadsOwn /\ PurgesOwn /\ [LiveNext]_livevars => LiveTypeOK'
<1> SUFFICES ASSUME LiveTypeOK, ReadsOwn, PurgesOwn, [LiveNext]_livevars PROVE LiveTypeOK'
  OBVIOUS
<1> USE DEF LiveTypeOK
<1>1. ASSUME NEW r \in Requests, NEW who \in Subjects, NEW task \in Scopes, NEW at \in HalfDays, NEW app \in BOOLEAN,
             BeginStore(r, who, task, at, app)
      PROVE  LiveTypeOK'
  <2> DEFINE new == [who |-> who, task |-> task, at |-> at, app |-> IF app THEN clock ELSE None]
             own == [who |-> who, task |-> task, seen |-> at, count |-> 1, active |-> TRUE]
  <2>1. new \in Position /\ new.at = at
    BY DEF Position
  <2>2. crossed' \subseteq Subjects
    BY <1>1 DEF BeginStore
  <2> DEFINE opening == [new |-> new, id |-> None, row |-> own]
             adding(s) == [new |-> new, id |-> s, row |-> Summary(s, new)]
  <2>3. CASE storing' = [storing EXCEPT ![r] = opening] /\ SessionsOf(who, task) = {}
    <3>1. 1 \in Ids
      BY BoundsAssumption DEF Ids
    <3>2. own \in TrackingSession
      BY <3>1 DEF TrackingSession
    <3>3. opening \in [new : Position, row : TrackingSession, id : Ids \cup {None, 0}]
      BY <2>1, <3>2
    <3> HIDE DEF opening
    <3> QED
      BY <1>1, <2>2, <2>3, <3>3 DEF BeginStore
  <2>4. ASSUME NEW s \in SessionsOf(who, task), session[s].count < MaxPositions,
               storing' = [storing EXCEPT ![r] = adding(s)]
        PROVE  LiveTypeOK'
    <3>1. s \in Existing /\ session[s] \in TrackingSession
      BY DEF SessionsOf, ActiveSessions, Existing
    <3>2. Later(session[s].seen, new.at) \in HalfDays /\ session[s].active \in BOOLEAN
      BY <2>1, <3>1 DEF TrackingSession, Later
    <3>3. session[s].count + 1 \in Ids
      BY <2>4, <3>1, BoundsAssumption DEF TrackingSession, Ids
    <3>4. Summary(s, new) \in TrackingSession
      BY <3>1, <3>2, <3>3, SummaryTyped DEF Summary
    <3>5. adding(s) \in [new : Position, row : TrackingSession, id : Ids \cup {None, 0}]
      BY <2>1, <3>1, <3>4 DEF Existing
    <3> HIDE DEF adding
    <3> QED
      BY <1>1, <2>2, <2>4, <3>5 DEF BeginStore
  <2> QED
    BY <1>1, <2>3, <2>4 DEF BeginStore
<1>2. ASSUME NEW r \in Requests, CommitStore(r) PROVE LiveTypeOK'
  <2>1. PICK i \in Ids, s \in Ids : CommitAt(r, i, s)
    BY <1>2, CommitsAt
  <2>2. storing[r] \in [new : Position, row : TrackingSession, id : Ids \cup {None, 0}]
    BY <2>1 DEF CommitAt
  <2>3. storing[r].new \in Position /\ storing[r].row \in TrackingSession
    BY <2>2
  <2>4. session' \in [Ids -> TrackingSession \cup {None}]
    <3> DEFINE new == Updated(s, storing[r].row.seen, storing[r].row.count, session[s].active)
    <3>2. CASE storing[r].id = None
      BY <2>1, <2>3, <3>2 DEF CommitAt
    <3>3. CASE storing[r].id # None
      <4>1. session' = [session EXCEPT ![s] = new] /\ s = storing[r].id
        BY <2>1, <3>3 DEF CommitAt
      <4>2. s \in Existing /\ session[s] \in TrackingSession
        BY <2>1, <4>1 DEF ReadsOwn, CommitAt, SessionsOf, ActiveSessions, Existing
      <4>3. storing[r].row.seen \in HalfDays /\ storing[r].row.count \in Ids /\ session[s].active \in BOOLEAN
        BY <2>3, <4>2 DEF TrackingSession
      <4>4. new \in TrackingSession
        BY <4>2, <4>3, SummaryTyped
      <4> HIDE DEF new
      <4> QED
        BY <4>1, <4>4
    <3> QED
      BY <3>2, <3>3
  <2> QED
    BY <2>1, <2>3, <2>4 DEF CommitAt
<1>3. ASSUME NEW r \in Requests, FailStore(r) PROVE LiveTypeOK'
  BY <1>3 DEF FailStore
<1>4. ASSUME NEW u \in Subjects, BeginPurge(u) PROVE LiveTypeOK'
  <2> DEFINE going == [who |-> u, sessions |-> {s \in Ids : session[s] # None /\ session[s].who = u},
                       found |-> {i \in Stored : position[i].who = u}]
  <2>1. going \in [who : Subjects, sessions : SUBSET Ids, found : SUBSET Ids]
    BY DEF Stored
  <2>2. purging' = going
    BY <1>4 DEF BeginPurge
  <2> HIDE DEF going
  <2> QED
    BY <1>4, <2>1, <2>2 DEF BeginPurge
<1>5. CASE CommitPurge
  <2>1. ASSUME NEW s \in purging.sessions
        PROVE  s \in Ids /\ Updated(s, session[s].seen, session[s].count, FALSE) \in TrackingSession
    <3>1. s \in Existing /\ session[s] \in TrackingSession
      BY <1>5 DEF PurgesOwn, CommitPurge, Existing
    <3>2. session[s].seen \in HalfDays /\ session[s].count \in Ids
      BY <3>1 DEF TrackingSession
    <3> QED
      BY <3>1, <3>2, SummaryTyped DEF Existing
  <2>2. session' \in [Ids -> TrackingSession \cup {None}]
    BY <1>5, <2>1 DEF CommitPurge, Close
  <2> QED
    BY <1>5, <2>2 DEF CommitPurge
<1>6. CASE AbortPurge
  BY <1>6 DEF AbortPurge
<1>7. CASE Prune
  BY <1>7 DEF Prune
<1>8. CASE DeleteAllLive
  BY <1>8 DEF DeleteAllLive
<1>9. CASE SetPruning
  BY <1>9 DEF SetPruning
<1>10. CASE PassHalfDay
  BY <1>10, BoundsAssumption DEF PassHalfDay, HalfDays
<1>11. CASE UNCHANGED livevars
  BY <1>11 DEF livevars
<1> QED
  BY <1>1, <1>2, <1>3, <1>4, <1>5, <1>6, <1>7, <1>8, <1>9, <1>10, <1>11 DEF LiveNext


-----------------------------------------------------------------------------
(* What a step does to the sessions of a subject.                          *)

\* A day never ends before an earlier one.
LEMMA DaysInOrder ==
    ASSUME NEW task, NEW a \in Int, NEW b \in Int, a <= b
    PROVE  LocalDay(task, a) <= LocalDay(task, b) /\ LocalDay(task, a) \in Int
<1>1. CASE task = None
  BY <1>1 DEF LocalDay
<1>2. CASE task # None
  BY <1>2, ZoneAssumption DEF LocalDay
<1> QED
  BY <1>1, <1>2

\* The session of a committed position is open and of the subject and task; no
\* other session changes.
LEMMA CommitsOwn ==
    ASSUME LiveTypeOK, ReadsOwn, NEW r \in Requests, NEW i \in Ids, NEW s \in Ids, CommitAt(r, i, s)
    PROVE  /\ storing[r].new \in Position /\ storing[r].row \in TrackingSession
           /\ \A z \in Ids \ {s} : session'[z] = session[z]
           /\ session'[s] # None /\ session'[s].who = storing[r].new.who
           /\ session'[s].task = storing[r].new.task /\ session'[s].active
           /\ session'[s].seen = storing[r].row.seen /\ session'[s].count = storing[r].row.count
           /\ \/ session[s] = None /\ storing[r].id = None
              \/ s \in SessionsOf(storing[r].new.who, storing[r].new.task) /\ storing[r].id = s
<1> DEFINE w == storing[r]
<1>1. w \in [new : Position, row : TrackingSession, id : Ids \cup {None, 0}]
  BY DEF LiveTypeOK, CommitAt
<1>2. w.new \in Position /\ w.row \in TrackingSession
  BY <1>1
<1>3. w.row.who = w.new.who /\ w.row.task = w.new.task /\ w.row.active
  BY DEF ReadsOwn, CommitAt
<1>4. CASE w.id = None /\ session[s] = None /\ session' = [session EXCEPT ![s] = w.row]
  <2>1. session'[s] = w.row
    BY <1>4 DEF LiveTypeOK
  <2>2. w.row # None
    BY <1>2, NoneAssumption
  <2>3. \A z \in Ids \ {s} : session'[z] = session[z]
    BY <1>4 DEF LiveTypeOK
  <2> QED
    BY <1>2, <1>3, <1>4, <2>1, <2>2, <2>3
<1>5. CASE w.id = s /\ session' = [session EXCEPT ![s] = Updated(s, w.row.seen, w.row.count, session[s].active)]
  <2>1. s \in SessionsOf(w.new.who, w.new.task)
    BY <1>5 DEF ReadsOwn, CommitAt
  <2>2. session[s] # None /\ session[s].who = w.new.who /\ session[s].task = w.new.task /\ session[s].active
    BY <2>1 DEF SessionsOf, ActiveSessions
  <2>3. session[s] \in TrackingSession
    BY <2>2 DEF LiveTypeOK
  <2> DEFINE new == Updated(s, w.row.seen, w.row.count, session[s].active)
  <2>4. new \in TrackingSession
    <3>1. w.row.seen \in HalfDays /\ w.row.count \in Ids /\ session[s].active \in BOOLEAN
      BY <1>2, <2>3 DEF TrackingSession
    <3> QED
      BY <2>2, <3>1, SummaryTyped DEF Existing
  <2>5. new # None
    BY <2>4, NoneAssumption
  <2>6. /\ new.who = w.new.who /\ new.task = w.new.task /\ new.active
        /\ new.seen = w.row.seen /\ new.count = w.row.count
    BY <2>2 DEF Updated
  <2> HIDE DEF new
  <2>7. session'[s] = new
    BY <1>5 DEF LiveTypeOK, new
  <2>8. \A z \in Ids \ {s} : session'[z] = session[z]
    BY <1>5 DEF LiveTypeOK
  <2> QED
    BY <1>2, <1>5, <2>1, <2>5, <2>6, <2>7, <2>8
<1> QED
  BY <1>4, <1>5 DEF CommitAt

\* So the open sessions of others, and of other tasks, are as they were.
LEMMA OthersKept ==
    ASSUME LiveTypeOK, ReadsOwn, NEW r \in Requests, NEW i \in Ids, NEW s \in Ids, CommitAt(r, i, s),
           NEW u, NEW task
    PROVE  /\ \A z \in SessionsOf(u, task) : z \in SessionsOf(u, task)'
           /\ \A z \in SessionsOf(u, task)' : z \in SessionsOf(u, task) \/ z = s
           /\ <<u, task>> # <<storing[r].new.who, storing[r].new.task>> =>
                 /\ s \notin SessionsOf(u, task)'
                 /\ s \notin SessionsOf(u, task)
<1>1. /\ \A z \in Ids \ {s} : session'[z] = session[z]
      /\ session'[s] # None /\ session'[s].who = storing[r].new.who
      /\ session'[s].task = storing[r].new.task /\ session'[s].active
      /\ session[s] = None \/ s \in SessionsOf(storing[r].new.who, storing[r].new.task)
  BY CommitsOwn
<1> QED
  BY <1>1 DEF SessionsOf, ActiveSessions

\* A purge closes the sessions it has read.
LEMMA PurgeCloses ==
    ASSUME LiveTypeOK, PurgesOwn, CommitPurge
    PROVE  /\ \A z \in Ids \ purging.sessions : session'[z] = session[z]
           /\ \A z \in purging.sessions : z \in Ids /\ ~session'[z].active
           /\ \A u, task : u # purging.who => SessionsOf(u, task)' = SessionsOf(u, task)
<1>1. /\ \A z \in Ids \ purging.sessions : session'[z] = session[z]
      /\ \A z \in purging.sessions : z \in Ids /\ ~session'[z].active
  BY DEF LiveTypeOK, CommitPurge, Close, Updated
<1>2. \A z \in purging.sessions : session[z] # None /\ session[z].who = purging.who
  BY DEF PurgesOwn, CommitPurge, Existing
<1>3. ASSUME NEW u, NEW task, u # purging.who PROVE SessionsOf(u, task)' = SessionsOf(u, task)
  BY <1>1, <1>2, <1>3 DEF SessionsOf, ActiveSessions
<1> QED
  BY <1>1, <1>3


-----------------------------------------------------------------------------
(* Every position has a session.                                           *)
LEMMA HasSessionKept ==
    LiveTypeOK /\ ReadsOwn /\ PurgesOwn /\ HasSession /\ [LiveNext]_livevars => HasSession'
<1> SUFFICES ASSUME LiveTypeOK, ReadsOwn, PurgesOwn, HasSession, [LiveNext]_livevars PROVE HasSession'
  OBVIOUS
<1> DEFINE Opened(z, u, task) ==
       z \in Ids /\ session'[z] # None /\ session'[z].active /\ session'[z].who = u /\ session'[z].task = task
<1>0. ASSUME \A j \in Stored' :
               /\ position'[j].at <= clock'
               /\ \E z \in Ids : /\ Opened(z, position'[j].who, position'[j].task)
                                 /\ purging' # None /\ z \in purging'.sessions => j \in purging'.found
      PROVE  HasSession'
  BY <1>0 DEF HasSession, SessionsOf, ActiveSessions
<1>1. ASSUME UNCHANGED <<clock, position, session, purging>> PROVE HasSession'
  BY <1>1 DEF HasSession, Stored, SessionsOf, ActiveSessions
<1>2. ASSUME NEW r \in Requests, CommitStore(r) PROVE HasSession'
  <2>1. PICK i \in Ids, s \in Ids : CommitAt(r, i, s)
    BY <1>2, CommitsAt
  <2> DEFINE w == storing[r]
  <2>2. /\ w.new \in Position
        /\ session'[s] # None /\ session'[s].who = w.new.who /\ session'[s].task = w.new.task /\ session'[s].active
        /\ \/ session[s] = None /\ w.id = None
           \/ s \in SessionsOf(w.new.who, w.new.task) /\ w.id = s
    BY <2>1, CommitsOwn
  <2>3. Opened(s, w.new.who, w.new.task)
    BY <2>2
  <2>4. position'[i] = w.new /\ \A j \in Ids \ {i} : position'[j] = position[j]
    BY <2>1 DEF CommitAt, LiveTypeOK
  <2>5. purging # None => s \notin purging.sessions
    <3> SUFFICES ASSUME purging # None, s \in purging.sessions PROVE FALSE
      OBVIOUS
    <3>1. session[s] # None /\ session[s].who = purging.who
      BY DEF PurgesOwn, Existing
    <3>2. w.id # None /\ session[s].who = w.new.who
      BY <2>2, <3>1, NoneAssumption DEF SessionsOf, Ids
    <3> QED
      BY <2>1, <3>1, <3>2 DEF CommitAt, Deleting
  <2>6. w.new.at <= clock /\ clock' = clock /\ purging' = purging
    BY <2>1 DEF ReadsOwn, CommitAt
  <2>7. ASSUME NEW j \in Stored'
        PROVE  /\ position'[j].at <= clock'
               /\ \E z \in Ids : /\ Opened(z, position'[j].who, position'[j].task)
                                 /\ purging' # None /\ z \in purging'.sessions => j \in purging'.found
    <3>1. CASE j = i
      BY <2>3, <2>4, <2>5, <2>6, <3>1
    <3>2. CASE j # i
      <4>1. j \in Stored /\ position'[j] = position[j]
        BY <2>4, <2>7, <3>2 DEF Stored
      <4>2. PICK z \in SessionsOf(position[j].who, position[j].task) :
               purging # None /\ z \in purging.sessions => j \in purging.found
        BY <4>1 DEF HasSession
      <4>3. Opened(z, position[j].who, position[j].task)
        <5>1. \A v \in Ids \ {s} : session'[v] = session[v]
          BY <2>1, CommitsOwn
        <5>2. z = s => w.new.who = position[j].who /\ w.new.task = position[j].task
          BY <2>2, <4>2 DEF SessionsOf, ActiveSessions
        <5> QED
          BY <2>2, <4>2, <5>1, <5>2 DEF SessionsOf, ActiveSessions
      <4>4. position[j].at <= clock
        BY <4>1 DEF HasSession
      <4>5. z \in Ids
        BY <4>2 DEF SessionsOf, ActiveSessions
      <4> HIDE DEF Opened
      <4> QED
        BY <2>6, <4>1, <4>2, <4>3, <4>4, <4>5
    <3> QED
      BY <3>1, <3>2
  <2> HIDE DEF Opened
  <2> QED
    BY <1>0, <2>7
<1>3. ASSUME NEW u \in Subjects, BeginPurge(u) PROVE HasSession'
  <2>1. /\ UNCHANGED <<clock, position, session>>
        /\ purging'.sessions = {s \in Ids : session[s] # None /\ session[s].who = u}
        /\ purging'.found = {i \in Stored : position[i].who = u}
    BY <1>3 DEF BeginPurge
  <2>2. ASSUME NEW j \in Stored, NEW z \in SessionsOf(position[j].who, position[j].task), z \in purging'.sessions
        PROVE  j \in purging'.found
    BY <2>1, <2>2 DEF SessionsOf
  <2> QED
    BY <2>1, <2>2 DEF HasSession, Stored, SessionsOf, ActiveSessions
<1>4. CASE CommitPurge
  <2>1. \A z \in Ids \ purging.sessions : session'[z] = session[z]
    BY <1>4, PurgeCloses
  <2>2. purging' = None /\ clock' = clock /\ purging # None
    BY <1>4 DEF CommitPurge
  <2>3. ASSUME NEW j \in Stored'
        PROVE  /\ position'[j].at <= clock'
               /\ \E z \in Ids : Opened(z, position'[j].who, position'[j].task)
    <3>1. j \in Stored /\ j \notin purging.found /\ position'[j] = position[j]
      BY <1>4, <2>3 DEF CommitPurge, Stored
    <3>2. PICK z \in SessionsOf(position[j].who, position[j].task) : z \notin purging.sessions
      BY <2>2, <3>1 DEF HasSession
    <3>3. Opened(z, position'[j].who, position'[j].task)
      BY <2>1, <3>1, <3>2 DEF SessionsOf, ActiveSessions
    <3> QED
      BY <2>2, <3>1, <3>3 DEF HasSession
  <2> QED
    BY <1>0, <2>2, <2>3
<1>5. CASE AbortPurge
  BY <1>5 DEF AbortPurge, HasSession, Stored, SessionsOf, ActiveSessions
<1>6. CASE Prune
  BY <1>6 DEF Prune, HasSession, Stored, SessionsOf, ActiveSessions
<1>7. CASE DeleteAllLive
  BY <1>7 DEF DeleteAllLive, HasSession, Stored
<1>8. CASE PassHalfDay
  <2>1. clock \in Int /\ \A j \in Stored : position[j].at \in Int
    BY DEF LiveTypeOK, Stored, Position, HalfDays
  <2>2. clock' = clock + 1 /\ UNCHANGED <<position, session, purging>>
    BY <1>8 DEF PassHalfDay
  <2> QED
    BY <2>1, <2>2 DEF HasSession, Stored, SessionsOf, ActiveSessions
<1>9. ASSUME NEW r \in Requests, NEW who \in Subjects, NEW task \in Scopes, NEW at \in HalfDays, NEW app \in BOOLEAN,
             BeginStore(r, who, task, at, app)
      PROVE  HasSession'
  BY <1>1, <1>9 DEF BeginStore
<1>10. ASSUME NEW r \in Requests, FailStore(r) PROVE HasSession'
  BY <1>1, <1>10 DEF FailStore
<1>11. CASE SetPruning \/ UNCHANGED livevars
  BY <1>1, <1>11 DEF SetPruning, livevars
<1> QED
  BY <1>2, <1>3, <1>4, <1>5, <1>6, <1>7, <1>8, <1>9, <1>10, <1>11 DEF LiveNext

-----------------------------------------------------------------------------
(* Requests and purges have read what is theirs.                           *)
LEMMA ReadsOwnKept == LiveTypeOK /\ PurgesOwn /\ ReadsOwn /\ [LiveNext]_livevars => ReadsOwn'
<1> SUFFICES ASSUME LiveTypeOK, PurgesOwn, ReadsOwn, [LiveNext]_livevars PROVE ReadsOwn'
  OBVIOUS
<1> DEFINE Own(q) ==
       LET w == storing[q] IN
       /\ w.new.at <= clock
       /\ w.row.who = w.new.who /\ w.row.task = w.new.task /\ w.row.active
       /\ w.id \in Ids /\ w.new.who \in account => w.id \in SessionsOf(w.new.who, w.new.task)
<1>0. \A q \in Requests : storing[q] # None => Own(q)
  BY DEF ReadsOwn
<1>1. ASSUME UNCHANGED <<clock, storing, session, account>> PROVE ReadsOwn'
  BY <1>1 DEF ReadsOwn, SessionsOf, ActiveSessions
<1>2. ASSUME NEW r \in Requests, NEW who \in Subjects, NEW task \in Scopes, NEW at \in HalfDays, NEW app \in BOOLEAN,
             BeginStore(r, who, task, at, app)
      PROVE  ReadsOwn'
  <2> DEFINE new == [who |-> who, task |-> task, at |-> at, app |-> IF app THEN clock ELSE None]
             own == [who |-> who, task |-> task, seen |-> at, count |-> 1, active |-> TRUE]
  <2>1. /\ UNCHANGED <<clock, session, account>> /\ at <= clock
        /\ \A q \in Requests \ {r} : storing'[q] = storing[q]
    BY <1>2 DEF BeginStore, LiveTypeOK, HalfDays
  <2>2. /\ storing'[r].new.at = at /\ storing'[r].new.who = who /\ storing'[r].new.task = task
        /\ storing'[r].row.who = who /\ storing'[r].row.task = task /\ storing'[r].row.active
        /\ storing'[r].id \in Ids => storing'[r].id \in SessionsOf(who, task)
    <3>1. CASE storing' = [storing EXCEPT ![r] = [new |-> new, id |-> None, row |-> own]]
      <4>1. storing'[r] = [new |-> new, id |-> None, row |-> own]
        BY <3>1 DEF LiveTypeOK
      <4>2. None \notin Ids
        BY NoneAssumption DEF Ids
      <4> QED
        BY <4>1, <4>2
    <3>2. ASSUME NEW s \in SessionsOf(who, task),
                 storing' = [storing EXCEPT ![r] = [new |-> new, id |-> s, row |-> Summary(s, new)]]
          PROVE  /\ storing'[r].new = new /\ storing'[r].id = s
                 /\ storing'[r].row.who = who /\ storing'[r].row.task = task /\ storing'[r].row.active
      <4>1. storing'[r] = [new |-> new, id |-> s, row |-> Summary(s, new)]
        BY <3>2 DEF LiveTypeOK
      <4>2. session[s].who = who /\ session[s].task = task /\ session[s].active
        BY DEF SessionsOf, ActiveSessions
      <4>3. Summary(s, new).who = who /\ Summary(s, new).task = task /\ Summary(s, new).active
        BY <4>2 DEF Summary, Updated
      <4> QED
        BY <4>1, <4>3
    <3>3. \/ storing' = [storing EXCEPT ![r] = [new |-> new, id |-> None, row |-> own]]
          \/ \E s \in SessionsOf(who, task) :
                storing' = [storing EXCEPT ![r] = [new |-> new, id |-> s, row |-> Summary(s, new)]]
      BY <1>2 DEF BeginStore
    <3> QED
      BY <3>1, <3>2, <3>3
  <2> QED
    BY <1>0, <2>1, <2>2 DEF ReadsOwn, SessionsOf, ActiveSessions
<1>3. ASSUME NEW r \in Requests, CommitStore(r) PROVE ReadsOwn'
  <2>1. PICK i \in Ids, s \in Ids : CommitAt(r, i, s)
    BY <1>3, CommitsAt
  <2>2. UNCHANGED <<clock, account>> /\ storing'[r] = None /\ \A q \in Requests \ {r} : storing'[q] = storing[q]
    BY <2>1 DEF CommitAt, LiveTypeOK
  <2>3. \A u, task : \A z \in SessionsOf(u, task) : z \in SessionsOf(u, task)'
    BY <2>1, OthersKept
  <2>4. ASSUME NEW q \in Requests, storing'[q] # None PROVE Own(q)'
    <3>1. storing'[q] = storing[q] /\ Own(q)
      BY <1>0, <2>2, <2>4
    <3>2. \A z \in SessionsOf(storing[q].new.who, storing[q].new.task) :
             z \in Ids /\ session'[z] # None /\ session'[z].active
             /\ session'[z].who = storing[q].new.who /\ session'[z].task = storing[q].new.task
      <4>1. /\ \A z \in Ids \ {s} : session'[z] = session[z]
            /\ session'[s] # None /\ session'[s].who = storing[r].new.who
            /\ session'[s].task = storing[r].new.task /\ session'[s].active
            /\ session[s] = None \/ s \in SessionsOf(storing[r].new.who, storing[r].new.task)
        BY <2>1, CommitsOwn
      <4> QED
        BY <4>1 DEF SessionsOf, ActiveSessions
    <3> QED
      BY <2>2, <3>1, <3>2 DEF SessionsOf, ActiveSessions
  <2> QED
    BY <2>4 DEF ReadsOwn
<1>4. ASSUME NEW r \in Requests, FailStore(r) PROVE ReadsOwn'
  <2>1. /\ UNCHANGED <<clock, session, account>> /\ storing'[r] = None
        /\ \A q \in Requests \ {r} : storing'[q] = storing[q]
    BY <1>4 DEF FailStore, LiveTypeOK
  <2> QED
    BY <1>0, <2>1 DEF ReadsOwn, SessionsOf, ActiveSessions
<1>5. CASE CommitPurge
  <2>1. UNCHANGED <<clock, storing>> /\ account' = account \ {purging.who}
    BY <1>5 DEF CommitPurge
  <2>2. \A u, task : u # purging.who => SessionsOf(u, task)' = SessionsOf(u, task)
    BY <1>5, PurgeCloses
  <2>3. ASSUME NEW q \in Requests, storing[q] # None, storing[q].id \in Ids, storing[q].new.who \in account'
        PROVE  LET w == storing[q] IN w.id \in Ids /\ session'[w.id] # None /\ session'[w.id].active
                  /\ session'[w.id].who = w.new.who /\ session'[w.id].task = w.new.task
    <3>1. storing[q].id \in SessionsOf(storing[q].new.who, storing[q].new.task)
      BY <1>0, <2>1, <2>3
    <3>2. storing[q].id \notin purging.sessions
      BY <1>5, <2>1, <2>3, <3>1 DEF PurgesOwn, CommitPurge, SessionsOf
    <3>3. session'[storing[q].id] = session[storing[q].id]
      BY <1>5, <2>3, <3>2, PurgeCloses
    <3> QED
      BY <2>3, <3>1, <3>3 DEF SessionsOf, ActiveSessions
  <2> QED
    BY <1>0, <2>1, <2>3 DEF ReadsOwn, SessionsOf, ActiveSessions
<1>6. CASE DeleteAllLive
  <2>1. UNCHANGED <<clock, account>>
    BY <1>6 DEF DeleteAllLive
  <2>2. None \notin Ids /\ 0 \notin Ids
    BY NoneAssumption DEF Ids
  <2>3. ASSUME NEW q \in Requests, storing'[q] # None
        PROVE  /\ storing[q] # None /\ storing'[q].new = storing[q].new /\ storing'[q].row = storing[q].row
               /\ storing'[q].id \notin Ids
    BY <1>6, <2>2, <2>3 DEF DeleteAllLive
  <2> QED
    BY <1>0, <2>1, <2>3 DEF ReadsOwn
<1>7. CASE PassHalfDay
  BY <1>7 DEF PassHalfDay, ReadsOwn
<1> QED
  BY <1>1, <1>2, <1>3, <1>4, <1>5, <1>6, <1>7
  DEF LiveNext, livevars, BeginPurge, AbortPurge, Prune, SetPruning


LEMMA PurgesOwnKept == LiveTypeOK /\ ReadsOwn /\ PurgesOwn /\ [LiveNext]_livevars => PurgesOwn'
<1> SUFFICES ASSUME LiveTypeOK, ReadsOwn, PurgesOwn, [LiveNext]_livevars PROVE PurgesOwn'
  OBVIOUS
<1>1. ASSUME NEW r \in Requests, NEW who \in Subjects, NEW task \in Scopes, NEW at \in HalfDays, NEW app \in BOOLEAN,
             BeginStore(r, who, task, at, app)
      PROVE  PurgesOwn'
  <2>1. /\ UNCHANGED <<position, session, account, purging>> /\ crossed \subseteq crossed'
        /\ \A q \in Requests \ {r} : storing'[q] = storing[q]
        /\ Deleting(who) => who \in crossed'
    BY <1>1 DEF BeginStore, LiveTypeOK
  <2>2. storing'[r] # None => storing'[r].new.who = who
    <3> DEFINE new == [who |-> who, task |-> task, at |-> at, app |-> IF app THEN clock ELSE None]
               own == [who |-> who, task |-> task, seen |-> at, count |-> 1, active |-> TRUE]
    <3>1. CASE storing' = [storing EXCEPT ![r] = [new |-> new, id |-> None, row |-> own]]
      BY <3>1 DEF LiveTypeOK
    <3>2. ASSUME NEW s \in SessionsOf(who, task),
                 storing' = [storing EXCEPT ![r] = [new |-> new, id |-> s, row |-> Summary(s, new)]]
          PROVE  storing'[r].new = new
      <4>1. storing'[r] = [new |-> new, id |-> s, row |-> Summary(s, new)]
        BY <3>2 DEF LiveTypeOK
      <4> QED
        BY <4>1
    <3> QED
      BY <1>1, <3>1, <3>2 DEF BeginStore
  <2> QED
    BY <2>1, <2>2 DEF PurgesOwn, Existing, Stored, Storing, Deleting
<1>2. ASSUME NEW r \in Requests, CommitStore(r) PROVE PurgesOwn'
  <2>1. PICK i \in Ids, s \in Ids : CommitAt(r, i, s)
    BY <1>2, CommitsAt
  <2> DEFINE u == storing[r].new.who
  <2>2. /\ storing[r] # None /\ storing'[r] = None /\ \A q \in Requests \ {r} : storing'[q] = storing[q]
        /\ UNCHANGED <<account, purging, crossed>>
        /\ position[i] = None /\ position'[i] = storing[r].new
        /\ \A j \in Ids \ {i} : position'[j] = position[j]
    BY <2>1 DEF CommitAt, LiveTypeOK
  <2>3. /\ \A z \in Ids \ {s} : session'[z] = session[z]
        /\ session'[s] # None /\ session'[s].who = u
        /\ session[s] # None => session[s].who = u
    BY <2>1, CommitsOwn DEF SessionsOf
  <2>4. purging # None /\ purging.who \notin crossed => u # purging.who
    BY <2>2 DEF PurgesOwn, Storing
  <2> QED
    BY <2>2, <2>3, <2>4 DEF PurgesOwn, Existing, Stored, Storing
<1>3. ASSUME NEW r \in Requests, FailStore(r) PROVE PurgesOwn'
  BY <1>3 DEF FailStore, LiveTypeOK, PurgesOwn, Existing, Stored, Storing
<1>4. ASSUME NEW u \in Subjects, BeginPurge(u) PROVE PurgesOwn'
  <2>1. /\ purging'.who = u
        /\ purging'.sessions = {s \in Ids : session[s] # None /\ session[s].who = u}
        /\ purging'.found = {i \in Stored : position[i].who = u}
    BY <1>4 DEF BeginPurge
  <2>2. (\E r \in Requests : Storing(r, u)) => u \in crossed'
    BY <1>4 DEF BeginPurge, Storing
  <2>3. u \in account /\ UNCHANGED <<position, session, account, storing>>
    BY <1>4 DEF BeginPurge
  <2> QED
    BY <2>1, <2>2, <2>3 DEF PurgesOwn, Existing, Stored, Storing
<1>5. CASE CommitPurge
  BY <1>5 DEF CommitPurge, PurgesOwn
<1>6. CASE AbortPurge
  BY <1>6 DEF AbortPurge, PurgesOwn
<1>7. CASE Prune
  BY <1>7 DEF Prune, PurgesOwn
<1>8. CASE DeleteAllLive
  BY <1>8 DEF DeleteAllLive, PurgesOwn
<1>9. CASE SetPruning
  BY <1>9 DEF SetPruning, PurgesOwn, Existing, Stored, Storing
<1>10. CASE PassHalfDay
  BY <1>10 DEF PassHalfDay, PurgesOwn
<1>11. CASE UNCHANGED livevars
  BY <1>11 DEF livevars, PurgesOwn, Existing, Stored, Storing
<1> QED
  BY <1>1, <1>2, <1>3, <1>4, <1>5, <1>6, <1>7, <1>8, <1>9, <1>10, <1>11 DEF LiveNext

-----------------------------------------------------------------------------
(* What was answered stays.                                                *)
LEMMA ToldStaysKept == LiveTypeOK /\ ReadsOwn /\ ToldStays /\ [LiveNext]_livevars => ToldStays'
<1> SUFFICES ASSUME LiveTypeOK, ReadsOwn, ToldStays, [LiveNext]_livevars PROVE ToldStays'
  OBVIOUS
<1>1. ASSUME UNCHANGED <<clock, position, told>> PROVE ToldStays'
  BY <1>1 DEF ToldStays, CurrentDay
<1>2. ASSUME NEW r \in Requests, CommitStore(r) PROVE ToldStays'
  <2>1. PICK i \in Ids, s \in Ids : CommitAt(r, i, s)
    BY <1>2, CommitsAt
  <2> DEFINE x == <<i, storing[r].new>>
  <2>2. /\ position[i] = None /\ position'[i] = storing[r].new /\ clock' = clock
        /\ \A j \in Ids \ {i} : position'[j] = position[j]
        /\ told' = told \cup {x} /\ storing[r].new.at <= clock
    BY <2>1 DEF CommitAt, LiveTypeOK, ReadsOwn
  <2>3. IsFiniteSet(told')
    BY <2>2, FS_AddElement DEF ToldStays
  <2>4. ASSUME NEW t \in told, CurrentDay(t[2], clock) PROVE t[1] # i /\ t[1] \in Ids
    BY <2>2, <2>4, NoneAssumption DEF ToldStays, LiveTypeOK
  <2>5. ASSUME NEW t \in told' PROVE t[2].at <= clock /\ (CurrentDay(t[2], clock) => position'[t[1]] = t[2])
    <3>1. CASE t = x
      BY <2>2, <3>1
    <3>2. CASE t \in told
      BY <2>2, <2>4, <3>2 DEF ToldStays
    <3> QED
      BY <2>2, <3>1, <3>2
  <2> QED
    BY <2>2, <2>3, <2>5 DEF ToldStays, CurrentDay
<1>3. CASE CommitPurge
  <2>1. /\ clock' = clock /\ told' = {t \in told : t[1] \notin purging.found}
        /\ position' = [i \in Ids |-> IF i \in purging.found THEN None ELSE position[i]]
    BY <1>3 DEF CommitPurge
  <2>2. IsFiniteSet(told')
    BY <2>1, FS_Subset DEF ToldStays
  <2>3. \A t \in told' : t \in told /\ t[1] \in Ids /\ position'[t[1]] = position[t[1]]
    BY <2>1 DEF LiveTypeOK
  <2> QED
    BY <2>1, <2>2, <2>3 DEF ToldStays, CurrentDay
<1>4. CASE Prune
  <2>1. /\ UNCHANGED <<clock, told>>
        /\ \A j \in Ids : position'[j] # position[j] => ~CurrentDay(position[j], clock)
    BY <1>4 DEF Prune, Prunable
  <2>2. \A t \in told : t[1] \in Ids
    BY DEF LiveTypeOK
  <2> QED
    BY <2>1, <2>2 DEF ToldStays, CurrentDay
<1>5. CASE DeleteAllLive
  <2>1. told' = {}
    BY <1>5 DEF DeleteAllLive
  <2> QED
    BY <2>1, FS_EmptySet DEF ToldStays
<1>6. CASE PassHalfDay
  <2>1. clock' = clock + 1 /\ position' = position /\ told' \subseteq told /\ clock \in Int
    BY <1>6 DEF PassHalfDay, LiveTypeOK, HalfDays
  <2>2. IsFiniteSet(told')
    BY <2>1, FS_Subset DEF ToldStays
  <2>3. ASSUME NEW t \in told'
        PROVE  t[2].at <= clock + 1 /\ (CurrentDay(t[2], clock + 1) => CurrentDay(t[2], clock))
    <3> DEFINE task == t[2].task
               at == t[2].at
    <3>1. at \in Int /\ at <= clock
      BY <2>1 DEF ToldStays, LiveTypeOK, Position, HalfDays
    <3>2. LocalDay(task, at) <= LocalDay(task, clock) /\ LocalDay(task, at) \in Int
      BY <2>1, <3>1, DaysInOrder
    <3>3. LocalDay(task, clock) <= LocalDay(task, clock + 1) /\ LocalDay(task, clock) \in Int
      BY <2>1, DaysInOrder
    <3> QED
      BY <2>1, <3>1, <3>2, <3>3 DEF CurrentDay
  <2> QED
    BY <2>1, <2>2, <2>3 DEF ToldStays, CurrentDay
<1>7. ASSUME NEW r \in Requests, NEW who \in Subjects, NEW task \in Scopes, NEW at \in HalfDays, NEW app \in BOOLEAN,
             BeginStore(r, who, task, at, app)
      PROVE  ToldStays'
  BY <1>1, <1>7 DEF BeginStore
<1>8. ASSUME NEW r \in Requests, FailStore(r) PROVE ToldStays'
  BY <1>1, <1>8 DEF FailStore
<1>9. ASSUME NEW u \in Subjects, BeginPurge(u) PROVE ToldStays'
  BY <1>1, <1>9 DEF BeginPurge
<1>10. CASE AbortPurge \/ SetPruning \/ UNCHANGED livevars
  BY <1>1, <1>10 DEF AbortPurge, SetPruning, livevars
<1> QED
  BY <1>2, <1>3, <1>4, <1>5, <1>6, <1>7, <1>8, <1>9, <1>10 DEF LiveNext

-----------------------------------------------------------------------------
(* Nothing is left of a deleted account.                                   *)
LEMMA DeletedIsGoneKept ==
    LiveTypeOK /\ ReadsOwn /\ PurgesOwn /\ DeletedIsGone /\ [LiveNext]_livevars => DeletedIsGone'
<1> SUFFICES ASSUME LiveTypeOK, ReadsOwn, PurgesOwn, DeletedIsGone, [LiveNext]_livevars PROVE DeletedIsGone'
  OBVIOUS
<1>1. ASSUME UNCHANGED <<session, position, account>>, crossed \subseteq crossed' PROVE DeletedIsGone'
  BY <1>1 DEF DeletedIsGone, ActiveSessions, Stored
<1>2. ASSUME NEW r \in Requests, CommitStore(r) PROVE DeletedIsGone'
  <2>1. PICK i \in Ids, s \in Ids : CommitAt(r, i, s)
    BY <1>2, CommitsAt
  <2>2. /\ storing[r].new.who \in account /\ UNCHANGED <<account, crossed>>
        /\ position'[i] = storing[r].new /\ \A j \in Ids \ {i} : position'[j] = position[j]
    BY <2>1 DEF CommitAt, LiveTypeOK
  <2>3. session'[s].who = storing[r].new.who /\ \A z \in Ids \ {s} : session'[z] = session[z]
    BY <2>1, CommitsOwn
  <2> QED
    BY <2>2, <2>3 DEF DeletedIsGone, ActiveSessions, Stored
<1>3. CASE CommitPurge
  <2>1. /\ \A z \in Ids \ purging.sessions : session'[z] = session[z]
        /\ \A z \in purging.sessions : ~session'[z].active
    BY <1>3, PurgeCloses
  <2>2. /\ position' = [i \in Ids |-> IF i \in purging.found THEN None ELSE position[i]]
        /\ account' = account \ {purging.who} /\ crossed' = crossed /\ purging # None
    BY <1>3 DEF CommitPurge
  <2>3. ASSUME NEW u \in Subjects \ (account' \cup crossed')
        PROVE  (\A z \in ActiveSessions' : session'[z].who # u) /\ (\A j \in Stored' : position'[j].who # u)
    <3>1. CASE u = purging.who
      BY <2>1, <2>2, <2>3, <3>1 DEF PurgesOwn, Existing, Stored, ActiveSessions
    <3>2. CASE u # purging.who
      BY <2>1, <2>2, <2>3, <3>2 DEF DeletedIsGone, Stored, ActiveSessions
    <3> QED
      BY <3>1, <3>2
  <2> QED
    BY <2>3 DEF DeletedIsGone
<1>4. CASE Prune
  BY <1>4 DEF Prune, DeletedIsGone, Stored, ActiveSessions
<1>5. CASE DeleteAllLive
  BY <1>5 DEF DeleteAllLive, DeletedIsGone, Stored, ActiveSessions
<1>6. ASSUME NEW r \in Requests, NEW who \in Subjects, NEW task \in Scopes, NEW at \in HalfDays, NEW app \in BOOLEAN,
             BeginStore(r, who, task, at, app)
      PROVE  DeletedIsGone'
  BY <1>1, <1>6 DEF BeginStore
<1>7. ASSUME NEW r \in Requests, FailStore(r) PROVE DeletedIsGone'
  BY <1>1, <1>7 DEF FailStore
<1>8. ASSUME NEW u \in Subjects, BeginPurge(u) PROVE DeletedIsGone'
  BY <1>1, <1>8 DEF BeginPurge
<1>9. CASE AbortPurge \/ SetPruning \/ PassHalfDay \/ UNCHANGED livevars
  BY <1>1, <1>9 DEF AbortPurge, SetPruning, PassHalfDay, livevars
<1> QED
  BY <1>2, <1>3, <1>4, <1>5, <1>6, <1>7, <1>8, <1>9 DEF LiveNext


-----------------------------------------------------------------------------
(* Sessions count what was answered.                                       *)

\* A step changes no open session of u.
Opens(u, z) == session[z] # None /\ session[z].active /\ session[z].who = u
Untouched(u) == \A z \in Ids : session'[z] = session[z] \/ (~Opens(u, z) /\ ~Opens(u, z)')

LEMMA UntouchedSame ==
    ASSUME NEW u, NEW task, Untouched(u)
    PROVE  /\ SessionsOf(u, task)' = SessionsOf(u, task)
           /\ \A s \in SessionsOf(u, task) : session'[s] = session[s]
BY DEF Untouched, Opens, SessionsOf, ActiveSessions

LEMMA ToldFinite ==
    ASSUME ToldStays, NEW u, NEW task
    PROVE  IsFiniteSet(ToldOf(u, task)) /\ Cardinality(ToldOf(u, task)) \in Nat
<1>1. IsFiniteSet(ToldOf(u, task))
  BY FS_Subset DEF ToldStays, ToldOf
<1> QED
  BY <1>1, FS_CardinalityType

LEMMA FewerTold ==
    ASSUME ToldStays, NEW u, NEW task, \A t \in told' : t[2].who = u => t \in told
    PROVE  /\ ToldOf(u, task)' \subseteq ToldOf(u, task)
           /\ Cardinality(ToldOf(u, task)') \in Nat
           /\ Cardinality(ToldOf(u, task)') <= Cardinality(ToldOf(u, task))
<1>1. ToldOf(u, task)' \subseteq ToldOf(u, task)
  BY DEF ToldOf
<1>2. IsFiniteSet(ToldOf(u, task))
  BY ToldFinite
<1>3. IsFiniteSet(ToldOf(u, task)') /\ Cardinality(ToldOf(u, task)') <= Cardinality(ToldOf(u, task))
  BY <1>1, <1>2, FS_Subset
<1> QED
  BY <1>1, <1>3, FS_CardinalityType

LEMMA AloneKept ==
    ASSUME LiveTypeOK, ToldStays, NEW u, Alone(u), Untouched(u),
           \A q, r \in Requests : Storing(q, u)' /\ Storing(r, u)' => q = r,
           \A t \in told' : t[2].who = u => t \in told
    PROVE  Alone(u)'
<1> SUFFICES ASSUME NEW task \in Scopes
             PROVE  /\ \A s, z \in SessionsOf(u, task)' : s = z
                    /\ ToldOf(u, task)' # {} => SessionsOf(u, task)' # {}
                    /\ \A s \in SessionsOf(u, task)' :
                          /\ session'[s].count >= Cardinality(ToldOf(u, task)')
                          /\ \A t \in ToldOf(u, task)' : session'[s].seen >= t[2].at
  BY DEF Alone
<1>1. SessionsOf(u, task)' = SessionsOf(u, task) /\ \A s \in SessionsOf(u, task) : session'[s] = session[s]
  BY UntouchedSame
<1>2. /\ ToldOf(u, task)' \subseteq ToldOf(u, task)
      /\ Cardinality(ToldOf(u, task)') \in Nat
      /\ Cardinality(ToldOf(u, task)') <= Cardinality(ToldOf(u, task))
  BY FewerTold
<1>3. Cardinality(ToldOf(u, task)) \in Nat
  BY ToldFinite
<1>4. \A s \in SessionsOf(u, task) : session[s].count \in Int
  BY DEF LiveTypeOK, SessionsOf, ActiveSessions, TrackingSession, Ids
<1>5. /\ \A s, z \in SessionsOf(u, task) : s = z
      /\ ToldOf(u, task) # {} => SessionsOf(u, task) # {}
      /\ \A s \in SessionsOf(u, task) :
            /\ session[s].count >= Cardinality(ToldOf(u, task))
            /\ \A t \in ToldOf(u, task) : session[s].seen >= t[2].at
  BY DEF Alone
<1> DEFINE S == SessionsOf(u, task)
           N == Cardinality(ToldOf(u, task))
           M == Cardinality(ToldOf(u, task)')
<1>6. ASSUME NEW s \in S PROVE session'[s].count >= M
  <2>1. session'[s].count = session[s].count /\ session[s].count \in Int /\ session[s].count >= N
    BY <1>1, <1>4, <1>5
  <2>2. M \in Nat /\ N \in Nat /\ M <= N
    BY <1>2, <1>3
  <2> HIDE DEF M, N
  <2> QED
    BY <2>1, <2>2
<1> HIDE DEF N, M
<1> QED
  BY <1>1, <1>2, <1>5, <1>6 DEF M

LEMMA KnowsKept ==
    ASSUME LiveTypeOK, ReadsOwn, NEW u \in account, NEW r \in Requests,
           Storing(r, u), Knows(r), storing'[r] = storing[r], Untouched(u)
    PROVE  Knows(r)'
<1> DEFINE w == storing[r]
<1>1. w # None /\ w.new.who = u
  BY DEF Storing
<1>2. w.id \in Ids => w.id \in SessionsOf(u, w.new.task)
  BY <1>1 DEF ReadsOwn
<1>3. w.id \in Ids => session'[w.id] = session[w.id]
  BY <1>2 DEF Untouched, Opens, SessionsOf, ActiveSessions
<1>4. w.id = None => \A z \in Ids : ~(session'[z] # None /\ session'[z].active
                                      /\ session'[z].who = u /\ session'[z].task = w.new.task)
  BY <1>1 DEF Knows, Untouched, Opens, SessionsOf, ActiveSessions
<1> QED
  BY <1>1, <1>3, <1>4 DEF Knows, SessionsOf, ActiveSessions


\* One subject through a step: what CountsAll says of it.
Counts(u) == Alone(u) /\ \A r \in Requests : Storing(r, u) => Knows(r)

LEMMA CountsKept ==
    ASSUME LiveTypeOK, ReadsOwn, ToldStays, NEW u \in account, Counts(u), Untouched(u),
           \A r \in Requests : Storing(r, u)' => Storing(r, u) /\ storing'[r] = storing[r],
           \A t \in told' : t[2].who = u => t \in told
    PROVE  Counts(u)'
<1>1. Alone(u)'
  BY AloneKept DEF Counts, Alone
<1>2. ASSUME NEW r \in Requests, Storing(r, u)' PROVE Knows(r)'
  BY <1>2, KnowsKept DEF Counts
<1> QED
  BY <1>1, <1>2 DEF Counts

\* The first request about a subject reads the session that there is.
LEMMA BeginCounts ==
    ASSUME LiveTypeOK, ReadsOwn, ToldStays, NEW r \in Requests, NEW who \in Subjects, NEW task \in Scopes,
           NEW at \in HalfDays, NEW app \in BOOLEAN, BeginStore(r, who, task, at, app),
           NEW u \in account, u \notin crossed', Counts(u)
    PROVE  Counts(u)'
<1> DEFINE new == [who |-> who, task |-> task, at |-> at, app |-> IF app THEN clock ELSE None]
           own == [who |-> who, task |-> task, seen |-> at, count |-> 1, active |-> TRUE]
<1>1. /\ UNCHANGED <<session, told>> /\ storing[r] = None
      /\ \A q \in Requests \ {r} : storing'[q] = storing[q]
      /\ u = who => \A q \in Requests : ~Storing(q, u)
  BY DEF BeginStore, LiveTypeOK, Storing
<1>2. /\ storing'[r].new.at = at /\ storing'[r].new.who = who /\ storing'[r].new.task = task
      /\ \/ storing'[r].id = None /\ SessionsOf(who, task) = {} /\ storing'[r].row.seen = at
         \/ \E s \in SessionsOf(who, task) :
               /\ storing'[r].id = s /\ storing'[r].row.count = session[s].count + 1
               /\ storing'[r].row.seen = Later(session[s].seen, at)
  <2>1. CASE storing' = [storing EXCEPT ![r] = [new |-> new, id |-> None, row |-> own]] /\ SessionsOf(who, task) = {}
    <3>1. storing'[r] = [new |-> new, id |-> None, row |-> own]
      BY <2>1 DEF LiveTypeOK
    <3> QED
      BY <2>1, <3>1
  <2>2. ASSUME NEW s \in SessionsOf(who, task),
               storing' = [storing EXCEPT ![r] = [new |-> new, id |-> s, row |-> Summary(s, new)]]
        PROVE  /\ storing'[r].new = new /\ storing'[r].id = s
               /\ storing'[r].row.count = session[s].count + 1
               /\ storing'[r].row.seen = Later(session[s].seen, at)
    <3>1. storing'[r] = [new |-> new, id |-> s, row |-> Summary(s, new)]
      BY <2>2 DEF LiveTypeOK
    <3>2. Summary(s, new).count = session[s].count + 1 /\ Summary(s, new).seen = Later(session[s].seen, new.at)
      BY DEF Summary, Updated
    <3> QED
      BY <3>1, <3>2
  <2>3. \/ storing' = [storing EXCEPT ![r] = [new |-> new, id |-> None, row |-> own]] /\ SessionsOf(who, task) = {}
        \/ \E s \in SessionsOf(who, task) :
              storing' = [storing EXCEPT ![r] = [new |-> new, id |-> s, row |-> Summary(s, new)]]
    BY DEF BeginStore
  <2> QED
    BY <2>1, <2>2, <2>3
<1>3. Untouched(u)
  BY <1>1 DEF Untouched
<1>4. CASE u # who
  <2>1. \A q \in Requests : Storing(q, u)' => Storing(q, u) /\ storing'[q] = storing[q]
    BY <1>1, <1>2, <1>4 DEF Storing
  <2>2. \A t \in told' : t[2].who = u => t \in told
    BY <1>1
  <2> QED
    BY <1>3, <2>1, <2>2, CountsKept
<1>5. CASE u = who
  <2>1. \A q \in Requests : Storing(q, u)' => q = r
    BY <1>1, <1>5 DEF Storing
  <2>2. Alone(u)'
    <3>1. \A t \in told' : t[2].who = u => t \in told
      BY <1>1
    <3>2. \A p, q \in Requests : Storing(p, u)' /\ Storing(q, u)' => p = q
      BY <2>1
    <3>3. Alone(u)
      BY DEF Counts
    <3> QED
      BY <1>3, <3>1, <3>2, <3>3, AloneKept
  <2>3. Knows(r)'
    <3>1. None \notin Ids /\ at \in Int
      BY NoneAssumption DEF Ids, HalfDays
    <3>2. CASE storing'[r].id = None /\ SessionsOf(who, task) = {} /\ storing'[r].row.seen = at
      BY <1>1, <1>2, <3>1, <3>2 DEF Knows, SessionsOf, ActiveSessions
    <3>3. ASSUME NEW s \in SessionsOf(who, task),
                 storing'[r].id = s /\ storing'[r].row.count = session[s].count + 1
                 /\ storing'[r].row.seen = Later(session[s].seen, at)
          PROVE  Knows(r)'
      <4>1. s \in Ids /\ session[s].seen \in Int
        BY DEF SessionsOf, ActiveSessions, LiveTypeOK, TrackingSession, HalfDays
      <4>2. storing'[r].row.seen >= at /\ storing'[r].row.seen >= session[s].seen
        BY <3>1, <3>3, <4>1 DEF Later
      <4> QED
        BY <1>1, <1>2, <3>1, <3>3, <4>1, <4>2 DEF Knows
    <3> QED
      BY <1>2, <3>2, <3>3
  <2> QED
    BY <2>1, <2>2, <2>3 DEF Counts
<1> QED
  BY <1>4, <1>5

\* It is the only one that stores, and counts what it answers.
LEMMA CommitCounts ==
    ASSUME LiveTypeOK, ReadsOwn, ToldStays, NEW r \in Requests, NEW i \in Ids, NEW s \in Ids, CommitAt(r, i, s),
           NEW u \in account, Counts(u)
    PROVE  Counts(u)'
<1> DEFINE w == storing[r]
<1>1. /\ w # None /\ storing'[r] = None /\ \A q \in Requests \ {r} : storing'[q] = storing[q]
      /\ told' = told \cup {<<i, w.new>>}
  BY DEF CommitAt, LiveTypeOK
<1>2. /\ w.new \in Position /\ w.row \in TrackingSession
      /\ \A z \in Ids \ {s} : session'[z] = session[z]
      /\ session'[s] # None /\ session'[s].who = w.new.who
      /\ session'[s].task = w.new.task /\ session'[s].active
      /\ session'[s].seen = w.row.seen /\ session'[s].count = w.row.count
      /\ \/ session[s] = None /\ w.id = None
         \/ s \in SessionsOf(w.new.who, w.new.task) /\ w.id = s
  BY CommitsOwn
<1>3. CASE u # w.new.who
  <2>1. Untouched(u)
    BY <1>2, <1>3 DEF Untouched, Opens, SessionsOf, ActiveSessions
  <2>2. \A q \in Requests : Storing(q, u)' => Storing(q, u) /\ storing'[q] = storing[q]
    BY <1>1 DEF Storing
  <2>3. \A t \in told' : t[2].who = u => t \in told
    BY <1>1, <1>3
  <2> QED
    BY <2>1, <2>2, <2>3, CountsKept
<1>4. CASE u = w.new.who
  <2>1. Storing(r, u) /\ Knows(r) /\ Alone(u)
    BY <1>1, <1>4 DEF Counts, Storing
  <2>2. \A q \in Requests : ~Storing(q, u)'
    BY <1>1, <2>1 DEF Storing, Alone
  <2>3. ASSUME NEW task \in Scopes
        PROVE  /\ \A y, z \in SessionsOf(u, task)' : y = z
               /\ ToldOf(u, task)' # {} => SessionsOf(u, task)' # {}
               /\ \A z \in SessionsOf(u, task)' :
                     /\ session'[z].count >= Cardinality(ToldOf(u, task)')
                     /\ \A t \in ToldOf(u, task)' : session'[z].seen >= t[2].at
    <3>0. /\ \A y, z \in SessionsOf(u, task) : y = z
          /\ ToldOf(u, task) # {} => SessionsOf(u, task) # {}
          /\ \A z \in SessionsOf(u, task) :
                /\ session[z].count >= Cardinality(ToldOf(u, task))
                /\ \A t \in ToldOf(u, task) : session[z].seen >= t[2].at
      BY <2>1 DEF Alone
    <3>1. CASE task # w.new.task
      <4>1. SessionsOf(u, task)' = SessionsOf(u, task) /\ \A z \in SessionsOf(u, task) : session'[z] = session[z]
        BY <1>2, <3>1 DEF SessionsOf, ActiveSessions
      <4>2. ToldOf(u, task)' = ToldOf(u, task)
        BY <1>1, <3>1 DEF ToldOf
      <4> QED
        BY <3>0, <4>1, <4>2
    <3>2. CASE task = w.new.task
      <4>1. SessionsOf(u, task)' = {s}
        <5>1. s \in SessionsOf(u, task)'
          BY <1>2, <1>4, <3>2 DEF SessionsOf, ActiveSessions
        <5>2. ASSUME NEW z \in SessionsOf(u, task)', z # s PROVE FALSE
          <6>1. z \in SessionsOf(u, task)
            BY <1>2, <5>2 DEF SessionsOf, ActiveSessions
          <6>2. w.id # None
            BY <1>4, <2>1, <3>2, <6>1 DEF Knows
          <6>3. s \in SessionsOf(u, task)
            BY <1>2, <1>4, <3>2, <6>2
          <6> QED
            BY <3>0, <5>2, <6>1, <6>3
        <5> QED
          BY <5>1, <5>2
      <4>2. ToldOf(u, task)' = ToldOf(u, task) \cup {<<i, w.new>>}
        BY <1>1, <1>4, <3>2 DEF ToldOf
      <4> DEFINE T == ToldOf(u, task)
                 x == <<i, w.new>>
      <4>3. IsFiniteSet(T) /\ Cardinality(T) \in Nat
        BY ToldFinite
      <4>4. Cardinality(T \cup {x}) \in Nat /\ Cardinality(T \cup {x}) <= Cardinality(T) + 1
        <5>1. Cardinality(T \cup {x}) = IF x \in T THEN Cardinality(T) ELSE Cardinality(T) + 1
          BY <4>3, FS_AddElement
        <5> HIDE DEF T, x
        <5> QED
          BY <4>3, <5>1
      <4>5. w.row.count \in Int /\ w.row.count >= 1 /\ w.row.seen \in Int
        BY <1>2 DEF TrackingSession, Ids, HalfDays
      <4>6. w.row.count >= Cardinality(T) + 1 /\ \A t \in T : w.row.seen >= t[2].at
        <5>1. CASE w.id = None
          <6>1. SessionsOf(u, task) = {}
            BY <1>4, <2>1, <3>2, <5>1 DEF Knows
          <6>2. T = {}
            BY <3>0, <6>1
          <6>3. Cardinality(T) = 0
            BY <6>2, FS_EmptySet
          <6> QED
            BY <4>5, <6>2, <6>3
        <5>2. CASE w.id # None
          <6>1. s \in SessionsOf(u, task) /\ w.id = s
            BY <1>2, <1>4, <3>2, <5>2
          <6>2. w.row.count = session[s].count + 1 /\ w.row.seen >= session[s].seen
            BY <2>1, <6>1 DEF Knows
          <6>3. session[s].count \in Int /\ session[s].seen \in Int
            BY <6>1 DEF SessionsOf, ActiveSessions, LiveTypeOK, TrackingSession, Ids, HalfDays
          <6>4. session[s].count >= Cardinality(T) /\ \A t \in T : session[s].seen >= t[2].at
            BY <3>0, <6>1
          <6>5. \A t \in T : t[2].at \in Int
            BY DEF ToldOf, LiveTypeOK, Position, HalfDays
          <6>6. w.row.count >= Cardinality(T) + 1
            <7> HIDE DEF T
            <7> QED
              BY <4>3, <4>5, <6>2, <6>3, <6>4
          <6> HIDE DEF T
          <6> QED
            BY <4>5, <6>2, <6>3, <6>4, <6>5, <6>6
        <5> QED
          BY <5>1, <5>2
      <4>7. w.row.seen >= w.new.at
        BY <2>1 DEF Knows
      <4>8. w.row.count >= Cardinality(T \cup {x})
        <5> HIDE DEF T, x
        <5> QED
          BY <4>3, <4>4, <4>5, <4>6
      <4>9. \A t \in T \cup {x} : w.row.seen >= t[2].at
        BY <4>6, <4>7
      <4>10. session'[s].count = w.row.count /\ session'[s].seen = w.row.seen
        BY <1>2
      <4>11. Cardinality(ToldOf(u, task)') = Cardinality(T \cup {x})
        BY <4>2
      <4> QED
        BY <4>1, <4>2, <4>8, <4>9, <4>10, <4>11
    <3> QED
      BY <3>1, <3>2
  <2>4. Alone(u)'
    BY <2>2, <2>3 DEF Alone
  <2> QED
    BY <2>2, <2>4 DEF Counts
<1> QED
  BY <1>3, <1>4


LEMMA CountsAllKept ==
    LiveTypeOK /\ ReadsOwn /\ PurgesOwn /\ ToldStays /\ CountsAll /\ [LiveNext]_livevars => CountsAll'
<1> SUFFICES ASSUME LiveTypeOK, ReadsOwn, PurgesOwn, ToldStays, CountsAll, [LiveNext]_livevars,
                    NEW u \in account' \ crossed'
             PROVE  Counts(u)'
  BY DEF CountsAll, Counts
<1>0. ASSUME account' \subseteq account, crossed \subseteq crossed' PROVE u \in account /\ Counts(u)
  BY <1>0 DEF CountsAll, Counts
<1>1. ASSUME UNCHANGED <<session, account, told>>, crossed \subseteq crossed',
             \A r \in Requests : Storing(r, u)' => Storing(r, u) /\ storing'[r] = storing[r]
      PROVE  Counts(u)'
  <2>1. u \in account /\ Counts(u)
    BY <1>0, <1>1
  <2>2. Untouched(u) /\ \A t \in told' : t[2].who = u => t \in told
    BY <1>1 DEF Untouched
  <2> QED
    BY <1>1, <2>1, <2>2, CountsKept
<1>2. ASSUME NEW r \in Requests, NEW who \in Subjects, NEW task \in Scopes, NEW at \in HalfDays, NEW app \in BOOLEAN,
             BeginStore(r, who, task, at, app)
      PROVE  Counts(u)'
  <2>1. account' \subseteq account /\ crossed \subseteq crossed' /\ u \notin crossed'
    BY <1>2 DEF BeginStore
  <2>2. u \in account /\ Counts(u)
    BY <1>0, <2>1
  <2> QED
    BY <1>2, <2>1, <2>2, BeginCounts
<1>3. ASSUME NEW r \in Requests, CommitStore(r) PROVE Counts(u)'
  <2>1. PICK i \in Ids, s \in Ids : CommitAt(r, i, s)
    BY <1>3, CommitsAt
  <2>2. u \in account /\ Counts(u)
    BY <1>0, <2>1 DEF CommitAt
  <2> QED
    BY <2>1, <2>2, CommitCounts
<1>4. ASSUME NEW r \in Requests, FailStore(r) PROVE Counts(u)'
  <2>1. /\ UNCHANGED <<session, account, told>> /\ crossed' = crossed /\ storing'[r] = None
        /\ \A q \in Requests \ {r} : storing'[q] = storing[q]
    BY <1>4 DEF FailStore, LiveTypeOK
  <2>2. \A q \in Requests : Storing(q, u)' => Storing(q, u) /\ storing'[q] = storing[q]
    BY <2>1 DEF Storing
  <2> QED
    BY <1>1, <2>1, <2>2
<1>5. ASSUME NEW v \in Subjects, BeginPurge(v) PROVE Counts(u)'
  <2>1. UNCHANGED <<session, account, told, storing>> /\ crossed \subseteq crossed'
    BY <1>5 DEF BeginPurge
  <2>2. \A q \in Requests : Storing(q, u)' => Storing(q, u) /\ storing'[q] = storing[q]
    BY <2>1 DEF Storing
  <2> QED
    BY <1>1, <2>1, <2>2
<1>6. CASE CommitPurge
  <2>1. /\ account' = account \ {purging.who} /\ UNCHANGED <<storing, crossed>>
        /\ told' = {t \in told : t[1] \notin purging.found} /\ purging # None
    BY <1>6 DEF CommitPurge
  <2>2. u \in account /\ Counts(u) /\ u # purging.who
    BY <1>0, <2>1
  <2>3. Untouched(u)
    <3>1. /\ \A z \in Ids \ purging.sessions : session'[z] = session[z]
          /\ \A z \in purging.sessions : ~session'[z].active
      BY <1>6, PurgeCloses
    <3>2. \A z \in purging.sessions : session[z].who # u
      BY <2>1, <2>2 DEF PurgesOwn
    <3> QED
      BY <3>1, <3>2 DEF Untouched, Opens
  <2>4. \A q \in Requests : Storing(q, u)' => Storing(q, u) /\ storing'[q] = storing[q]
    BY <2>1 DEF Storing
  <2>5. \A t \in told' : t[2].who = u => t \in told
    BY <2>1
  <2> QED
    BY <2>2, <2>3, <2>4, <2>5, CountsKept
<1>7. CASE AbortPurge \/ Prune \/ SetPruning \/ UNCHANGED livevars
  <2>1. UNCHANGED <<session, account, told, storing, crossed>>
    BY <1>7 DEF AbortPurge, Prune, SetPruning, livevars
  <2>2. \A q \in Requests : Storing(q, u)' => Storing(q, u) /\ storing'[q] = storing[q]
    BY <2>1 DEF Storing
  <2> QED
    BY <1>1, <2>1, <2>2
<1>8. CASE DeleteAllLive
  <2>1. /\ UNCHANGED <<account, crossed>> /\ session' = [s \in Ids |-> None] /\ told' = {}
    BY <1>8 DEF DeleteAllLive
  <2>2. u \in account /\ Counts(u)
    BY <1>0, <2>1
  <2>3. None \notin Ids /\ 0 \notin Ids
    BY NoneAssumption DEF Ids
  <2>4. ASSUME NEW q \in Requests, storing'[q] # None
        PROVE  /\ storing[q] # None /\ storing'[q].new = storing[q].new /\ storing'[q].row = storing[q].row
               /\ storing'[q].id \notin Ids
    BY <1>8, <2>3, <2>4 DEF DeleteAllLive
  <2>5. \A task : SessionsOf(u, task)' = {} /\ ToldOf(u, task)' = {}
    BY <2>1 DEF SessionsOf, ActiveSessions, ToldOf
  <2>6. \A q, r \in Requests : Storing(q, u)' /\ Storing(r, u)' => q = r
    BY <2>2, <2>4 DEF Counts, Alone, Storing
  <2>7. Alone(u)'
    BY <2>5, <2>6 DEF Alone
  <2>8. ASSUME NEW q \in Requests, Storing(q, u)' PROVE Knows(q)'
    <3>1. storing'[q] # None /\ storing[q].new.who = u /\ storing[q] # None
      BY <2>4, <2>8 DEF Storing
    <3>2. storing[q].row.seen >= storing[q].new.at
      BY <2>2, <3>1 DEF Counts, Storing, Knows
    <3> QED
      BY <2>1, <2>4, <3>1, <3>2 DEF Knows, SessionsOf, ActiveSessions
  <2> QED
    BY <2>7, <2>8 DEF Counts
<1>9. CASE PassHalfDay
  <2>1. UNCHANGED <<account, session, storing, crossed>> /\ told' \subseteq told
    BY <1>9 DEF PassHalfDay
  <2>2. u \in account /\ Counts(u)
    BY <1>0, <2>1
  <2>3. Untouched(u)
    BY <2>1 DEF Untouched
  <2>4. \A q \in Requests : Storing(q, u)' => Storing(q, u) /\ storing'[q] = storing[q]
    BY <2>1 DEF Storing
  <2>5. \A t \in told' : t[2].who = u => t \in told
    BY <2>1
  <2> QED
    BY <2>2, <2>3, <2>4, <2>5, CountsKept
<1> QED
  BY <1>2, <1>3, <1>4, <1>5, <1>6, <1>7, <1>8, <1>9 DEF LiveNext

-----------------------------------------------------------------------------
(* The invariant is inductive, and implies what the pages promise.         *)
LEMMA LiveInitInv == LiveInit => LiveInv
<1> SUFFICES ASSUME LiveInit PROVE LiveInv
  OBVIOUS
<1>1. LiveTypeOK
  BY LiveInitTyped
<1>2. ToldStays
  BY FS_EmptySet DEF LiveInit, ToldStays
<1>3. Stored = {} /\ ActiveSessions = {}
  BY DEF LiveInit, Stored, ActiveSessions
<1>4. HasSession /\ DeletedIsGone
  BY <1>3 DEF HasSession, DeletedIsGone
<1>5. ReadsOwn /\ PurgesOwn
  BY DEF LiveInit, ReadsOwn, PurgesOwn
<1>6. CountsAll
  BY <1>3 DEF LiveInit, CountsAll, Alone, Storing, SessionsOf, ToldOf
<1> QED
  BY <1>1, <1>2, <1>4, <1>5, <1>6 DEF LiveInv

LEMMA LiveNextInv == LiveInv /\ [LiveNext]_livevars => LiveInv'
BY LiveNextTyped, HasSessionKept, ReadsOwnKept, PurgesOwnKept, ToldStaysKept, CountsAllKept, DeletedIsGoneKept
DEF LiveInv

\* An earlier day's position is older than one of today.
LEMMA TodayIsNewer ==
    ASSUME NEW p, NEW q, NEW moment \in Int, p.at \in Int, q.at \in Int, q.at <= moment, p.task = q.task,
           CurrentDay(p, moment), ~CurrentDay(q, moment)
    PROVE  p.at >= q.at
<1> DEFINE task == p.task
<1>1. LocalDay(task, q.at) <= LocalDay(task, moment) /\ LocalDay(task, q.at) \in Int
  BY DaysInOrder
<1>2. LocalDay(task, p.at) = LocalDay(task, moment) /\ LocalDay(task, q.at) # LocalDay(task, moment)
  BY DEF CurrentDay
<1>3. p.at <= q.at => LocalDay(task, p.at) <= LocalDay(task, q.at) /\ LocalDay(task, p.at) \in Int
  BY DaysInOrder
<1> QED
  BY <1>1, <1>2, <1>3

\* The rows read have the newest of a subject or as many of others as they may be.
LEMMA ReadShows ==
    ASSUME NEW V \in SUBSET Ids, NEW S \in SUBSET V, NEW T \in Read(S), NEW i \in Newest(S),
           IsFiniteSet(Ids), RowLimit \in Nat, \A j \in V : position[j].at \in Int
    PROVE  Shown(i, Newest(T), V)
<1> DEFINE others == {j \in V : position[j].who # position[i].who /\ position[j].at >= position[i].at}
<1>1. /\ T \subseteq S /\ \A j \in T, k \in S \ T : position[j].at >= position[k].at
      /\ Cardinality(T) = RowLimit \/ T = S
  BY DEF Read
<1>2. i \in S /\ \A j \in S : position[i].who = position[j].who => position[i].at >= position[j].at
  BY DEF Newest
<1>3. CASE i \in T
  <2>1. i \in Newest(T)
    BY <1>1, <1>2, <1>3 DEF Newest
  <2> QED
    BY <2>1 DEF Shown
<1>4. CASE i \notin T
  <2>1. Cardinality(T) = RowLimit /\ \A j \in T : position[j].at >= position[i].at
    BY <1>1, <1>2, <1>4
  <2>2. CASE \E j \in T : position[j].who = position[i].who
    <3>1. PICK j \in T : position[j].who = position[i].who
      BY <2>2
    <3>2. position[j].at = position[i].at
      BY <1>1, <1>2, <2>1, <3>1
    <3>3. j \in Newest(T)
      BY <1>1, <1>2, <3>1, <3>2 DEF Newest
    <3> QED
      BY <3>1, <3>2, <3>3 DEF Shown
  <2>3. CASE \A j \in T : position[j].who # position[i].who
    <3>1. T \subseteq others /\ others \subseteq Ids
      BY <1>1, <2>1, <2>3
    <3> HIDE DEF others
    <3>2. IsFiniteSet(others) /\ Cardinality(T) <= Cardinality(others)
      BY <3>1, FS_Subset
    <3>3. Cardinality(others) \in Nat
      BY <3>2, FS_CardinalityType
    <3>4. Cardinality(others) >= RowLimit
      BY <2>1, <3>2, <3>3
    <3> QED
      BY <3>4 DEF Shown, others
  <2> QED
    BY <2>2, <2>3
<1> QED
  BY <1>3, <1>4

LEMMA LiveInvHolds == LiveInv => PositionsHold
<1> SUFFICES ASSUME LiveInv PROVE PositionsHold
  OBVIOUS
<1>0. LiveTypeOK /\ HasSession /\ ToldStays /\ CountsAll /\ DeletedIsGone
  BY DEF LiveInv
<1>1. KeptAllDay
  <2>1. ASSUME NEW t \in told, CurrentDay(t[2], clock) PROVE t[1] \in History(t[2].task) /\ position[t[1]] = t[2]
    <3>1. t[1] \in Ids /\ t[2] \in Position /\ position[t[1]] = t[2]
      BY <1>0, <2>1 DEF LiveTypeOK, ToldStays
    <3>2. t[2] # None
      BY <3>1, NoneAssumption
    <3> QED
      BY <2>1, <3>1, <3>2 DEF History, Stored
  <2> QED
    BY <2>1 DEF KeptAllDay
<1>2. NewestShown
  <2>0. clock \in Int /\ \A j \in Stored : position[j].at \in Int /\ position[j].at <= clock
    BY <1>0 DEF LiveTypeOK, HasSession, Stored, Position, HalfDays
  <2>1. \A j \in Stored : \E s \in ActiveSessions :
           session[s].task = position[j].task /\ session[s].who = position[j].who
    BY <1>0 DEF HasSession, SessionsOf
  <2>2. IsFiniteSet(Ids) /\ Stored \subseteq Ids /\ RowLimit \in Nat
    BY BoundsAssumption, FS_Interval DEF Ids, Stored
  <2>3. ASSUME NEW task \in Tasks, NEW i \in Newest(History(task)), NEW answer \in Live(task)
        PROVE  Shown(i, answer, {j \in {k \in Stored : Visible(position[k], clock)} : position[j].task = task})
    <3> DEFINE S == {j \in Stored : /\ position[j].task = task
                                    /\ Visible(position[j], clock)
                                    /\ \E s \in ActiveSessions : /\ session[s].task = task
                                                                 /\ session[s].who = position[j].who}
               V == {j \in {k \in Stored : Visible(position[k], clock)} : position[j].task = task}
    <3>1. i \in Stored /\ position[i].task = task /\ CurrentDay(position[i], clock)
      BY DEF Newest, History
    <3>2. i \in S
      BY <2>1, <3>1 DEF Visible
    <3>3. ASSUME NEW j \in S, position[i].who = position[j].who PROVE position[i].at >= position[j].at
      <4>1. j \in Stored /\ position[j].task = task
        OBVIOUS
      <4>2. CASE CurrentDay(position[j], clock)
        BY <3>3, <4>1, <4>2 DEF Newest, History
      <4>3. CASE ~CurrentDay(position[j], clock)
        BY <2>0, <3>1, <4>1, <4>3, TodayIsNewer
      <4> QED
        BY <4>2, <4>3
    <3>4. PICK T \in Read(S) : answer = Newest(T)
      BY DEF Live
    <3>5. V \subseteq Stored /\ S \subseteq V
      OBVIOUS
    <3> HIDE DEF S, V
    <3>6. i \in Newest(S)
      BY <3>2, <3>3 DEF Newest
    <3>7. Shown(i, answer, V)
      BY <2>0, <2>2, <3>4, <3>5, <3>6, ReadShows
    <3> QED
      BY <3>7 DEF V
  <2>4. ASSUME NEW i \in Newest({k \in Stored : Visible(position[k], clock)}), NEW answer \in AllLive
        PROVE  Shown(i, answer, {k \in Stored : Visible(position[k], clock)})
    <3> DEFINE V == {k \in Stored : Visible(position[k], clock)}
               S == {j \in Stored : /\ Visible(position[j], clock)
                                    /\ \E s \in ActiveSessions : session[s].who = position[j].who}
    <3>1. PICK T \in Read(S) : answer = Newest(T)
      BY DEF AllLive
    <3>2. S = V /\ V \subseteq Stored
      BY <2>1
    <3> HIDE DEF S, V
    <3>3. i \in Newest(V)
      BY DEF V
    <3>4. Shown(i, answer, V)
      BY <2>0, <2>2, <3>1, <3>2, <3>3, ReadShows
    <3> QED
      BY <3>4 DEF V
  <2> QED
    BY <2>3, <2>4 DEF NewestShown
<1>3. SessionCovers
  <2>1. ASSUME NEW t \in told, t[2].who \in account \ crossed
        PROVE  \E s \in Ids :
                  /\ SessionsOf(t[2].who, t[2].task) = {s}
                  /\ session[s].seen >= t[2].at
                  /\ session[s].count >= Cardinality({u \in told : u[2].who = t[2].who /\ u[2].task = t[2].task})
    <3> DEFINE who == t[2].who
               task == t[2].task
    <3>1. task \in Scopes
      BY <1>0 DEF LiveTypeOK, Position
    <3>2. t \in ToldOf(who, task)
      BY DEF ToldOf
    <3>3. /\ \A s, z \in SessionsOf(who, task) : s = z
          /\ SessionsOf(who, task) # {}
          /\ \A s \in SessionsOf(who, task) :
                session[s].count >= Cardinality(ToldOf(who, task)) /\ session[s].seen >= t[2].at
      BY <1>0, <2>1, <3>1, <3>2 DEF CountsAll, Alone
    <3>4. PICK s : s \in SessionsOf(who, task)
      BY <3>3
    <3>5. s \in Ids /\ SessionsOf(who, task) = {s}
      BY <3>3, <3>4 DEF SessionsOf, ActiveSessions
    <3> QED
      BY <3>3, <3>4, <3>5 DEF ToldOf
  <2> QED
    BY <2>1 DEF SessionCovers
<1> QED
  BY <1>0, <1>1, <1>2, <1>3 DEF PositionsHold

\* For any subjects, tasks, zone and number of requests: an answered position
\* stays on its task's page until midnight there, the newest of a subject is on
\* the live maps unless others fill them with rows as late, a session counts what
\* was answered, and nothing of a deleted account is left (store_position,
\* get_live_positions, prune_old_live_positions, delete_user_account).
THEOREM PositionsAlwaysHold == LiveSpec => []PositionsHold
<1>1. LiveInit => LiveInv
  BY LiveInitInv
<1>2. LiveInv /\ [LiveNext]_livevars => LiveInv'
  BY LiveNextInv
<1>3. LiveInv => PositionsHold
  BY LiveInvHolds
<1> QED
  BY <1>1, <1>2, <1>3, PTL DEF LiveSpec

-----------------------------------------------------------------------------
(* Mesh nodes: a packet that nothing crossed has read what it changes.     *)

Hearing(r) == hearing[r] # None

\* A packet that nothing crossed still sees its rows as they are, and over BLE no
\* level that is newer.
SingleReads ==
    \A r \in single :
       /\ Hearing(r)
       /\ \A d \in Touched(hearing[r].packet) : hearing[r].was[d] = status[d]
       /\ ~Ignored(hearing[r].packet)

\* A packet has read the rows that it touches, and what was a row stays one.
ReadsTouched ==
    \A r \in Requests : Hearing(r) =>
       /\ DOMAIN hearing[r].was = Touched(hearing[r].packet)
       /\ \A d \in DOMAIN hearing[r].was : hearing[r].was[d] # None => status[d] # None

\* The gateway stored for a node is the one of the packet it was last seen by.
GatewayOf(s, d, known) ==
    s.gw # None /\ s.src # "app_ble" =>
       \E p \in known : d \in Touched(p) /\ p.gw = s.gw /\ p.src = s.src /\ p.at = s.seen

LevelOf(s, d, known) ==
    s.level # None => \E p \in known : p.dev = d /\ p.level = s.level /\ p.at = s.levelAt

About(d, q) == {i \in DOMAIN q : d \in Touched(q[i])}

StatusTold ==
    ~mixed => \A d \in Nodes : status[d] # None =>
       /\ GatewayOf(status[d], d, Recorded)
       /\ LevelOf(status[d], d, Recorded)
       /\ status[d].count = Cardinality(About(d, heard))

\* No packet has told of a node that is not there.
UnknownUntold ==
    ~mixed => \A d \in Nodes : status[d] = None => About(d, heard) = {}

Readings == UNION {Reading(S) : S \in SUBSET Nodes}
NodesTyped == NodeTypeOK /\ hearing \in [Requests -> Readings \cup {None}]

NodeInv == NodesTyped /\ SingleReads /\ ReadsTouched /\ StatusTold /\ UnknownUntold

LEMMA NodeInitHolds == NodeInit => NodeInv
<1> SUFFICES ASSUME NodeInit PROVE NodeInv
  OBVIOUS
<1>1. NodesTyped
  <2>1. heard \in Seq(Packet)
    BY DEF NodeInit
  <2>2. now \in Times
    BY LimitsAssumption DEF NodeInit, Times
  <2> QED
    BY <2>1, <2>2 DEF NodeInit, NodesTyped, NodeTypeOK
<1>2. SingleReads /\ ReadsTouched
  BY DEF NodeInit, SingleReads, ReadsTouched, Hearing
<1>3. StatusTold /\ UnknownUntold
  BY DEF NodeInit, StatusTold, UnknownUntold, About
<1> QED
  BY <1>1, <1>2, <1>3 DEF NodeInv

-----------------------------------------------------------------------------
LEMMA TouchedNodes == \A p \in Packet : Touched(p) \subseteq Nodes /\ p.dev \in Touched(p)
  BY DEF Packet, Touched

LEMMA ReadingShape ==
    ASSUME NEW w \in Readings
    PROVE  /\ w.packet \in Packet
           /\ DOMAIN w.was \subseteq Nodes
           /\ \A d \in DOMAIN w.was : w.was[d] \in Status \cup {None}
<1>1. PICK S \in SUBSET Nodes : w \in Reading(S)
  BY DEF Readings
<1>2. w.packet \in Packet /\ w.was \in [S -> Status \cup {None}]
  BY <1>1 DEF Reading
<1> QED
  BY <1>1, <1>2

LEMMA ReadingsSome ==
    ASSUME NEW h \in [Requests -> Readings \cup {None}]
    PROVE  \A r \in Requests : h[r] # None => \E S \in SUBSET Nodes : h[r] \in Reading(S)
  BY DEF Readings

LEMMA SightingTyped ==
    ASSUME NEW old \in Status, NEW p \in Packet, NEW d
    PROVE  Sighting(old, p, d) \in Status
  BY DEF Sighting, Status, Packet

LEMMA NewStatusTyped == \A p \in Packet : NewStatus(p) \in Status
  BY DEF NewStatus, Status, Packet

LEMMA BecomesTyped ==
    ASSUME NEW w \in Readings, NEW d \in DOMAIN w.was
    PROVE  Becomes(w, d) \in Status
<1>1. w.packet \in Packet /\ w.was[d] \in Status \cup {None}
  BY ReadingShape
<1>2. (IF d \in Inserted(w) THEN NewStatus(w.packet) ELSE w.was[d]) \in Status
  BY <1>1, NewStatusTyped DEF Inserted
<1> QED
  BY <1>1, <1>2, SightingTyped DEF Becomes

LEMMA StatusFields ==
    ASSUME NEW s \in Status
    PROVE  DOMAIN s = {"seen", "src", "gw", "pos", "count", "level", "levelAt"}
  BY DEF Status

\* Column by column, what is written of two rows is a row.
LEMMA MergedTyped ==
    ASSUME NEW a \in Status, NEW b \in Status, NEW c \in Status
    PROVE  [k \in DOMAIN a |-> IF b[k] = c[k] THEN a[k] ELSE b[k]] \in Status
  BY StatusFields DEF Status

LEMMA WrittenTyped ==
    ASSUME NodesTyped, NEW w \in Readings, NEW d \in DOMAIN w.was,
           d \notin Inserted(w) => status[d] # None
    PROVE  Written(w, d) \in Status
<1>1. Becomes(w, d) \in Status
  BY BecomesTyped
<1>2. CASE d \in Inserted(w)
  BY <1>1, <1>2 DEF Written
<1>3. CASE d \notin Inserted(w)
  <2>1. w.was[d] \in Status /\ status[d] \in Status
    BY <1>3, ReadingShape DEF Inserted, NodesTyped, NodeTypeOK
  <2> QED
    BY <1>1, <1>3, <2>1, MergedTyped DEF Written
<1> QED
  BY <1>2, <1>3

-----------------------------------------------------------------------------
(* The steps                                                               *)

LEMMA HearKeeps ==
    ASSUME NodeInv, NEW r \in Requests, NEW p \in Packet, Hear(r, p)
    PROVE  NodeInv'
<1> DEFINE w == [packet |-> p, was |-> [d \in Touched(p) |-> status[d]]]
<1>1. w \in Readings /\ w # None
  <2>1. Touched(p) \in SUBSET Nodes
    BY TouchedNodes
  <2>2. [d \in Touched(p) |-> status[d]] \in [Touched(p) -> Status \cup {None}]
    BY <2>1 DEF NodeInv, NodesTyped, NodeTypeOK
  <2>3. w \in Reading(Touched(p))
    BY <2>2 DEF Reading
  <2> QED
    BY <2>1, <2>3, RowAssumption DEF Readings
<1>2. /\ hearing' = [hearing EXCEPT ![r] = w]
      /\ single' = single \cup {r}
      /\ hearing[r] = None /\ ~Ignored(p)
      /\ UNCHANGED <<now, status, fix, heard, mixed>>
  BY DEF Hear
<1>3. w.packet = p /\ DOMAIN w.was = Touched(p) /\ \A d \in Touched(p) : w.was[d] = status[d]
  OBVIOUS
<1> HIDE DEF w
<1>4. hearing \in [Requests -> Readings \cup {None}]
  BY DEF NodeInv, NodesTyped, NodeTypeOK
<1>5. \A q \in Requests : hearing'[q] = IF q = r THEN w ELSE hearing[q]
  BY <1>2, <1>4
<1>6. NodesTyped'
  <2>1. hearing' \in [Requests -> Readings \cup {None}]
    BY <1>1, <1>2, <1>4
  <2>2. \A q \in Requests : hearing'[q] # None => \E S \in SUBSET Nodes : hearing'[q] \in Reading(S)
    BY <2>1, ReadingsSome
  <2>3. single' \subseteq Requests
    BY <1>2 DEF NodeInv, NodesTyped, NodeTypeOK
  <2> QED
    BY <1>2, <2>1, <2>2, <2>3 DEF NodeInv, NodesTyped, NodeTypeOK
<1>7. SingleReads'
  <2>1. \A q \in Requests : Ignored(hearing[q].packet)' <=> Ignored(hearing'[q].packet)
    BY <1>2 DEF Ignored
  <2>2. single \subseteq Requests /\ single' \subseteq Requests
    BY <1>2 DEF NodeInv, NodesTyped, NodeTypeOK
  <2>3. r \notin single
    BY <1>2 DEF NodeInv, SingleReads, Hearing
  <2> QED
    BY <1>1, <1>2, <1>3, <1>5, <2>1, <2>2, <2>3 DEF NodeInv, SingleReads, Hearing
<1>8. ReadsTouched'
  BY <1>2, <1>3, <1>5 DEF NodeInv, ReadsTouched, Hearing
<1>9. StatusTold' /\ UnknownUntold'
  BY <1>2 DEF NodeInv, StatusTold, UnknownUntold, GatewayOf, LevelOf, Recorded, About
<1> QED
  BY <1>6, <1>7, <1>8, <1>9 DEF NodeInv

LEMMA LosePacketKeeps ==
    ASSUME NodeInv, NEW r \in Requests, LosePacket(r)
    PROVE  NodeInv' /\ r \notin single
<1>1. /\ hearing' = [hearing EXCEPT ![r] = None]
      /\ single' = single \ {r}
      /\ UNCHANGED <<now, status, fix, heard, mixed>>
      /\ hearing[r] # None /\ Collides(hearing[r])
  BY DEF LosePacket
<1>2. hearing \in [Requests -> Readings \cup {None}] /\ single \subseteq Requests
  BY DEF NodeInv, NodesTyped, NodeTypeOK
<1>3. r \notin single
  BY <1>1 DEF NodeInv, SingleReads, ReadsTouched, Hearing, Collides, Inserted
<1>4. NodesTyped'
  BY <1>1, <1>2 DEF NodeInv, NodesTyped, NodeTypeOK
<1>5. SingleReads'
  BY <1>1, <1>2 DEF NodeInv, SingleReads, Hearing, Ignored
<1>6. ReadsTouched'
  BY <1>1, <1>2 DEF NodeInv, ReadsTouched, Hearing
<1>7. StatusTold' /\ UnknownUntold'
  BY <1>1 DEF NodeInv, StatusTold, UnknownUntold, GatewayOf, LevelOf, Recorded, About
<1> QED
  BY <1>3, <1>4, <1>5, <1>6, <1>7 DEF NodeInv

LEMMA PassTimeKeeps ==
    ASSUME NodeInv, PassTime
    PROVE  NodeInv'
<1>1. NodesTyped'
  BY LimitsAssumption DEF NodeInv, NodesTyped, NodeTypeOK, PassTime, Times
<1>2. SingleReads' /\ ReadsTouched'
  BY DEF NodeInv, PassTime, SingleReads, ReadsTouched, Hearing, Ignored
<1>3. StatusTold' /\ UnknownUntold'
  BY DEF NodeInv, PassTime, StatusTold, UnknownUntold, GatewayOf, LevelOf, Recorded, About
<1> QED
  BY <1>1, <1>2, <1>3 DEF NodeInv

-----------------------------------------------------------------------------
(* Recording                                                               *)

\* A packet that nothing crossed is written as it was computed.
LEMMA SingleWrites ==
    ASSUME NodeInv, NEW r \in single, NEW d \in Touched(hearing[r].packet)
    PROVE  /\ Written(hearing[r], d) = Becomes(hearing[r], d)
           /\ Becomes(hearing[r], d) =
                Sighting(IF status[d] = None THEN NewStatus(hearing[r].packet) ELSE status[d],
                         hearing[r].packet, d)
<1> DEFINE w == hearing[r]
<1>1. r \in Requests /\ w \in Readings /\ d \in DOMAIN w.was /\ w.was[d] = status[d]
  BY DEF NodeInv, NodesTyped, NodeTypeOK, SingleReads, ReadsTouched, Hearing
<1>2. d \in Inserted(w) <=> status[d] = None
  BY <1>1 DEF Inserted
<1>3. Becomes(w, d) \in Status
  BY <1>1, BecomesTyped
<1>4. Written(w, d) = Becomes(w, d)
  <2>1. CASE d \in Inserted(w)
    BY <2>1 DEF Written
  <2>2. CASE d \notin Inserted(w)
    <3> DEFINE b == Becomes(w, d)
    <3>1. Written(w, d) = [k \in DOMAIN status[d] |-> IF b[k] = w.was[d][k] THEN status[d][k] ELSE b[k]]
      BY <2>2 DEF Written
    <3>2. status[d] \in Status
      BY <1>1, <1>2, <2>2, ReadingShape
    <3>3. b \in Status
      BY <1>3
    <3> HIDE DEF b
    <3>4. Written(w, d) = [k \in DOMAIN status[d] |-> b[k]]
      BY <1>1, <3>1
    <3>5. DOMAIN status[d] = DOMAIN b
      BY <3>2, <3>3, StatusFields
    <3>6. b = [k \in DOMAIN b |-> b[k]]
      BY <3>3 DEF Status
    <3>7. Written(w, d) = b
      BY <3>4, <3>5, <3>6
    <3> QED
      BY <3>7 DEF b
  <2> QED
    BY <2>1, <2>2
<1> QED
  BY <1>1, <1>2, <1>4 DEF Becomes

LEMMA RecordTyped ==
    ASSUME NodeInv, NEW r \in Requests, Record(r)
    PROVE  NodesTyped'
<1> DEFINE w == hearing[r]
<1>1. /\ w # None /\ ~Collides(w)
      /\ status' = [d \in Nodes |-> IF d \in DOMAIN w.was THEN Written(w, d) ELSE status[d]]
      /\ fix' = IF Newer(w.packet)
                THEN [fix EXCEPT ![w.packet.dev] = [at |-> w.packet.fixAt, src |-> w.packet.src]] ELSE fix
      /\ heard' = Append(heard, w.packet)
      /\ mixed' = (mixed \/ r \notin single)
      /\ single' = single \ ({r} \cup CrossedBy(r))
      /\ hearing' = [hearing EXCEPT ![r] = None]
      /\ now' = now
  BY DEF Record
<1>2. w \in Readings
  BY <1>1 DEF NodeInv, NodesTyped, NodeTypeOK
<1> HIDE DEF w
<1>3. w.packet \in Packet
  BY <1>2, ReadingShape
<1>4. status' \in [Nodes -> Status \cup {None}]
  <2>1. ASSUME NEW d \in Nodes PROVE (IF d \in DOMAIN w.was THEN Written(w, d) ELSE status[d]) \in Status \cup {None}
    <3>1. CASE d \in DOMAIN w.was
      <4>1. d \notin Inserted(w) => status[d] # None
        BY <1>1, <3>1 DEF w, Inserted, NodeInv, ReadsTouched, Hearing
      <4>2. Written(w, d) \in Status
        BY <1>2, <3>1, <4>1, WrittenTyped DEF NodeInv
      <4> QED
        BY <3>1, <4>2
    <3>2. CASE d \notin DOMAIN w.was
      BY <3>2 DEF NodeInv, NodesTyped, NodeTypeOK
    <3> QED
      BY <3>1, <3>2
  <2> QED
    BY <1>1, <2>1

<1>5. fix' \in [Nodes -> [at : Times, src : Sources] \cup {None}]
  <2>1. CASE Newer(w.packet)
    <3>1. w.packet.fixAt \in Times /\ w.packet.src \in Sources /\ w.packet.dev \in Nodes
      BY <1>3, <2>1 DEF Packet, Newer
    <3>2. [at |-> w.packet.fixAt, src |-> w.packet.src] \in [at : Times, src : Sources]
      BY <3>1
    <3> QED
      BY <1>1, <2>1, <3>1, <3>2 DEF NodeInv, NodesTyped, NodeTypeOK
  <2>2. CASE ~Newer(w.packet)
    BY <1>1, <2>2 DEF NodeInv, NodesTyped, NodeTypeOK
  <2> QED
    BY <2>1, <2>2
<1>6. heard' \in Seq(Packet)
  BY <1>1, <1>3 DEF NodeInv, NodesTyped, NodeTypeOK
<1>7. hearing' \in [Requests -> Readings \cup {None}] /\ single' \subseteq Requests /\ now' \in Times
  BY <1>1 DEF NodeInv, NodesTyped, NodeTypeOK
<1>8. mixed' \in BOOLEAN
  BY <1>1 DEF NodeInv, NodesTyped, NodeTypeOK
<1>9. \A q \in Requests : hearing'[q] # None => \E S \in SUBSET Nodes : hearing'[q] \in Reading(S)
  BY <1>7, ReadingsSome
<1> QED
  BY <1>4, <1>5, <1>6, <1>7, <1>8, <1>9 DEF NodesTyped, NodeTypeOK

\* What a recording leaves of the packets that it does not cross.
LEMMA RecordReads ==
    ASSUME NodeInv, NEW r \in Requests, Record(r)
    PROVE  SingleReads' /\ ReadsTouched'
<1>1. /\ status' = [d \in Nodes |-> IF d \in DOMAIN hearing[r].was THEN Written(hearing[r], d) ELSE status[d]]
      /\ single' = single \ ({r} \cup CrossedBy(r))
      /\ hearing' = [hearing EXCEPT ![r] = None]
      /\ hearing[r] # None
  BY DEF Record
<1>2. hearing \in [Requests -> Readings \cup {None}] /\ single \subseteq Requests
  BY DEF NodeInv, NodesTyped, NodeTypeOK
<1>3. \A q \in Requests \ {r} : hearing'[q] = hearing[q]
  BY <1>1, <1>2
<1>4. hearing'[r] = None /\ r \notin single'
  BY <1>1, <1>2
<1>5. \A q \in single' : q \in single /\ q # r /\ DOMAIN hearing[q].was \cap DOMAIN hearing[r].was = {}
  BY <1>1, <1>2 DEF CrossedBy, NodeInv, SingleReads, Hearing
<1>6. \A q \in Requests : hearing[q] # None => Touched(hearing[q].packet) \subseteq Nodes /\ hearing[q].packet.dev \in Touched(hearing[q].packet)
  BY <1>2, ReadingShape, TouchedNodes
<1>7. \A q \in single', d \in Nodes : d \in Touched(hearing[q].packet) => status'[d] = status[d]
  BY <1>1, <1>2, <1>5 DEF NodeInv, SingleReads, ReadsTouched, Hearing
<1>8. SingleReads'
  <2> SUFFICES ASSUME NEW q \in single'
               PROVE  /\ hearing'[q] # None
                      /\ \A d \in Touched(hearing'[q].packet) : hearing'[q].was[d] = status'[d]
                      /\ (~Ignored(hearing[q].packet))'
    BY DEF SingleReads, Hearing, Ignored
  <2>1. hearing'[q] = hearing[q] /\ q \in single /\ q \in Requests
    BY <1>2, <1>3, <1>5
  <2>2. hearing[q] # None /\ ~Ignored(hearing[q].packet)
    BY <2>1 DEF NodeInv, SingleReads, Hearing
  <2>3. \A d \in Touched(hearing[q].packet) : status'[d] = status[d] /\ hearing[q].was[d] = status[d]
    BY <1>6, <1>7, <2>1, <2>2 DEF NodeInv, SingleReads
  <2>4. status'[hearing[q].packet.dev] = status[hearing[q].packet.dev]
    BY <1>6, <2>1, <2>2, <2>3
  <2> QED
    BY <2>1, <2>2, <2>3, <2>4 DEF Ignored
<1>9. ReadsTouched'
  <2>1. \A d \in Nodes : status[d] # None => status'[d] # None
    <3> SUFFICES ASSUME NEW d \in Nodes, status[d] # None PROVE status'[d] # None
      OBVIOUS
    <3>1. CASE d \in DOMAIN hearing[r].was
      <4>1. Written(hearing[r], d) \in Status
        BY <1>1, <1>2, <3>1, WrittenTyped DEF NodeInv
      <4> QED
        BY <1>1, <3>1, <4>1, RowAssumption
    <3>2. CASE d \notin DOMAIN hearing[r].was
      BY <1>1, <3>2
    <3> QED
      BY <3>1, <3>2
  <2> QED
    BY <1>3, <1>4, <1>6, <2>1 DEF NodeInv, ReadsTouched, Hearing
<1> QED
  BY <1>8, <1>9

\* Recording a packet adds it to those about the nodes that it touches.
LEMMA AboutGrows ==
    ASSUME NEW q \in Seq(Packet), NEW p \in Packet, NEW d
    PROVE  /\ IsFiniteSet(About(d, q))
           /\ About(d, Append(q, p)) = About(d, q) \cup (IF d \in Touched(p) THEN {Len(q) + 1} ELSE {})
           /\ Len(q) + 1 \notin About(d, q)
<1>1. DOMAIN q = 1..Len(q) /\ Len(q) \in Nat
  OBVIOUS
<1>2. About(d, q) \subseteq 1..Len(q)
  BY <1>1 DEF About
<1>3. IsFiniteSet(About(d, q))
  <2>1. IsFiniteSet(1..Len(q))
    BY <1>1, FS_Interval
  <2> QED
    BY <1>2, <2>1, FS_Subset
<1>4. About(d, Append(q, p)) = About(d, q) \cup (IF d \in Touched(p) THEN {Len(q) + 1} ELSE {})
  <2>1. /\ DOMAIN Append(q, p) = 1..(Len(q) + 1)
        /\ \A i \in 1..Len(q) : Append(q, p)[i] = q[i]
        /\ Append(q, p)[Len(q) + 1] = p
    BY <1>1
  <2>2. \A i \in 1..(Len(q) + 1) : i \in 1..Len(q) \/ i = Len(q) + 1
    BY <1>1
  <2>3. 1..Len(q) \subseteq 1..(Len(q) + 1) /\ Len(q) + 1 \in 1..(Len(q) + 1)
    BY <1>1
  <2> QED
    BY <1>1, <2>1, <2>2, <2>3 DEF About
<1> QED
  BY <1>1, <1>2, <1>3, <1>4

LEMMA CountGrows ==
    ASSUME NEW q \in Seq(Packet), NEW p \in Packet, NEW d
    PROVE  /\ d \in Touched(p) => Cardinality(About(d, Append(q, p))) = Cardinality(About(d, q)) + 1
           /\ d \notin Touched(p) => About(d, Append(q, p)) = About(d, q)
<1> DEFINE before == About(d, q)
           after == About(d, Append(q, p))
<1>1. /\ IsFiniteSet(before) /\ Len(q) + 1 \notin before
      /\ after = before \cup (IF d \in Touched(p) THEN {Len(q) + 1} ELSE {})
  BY AboutGrows
<1> HIDE DEF before, after
<1>2. Cardinality(before \cup {Len(q) + 1}) = Cardinality(before) + 1
  BY <1>1, FS_AddElement
<1>3. /\ d \in Touched(p) => Cardinality(after) = Cardinality(before) + 1
      /\ d \notin Touched(p) => after = before
  BY <1>1, <1>2
<1> QED
  BY <1>3 DEF before, after

\* The row of a node after a packet about it that nothing crossed.
LEMMA SightingTold ==
    ASSUME NEW p \in Packet, NEW d \in Touched(p), NEW known, NEW s \in Status, 
           GatewayOf(s, d, known), LevelOf(s, d, known)
    PROVE  /\ GatewayOf(Sighting(s, p, d), d, known \cup {p})
           /\ LevelOf(Sighting(s, p, d), d, known \cup {p})
           /\ Sighting(s, p, d).count = s.count + 1
  BY DEF GatewayOf, LevelOf, Sighting

LEMMA NewTold ==
    ASSUME NEW p \in Packet, NEW d, NEW known
    PROVE  /\ GatewayOf(NewStatus(p), d, known) /\ LevelOf(NewStatus(p), d, known)
           /\ NewStatus(p).count = 0 /\ NewStatus(p) \in Status
  BY NewStatusTyped DEF GatewayOf, LevelOf, NewStatus

LEMMA RecordTold ==
    ASSUME NodeInv, NEW r \in Requests, Record(r)
    PROVE  StatusTold' /\ UnknownUntold'
<1> SUFFICES ASSUME ~mixed'
             PROVE  StatusTold' /\ UnknownUntold'
  BY DEF StatusTold, UnknownUntold
<1> DEFINE p == hearing[r].packet
<1>1. /\ status' = [d \in Nodes |-> IF d \in DOMAIN hearing[r].was THEN Written(hearing[r], d) ELSE status[d]]
      /\ heard' = Append(heard, p)
      /\ r \in single /\ ~mixed
      /\ hearing[r] # None
  BY DEF Record
<1>2. p \in Packet /\ heard \in Seq(Packet) /\ DOMAIN hearing[r].was = Touched(p)
  BY <1>1, ReadingShape DEF NodeInv, NodesTyped, NodeTypeOK, ReadsTouched, Hearing
<1>3. Recorded' = Recorded \cup {p}
  <2>1. /\ DOMAIN heard = 1..Len(heard) /\ DOMAIN heard' = 1..(Len(heard) + 1) /\ Len(heard) \in Nat
        /\ \A i \in 1..Len(heard) : heard'[i] = heard[i]
        /\ heard'[Len(heard) + 1] = p
    BY <1>1, <1>2
  <2>2. \A i \in 1..(Len(heard) + 1) : i \in 1..Len(heard) \/ i = Len(heard) + 1
    BY <2>1
  <2>3. 1..Len(heard) \subseteq 1..(Len(heard) + 1) /\ Len(heard) + 1 \in 1..(Len(heard) + 1)
    BY <2>1
  <2> QED
    BY <2>1, <2>2, <2>3 DEF Recorded
<1>4. \A d \in Nodes : d \notin Touched(p) => status'[d] = status[d] /\ About(d, heard)' = About(d, heard)
  BY <1>1, <1>2, CountGrows DEF About
<1>5. ASSUME NEW d \in Nodes, d \in Touched(p)
      PROVE  /\ status'[d] \in Status
             /\ GatewayOf(status'[d], d, Recorded \cup {p})
             /\ LevelOf(status'[d], d, Recorded \cup {p})
             /\ status'[d].count = Cardinality(About(d, heard)) + 1
  <2> DEFINE s == IF status[d] = None THEN NewStatus(p) ELSE status[d]
  <2>1. status'[d] = Sighting(s, p, d)
    BY <1>1, <1>2, <1>5, SingleWrites
  <2>2. s \in Status /\ GatewayOf(s, d, Recorded) /\ LevelOf(s, d, Recorded)
        /\ s.count = Cardinality(About(d, heard))
    <3>1. CASE status[d] = None
      <4>1. About(d, heard) = {}
        BY <1>1, <3>1 DEF NodeInv, UnknownUntold
      <4> QED
        BY <1>2, <3>1, <4>1, NewTold, FS_EmptySet
    <3>2. CASE status[d] # None
      BY <1>1, <3>2 DEF NodeInv, NodesTyped, NodeTypeOK, StatusTold
    <3> QED
      BY <3>1, <3>2
  <2> HIDE DEF s, p
  <2>3. Sighting(s, p, d) \in Status
    BY <1>2, <2>2, SightingTyped
  <2> QED
    BY <1>2, <1>5, <2>1, <2>2, <2>3, SightingTold
<1>6. \A d \in Nodes : d \in Touched(p) => Cardinality(About(d, heard)') = Cardinality(About(d, heard)) + 1
  BY <1>1, <1>2, CountGrows DEF About
<1> HIDE DEF p
<1>7. StatusTold'
  <2> SUFFICES ASSUME NEW d \in Nodes, status'[d] # None
               PROVE  /\ GatewayOf(status'[d], d, Recorded \cup {p})
                      /\ LevelOf(status'[d], d, Recorded \cup {p})
                      /\ status'[d].count = Cardinality(About(d, heard)')
    BY <1>3 DEF StatusTold, GatewayOf, LevelOf, About
  <2>1. CASE d \in Touched(p)
    BY <1>5, <1>6, <2>1
  <2>2. CASE d \notin Touched(p)
    <3>1. GatewayOf(status[d], d, Recorded) /\ LevelOf(status[d], d, Recorded)
          /\ status[d].count = Cardinality(About(d, heard))
      BY <1>1, <1>4, <2>2 DEF NodeInv, StatusTold
    <3> QED
      BY <1>4, <2>2, <3>1 DEF GatewayOf, LevelOf
  <2> QED
    BY <2>1, <2>2
<1>8. UnknownUntold'
  <2> SUFFICES ASSUME NEW d \in Nodes, status'[d] = None
               PROVE  About(d, heard)' = {}
    BY DEF UnknownUntold, About
  <2>1. d \notin Touched(p)
    BY <1>5, RowAssumption
  <2> QED
    BY <1>1, <1>4, <2>1 DEF NodeInv, UnknownUntold
<1> QED
  BY <1>7, <1>8

-----------------------------------------------------------------------------
LEMMA RecordKeeps == ASSUME NodeInv, NEW r \in Requests, Record(r) PROVE NodeInv'
  BY RecordTyped, RecordReads, RecordTold DEF NodeInv

LEMMA NodeNextKeeps == NodeInv /\ [NodeNext]_nodevars => NodeInv'
<1> SUFFICES ASSUME NodeInv, [NodeNext]_nodevars PROVE NodeInv'
  OBVIOUS
<1>0. now \in Times /\ 0..now \subseteq Times
  BY LimitsAssumption DEF NodeInv, NodesTyped, NodeTypeOK, Times
<1>1. ASSUME NEW r \in Requests, NEW d \in Nodes, NEW g \in Nodes \cup {None}, NEW level \in Levels \cup {None},
             NEW pos \in BOOLEAN, NEW fixAt \in (0..now) \cup {None}, HandleMessage(r, d, g, level, pos, fixAt)
      PROVE  NodeInv'
  <2>1. [dev |-> d, src |-> "mqtt_gateway", gw |-> g, level |-> level,
         at |-> now, pos |-> pos, fixAt |-> fixAt] \in Packet
    BY <1>0 DEF Packet, Sources
  <2> QED
    BY <1>1, <2>1, HearKeeps DEF HandleMessage
<1>2. ASSUME NEW r \in Requests, NEW d \in Nodes, NEW g \in Nodes \cup {None}, NEW level \in Levels \cup {None},
             NEW src \in {"mesh_relay", "mqtt_gateway"}, NEW at \in 0..now, RelayPosition(r, d, g, src, level, at)
      PROVE  NodeInv'
  <2>1. [dev |-> d, src |-> src, gw |-> g, level |-> level, at |-> at, pos |-> TRUE, fixAt |-> at] \in Packet
    BY <1>0 DEF Packet, Sources
  <2> QED
    BY <1>2, <2>1, HearKeeps DEF RelayPosition
<1>3. ASSUME NEW r \in Requests, NEW d \in Nodes, NEW level \in Levels, NEW at \in 0..now, ReadOverBle(r, d, level, at)
      PROVE  NodeInv'
  <2>1. [dev |-> d, src |-> "app_ble", gw |-> None, level |-> level,
         at |-> at, pos |-> FALSE, fixAt |-> None] \in Packet
    BY <1>0 DEF Packet, Sources
  <2> QED
    BY <1>3, <2>1, HearKeeps DEF ReadOverBle
<1>4. ASSUME NEW r \in Requests, Record(r) PROVE NodeInv'
  BY <1>4, RecordKeeps
<1>5. ASSUME NEW r \in Requests, LosePacket(r) PROVE NodeInv'
  BY <1>5, LosePacketKeeps
<1>6. CASE PassTime
  BY <1>6, PassTimeKeeps
<1>7. CASE UNCHANGED nodevars
  <2>1. UNCHANGED <<now, status, hearing, fix, heard, single, mixed>>
    BY <1>7 DEF nodevars
  <2>2. NodesTyped'
    BY <2>1 DEF NodeInv, NodesTyped, NodeTypeOK
  <2>3. SingleReads' /\ ReadsTouched'
    BY <2>1 DEF NodeInv, SingleReads, ReadsTouched, Hearing, Ignored
  <2>4. StatusTold' /\ UnknownUntold'
    BY <2>1 DEF NodeInv, StatusTold, UnknownUntold, GatewayOf, LevelOf, Recorded, About
  <2> QED
    BY <2>2, <2>3, <2>4 DEF NodeInv
<1> QED
  BY <1>1, <1>2, <1>3, <1>4, <1>5, <1>6, <1>7 DEF NodeNext

-----------------------------------------------------------------------------
(* What the properties say of it                                           *)

LEMMA NodeShown == NodeInv => NodeTypeOK /\ GatewayShownRelayed /\ SightingWhole
<1> SUFFICES ASSUME NodeInv PROVE GatewayShownRelayed /\ SightingWhole
  BY DEF NodeInv, NodesTyped
<1>1. GatewayShownRelayed
  <2> SUFFICES ASSUME NEW d \in Nodes, ~mixed, status[d] # None, ShownGateway(d) # None,
                      ShownSource(d) # "app_ble"
               PROVE  \E p \in Recorded :
                         /\ d \in Touched(p) /\ p.gw = ShownGateway(d) /\ p.src = ShownSource(d)
                         /\ ShownAt(d) - p.at \in 0..Tolerance
    BY DEF GatewayShownRelayed
  <2>1. ShownGateway(d) = status[d].gw /\ ShownSource(d) = status[d].src
    BY DEF ShownGateway, ShownSource
  <2>2. PICK p \in Recorded : /\ d \in Touched(p) /\ p.gw = status[d].gw
                              /\ p.src = status[d].src /\ p.at = status[d].seen
    BY <2>1 DEF NodeInv, StatusTold, GatewayOf
  <2>3. status[d].seen \in Int
    BY LimitsAssumption DEF NodeInv, NodesTyped, NodeTypeOK, Status, Times
  <2>4. ShownAt(d) - status[d].seen \in 0..Tolerance
    <3>1. CASE PositionNewer(d)
      <4>1. fix[d].at \in Int /\ fix[d].at > status[d].seen
        BY <3>1, LimitsAssumption DEF NodeInv, NodesTyped, NodeTypeOK, PositionNewer, Times
      <4>2. fix[d].at - status[d].seen <= Tolerance
        BY <3>1 DEF ShownGateway
      <4> QED
        BY <2>3, <3>1, <4>1, <4>2, LimitsAssumption DEF ShownAt
    <3>2. CASE ~PositionNewer(d)
      BY <2>3, <3>2, LimitsAssumption DEF ShownAt
    <3> QED
      BY <3>1, <3>2
  <2> QED
    BY <2>1, <2>2, <2>4
<1>2. SightingWhole
  BY DEF NodeInv, StatusTold, LevelOf, SightingWhole, About
<1> QED
  BY <1>1, <1>2

LEMMA LevelKept ==
    ASSUME NodeInv, NEW r \in Requests, NEW d \in Nodes, r \in single, Record(r),
           hearing[r].packet.src = "app_ble", status[d] # None, status[d].levelAt # None
    PROVE  status'[d].levelAt >= status[d].levelAt
<1> DEFINE p == hearing[r].packet
<1>1. /\ status'[d] = IF d \in DOMAIN hearing[r].was THEN Written(hearing[r], d) ELSE status[d]
      /\ hearing[r] # None
  BY DEF Record
<1>2. p \in Packet /\ DOMAIN hearing[r].was = Touched(p) /\ ~Ignored(p)
  BY <1>1, ReadingShape DEF NodeInv, NodesTyped, NodeTypeOK, ReadsTouched, SingleReads, Hearing
<1>3. status[d].levelAt \in Int
  BY LimitsAssumption DEF NodeInv, NodesTyped, NodeTypeOK, Status, Times
<1>4. CASE d \notin Touched(p)
  BY <1>1, <1>2, <1>3, <1>4
<1>5. CASE d \in Touched(p)
  <2>1. status'[d] = Sighting(status[d], p, d)
    BY <1>1, <1>2, <1>5, SingleWrites
  <2>2. d = p.dev => status[d].levelAt <= p.at
    BY <1>2, <1>3, LimitsAssumption DEF Ignored, Packet, Times
  <2> HIDE DEF p
  <2>3. status'[d].levelAt = p.at \/ status'[d].levelAt = status[d].levelAt
    BY <2>1 DEF Sighting
  <2>4. d # p.dev => status'[d].levelAt = status[d].levelAt
    BY <2>1 DEF Sighting
  <2>5. p.at \in Int
    BY <1>2, LimitsAssumption DEF Packet, Times
  <2> QED
    BY <1>3, <2>2, <2>3, <2>4, <2>5
<1> QED
  BY <1>4, <1>5

\* Of any nodes, and of packets that come in any order through any number of
\* gateways and phones at once: what is shown was told, a packet is lost only
\* when another crossed it, and a level is replaced by a newer one.
THEOREM NodesAlwaysHold == NodeSpec => NodesHold
<1>1. NodeInit => NodeInv
  BY NodeInitHolds
<1>2. NodeInv /\ [NodeNext]_nodevars => NodeInv'
  BY NodeNextKeeps
<1>3. NodeInv => NodeTypeOK /\ GatewayShownRelayed /\ SightingWhole
  BY NodeShown
<1>4. NodeInv /\ [NodeNext]_nodevars => [\A r \in Requests : LosePacket(r) => r \notin single]_nodevars
  BY LosePacketKeeps
<1>5. NodeInv /\ [NodeNext]_nodevars =>
        [\A r \in Requests, d \in Nodes :
           /\ r \in single /\ Record(r) /\ hearing[r].packet.src = "app_ble"
           /\ status[d] # None /\ status[d].levelAt # None
           => status'[d].levelAt >= status[d].levelAt]_nodevars
  BY LevelKept
<1> QED
  BY <1>1, <1>2, <1>3, <1>4, <1>5, PTL DEF NodeSpec, NodesHold, OnlyCrossedLost, LevelStays

-----------------------------------------------------------------------------
(* The library of turnpoints: who may change what.                         *)

Editors == Ops("put") \cup Ops("delete")
Removers == Ops("remove")
Creators == Ops("create")

\* What a transaction has locked.
EditLock(e) == IF e.holds THEN {e.pt} ELSE {}
LockOf(r) ==
    IF r \in Editors THEN EditLock(editing[r])
    ELSE IF r \in Creators \/ editing[r].stage = "open" THEN editing[r].pts ELSE {}

LocksApart == \A r, q \in Active : r # q => LockOf(r) \cap LockOf(q) = {}

\* An edit knows its file's path, and what it changes is of its file.
EditKnows(e) ==
    /\ e.file \in Rows => path[e.file] = e.at
    /\ e.new # None => e.new.file = e.file
    /\ e.holds => e.file \in Rows /\ (point[e.pt] # None => point[e.pt].file = e.file)
    /\ ~e.holds => e.new # None
EditsKnow == \A r \in Editors : EditKnows(editing[r])

\* Of an edit that nothing crossed: its content is what the file will say, and
\* once written the path has it.
EditIsSole(e) ==
    e.file \in Rows =>
       /\ e.content = Rewritten(e.file, e.pt, e.new)
       /\ ~e.holds => point[e.pt] = e.new
       /\ e.stage = "written" => stored[e.at] = e.content
EditsAlone ==
    \A r \in Editors : ~editing[r].crossed =>
       /\ EditIsSole(editing[r])
       /\ \A q \in Editors : editing[q].at = editing[r].at => q = r

RemoveKnows(e) ==
    /\ e.stage = "open" => path[e.file] = e.at /\ e.pts \subseteq Of(e.file)
    /\ e.stage = "gone" => path[e.file] = None
RemovesKnow ==
    \A r \in Removers :
       /\ RemoveKnows(editing[r])
       /\ \A q \in Removers : editing[q].file = editing[r].file => q = r

\* A path that only the file being removed has stays, and is nobody else's.
RemoveSpares(e) ==
    /\ e.shared => e.at \in doubtful
    /\ ~e.shared => \A g \in Rows : path[g] = e.at => g = e.file
RemovesAlone ==
    \A r \in Removers :
       /\ RemoveSpares(editing[r])
       /\ ~editing[r].shared =>
             \A q \in Removers : ~editing[q].shared /\ editing[q].at = editing[r].at => q = r

\* A file being created is nobody else's.
CreateKnows(e) ==
    /\ path[e.file] = None /\ stored[e.file] = e.content
    /\ \A g \in Rows : path[g] # e.file
    /\ \A p \in e.pts : point[p] = None
    /\ e.pts = {s[1] : s \in e.content}
    /\ \A s, t \in e.content : s[1] = t[1] => s = t
CreatesAlone ==
    \A r \in Creators :
       /\ CreateKnows(editing[r])
       /\ \A q \in Active : editing[q].file = editing[r].file => q = r
       /\ \A q \in Editors \cup Removers : editing[q].at # editing[r].file

\* Nor is it the committed file of a request that has yet to answer.
AnswersKnow == \A r \in Requests, q \in Creators : answering[r] # editing[q].file

SharedDoubtful == \A f, g \in Rows : f # g /\ path[f] = path[g] => path[f] \in doubtful

\* While nothing has been written over it, the stored file says what the rows say.
SaysUntilWritten ==
    \A f \in Rows :
       path[f] \notin doubtful /\ (\A r \in Editors : editing[r].at = path[f] => editing[r].stage = "read")
         => stored[path[f]] = Says(f)

\* A stored file is a row's, or a transaction's that is going to commit or to doubt it.
Owned ==
    \A f \in Library :
       stored[f] # None /\ f \notin doubtful =>
          \/ \E g \in Rows : path[g] = f
          \/ \E r \in Creators : editing[r].file = f
          \/ \E r \in Removers : editing[r].at = f
          \/ \E r \in Editors : editing[r].at = f /\ editing[r].stage = "written"

LibInv ==
    /\ LibTypeOK /\ ListedIsStored /\ LocksApart
    /\ EditsKnow /\ EditsAlone /\ RemovesKnow /\ RemovesAlone /\ CreatesAlone
    /\ SharedDoubtful /\ SaysUntilWritten /\ Owned /\ AnswersKnow

-----------------------------------------------------------------------------
(* Transactions by their kind                                              *)

LEMMA KindsTyped ==
    ASSUME LibTypeOK
    PROVE  /\ \A r \in Requests : editing[r] \in Edit \cup Creation \cup Removal \cup {None}
           /\ \A r \in Editors : r \in Requests /\ editing[r] \in Edit
           /\ \A r \in Creators : r \in Requests /\ editing[r] \in Creation
           /\ \A r \in Removers : r \in Requests /\ editing[r] \in Removal
           /\ Active = Editors \cup Creators \cup Removers
           /\ Editors \cap Creators = {} /\ Editors \cap Removers = {} /\ Creators \cap Removers = {}
<1>1. \A r \in Requests : editing[r] \in Edit \cup Creation \cup Removal \cup {None}
  BY DEF LibTypeOK
<1>2. \A r \in Active : r \in Requests /\ editing[r] \in Edit \cup Creation \cup Removal
  BY <1>1 DEF Active
<1>3. \A e \in Edit : e.op \in {"put", "delete"}
  BY DEF Edit
<1>4. \A e \in Creation : e.op = "create"
  BY DEF Creation
<1>5. \A e \in Removal : e.op = "remove"
  BY DEF Removal
<1> QED
  BY <1>1, <1>2, <1>3, <1>4, <1>5 DEF Editors, Creators, Removers, Ops

\* The end of a transaction.
Ends(r) == editing' = [editing EXCEPT ![r] = None]

LEMMA EndFrame ==
    ASSUME LibTypeOK, NEW r \in Requests, Ends(r)
    PROVE  /\ editing'[r] = None /\ \A q \in Requests \ {r} : editing'[q] = editing[q]
           /\ Active' = Active \ {r} /\ Editors' = Editors \ {r}
           /\ Creators' = Creators \ {r} /\ Removers' = Removers \ {r}
           /\ \A q \in Active \ {r} : LockOf(q)' = LockOf(q)
           /\ editing' \in [Requests -> Edit \cup Creation \cup Removal \cup {None}]
<1>1. editing'[r] = None /\ \A q \in Requests \ {r} : editing'[q] = editing[q]
  BY DEF LibTypeOK, Ends
<1>2. Active' = Active \ {r}
  BY <1>1 DEF Active
<1>3. Editors' = Editors \ {r} /\ Creators' = Creators \ {r} /\ Removers' = Removers \ {r}
  BY <1>1, <1>2 DEF Editors, Creators, Removers, Ops, Active
<1>4. \A q \in Active \ {r} : LockOf(q)' = LockOf(q)
  BY <1>1, <1>3 DEF LockOf, Active
<1>5. editing' \in [Requests -> Edit \cup Creation \cup Removal \cup {None}]
  BY DEF LibTypeOK, Ends
<1> QED
  BY <1>1, <1>2, <1>3, <1>4, <1>5

LEMMA LibInitHolds == LibInit => LibInv
<1> SUFFICES ASSUME LibInit PROVE LibInv
  OBVIOUS
<1>0. \A f \in Library : Says(f) \in Content
  BY DEF LibInit, Says, Of, Content, Point
<1>1. LibTypeOK
  <2>1. stored \in [Library -> Content \cup {None}]
    BY <1>0 DEF LibInit
  <2> QED
    BY <2>1, LibraryAssumption DEF LibInit, LibTypeOK
<1>2. Active = {} /\ Editors = {} /\ Creators = {} /\ Removers = {}
  BY DEF LibInit, Active, Editors, Creators, Removers, Ops
<1>3. \A f \in Rows : path[f] \in Library /\ path[path[f]] = path[f]
  BY DEF LibInit, Rows
<1>4. ListedIsStored
  <2>1. \A f \in Library : path[f] = f => stored[f] = Says(f)
    BY DEF LibInit
  <2> QED
    BY <1>0, <1>3, <2>1, LibraryAssumption DEF ListedIsStored
<1>5. SharedDoubtful
  BY <1>3 DEF SharedDoubtful, LibInit, Rows
<1>6. SaysUntilWritten
  <2> SUFFICES ASSUME NEW f \in Rows, path[f] \notin doubtful PROVE stored[path[f]] = Says(f)
    BY DEF SaysUntilWritten
  <2>1. path[f] = f
    BY <1>3 DEF LibInit, Rows
  <2> QED
    BY <2>1 DEF LibInit, Rows
<1>7. Owned
  BY LibraryAssumption DEF Owned, LibInit, Rows
<1> QED
  BY <1>1, <1>2, <1>4, <1>5, <1>6, <1>7
  DEF LibInv, LocksApart, EditsKnow, EditsAlone, RemovesKnow, RemovesAlone, CreatesAlone, AnswersKnow

-----------------------------------------------------------------------------
(* Ends of transactions                                                    *)

\* A turnpoint of one file changes: the other files say what they said.
LEMMA PointChanges ==
    ASSUME NEW f, NEW p \in Points, NEW new \in Point \cup {None}, point \in [Points -> Point \cup {None}],
           point[p] # None => point[p].file = f, new # None => new.file = f, f # None,
           point' = [point EXCEPT ![p] = new]
    PROVE  /\ \A g : g # f => Of(g)' = Of(g) /\ Says(g)' = Says(g)
           /\ Says(f)' = Rewritten(f, p, new)
<1>1. \A q \in Points : point'[q] = IF q = p THEN new ELSE point[q]
  OBVIOUS
<1>2. ASSUME NEW g, g # f PROVE Of(g)' = Of(g) /\ Says(g)' = Says(g)
  <2>1. Of(g)' = Of(g)
    BY <1>1, <1>2 DEF Of
  <2>2. \A q \in Of(g) : point'[q] = point[q]
    BY <1>1, <1>2 DEF Of
  <2> QED
    BY <2>1, <2>2 DEF Says
<1>3. Says(f)' = Rewritten(f, p, new)
  <2>1. CASE new = None
    <3>1. Of(f)' = Of(f) \ {p}
      BY <1>1, <2>1 DEF Of
    <3> QED
      BY <1>1, <2>1, <3>1 DEF Says, Rewritten
  <2>2. CASE new # None
    <3>1. Of(f)' = Of(f) \cup {p}
      BY <1>1, <2>2 DEF Of
    <3> QED
      BY <1>1, <2>2, <3>1 DEF Says, Rewritten
  <2> QED
    BY <2>1, <2>2
<1> QED
  BY <1>2, <1>3

LEMMA CommitEditKeeps == ASSUME LibInv, NEW r \in Requests, CommitEdit(r) PROVE LibInv'
<1> DEFINE e == editing[r]
           alone == /\ ~e.crossed
                    /\ \A g \in Rows \ {e.file} : path[g] # e.at
                    /\ \A q \in Removers : editing[q].at # e.at
<1>1. /\ r \in Editors /\ e.stage = "written" /\ e.file \in Rows
      /\ point' = IF e.holds THEN [point EXCEPT ![e.pt] = e.new] ELSE point
      /\ doubtful' = IF alone THEN doubtful \ {e.at} ELSE doubtful \cup {e.at}
      /\ Ends(r)
      /\ path' = path /\ stored' = stored /\ edits' = edits
      /\ answering' = answering /\ withdrawn' = withdrawn
  BY DEF CommitEdit, Ends, Editors, Removers
<1>2. LibTypeOK
  BY DEF LibInv
<1>3. e \in Edit
  BY <1>1, <1>2, KindsTyped
<1>4. e.file \in Library /\ e.pt \in Points /\ e.at \in Library /\ e.new \in Point \cup {None} /\ e.holds \in BOOLEAN
  BY <1>3 DEF Edit
<1>5. e.file # None
  BY <1>4, LibraryAssumption
<1>6. path[e.file] = e.at /\ EditKnows(e)
  BY <1>1 DEF LibInv, EditsKnow, EditKnows
<1>7. /\ editing'[r] = None /\ \A q \in Requests \ {r} : editing'[q] = editing[q]
      /\ Active' = Active \ {r} /\ Editors' = Editors \ {r}
      /\ Creators' = Creators \ {r} /\ Removers' = Removers \ {r}
      /\ \A q \in Active \ {r} : LockOf(q)' = LockOf(q)
      /\ editing' \in [Requests -> Edit \cup Creation \cup Removal \cup {None}]
  BY <1>1, <1>2, EndFrame
<1>8. Rows' = Rows
  BY <1>1 DEF Rows
<1>9. \A g \in Library : g # e.file => Of(g)' = Of(g) /\ Says(g)' = Says(g)
  <2>1. CASE e.holds
    BY <1>1, <1>2, <1>4, <1>5, <1>6, <2>1, PointChanges, ZenonT(30) DEF LibTypeOK, EditKnows
  <2>2. CASE ~e.holds
    BY <1>1, <2>2 DEF Of, Says
  <2> QED
    BY <2>1, <2>2
<1>10. \A p \in Points : p \notin LockOf(r) => point'[p] = point[p]
  BY <1>1, <1>2, <1>4 DEF LockOf, EditLock, LibTypeOK
<1>11. \A q \in Active \ {r} : \A p \in LockOf(q) : p \in Points => point'[p] = point[p]
  BY <1>1, <1>2, <1>10, KindsTyped DEF LibInv, LocksApart
<1>12. LibTypeOK'
  <2>1. point' \in [Points -> Point \cup {None}]
    BY <1>1, <1>2, <1>4 DEF LibTypeOK
  <2>2. doubtful' \subseteq Library
    BY <1>1, <1>2, <1>4 DEF LibTypeOK
  <2>3. \A p \in Points : point'[p] # None => point'[p].file \in Rows \cup {None}
    BY <1>1, <1>2, <1>4, <1>6 DEF LibTypeOK, EditKnows
  <2> QED
    BY <1>1, <1>2, <1>7, <1>8, <2>1, <2>2, <2>3 DEF LibTypeOK
<1>13. ListedIsStored'
  BY <1>1, <1>8 DEF LibInv, ListedIsStored
<1>14. LocksApart'
  BY <1>7 DEF LibInv, LocksApart
<1>15. EditsKnow'
  <2> SUFFICES ASSUME NEW q \in Editors, q # r PROVE EditKnows(editing[q])'
    BY <1>7 DEF EditsKnow
  <2>1. q \in Requests /\ editing[q] \in Edit /\ q \in Active /\ editing'[q] = editing[q]
    BY <1>2, <1>7, KindsTyped
  <2>2. editing[q].holds => editing[q].pt \in LockOf(q) /\ editing[q].pt \in Points
    BY <2>1 DEF LockOf, EditLock, Edit
  <2>3. editing[q].holds => point'[editing[q].pt] = point[editing[q].pt]
    BY <1>11, <2>1, <2>2
  <2> QED
    BY <1>1, <1>8, <2>1, <2>3 DEF LibInv, EditsKnow, EditKnows
<1>16. EditsAlone'
  <2> SUFFICES ASSUME NEW q \in Editors, q # r, ~editing[q].crossed
               PROVE  EditIsSole(editing[q])'
    BY <1>2, <1>7, KindsTyped DEF LibInv, EditsAlone
  <2>1. q \in Requests /\ editing[q] \in Edit /\ editing'[q] = editing[q]
    BY <1>2, <1>7, KindsTyped
  <2>2. EditIsSole(editing[q]) /\ editing[r].at # editing[q].at /\ EditKnows(editing[q])
    BY <1>1 DEF LibInv, EditsAlone, EditsKnow
  <2> SUFFICES ASSUME editing[q].file \in Rows PROVE EditIsSole(editing[q])'
    BY <1>8, <2>1 DEF EditIsSole
  <2>3. editing[q].file # e.file
    BY <1>6, <2>2 DEF EditKnows
  <2>4. editing[q].file \in Library /\ editing[q].pt \in Points
    BY <2>1 DEF Edit
  <2>5. Says(editing[q].file)' = Says(editing[q].file)
    BY <1>9, <2>1, <2>3, <2>4
  <2>6. ~editing[q].holds => point'[editing[q].pt] = point[editing[q].pt]
    <3> SUFFICES ASSUME ~editing[q].holds PROVE point'[editing[q].pt] = point[editing[q].pt]
      OBVIOUS
    <3>1. point[editing[q].pt] # None /\ point[editing[q].pt].file = editing[q].file
      BY <2>2 DEF EditIsSole, EditKnows
    <3>2. editing[q].pt \notin LockOf(r)
      BY <1>1, <1>6, <2>3, <3>1 DEF LockOf, EditLock, EditKnows
    <3> QED
      BY <1>10, <2>4, <3>2
  <2> QED
    BY <1>1, <1>8, <2>1, <2>2, <2>5, <2>6 DEF EditIsSole, Rewritten

<1>17. RemovesKnow'
  <2> SUFFICES ASSUME NEW q \in Removers PROVE RemoveKnows(editing[q])'
    BY <1>1, <1>2, <1>7, KindsTyped DEF LibInv, RemovesKnow
  <2>1. q \in Requests /\ editing[q] \in Removal /\ q \in Active /\ editing'[q] = editing[q] /\ q \notin Editors /\ q \notin Creators
    BY <1>1, <1>2, <1>7, KindsTyped
  <2>2. RemoveKnows(editing[q])
    BY DEF LibInv, RemovesKnow
  <2>3. ASSUME editing[q].stage = "open" PROVE editing[q].pts \subseteq Of(editing[q].file)'
    <3>1. LockOf(q) = editing[q].pts /\ q # r
      BY <1>1, <2>1, <2>3 DEF LockOf
    <3>2. \A p \in editing[q].pts : p \in Points /\ point'[p] = point[p]
      BY <1>11, <2>1, <3>1 DEF Removal
    <3> QED
      BY <2>1, <2>2, <2>3, <3>2 DEF RemoveKnows, Of
  <2> QED
    BY <1>1, <2>1, <2>2, <2>3 DEF RemoveKnows
<1>18. RemovesAlone'
  <2> SUFFICES ASSUME NEW q \in Removers PROVE RemoveSpares(editing[q])'
    BY <1>1, <1>2, <1>7, KindsTyped DEF LibInv, RemovesAlone
  <2>1. editing'[q] = editing[q] /\ q \in Requests
    BY <1>1, <1>2, <1>7, KindsTyped
  <2>2. editing[q].at \in doubtful => editing[q].at \in doubtful'
    BY <1>1
  <2> QED
    BY <1>1, <1>8, <2>1, <2>2 DEF LibInv, RemovesAlone, RemoveSpares
<1>19. CreatesAlone'
  <2> SUFFICES ASSUME NEW q \in Creators PROVE CreateKnows(editing[q])'
    BY <1>1, <1>2, <1>7, KindsTyped DEF LibInv, CreatesAlone
  <2>1. q \in Requests /\ editing[q] \in Creation /\ q \in Active /\ editing'[q] = editing[q] /\ q \notin Editors
    BY <1>1, <1>2, <1>7, KindsTyped
  <2>2. CreateKnows(editing[q])
    BY DEF LibInv, CreatesAlone
  <2>3. LockOf(q) = editing[q].pts /\ q # r
    BY <1>1, <2>1 DEF LockOf
  <2>4. \A p \in editing[q].pts : p \in Points /\ point'[p] = point[p]
    BY <1>11, <2>1, <2>3 DEF Creation
  <2> QED
    BY <1>1, <1>8, <2>1, <2>2, <2>4 DEF CreateKnows
<1>20. SharedDoubtful'
  BY <1>1, <1>6, <1>8 DEF LibInv, SharedDoubtful
<1>21. SaysUntilWritten'
  <2> SUFFICES ASSUME NEW f \in Rows, path[f] \notin doubtful',
                      \A q \in Editors \ {r} : editing[q].at = path[f] => editing[q].stage = "read"
               PROVE  stored[path[f]] = Says(f)'
    BY <1>1, <1>2, <1>7, <1>8, KindsTyped DEF SaysUntilWritten
  <2>0. f \in Library
    BY DEF Rows
  <2>1. CASE path[f] = e.at
    <3>1. alone
      BY <1>1, <2>1
    <3>2. f = e.file
      BY <2>1, <3>1
    <3>3. EditIsSole(e)
      BY <1>1, <3>1 DEF LibInv, EditsAlone
    <3>4. Says(f)' = Rewritten(e.file, e.pt, e.new)
      <4>1. CASE e.holds
        <5>1. /\ point[e.pt] # None => point[e.pt].file = f
              /\ e.new # None => e.new.file = f
              /\ f # None /\ point' = [point EXCEPT ![e.pt] = e.new]
              /\ point \in [Points -> Point \cup {None}]
          BY <1>1, <1>2, <1>5, <1>6, <3>2, <4>1 DEF LibTypeOK, EditKnows
        <5>2. Says(f)' = Rewritten(f, e.pt, e.new)
          BY <1>4, <5>1, PointChanges
        <5> QED
          BY <3>2, <5>2
      <4>2. CASE ~e.holds
        <5>1. point[e.pt] = e.new /\ e.new # None /\ e.new.file = e.file
          BY <1>1, <1>6, <3>3, <4>2 DEF EditIsSole, EditKnows
        <5>2. Says(f)' = Says(f)
          BY <1>1, <4>2 DEF Says, Of
        <5>3. Says(f) = Rewritten(e.file, e.pt, e.new)
          BY <1>4, <3>2, <5>1 DEF Says, Of, Rewritten
        <5> QED
          BY <5>2, <5>3
      <4> QED
        BY <4>1, <4>2
    <3> QED
      BY <1>1, <2>1, <3>3, <3>4 DEF EditIsSole
  <2>2. CASE path[f] # e.at
    <3>1. f # e.file /\ path[f] \notin doubtful
      BY <1>1, <1>6, <2>2
    <3>2. stored[path[f]] = Says(f)
      BY <2>2, <3>1 DEF LibInv, SaysUntilWritten
    <3> QED
      BY <1>9, <2>0, <3>1, <3>2
  <2> QED
    BY <2>1, <2>2
<1>22. Owned'
  <2> SUFFICES ASSUME NEW f \in Library, stored[f] # None, f \notin doubtful'
               PROVE  \/ \E g \in Rows : path[g] = f
                      \/ \E q \in Creators : editing[q].file = f
                      \/ \E q \in Removers : editing[q].at = f
                      \/ \E q \in Editors \ {r} : editing[q].at = f /\ editing[q].stage = "written"
    BY <1>1, <1>2, <1>7, <1>8, KindsTyped DEF Owned
  <2>1. CASE f = e.at
    BY <1>1, <1>6, <2>1
  <2>2. CASE f # e.at
    BY <1>1, <2>2 DEF LibInv, Owned
  <2> QED
    BY <2>1, <2>2
<1>23. AnswersKnow'
  BY <1>1, <1>2, <1>7, KindsTyped DEF LibInv, AnswersKnow
<1> QED
  BY <1>12, <1>13, <1>14, <1>15, <1>16, <1>17, <1>18, <1>19, <1>20, <1>21, <1>22, <1>23 DEF LibInv

\* A transaction ends that changes no row: it may remove files that are nobody
\* else's, and leaves in doubt what it has written.
LEMMA QuietEnd ==
    ASSUME LibInv, NEW r \in Active, Ends(r), path' = path, point' = point, edits' = edits,
           answering' = answering, withdrawn' = withdrawn,
           doubtful \subseteq doubtful', doubtful' \subseteq Library,
           NEW gone, stored' = [a \in Library |-> IF a \in gone THEN None ELSE stored[a]],
           \A g \in Rows : path[g] \notin gone,
           \A q \in Removers \ {r} : ~editing[q].shared => editing[q].at \notin gone,
           \A q \in Creators \ {r} : editing[q].file \notin gone,
           r \in Editors => (editing[r].stage = "written" => editing[r].at \in doubtful'),
           r \in Removers => \/ \E g \in Rows : path[g] = editing[r].at
                             \/ editing[r].at \in gone \cup doubtful',
           r \in Creators => editing[r].file \in gone \cup doubtful'
    PROVE  LibInv'
<1>1. LibTypeOK /\ r \in Requests
  BY DEF LibInv, Active
<1>2. /\ editing'[r] = None /\ \A q \in Requests \ {r} : editing'[q] = editing[q]
      /\ Active' = Active \ {r} /\ Editors' = Editors \ {r}
      /\ Creators' = Creators \ {r} /\ Removers' = Removers \ {r}
      /\ \A q \in Active \ {r} : LockOf(q)' = LockOf(q)
      /\ editing' \in [Requests -> Edit \cup Creation \cup Removal \cup {None}]
  BY <1>1, EndFrame
<1>3. Rows' = Rows /\ \A f : Of(f)' = Of(f) /\ Says(f)' = Says(f)
  BY DEF Rows, Of, Says, Rewritten

<1>4. \A q \in Active \ {r} : q \in Requests /\ editing'[q] = editing[q]
  BY <1>2 DEF Active
<1>5. Editors \cup Creators \cup Removers = Active
  BY <1>1, KindsTyped
<1>6. \A f \in Rows : f \in Library /\ path[f] \in Library /\ stored'[path[f]] = stored[path[f]]
  BY <1>1, LibraryAssumption DEF LibTypeOK, Rows
<1>7. LibTypeOK'
  <2>1. stored' \in [Library -> Content \cup {None}]
    BY <1>1 DEF LibTypeOK
  <2> QED
    BY <1>1, <1>2, <1>3, <2>1 DEF LibTypeOK
<1>8. ListedIsStored' /\ SharedDoubtful'
  BY <1>3, <1>6 DEF LibInv, ListedIsStored, SharedDoubtful
<1>9. LocksApart'
  BY <1>2 DEF LibInv, LocksApart
<1>10. EditsKnow'
  <2> SUFFICES ASSUME NEW q \in Editors \ {r} PROVE EditKnows(editing[q])'
    BY <1>2 DEF EditsKnow
  <2>1. editing'[q] = editing[q] /\ EditKnows(editing[q])
    BY <1>4, <1>5 DEF LibInv, EditsKnow
  <2> QED
    BY <1>3, <2>1 DEF EditKnows
<1>11. EditsAlone'
  <2> SUFFICES ASSUME NEW q \in Editors \ {r}, ~editing[q].crossed PROVE EditIsSole(editing[q])'
    BY <1>2, <1>4, <1>5 DEF LibInv, EditsAlone
  <2>1. editing'[q] = editing[q] /\ EditKnows(editing[q]) /\ EditIsSole(editing[q])
    BY <1>4, <1>5 DEF LibInv, EditsKnow, EditsAlone
  <2>2. editing[q].file \in Rows => stored'[editing[q].at] = stored[editing[q].at]
    BY <1>6, <2>1 DEF EditKnows
  <2> QED
    BY <1>3, <2>1, <2>2 DEF EditIsSole, Rewritten
<1>12. RemovesKnow'
  <2> SUFFICES ASSUME NEW q \in Removers \ {r} PROVE RemoveKnows(editing[q])'
    BY <1>2, <1>4, <1>5 DEF LibInv, RemovesKnow
  <2>1. editing'[q] = editing[q] /\ RemoveKnows(editing[q])
    BY <1>4, <1>5 DEF LibInv, RemovesKnow
  <2> QED
    BY <1>3, <2>1 DEF RemoveKnows
<1>13. RemovesAlone'
  <2> SUFFICES ASSUME NEW q \in Removers \ {r} PROVE RemoveSpares(editing[q])'
    BY <1>2, <1>4, <1>5 DEF LibInv, RemovesAlone
  <2>1. editing'[q] = editing[q] /\ RemoveSpares(editing[q]) /\ editing[q] \in Removal
    BY <1>1, <1>4, <1>5, KindsTyped DEF LibInv, RemovesAlone
  <2>2. editing[q].at \in Library
    BY <2>1 DEF Removal
  <2>3. ~editing[q].shared => stored'[editing[q].at] = stored[editing[q].at]
    BY <2>2
  <2> QED
    BY <1>3, <2>1, <2>3 DEF RemoveSpares
<1>14. CreatesAlone'
  <2> SUFFICES ASSUME NEW q \in Creators \ {r} PROVE CreateKnows(editing[q])'
    BY <1>2, <1>4, <1>5 DEF LibInv, CreatesAlone
  <2>1. editing'[q] = editing[q] /\ CreateKnows(editing[q]) /\ editing[q] \in Creation
    BY <1>1, <1>4, <1>5, KindsTyped DEF LibInv, CreatesAlone
  <2>2. editing[q].file \in Library
    BY <2>1 DEF Creation
  <2>3. stored'[editing[q].file] = stored[editing[q].file]
    BY <2>2
  <2> QED
    BY <1>3, <2>1, <2>3 DEF CreateKnows
<1>15. SaysUntilWritten'
  <2> SUFFICES ASSUME NEW f \in Rows, path[f] \notin doubtful',
                      \A q \in Editors \ {r} : editing[q].at = path[f] => editing[q].stage = "read"
               PROVE  stored[path[f]] = Says(f)
    BY <1>2, <1>3, <1>4, <1>5, <1>6 DEF SaysUntilWritten
  <2>1. r \in Editors => editing[r].stage \in {"read", "written"}
    BY <1>1, KindsTyped DEF Edit
  <2>2. \A q \in Editors : editing[q].at = path[f] => editing[q].stage = "read"
    BY <2>1
  <2> QED
    BY <2>2 DEF LibInv, SaysUntilWritten
<1>16. Owned'
  <2> SUFFICES ASSUME NEW f \in Library, stored[f] # None, f \notin gone, f \notin doubtful'
               PROVE  \/ \E g \in Rows : path[g] = f
                      \/ \E q \in Creators \ {r} : editing[q].file = f
                      \/ \E q \in Removers \ {r} : editing[q].at = f
                      \/ \E q \in Editors \ {r} : editing[q].at = f /\ editing[q].stage = "written"
    BY <1>2, <1>3, <1>4, <1>5 DEF Owned
  <2> QED
    BY DEF LibInv, Owned
<1>17. AnswersKnow'
  BY <1>2, <1>4, <1>5 DEF LibInv, AnswersKnow
<1> QED
  BY <1>7, <1>8, <1>9, <1>10, <1>11, <1>12, <1>13, <1>14, <1>15, <1>16, <1>17 DEF LibInv

LEMMA EditFailsKeeps == ASSUME LibInv, NEW r \in Requests, EditFails(r) PROVE LibInv'
<1>1. LibTypeOK
  BY DEF LibInv
<1>2. /\ r \in Active /\ Ends(r) /\ path' = path /\ point' = point /\ edits' = edits
      /\ answering' = answering /\ withdrawn' = withdrawn
      /\ stored' = TakenBack(editing[r]) /\ doubtful' = doubtful \cup InDoubt(editing[r])
  BY DEF EditFails, Ends
<1>3. CASE r \in Creators /\ editing[r].stage = "flushed"
  <2>1. editing[r] \in Creation /\ editing[r].op = "create"
    BY <1>1, <1>3, KindsTyped DEF Creators, Ops
  <2>2. stored' = [a \in Library |-> IF a \in {editing[r].file} THEN None ELSE stored[a]]
    BY <1>1, <1>2, <1>3, <2>1 DEF TakenBack, LibTypeOK, Creation
  <2>3. doubtful' = doubtful /\ doubtful' \subseteq Library
    BY <1>1, <1>2, <1>3, <2>1 DEF InDoubt, LibTypeOK
  <2>4. r \notin Editors /\ r \notin Removers
    BY <1>1, <1>3, KindsTyped
  <2>5. \A g \in Rows : path[g] \notin {editing[r].file}
    BY <1>3 DEF LibInv, CreatesAlone, CreateKnows
  <2>6. \A q \in Removers \ {r} : editing[q].at \notin {editing[r].file}
    BY <1>3 DEF LibInv, CreatesAlone
  <2>7. \A q \in Creators \ {r} : editing[q].file \notin {editing[r].file}
    BY <1>1, <1>3, KindsTyped DEF LibInv, CreatesAlone
  <2> QED
    BY <1>2, <2>2, <2>3, <2>4, <2>5, <2>6, <2>7, QuietEnd
<1>4. CASE ~(r \in Creators /\ editing[r].stage = "flushed")
  <2>1. /\ r \in Creators => editing[r].op = "create" /\ editing[r] \in Creation /\ editing[r].stage = "written"
        /\ r \in Editors => editing[r].op \in {"put", "delete"} /\ editing[r] \in Edit
        /\ r \in Removers => editing[r].op = "remove" /\ editing[r] \in Removal
        /\ r \in Creators \cup Editors \cup Removers
    BY <1>1, <1>2, <1>4, KindsTyped DEF Creators, Editors, Removers, Ops, Creation
  <2>0. PICK gone : gone = {}
    OBVIOUS
  <2>2. stored' = [a \in Library |-> IF a \in gone THEN None ELSE stored[a]]
    BY <1>1, <1>2, <1>4, <2>0, <2>1 DEF TakenBack, LibTypeOK
  <2>3. InDoubt(editing[r]) \subseteq Library
    BY <2>1 DEF InDoubt, Edit, Creation, Removal
  <2>4. doubtful' \subseteq Library /\ doubtful \subseteq doubtful'
    BY <1>1, <1>2, <2>3 DEF LibTypeOK
  <2>5. r \in Editors => (editing[r].stage = "written" => editing[r].at \in doubtful')
    BY <1>2, <2>1 DEF InDoubt
  <2>6. r \in Creators => editing[r].file \in gone \cup doubtful'
    BY <1>2, <2>1 DEF InDoubt
  <2>7. r \in Removers => (\E g \in Rows : path[g] = editing[r].at) \/ editing[r].at \in gone \cup doubtful'
    <3> SUFFICES ASSUME r \in Removers, editing[r].stage # "gone" PROVE \E g \in Rows : path[g] = editing[r].at
      BY <1>2, <2>1 DEF InDoubt
    <3>1. editing[r] \in Removal /\ path[editing[r].file] = editing[r].at
      BY <2>1 DEF LibInv, RemovesKnow, RemoveKnows, Removal
    <3> QED
      BY <3>1, LibraryAssumption DEF Removal, Rows
  <2>8. /\ \A g \in Rows : path[g] \notin gone
        /\ \A q \in Removers \ {r} : ~editing[q].shared => editing[q].at \notin gone
        /\ \A q \in Creators \ {r} : editing[q].file \notin gone
    BY <2>0
  <2> QED
    BY <1>2, <2>2, <2>4, <2>5, <2>6, <2>7, <2>8, QuietEnd
<1> QED
  BY <1>3, <1>4

LEMMA UnlinkKeeps == ASSUME LibInv, NEW r \in Requests, Unlink(r) PROVE LibInv'
<1>1. LibTypeOK
  BY DEF LibInv
<1>2. /\ r \in Removers /\ editing[r].stage = "gone" /\ Ends(r)
      /\ path' = path /\ point' = point /\ edits' = edits /\ doubtful' = doubtful
      /\ answering' = answering /\ withdrawn' = withdrawn
      /\ stored' = IF editing[r].shared THEN stored ELSE [stored EXCEPT ![editing[r].at] = None]
  BY DEF Unlink, Ends, Removers, Spared
<1>3. /\ r \in Active /\ r \notin Editors /\ r \notin Creators /\ editing[r] \in Removal
      /\ RemoveKnows(editing[r]) /\ RemoveSpares(editing[r])
  BY <1>1, <1>2, KindsTyped DEF LibInv, RemovesKnow, RemovesAlone
<1>4. doubtful' \subseteq Library
  BY <1>1, <1>2 DEF LibTypeOK
<1>5. CASE editing[r].shared
  <2>0. PICK gone : gone = {}
    OBVIOUS
  <2>1. stored' = [a \in Library |-> IF a \in gone THEN None ELSE stored[a]]
    BY <1>1, <1>2, <1>5, <2>0 DEF LibTypeOK
  <2>2. /\ \A g \in Rows : path[g] \notin gone
        /\ \A q \in Removers \ {r} : ~editing[q].shared => editing[q].at \notin gone
        /\ \A q \in Creators \ {r} : editing[q].file \notin gone
    BY <2>0
  <2>3. editing[r].at \in gone \cup doubtful'
    BY <1>2, <1>3, <1>5 DEF RemoveSpares
  <2> QED
    BY <1>2, <1>3, <1>4, <2>1, <2>2, <2>3, QuietEnd
<1>6. CASE ~editing[r].shared
  <2>1. stored' = [a \in Library |-> IF a \in {editing[r].at} THEN None ELSE stored[a]]
    BY <1>1, <1>2, <1>3, <1>6 DEF LibTypeOK, Removal
  <2>2. \A g \in Rows : path[g] \notin {editing[r].at}
    BY <1>2, <1>3, <1>6 DEF RemoveSpares, RemoveKnows, Rows
  <2>3. \A q \in Removers \ {r} : ~editing[q].shared => editing[q].at \notin {editing[r].at}
    BY <1>2, <1>6 DEF LibInv, RemovesAlone
  <2>4. \A q \in Creators \ {r} : editing[q].file \notin {editing[r].at}
    BY <1>2 DEF LibInv, CreatesAlone
  <2> QED
    BY <1>2, <1>3, <1>4, <2>1, <2>2, <2>3, <2>4, QuietEnd
<1> QED
  BY <1>5, <1>6

LEMMA KillServerKeeps == ASSUME LibInv, KillServer PROVE LibInv'
<1> DEFINE written == UNION {InDoubt(editing[r]) : r \in Active}
           created == {editing[r].file : r \in {q \in Creators : editing[q].stage = "flushed"}}
<1>1. LibTypeOK
  BY DEF LibInv
<1>2. /\ editing' = [r \in Requests |-> None]
      /\ path' = path /\ point' = point /\ stored' = stored /\ edits' = edits
      /\ answering' = editing' /\ withdrawn' = withdrawn
      /\ doubtful' = doubtful \cup written \cup created
  <2>1. doubtful' = doubtful \cup written \cup created
    BY Zenon DEF KillServer, Creators
  <2> QED
    BY <2>1 DEF KillServer
<1>3. doubtful \subseteq doubtful'
  BY <1>2
<1>4. /\ \A r \in Active : InDoubt(editing[r]) \subseteq written
      /\ \A r \in Creators : editing[r].stage = "flushed" => editing[r].file \in created
  OBVIOUS
<1>5. ASSUME NEW r \in Creators PROVE editing[r].file \in doubtful'
  <2>1. editing[r].stage = "written" => editing[r].file \in InDoubt(editing[r])
    BY DEF InDoubt, Creators, Ops
  <2>2. r \in Active /\ editing[r].stage \in {"written", "flushed"}
    BY <1>1, KindsTyped DEF Creation
  <2> HIDE DEF written, created
  <2> QED
    BY <1>2, <1>4, <2>1, <2>2
<1>6. ASSUME NEW r \in Removers PROVE editing[r].at \in doubtful' \/ \E g \in Rows : path[g] = editing[r].at
  <2>1. editing[r].stage = "gone" => editing[r].at \in InDoubt(editing[r])
    BY DEF InDoubt, Removers, Ops
  <2>2. r \in Active /\ editing[r] \in Removal
    BY <1>1, KindsTyped
  <2>3. editing[r].stage = "open" => editing[r].file \in Rows /\ path[editing[r].file] = editing[r].at
    BY <2>2, LibraryAssumption DEF LibInv, RemovesKnow, RemoveKnows, Removal, Rows
  <2>4. editing[r].stage \in {"open", "gone"}
    BY <2>2 DEF Removal
  <2> HIDE DEF written, created
  <2> QED
    BY <1>2, <1>4, <2>1, <2>2, <2>3, <2>4
<1>7. Active' = {} /\ Editors' = {} /\ Creators' = {} /\ Removers' = {}
  BY <1>2 DEF Active, Editors, Creators, Removers, Ops
<1>8. Rows' = Rows /\ \A f : Says(f)' = Says(f)
  BY <1>2 DEF Rows, Says, Of
<1>9. \A r \in Editors : editing[r].stage # "written" \/ editing[r].at \in doubtful'
  <2> SUFFICES ASSUME NEW r \in Editors, editing[r].stage = "written" PROVE editing[r].at \in doubtful'
    OBVIOUS
  <2>1. editing[r].at \in InDoubt(editing[r]) /\ r \in Active
    BY <1>1, KindsTyped DEF InDoubt, Editors, Ops
  <2> QED
    BY <1>2, <2>1
<1>10. \A r \in Editors : editing[r].stage \in {"read", "written"}
  BY <1>1, KindsTyped DEF Edit
<1>11. LibTypeOK'
  <2>1. \A r \in Active : InDoubt(editing[r]) \subseteq Library
    <3> SUFFICES ASSUME NEW r \in Active PROVE InDoubt(editing[r]) \subseteq Library
      OBVIOUS
    <3>1. \/ editing[r].op \in {"put", "delete"} /\ editing[r] \in Edit
          \/ editing[r].op = "create" /\ editing[r] \in Creation
          \/ editing[r].op = "remove" /\ editing[r] \in Removal
      BY <1>1, KindsTyped DEF Editors, Creators, Removers, Ops
    <3> QED
      BY <3>1 DEF InDoubt, Edit, Creation, Removal
  <2>2. \A r \in Creators : editing[r].file \in Library
    BY <1>1, KindsTyped DEF Creation
  <2>3. doubtful' \subseteq Library
    <3>1. written \subseteq Library
      BY <2>1
    <3>2. created \subseteq Library
      BY <2>2
    <3>3. doubtful \subseteq Library
      BY <1>1 DEF LibTypeOK
    <3> HIDE DEF written, created
    <3> QED
      BY <1>2, <3>1, <3>2, <3>3
  <2> QED
    BY <1>1, <1>2, <1>8, <2>3 DEF LibTypeOK
<1>12. ListedIsStored' /\ SharedDoubtful'
  BY <1>2, <1>8 DEF LibInv, ListedIsStored, SharedDoubtful
<1>13. SaysUntilWritten'
  <2> SUFFICES ASSUME NEW f \in Rows, path[f] \notin doubtful' PROVE stored[path[f]] = Says(f)
    BY <1>2, <1>8 DEF SaysUntilWritten
  <2>1. \A q \in Editors : editing[q].at = path[f] => editing[q].stage = "read"
    BY <1>9, <1>10
  <2> QED
    BY <1>2, <2>1 DEF LibInv, SaysUntilWritten
<1>14. Owned'
  <2> SUFFICES ASSUME NEW f \in Library, stored[f] # None, f \notin doubtful' PROVE \E g \in Rows : path[g] = f
    BY <1>2, <1>8 DEF Owned
  <2>3. f \notin doubtful
    BY <1>2
  <2> QED
    BY <1>9, <1>5, <1>6, <2>3 DEF LibInv, Owned
<1> QED
  BY <1>7, <1>11, <1>12, <1>13, <1>14
  DEF LibInv, LocksApart, EditsKnow, EditsAlone, RemovesKnow, RemovesAlone, CreatesAlone, AnswersKnow

-----------------------------------------------------------------------------
(* Edits                                                                   *)

\* Two records of an edit that differ in its stage and in what it knows of others.
SameEdit(e, n) ==
    /\ n.op = e.op /\ n.pt = e.pt /\ n.file = e.file /\ n.at = e.at
    /\ n.new = e.new /\ n.holds = e.holds /\ n.content = e.content

LEMMA WrittenEdit ==
    ASSUME NEW e \in Edit
    PROVE  /\ [e EXCEPT !.stage = "written"] \in Edit
           /\ SameEdit(e, [e EXCEPT !.stage = "written"])
           /\ [e EXCEPT !.stage = "written"].stage = "written"
           /\ [e EXCEPT !.stage = "written"].crossed = e.crossed
  BY DEF Edit, SameEdit

LEMMA CrossedEdit ==
    ASSUME NEW e \in Edit
    PROVE  /\ [e EXCEPT !.crossed = TRUE] \in Edit
           /\ SameEdit(e, [e EXCEPT !.crossed = TRUE])
           /\ [e EXCEPT !.crossed = TRUE].stage = e.stage
           /\ [e EXCEPT !.crossed = TRUE].crossed = TRUE
  BY DEF Edit, SameEdit

LEMMA RewriteKeeps == ASSUME LibInv, NEW r \in Requests, Rewrite(r) PROVE LibInv'
<1> DEFINE e == editing[r]
           n == editing'[r]
<1>1. LibTypeOK
  BY DEF LibInv
<1>2. /\ r \in Editors /\ e.stage = "read"
      /\ stored' = [stored EXCEPT ![e.at] = e.content]
      /\ doubtful' = IF e.crossed THEN doubtful \cup {e.at} ELSE doubtful
      /\ editing' = [editing EXCEPT ![r].stage = "written"]
      /\ path' = path /\ point' = point /\ edits' = edits
      /\ answering' = answering /\ withdrawn' = withdrawn \ {e.at}
  BY DEF Rewrite, Editors
<1>3. e \in Edit /\ e.at \in Library /\ e.content \in Content /\ e.content # None
  BY <1>1, <1>2, KindsTyped, LibraryAssumption DEF Edit
<1>4. /\ n = [e EXCEPT !.stage = "written"]
      /\ \A q \in Requests \ {r} : editing'[q] = editing[q]
  BY <1>1, <1>2 DEF LibTypeOK
<1>5. n \in Edit /\ SameEdit(e, n) /\ n.stage = "written" /\ n.crossed = e.crossed
  BY <1>3, <1>4, WrittenEdit
<1>6. n # None
  BY <1>5, LibraryAssumption
<1> HIDE DEF n
<1>7. Active' = Active
  BY <1>2, <1>4, <1>6 DEF Active, Editors, Ops, n
<1>8. Editors' = Editors /\ Creators' = Creators /\ Removers' = Removers
  <2>1. \A q \in Requests : editing'[q].op = editing[q].op
    BY <1>4, <1>5 DEF SameEdit, n
  <2>2. \A o : Ops(o)' = Ops(o)
    BY <1>7, <2>1 DEF Ops, Active
  <2> QED
    BY <2>2 DEF Editors, Creators, Removers
<1>9. \A q \in Editors : SameEdit(editing[q], editing'[q]) /\ editing'[q].crossed = editing[q].crossed
  BY <1>1, <1>4, <1>5, KindsTyped DEF SameEdit, n
<1>10. \A q \in Creators \cup Removers : editing'[q] = editing[q]
  BY <1>1, <1>2, <1>4, KindsTyped
<1>11. \A q \in Active : LockOf(q)' = LockOf(q)
  BY <1>1, <1>8, <1>9, <1>10, KindsTyped DEF LockOf, EditLock, SameEdit
<1>12. Rows' = Rows /\ \A f : Of(f)' = Of(f) /\ Says(f)' = Says(f)
  BY <1>2 DEF Rows, Of, Says
<1>13. stored'[e.at] = e.content /\ \A a \in Library : a # e.at => stored'[a] = stored[a]
  BY <1>1, <1>2, <1>3 DEF LibTypeOK
<1>14. \A f \in Rows : path[f] \in Library
  BY <1>1 DEF LibTypeOK, Rows
<1>15. LibTypeOK'
  <2>1. editing' \in [Requests -> Edit \cup Creation \cup Removal \cup {None}]
    BY <1>1, <1>2, <1>4, <1>5 DEF LibTypeOK, n
  <2>2. stored' \in [Library -> Content \cup {None}] /\ doubtful' \subseteq Library
    BY <1>1, <1>2, <1>3 DEF LibTypeOK
  <2> QED
    BY <1>1, <1>2, <1>12, <2>1, <2>2 DEF LibTypeOK
<1>16. ListedIsStored'
  BY <1>2, <1>3, <1>12, <1>13, <1>14 DEF LibInv, ListedIsStored
<1>17. LocksApart'
  BY <1>7, <1>11 DEF LibInv, LocksApart
<1>18. EditsKnow'
  <2> SUFFICES ASSUME NEW q \in Editors PROVE EditKnows(editing[q])'
    BY <1>8 DEF EditsKnow
  <2>1. EditKnows(editing[q]) /\ SameEdit(editing[q], editing'[q])
    BY <1>9 DEF LibInv, EditsKnow
  <2> QED
    BY <1>2, <1>12, <2>1 DEF EditKnows, SameEdit
<1>19. EditsAlone'
  <2> SUFFICES ASSUME NEW q \in Editors, ~editing[q].crossed PROVE EditIsSole(editing[q])'
    BY <1>8, <1>9 DEF LibInv, EditsAlone, SameEdit
  <2>1. EditIsSole(editing[q]) /\ EditKnows(editing[q]) /\ SameEdit(editing[q], editing'[q])
    BY <1>9 DEF LibInv, EditsAlone, EditsKnow
  <2>2. CASE q = r
    BY <1>2, <1>12, <1>13, <2>1, <2>2 DEF EditIsSole, SameEdit, Rewritten
  <2>3. CASE q # r
    <3>1. editing[q].at # e.at /\ editing'[q] = editing[q]
      BY <1>1, <1>2, <1>4, <2>3, KindsTyped DEF LibInv, EditsAlone
    <3>2. editing[q].file \in Rows => stored'[editing[q].at] = stored[editing[q].at]
      BY <1>13, <1>14, <2>1, <3>1 DEF EditKnows
    <3> QED
      BY <1>2, <1>12, <2>1, <3>1, <3>2 DEF EditIsSole, Rewritten
  <2> QED
    BY <2>2, <2>3
<1>20. RemovesKnow'
  BY <1>2, <1>8, <1>10, <1>12 DEF LibInv, RemovesKnow, RemoveKnows
<1>21. RemovesAlone'
  <2> SUFFICES ASSUME NEW q \in Removers PROVE RemoveSpares(editing[q])'
    BY <1>8, <1>10 DEF LibInv, RemovesAlone
  <2>1. editing'[q] = editing[q] /\ RemoveSpares(editing[q]) /\ editing[q].at \in Library
    BY <1>1, <1>10, KindsTyped DEF LibInv, RemovesAlone, Removal
  <2> QED
    BY <1>2, <1>12, <2>1 DEF RemoveSpares
<1>22. CreatesAlone'
  <2> SUFFICES ASSUME NEW q \in Creators PROVE CreateKnows(editing[q])'
    <3>1. \A a \in Active : editing'[a].file = editing[a].file
      BY <1>1, <1>9, <1>10, KindsTyped DEF SameEdit
    <3>2. \A a \in Editors \cup Removers : editing'[a].at = editing[a].at
      BY <1>9, <1>10 DEF SameEdit
    <3>3. Creators \subseteq Active
      BY <1>1, KindsTyped
    <3> QED
      BY <1>7, <1>8, <3>1, <3>2, <3>3 DEF LibInv, CreatesAlone
  <2>1. editing'[q] = editing[q] /\ CreateKnows(editing[q]) /\ editing[q].file \in Library /\ editing[q].file # e.at
    BY <1>1, <1>2, <1>10, KindsTyped DEF LibInv, CreatesAlone, Creation
  <2> QED
    BY <1>2, <1>12, <1>13, <2>1 DEF CreateKnows
<1>23. SharedDoubtful'
  BY <1>2, <1>12 DEF LibInv, SharedDoubtful
<1>24. SaysUntilWritten'
  <2> SUFFICES ASSUME NEW f \in Rows, path[f] \notin doubtful,
                      \A q \in Editors : editing'[q].at = path[f] => editing'[q].stage = "read"
               PROVE  stored'[path[f]] = Says(f)
    BY <1>2, <1>8, <1>12 DEF SaysUntilWritten
  <2>1. path[f] # e.at
    BY <1>2, <1>5 DEF SameEdit, n
  <2>2. \A q \in Editors : editing[q].at = path[f] => editing[q].stage = "read"
    BY <1>1, <1>4, <2>1, KindsTyped
  <2> QED
    BY <1>13, <1>14, <2>1, <2>2 DEF LibInv, SaysUntilWritten
<1>25. Owned'
  <2> SUFFICES ASSUME NEW f \in Library, stored'[f] # None, f \notin doubtful', f # e.at
               PROVE  \/ \E g \in Rows : path[g] = f
                      \/ \E q \in Creators : editing[q].file = f
                      \/ \E q \in Removers : editing[q].at = f
                      \/ \E q \in Editors \ {r} : editing[q].at = f /\ editing[q].stage = "written"
    <3>1. \A q \in Editors \ {r} : editing'[q] = editing[q]
      BY <1>1, <1>4, KindsTyped
    <3>2. editing'[r].at = e.at /\ editing'[r].stage = "written"
      BY <1>5 DEF SameEdit, n
    <3> QED
      BY <1>2, <1>8, <1>10, <1>12, <3>1, <3>2 DEF Owned
  <2>1. f \notin doubtful /\ stored[f] # None
    BY <1>2, <1>13
  <2> QED
    BY <1>2, <2>1 DEF LibInv, Owned
<1>26. AnswersKnow'
  BY <1>2, <1>8, <1>10 DEF LibInv, AnswersKnow
<1> QED
  BY <1>15, <1>16, <1>17, <1>18, <1>19, <1>20, <1>21, <1>22, <1>23, <1>24, <1>25, <1>26 DEF LibInv

LEMMA LockedAll == LibTypeOK => \A q \in Active : LockOf(q) \subseteq Locked
<1> SUFFICES ASSUME LibTypeOK, NEW q \in Active, NEW p \in LockOf(q) PROVE p \in Locked
  OBVIOUS
<1>1. CASE q \in Editors
  BY <1>1 DEF Editors, LockOf, EditLock, Locked
<1>2. CASE q \notin Editors
  <2>1. q \in Creators \/ (q \in Removers /\ editing[q].stage = "open")
    BY <1>2, KindsTyped DEF LockOf
  <2>2. p \in editing[q].pts
    BY <1>2, <2>1 DEF LockOf
  <2> QED
    BY <2>1, <2>2 DEF Locked, Creators, Removers
<1> QED
  BY <1>1, <1>2

\* A transaction begins, which crosses the edits of a path.
LEMMA CrossFrame ==
    ASSUME LibTypeOK, NEW r \in Requests, editing[r] = None, NEW a, NEW n \in Edit \cup Removal,
           editing' = [Crossing(a) EXCEPT ![r] = n]
    PROVE  /\ editing'[r] = n /\ r \notin Active /\ Active' = Active \cup {r}
           /\ \A q \in Editors :
                 /\ q # r /\ editing'[q] \in Edit /\ SameEdit(editing[q], editing'[q])
                 /\ editing'[q].stage = editing[q].stage
                 /\ ~editing'[q].crossed => ~editing[q].crossed /\ editing[q].at # a
           /\ \A q \in Creators \cup Removers : q # r /\ editing'[q] = editing[q]
           /\ Creators' = Creators
           /\ n \in Edit => Editors' = Editors \cup {r} /\ Removers' = Removers
           /\ n \in Removal => Editors' = Editors /\ Removers' = Removers \cup {r}
           /\ \A q \in Active : LockOf(q)' = LockOf(q)
           /\ editing' \in [Requests -> Edit \cup Creation \cup Removal \cup {None}]
<1>1. /\ \A q \in Editors : r # q /\ q \in Requests /\ editing[q] \in Edit
      /\ \A q \in Creators \cup Removers : r # q /\ q \in Requests
      /\ Active = Editors \cup Creators \cup Removers /\ r \notin Active
      /\ Editors \cap (Creators \cup Removers) = {}
  <2>1. r \notin Active
    BY DEF Active
  <2> QED
    BY <2>1, KindsTyped
<1>2. n # None
  BY LibraryAssumption
<1>3. /\ \A q \in Requests : q # r =>
            editing'[q] = IF q \in Writers(a) THEN [editing[q] EXCEPT !.crossed = TRUE] ELSE editing[q]
      /\ editing'[r] = n
      /\ DOMAIN editing' = Requests
  BY DEF Crossing
<1>4. Writers(a) = {q \in Editors : editing[q].at = a}
  BY DEF Writers, Editors
<1>5. ASSUME NEW q \in Editors
      PROVE  /\ editing'[q] \in Edit /\ SameEdit(editing[q], editing'[q])
             /\ editing'[q].stage = editing[q].stage
             /\ ~editing'[q].crossed => ~editing[q].crossed /\ editing[q].at # a
  <2>1. CASE q \in Writers(a)
    <3>1. editing'[q] = [editing[q] EXCEPT !.crossed = TRUE]
      BY <1>1, <1>3, <2>1
    <3> QED
      BY <1>1, <3>1, CrossedEdit
  <2>2. CASE q \notin Writers(a)
    BY <1>1, <1>3, <1>4, <2>2 DEF SameEdit
  <2> QED
    BY <2>1, <2>2
<1>6. \A q \in Creators \cup Removers : editing'[q] = editing[q]
  BY <1>1, <1>3, <1>4
<1>7. \A q \in Requests : q # r => editing'[q].op = editing[q].op /\ (editing'[q] = None <=> editing[q] = None)
  <2> SUFFICES ASSUME NEW q \in Requests, q # r
               PROVE  editing'[q].op = editing[q].op /\ (editing'[q] = None <=> editing[q] = None)
    OBVIOUS
  <2>1. CASE q \in Editors
    BY <1>1, <1>5, <2>1, LibraryAssumption DEF SameEdit
  <2>2. CASE q \notin Editors
    BY <1>3, <1>4, <2>2
  <2> QED
    BY <2>1, <2>2
<1>8. Active' = Active \cup {r}
  BY <1>2, <1>3, <1>7 DEF Active
<1>9. \A o : Ops(o)' = IF n.op = o THEN Ops(o) \cup {r} ELSE Ops(o)
  BY <1>1, <1>3, <1>7, <1>8 DEF Ops, Active
<1>10. n \in Edit => Editors' = Editors \cup {r} /\ Removers' = Removers /\ Creators' = Creators
  BY <1>9 DEF Edit, Editors, Removers, Creators
<1>11. n \in Removal => Editors' = Editors /\ Removers' = Removers \cup {r} /\ Creators' = Creators
  BY <1>9 DEF Removal, Editors, Removers, Creators
<1>12. \A q \in Active : LockOf(q)' = LockOf(q)
  <2> SUFFICES ASSUME NEW q \in Active PROVE LockOf(q)' = LockOf(q)
    OBVIOUS
  <2>1. q \in Editors' <=> q \in Editors
    BY <1>1, <1>10, <1>11
  <2>2. q \in Creators' <=> q \in Creators
    BY <1>10, <1>11
  <2>3. CASE q \in Editors
    <3>1. EditLock(editing'[q]) = EditLock(editing[q])
      BY <1>5, <2>3 DEF EditLock, SameEdit
    <3> QED
      BY <2>1, <2>3, <3>1 DEF LockOf
  <2>4. CASE q \notin Editors
    BY <1>1, <1>6, <2>1, <2>2, <2>4 DEF LockOf
  <2> QED
    BY <2>3, <2>4
<1>13. editing' \in [Requests -> Edit \cup Creation \cup Removal \cup {None}]
  <2>1. editing' = [q \in Requests |-> editing'[q]]
    BY DEF Crossing
  <2>2. \A q \in Requests : editing'[q] \in Edit \cup Creation \cup Removal \cup {None}
    BY <1>3, <1>4, <1>5 DEF LibTypeOK
  <2> QED
    BY <2>1, <2>2
<1> QED
  BY <1>1, <1>3, <1>5, <1>6, <1>8, <1>10, <1>11, <1>12, <1>13

LEMMA BeginEditKeeps ==
    ASSUME LibInv, NEW r \in Requests, NEW f \in Library, NEW p \in Points, NEW new \in Point \cup {None},
           NEW op \in {"put", "delete"}, BeginEdit(r, f, p, new, op),
           new # None => new.file = f,
           (point[p] = None /\ new # None) \/ p \in Of(f)
    PROVE  LibInv'
<1> DEFINE n == [op |-> op, pt |-> p, file |-> f, at |-> path[f], new |-> new, holds |-> new # point[p],
                 content |-> Rewritten(f, p, new), stage |-> "read", crossed |-> Writers(path[f]) # {}]
<1>1. LibTypeOK
  BY DEF LibInv
<1>2. /\ editing[r] = None /\ f \in Rows /\ (new # point[p] => p \notin Locked)
      /\ edits < MaxEdits /\ edits' = edits + 1
      /\ editing' = [Crossing(path[f]) EXCEPT ![r] = n]
      /\ path' = path /\ point' = point /\ stored' = stored /\ doubtful' = doubtful
      /\ answering' = answering /\ withdrawn' = withdrawn
  BY DEF BeginEdit, Another
<1>3. /\ n.op = op /\ n.pt = p /\ n.file = f /\ n.at = path[f] /\ n.new = new /\ n.holds = (new # point[p])
      /\ n.content = Rewritten(f, p, new) /\ n.stage = "read" /\ n.crossed = (Writers(path[f]) # {})
  OBVIOUS
<1>4. n \in Edit
  <2>1. path[f] \in Library
    BY <1>1, <1>2 DEF LibTypeOK, Rows
  <2>2. Rewritten(f, p, new) \in Content
    BY <1>1 DEF Rewritten, Says, Of, Content, LibTypeOK, Point
  <2> QED
    BY <2>1, <2>2 DEF Edit
<1> HIDE DEF n
<1>5. /\ editing'[r] = n /\ r \notin Active /\ Active' = Active \cup {r}
      /\ \A q \in Editors :
            /\ q # r /\ editing'[q] \in Edit /\ SameEdit(editing[q], editing'[q])
            /\ editing'[q].stage = editing[q].stage
            /\ ~editing'[q].crossed => ~editing[q].crossed /\ editing[q].at # path[f]
      /\ \A q \in Creators \cup Removers : q # r /\ editing'[q] = editing[q]
      /\ Creators' = Creators /\ Editors' = Editors \cup {r} /\ Removers' = Removers
      /\ \A q \in Active : LockOf(q)' = LockOf(q)
      /\ editing' \in [Requests -> Edit \cup Creation \cup Removal \cup {None}]
  BY <1>1, <1>2, <1>4, CrossFrame
<1>6. Rows' = Rows /\ \A g : Of(g)' = Of(g) /\ Says(g)' = Says(g)
  BY <1>2 DEF Rows, Of, Says
<1>7. Writers(path[f]) = {q \in Editors : editing[q].at = path[f]}
  BY DEF Writers, Editors
<1>8. LibTypeOK'
  BY <1>1, <1>2, <1>5, <1>6, LibraryAssumption DEF LibTypeOK
<1>9. ListedIsStored' /\ SharedDoubtful'
  BY <1>2, <1>6 DEF LibInv, ListedIsStored, SharedDoubtful
<1>10. LocksApart'
  <2>1. LockOf(r)' = IF new # point[p] THEN {p} ELSE {}
    BY <1>3, <1>5 DEF LockOf, EditLock
  <2>2. \A q \in Active : LockOf(q) \cap LockOf(r)' = {}
    BY <1>1, <1>2, <2>1, LockedAll
  <2> QED
    BY <1>5, <2>2 DEF LibInv, LocksApart
<1>11. EditsKnow'
  <2>1. EditKnows(editing[r])'
    BY <1>1, <1>2, <1>3, <1>5, <1>6 DEF EditKnows, Of
  <2>2. ASSUME NEW q \in Editors PROVE EditKnows(editing[q])'
    <3>1. EditKnows(editing[q]) /\ SameEdit(editing[q], editing'[q])
      BY <1>5 DEF LibInv, EditsKnow
    <3> QED
      BY <1>2, <1>6, <3>1 DEF EditKnows, SameEdit
  <2> QED
    BY <1>5, <2>1, <2>2 DEF EditsKnow
<1>12. EditsAlone'
  <2>1. EditIsSole(editing[r])'
    BY <1>2, <1>3, <1>5, <1>6 DEF EditIsSole, Rewritten
  <2>2. ASSUME NEW q \in Editors, ~editing'[q].crossed PROVE EditIsSole(editing[q])'
    <3>1. EditIsSole(editing[q]) /\ SameEdit(editing[q], editing'[q]) /\ editing'[q].stage = editing[q].stage
      BY <1>5, <2>2 DEF LibInv, EditsAlone
    <3> QED
      BY <1>2, <1>6, <3>1 DEF EditIsSole, SameEdit, Rewritten
  <2>3. ASSUME NEW q \in Editors', NEW a \in Editors', ~editing'[q].crossed, editing'[a].at = editing'[q].at
        PROVE  a = q
    <3>1. CASE q = r /\ a # r
      <4>1. Writers(path[f]) = {}
        BY <1>3, <1>5, <2>3, <3>1
      <4>2. a \in Editors /\ editing[a].at = path[f]
        BY <1>3, <1>5, <2>3, <3>1 DEF SameEdit
      <4> QED
        BY <1>7, <4>1, <4>2
    <3>2. CASE q # r /\ a = r
      BY <1>3, <1>5, <2>3, <3>2 DEF SameEdit
    <3>3. CASE q # r /\ a # r
      BY <1>5, <2>3, <3>3 DEF SameEdit, LibInv, EditsAlone
    <3> QED
      BY <3>1, <3>2, <3>3
  <2> QED
    BY <1>5, <2>1, <2>2, <2>3 DEF EditsAlone
<1>13. RemovesKnow'
  BY <1>2, <1>5, <1>6 DEF LibInv, RemovesKnow, RemoveKnows
<1>14. RemovesAlone'
  BY <1>2, <1>5, <1>6 DEF LibInv, RemovesAlone, RemoveSpares
<1>15. CreatesAlone'
  <2> SUFFICES ASSUME NEW q \in Creators
               PROVE  /\ CreateKnows(editing[q])'
                      /\ \A a \in Active' : editing'[a].file = editing[q].file => a = q
                      /\ \A a \in Editors' \cup Removers' : editing'[a].at # editing[q].file
    BY <1>5 DEF CreatesAlone
  <2>1. editing'[q] = editing[q] /\ CreateKnows(editing[q]) /\ q \in Active
    BY <1>1, <1>5, KindsTyped DEF LibInv, CreatesAlone
  <2>2. CreateKnows(editing[q])'
    BY <1>2, <1>6, <2>1 DEF CreateKnows
  <2>3. f # editing[q].file /\ path[f] # editing[q].file
    BY <1>2, <2>1 DEF CreateKnows, Rows
  <2>4. \A a \in Active : editing'[a].file = editing[a].file
    BY <1>1, <1>5, KindsTyped DEF SameEdit
  <2>5. \A a \in Editors \cup Removers : editing'[a].at = editing[a].at
    BY <1>5 DEF SameEdit
  <2> QED
    BY <1>3, <1>5, <2>2, <2>3, <2>4, <2>5 DEF LibInv, CreatesAlone
<1>16. SaysUntilWritten'
  <2> SUFFICES ASSUME NEW g \in Rows, path[g] \notin doubtful,
                      \A q \in Editors : editing'[q].at = path[g] => editing'[q].stage = "read"
               PROVE  stored[path[g]] = Says(g)
    BY <1>2, <1>5, <1>6 DEF SaysUntilWritten
  <2>1. \A q \in Editors : editing[q].at = path[g] => editing[q].stage = "read"
    BY <1>5 DEF SameEdit
  <2> QED
    BY <2>1 DEF LibInv, SaysUntilWritten
<1>17. Owned'
  <2> SUFFICES ASSUME NEW g \in Library, stored[g] # None, g \notin doubtful
               PROVE  \/ \E h \in Rows : path[h] = g
                      \/ \E q \in Creators : editing[q].file = g
                      \/ \E q \in Removers : editing[q].at = g
                      \/ \E q \in Editors : editing'[q].at = g /\ editing'[q].stage = "written"
    BY <1>2, <1>5, <1>6 DEF Owned
  <2>1. \A q \in Editors : editing'[q].at = editing[q].at /\ editing'[q].stage = editing[q].stage
    BY <1>5 DEF SameEdit
  <2> QED
    BY <2>1 DEF LibInv, Owned
<1>18. AnswersKnow'
  BY <1>2, <1>5 DEF LibInv, AnswersKnow
<1> QED
  BY <1>8, <1>9, <1>10, <1>11, <1>12, <1>13, <1>14, <1>15, <1>16, <1>17, <1>18 DEF LibInv

LEMMA OpenRemovalKeeps ==
    ASSUME LibInv, NEW r \in Requests, NEW f \in Library, OpenRemoval(r, f)
    PROVE  LibInv'
<1> DEFINE n == [op |-> "remove", file |-> f, pts |-> Of(f), at |-> path[f], stage |-> "open",
                 shared |-> \E g \in Rows \ {f} : path[g] = path[f]]
<1>1. LibTypeOK
  BY DEF LibInv
<1>2. /\ editing[r] = None /\ f \in Rows /\ Of(f) \cap Locked = {}
      /\ \A q \in Removers : editing[q].file # f
      /\ edits < MaxEdits /\ edits' = edits + 1
      /\ editing' = [Crossing(path[f]) EXCEPT ![r] = n]
      /\ path' = path /\ point' = point /\ stored' = stored /\ doubtful' = doubtful
      /\ answering' = answering /\ withdrawn' = withdrawn
  BY DEF OpenRemoval, Another, Removers
<1>3. /\ n.op = "remove" /\ n.pts = Of(f) /\ n.file = f /\ n.at = path[f] /\ n.stage = "open"
      /\ n.shared = (\E g \in Rows \ {f} : path[g] = path[f])
  OBVIOUS
<1>4. n \in Removal
  <2>1. path[f] \in Library
    BY <1>1, <1>2 DEF LibTypeOK, Rows
  <2> QED
    BY <2>1 DEF Removal, Of
<1> HIDE DEF n
<1>5. /\ editing'[r] = n /\ r \notin Active /\ Active' = Active \cup {r}
      /\ \A q \in Editors :
            /\ q # r /\ editing'[q] \in Edit /\ SameEdit(editing[q], editing'[q])
            /\ editing'[q].stage = editing[q].stage
            /\ ~editing'[q].crossed => ~editing[q].crossed /\ editing[q].at # path[f]
      /\ \A q \in Creators \cup Removers : q # r /\ editing'[q] = editing[q]
      /\ Creators' = Creators /\ Editors' = Editors /\ Removers' = Removers \cup {r}
      /\ \A q \in Active : LockOf(q)' = LockOf(q)
      /\ editing' \in [Requests -> Edit \cup Creation \cup Removal \cup {None}]
  BY <1>1, <1>2, <1>4, CrossFrame
<1>6. Rows' = Rows /\ \A g : Of(g)' = Of(g) /\ Says(g)' = Says(g)
  BY <1>2 DEF Rows, Of, Says
<1>7. r \notin Editors /\ r \notin Creators
  BY <1>1, <1>5, KindsTyped
<1>8. LibTypeOK'
  BY <1>1, <1>2, <1>5, <1>6, LibraryAssumption DEF LibTypeOK
<1>9. ListedIsStored' /\ SharedDoubtful'
  BY <1>2, <1>6 DEF LibInv, ListedIsStored, SharedDoubtful
<1>10. LocksApart'
  <2>1. LockOf(r)' = Of(f)
    BY <1>3, <1>5, <1>7 DEF LockOf
  <2>2. \A q \in Active : LockOf(q) \cap LockOf(r)' = {}
    BY <1>1, <1>2, <2>1, LockedAll
  <2> QED
    BY <1>5, <2>2 DEF LibInv, LocksApart
<1>11. EditsKnow'
  <2> SUFFICES ASSUME NEW q \in Editors PROVE EditKnows(editing[q])'
    BY <1>5 DEF EditsKnow
  <2>1. EditKnows(editing[q]) /\ SameEdit(editing[q], editing'[q])
    BY <1>5 DEF LibInv, EditsKnow
  <2> QED
    BY <1>2, <1>6, <2>1 DEF EditKnows, SameEdit
<1>12. EditsAlone'
  <2> SUFFICES ASSUME NEW q \in Editors, ~editing'[q].crossed PROVE EditIsSole(editing[q])'
    BY <1>5 DEF LibInv, EditsAlone, SameEdit
  <2>1. EditIsSole(editing[q]) /\ SameEdit(editing[q], editing'[q]) /\ editing'[q].stage = editing[q].stage
    BY <1>5 DEF LibInv, EditsAlone
  <2> QED
    BY <1>2, <1>6, <2>1 DEF EditIsSole, SameEdit, Rewritten
<1>13. RemovesKnow'
  <2>1. RemoveKnows(editing[r])'
    BY <1>2, <1>3, <1>5, <1>6 DEF RemoveKnows
  <2>2. \A q \in Removers : RemoveKnows(editing[q])'
    BY <1>2, <1>5, <1>6 DEF LibInv, RemovesKnow, RemoveKnows
  <2> QED
    BY <1>2, <1>3, <1>5, <2>1, <2>2 DEF LibInv, RemovesKnow
<1>14. RemovesAlone'
  <2>1. RemoveSpares(editing[r])'
    <3>1. n.shared => path[f] \in doubtful
      BY <1>2, <1>3 DEF LibInv, SharedDoubtful
    <3>3. ~n.shared => \A g \in Rows : path[g] = path[f] => g = f
      BY <1>3
    <3> QED
      BY <1>2, <1>3, <1>5, <1>6, <3>1, <3>3 DEF RemoveSpares
  <2>2. \A q \in Removers : RemoveSpares(editing[q])'
    BY <1>2, <1>5, <1>6 DEF LibInv, RemovesAlone, RemoveSpares
  <2>3. \A q \in Removers : editing[q].at = path[f] => editing[q].shared
    BY <1>2 DEF LibInv, RemovesAlone, RemoveSpares
  <2> QED
    BY <1>3, <1>5, <2>1, <2>2, <2>3 DEF LibInv, RemovesAlone
<1>15. CreatesAlone'
  <2> SUFFICES ASSUME NEW q \in Creators
               PROVE  /\ CreateKnows(editing[q])'
                      /\ \A a \in Active' : editing'[a].file = editing[q].file => a = q
                      /\ \A a \in Editors' \cup Removers' : editing'[a].at # editing[q].file
    BY <1>5 DEF CreatesAlone
  <2>1. editing'[q] = editing[q] /\ CreateKnows(editing[q]) /\ q \in Active
    BY <1>1, <1>5, KindsTyped DEF LibInv, CreatesAlone
  <2>2. CreateKnows(editing[q])'
    BY <1>2, <1>6, <2>1 DEF CreateKnows
  <2>3. f # editing[q].file /\ path[f] # editing[q].file
    BY <1>2, <2>1 DEF CreateKnows, Rows
  <2>4. \A a \in Active : editing'[a].file = editing[a].file
    BY <1>1, <1>5, KindsTyped DEF SameEdit
  <2>5. \A a \in Editors \cup Removers : editing'[a].at = editing[a].at
    BY <1>5 DEF SameEdit
  <2> QED
    BY <1>3, <1>5, <2>2, <2>3, <2>4, <2>5 DEF LibInv, CreatesAlone
<1>16. SaysUntilWritten'
  <2> SUFFICES ASSUME NEW g \in Rows, path[g] \notin doubtful,
                      \A q \in Editors : editing'[q].at = path[g] => editing'[q].stage = "read"
               PROVE  stored[path[g]] = Says(g)
    BY <1>2, <1>5, <1>6 DEF SaysUntilWritten
  <2>1. \A q \in Editors : editing[q].at = path[g] => editing[q].stage = "read"
    BY <1>5 DEF SameEdit
  <2> QED
    BY <2>1 DEF LibInv, SaysUntilWritten
<1>17. Owned'
  <2> SUFFICES ASSUME NEW g \in Library, stored[g] # None, g \notin doubtful
               PROVE  \/ \E h \in Rows : path[h] = g
                      \/ \E q \in Creators : editing[q].file = g
                      \/ \E q \in Removers : editing[q].at = g
                      \/ \E q \in Editors : editing'[q].at = g /\ editing'[q].stage = "written"
    BY <1>2, <1>5, <1>6 DEF Owned
  <2>1. \A q \in Editors : editing'[q].at = editing[q].at /\ editing'[q].stage = editing[q].stage
    BY <1>5 DEF SameEdit
  <2> QED
    BY <2>1 DEF LibInv, Owned
<1>18. AnswersKnow'
  BY <1>2, <1>5 DEF LibInv, AnswersKnow
<1> QED
  BY <1>8, <1>9, <1>10, <1>11, <1>12, <1>13, <1>14, <1>15, <1>16, <1>17, <1>18 DEF LibInv

-----------------------------------------------------------------------------
(* Files                                                                   *)

LEMMA CreateFileKeeps ==
    ASSUME LibInv, NEW r \in Requests, NEW f \in Library, NEW C \in Content, CreateFile(r, f, C),
           \A s, t \in C : s[1] = t[1] => s = t
    PROVE  LibInv'
<1> DEFINE n == [op |-> "create", file |-> f, pts |-> {s[1] : s \in C}, content |-> C, stage |-> "written"]
<1>1. LibTypeOK
  BY DEF LibInv
<1>2. /\ editing[r] = None /\ edits < MaxEdits /\ edits' = edits + 1
      /\ path[f] = None /\ stored[f] = None
      /\ \A g \in Rows : path[g] # f
      /\ UnderWay(f) = {} /\ (\A q \in Active : editing[q].file # f) /\ \A q \in Requests : answering[q] # f
      /\ \A s \in C : point[s[1]] = None /\ s[1] \notin Locked
      /\ stored' = [stored EXCEPT ![f] = C]
      /\ editing' = [editing EXCEPT ![r] = n]
      /\ path' = path /\ point' = point /\ doubtful' = doubtful
      /\ answering' = answering /\ withdrawn' = withdrawn \ {f}
  BY DEF CreateFile, Another
<1>3. n.op = "create" /\ n.pts = {s[1] : s \in C} /\ n.file = f /\ n.content = C
  OBVIOUS
<1>4. n \in Creation
  BY DEF Creation, Content
<1>5. n # None
  BY <1>4, LibraryAssumption
<1>6. \A p \in n.pts : point[p] = None /\ p \notin Locked
  BY <1>2
<1> HIDE DEF n
<1>7. editing'[r] = n /\ (\A q \in Requests \ {r} : editing'[q] = editing[q]) /\ r \notin Active
  BY <1>1, <1>2 DEF LibTypeOK, Active
<1>8. Active' = Active \cup {r} /\ (\A q \in Active : q \in Requests /\ q # r /\ editing'[q] = editing[q])
  BY <1>5, <1>7 DEF Active
<1>9. Creators' = Creators \cup {r} /\ Editors' = Editors /\ Removers' = Removers
  BY <1>3, <1>7, <1>8 DEF Creators, Editors, Removers, Ops
<1>10. /\ Active = Editors \cup Creators \cup Removers
       /\ Editors \cap Creators = {} /\ Editors \cap Removers = {} /\ Creators \cap Removers = {}
  BY <1>1, KindsTyped
<1>11. \A q \in Active : LockOf(q)' = LockOf(q)
  BY <1>8, <1>9 DEF LockOf
<1>12. LockOf(r)' = n.pts
  BY <1>7, <1>9, <1>10 DEF LockOf
<1>13. Rows' = Rows /\ \A g : Of(g)' = Of(g) /\ Says(g)' = Says(g)
  BY <1>2 DEF Rows, Of, Says
<1>14. stored'[f] = C /\ C # None /\ \A a \in Library : a # f => stored'[a] = stored[a]
  BY <1>1, <1>2, LibraryAssumption DEF LibTypeOK
<1>15. \A q \in Editors \cup Removers : editing[q].at # f
  <2> SUFFICES ASSUME NEW q \in Editors \cup Removers, editing[q].at = f PROVE FALSE
    OBVIOUS
  <2>1. q \in UnderWay(f)
    BY <1>10 DEF UnderWay, Editors, Removers, Creators, Ops
  <2> QED
    BY <1>2, <2>1
<1>16. LibTypeOK'
  <2>1. editing' \in [Requests -> Edit \cup Creation \cup Removal \cup {None}]
    BY <1>1, <1>2, <1>4 DEF LibTypeOK
  <2>2. stored' \in [Library -> Content \cup {None}]
    BY <1>1, <1>2 DEF LibTypeOK
  <2> QED
    BY <1>1, <1>2, <1>13, <2>1, <2>2, LibraryAssumption DEF LibTypeOK
<1>17. ListedIsStored' /\ SharedDoubtful'
  BY <1>1, <1>2, <1>13, <1>14 DEF LibInv, ListedIsStored, SharedDoubtful
<1>18. LocksApart'
  <2>1. \A q \in Active : LockOf(q) \cap n.pts = {}
    BY <1>1, <1>6, LockedAll
  <2> QED
    BY <1>8, <1>11, <1>12, <2>1 DEF LibInv, LocksApart
<1>19. EditsKnow'
  BY <1>2, <1>8, <1>9, <1>10, <1>13 DEF LibInv, EditsKnow, EditKnows
<1>20. EditsAlone'
  <2> SUFFICES ASSUME NEW q \in Editors, ~editing[q].crossed PROVE EditIsSole(editing[q])'
    BY <1>8, <1>9, <1>10 DEF LibInv, EditsAlone
  <2>1. EditIsSole(editing[q]) /\ editing'[q] = editing[q] /\ editing[q] \in Edit
    BY <1>1, <1>8, <1>10, KindsTyped DEF LibInv, EditsAlone
  <2>2. stored'[editing[q].at] = stored[editing[q].at]
    BY <1>14, <1>15, <2>1 DEF Edit
  <2> QED
    BY <1>2, <1>13, <2>1, <2>2 DEF EditIsSole, Rewritten
<1>21. RemovesKnow'
  BY <1>2, <1>8, <1>9, <1>10, <1>13 DEF LibInv, RemovesKnow, RemoveKnows
<1>22. RemovesAlone'
  <2> SUFFICES ASSUME NEW q \in Removers PROVE RemoveSpares(editing[q])'
    BY <1>8, <1>9, <1>10 DEF LibInv, RemovesAlone
  <2>1. RemoveSpares(editing[q]) /\ editing'[q] = editing[q] /\ editing[q] \in Removal
    BY <1>1, <1>8, <1>10, KindsTyped DEF LibInv, RemovesAlone
  <2> QED
    BY <1>2, <1>13, <2>1 DEF RemoveSpares
<1>23. CreatesAlone'
  <2>1. CreateKnows(editing[r])'
    BY <1>2, <1>3, <1>6, <1>7, <1>13, <1>14 DEF CreateKnows
  <2>2. ASSUME NEW q \in Creators PROVE CreateKnows(editing[q])'
    <3>1. CreateKnows(editing[q]) /\ editing'[q] = editing[q] /\ editing[q] \in Creation /\ editing[q].file # f
      BY <1>1, <1>2, <1>8, <1>10, KindsTyped DEF LibInv, CreatesAlone
    <3>2. stored'[editing[q].file] = stored[editing[q].file]
      BY <1>14, <3>1 DEF Creation
    <3> QED
      BY <1>2, <1>13, <3>1, <3>2 DEF CreateKnows
  <2>3. \A q \in Creators', a \in Active' : editing'[a].file = editing'[q].file => a = q
    BY <1>2, <1>3, <1>7, <1>8, <1>9, <1>10 DEF LibInv, CreatesAlone
  <2>4. \A q \in Creators', a \in Editors' \cup Removers' : editing'[a].at # editing'[q].file
    BY <1>3, <1>7, <1>8, <1>9, <1>10, <1>15 DEF LibInv, CreatesAlone
  <2> QED
    BY <1>9, <2>1, <2>2, <2>3, <2>4 DEF CreatesAlone
<1>24. SaysUntilWritten'
  BY <1>1, <1>2, <1>8, <1>9, <1>10, <1>13, <1>14 DEF LibInv, SaysUntilWritten, LibTypeOK, Rows
<1>25. Owned'
  <2> SUFFICES ASSUME NEW g \in Library, g # f, stored[g] # None, g \notin doubtful
               PROVE  \/ \E h \in Rows : path[h] = g
                      \/ \E q \in Creators : editing[q].file = g
                      \/ \E q \in Removers : editing[q].at = g
                      \/ \E q \in Editors : editing[q].at = g /\ editing[q].stage = "written"
    BY <1>2, <1>3, <1>7, <1>8, <1>9, <1>10, <1>13, <1>14 DEF Owned
  <2> QED
    BY DEF LibInv, Owned
<1>26. AnswersKnow'
  BY <1>2, <1>3, <1>7, <1>8, <1>9, <1>10 DEF LibInv, AnswersKnow
<1> QED
  BY <1>16, <1>17, <1>18, <1>19, <1>20, <1>21, <1>22, <1>23, <1>24, <1>25, <1>26 DEF LibInv

LEMMA FlushFileKeeps == ASSUME LibInv, NEW r \in Requests, FlushFile(r) PROVE LibInv'
<1> DEFINE e == editing[r]
           n == editing'[r]
<1>1. LibTypeOK
  BY DEF LibInv
<1>2. /\ r \in Creators /\ editing' = [editing EXCEPT ![r].stage = "flushed"]
      /\ path' = path /\ point' = point /\ stored' = stored /\ edits' = edits /\ doubtful' = doubtful
      /\ answering' = answering /\ withdrawn' = withdrawn
  BY DEF FlushFile, Creators
<1>3. e \in Creation /\ r \in Active /\ r \notin Editors /\ r \notin Removers
  BY <1>1, <1>2, KindsTyped
<1>4. /\ n = [e EXCEPT !.stage = "flushed"]
      /\ \A q \in Requests \ {r} : editing'[q] = editing[q]
  BY <1>1, <1>2 DEF LibTypeOK
<1>5. n \in Creation /\ n.op = e.op /\ n.file = e.file /\ n.pts = e.pts /\ n.content = e.content
  BY <1>3, <1>4 DEF Creation
<1>6. n # None
  BY <1>5, LibraryAssumption
<1> HIDE DEF n
<1>7. Active' = Active
  BY <1>3, <1>4, <1>6 DEF Active, n
<1>8. Editors' = Editors /\ Creators' = Creators /\ Removers' = Removers
  <2>1. \A q \in Requests : editing'[q].op = editing[q].op
    BY <1>4, <1>5 DEF n
  <2>2. \A o : Ops(o)' = Ops(o)
    BY <1>7, <2>1 DEF Ops, Active
  <2> QED
    BY <2>2 DEF Editors, Creators, Removers
<1>9. /\ \A q \in Editors \cup Removers : editing'[q] = editing[q]
      /\ \A q \in Active : editing'[q].file = editing[q].file
      /\ \A q \in Creators : editing'[q].pts = editing[q].pts /\ editing'[q].content = editing[q].content
  BY <1>1, <1>3, <1>4, <1>5, KindsTyped DEF n
<1>10. \A q \in Active : LockOf(q)' = LockOf(q)
  BY <1>1, <1>8, <1>9, KindsTyped DEF LockOf
<1>11. Rows' = Rows /\ \A f : Of(f)' = Of(f) /\ Says(f)' = Says(f)
  BY <1>2 DEF Rows, Of, Says
<1>12. LibTypeOK'
  <2>1. editing' \in [Requests -> Edit \cup Creation \cup Removal \cup {None}]
    BY <1>1, <1>2, <1>4, <1>5 DEF LibTypeOK, n
  <2> QED
    BY <1>1, <1>2, <1>11, <2>1 DEF LibTypeOK
<1>13. ListedIsStored' /\ SharedDoubtful' /\ LocksApart'
  BY <1>2, <1>7, <1>10, <1>11 DEF LibInv, ListedIsStored, SharedDoubtful, LocksApart
<1>14. EditsKnow' /\ EditsAlone'
  BY <1>2, <1>8, <1>9, <1>11 DEF LibInv, EditsKnow, EditKnows, EditsAlone, EditIsSole, Rewritten
<1>15. RemovesKnow' /\ RemovesAlone'
  BY <1>2, <1>8, <1>9, <1>11 DEF LibInv, RemovesKnow, RemoveKnows, RemovesAlone, RemoveSpares
<1>16. CreatesAlone'
  <2> SUFFICES ASSUME NEW q \in Creators PROVE CreateKnows(editing[q])'
    <3>1. Creators \subseteq Active
      BY <1>1, KindsTyped
    <3> QED
      BY <1>7, <1>8, <1>9, <3>1 DEF LibInv, CreatesAlone
  <2>1. CreateKnows(editing[q]) /\ q \in Active
    BY <1>1, KindsTyped DEF LibInv, CreatesAlone
  <2> QED
    BY <1>2, <1>9, <1>11, <2>1 DEF CreateKnows
<1>17. SaysUntilWritten'
  BY <1>2, <1>8, <1>9, <1>11 DEF LibInv, SaysUntilWritten
<1>18. Owned'
  <2>1. \A q \in Creators : editing'[q].file = editing[q].file
    BY <1>1, <1>9, KindsTyped
  <2>2. ASSUME NEW g \in Library, stored'[g] # None, g \notin doubtful'
        PROVE  \/ \E h \in Rows' : path'[h] = g
               \/ \E q \in Creators' : editing'[q].file = g
               \/ \E q \in Removers' : editing'[q].at = g
               \/ \E q \in Editors' : editing'[q].at = g /\ editing'[q].stage = "written"
    <3>1. \/ \E h \in Rows : path[h] = g
          \/ \E q \in Creators : editing[q].file = g
          \/ \E q \in Removers : editing[q].at = g
          \/ \E q \in Editors : editing[q].at = g /\ editing[q].stage = "written"
      BY <1>2, <2>2 DEF LibInv, Owned
    <3>2. CASE \E h \in Rows : path[h] = g
      BY <1>2, <1>11, <3>2
    <3>3. CASE \E q \in Creators : editing[q].file = g
      BY <1>8, <2>1, <3>3
    <3>4. CASE \E q \in Removers : editing[q].at = g
      BY <1>8, <1>9, <3>4
    <3>5. CASE \E q \in Editors : editing[q].at = g /\ editing[q].stage = "written"
      BY <1>8, <1>9, <3>5
    <3> QED
      BY <3>1, <3>2, <3>3, <3>4, <3>5
  <2> QED
    BY <2>2 DEF Owned
<1>19. AnswersKnow'
  <2>1. \A q \in Creators : editing'[q].file = editing[q].file
    BY <1>1, <1>9, KindsTyped
  <2> QED
    BY <1>2, <1>8, <2>1 DEF LibInv, AnswersKnow
<1> QED
  BY <1>12, <1>13, <1>14, <1>15, <1>16, <1>17, <1>18, <1>19 DEF LibInv

LEMMA AnswerFileKeeps == ASSUME LibInv, NEW r \in Requests, AnswerFile(r) PROVE LibInv'
<1>1. /\ editing' = editing /\ path' = path /\ point' = point /\ stored' = stored /\ doubtful' = doubtful
      /\ edits' = edits /\ withdrawn' = withdrawn /\ answering' = [answering EXCEPT ![r] = None]
  BY DEF AnswerFile
<1>2. LibTypeOK
  BY DEF LibInv
<1>3. /\ Rows' = Rows /\ Active' = Active /\ Editors' = Editors /\ Creators' = Creators /\ Removers' = Removers
      /\ (\A g : Of(g)' = Of(g) /\ Says(g)' = Says(g))
  BY <1>1 DEF Rows, Active, Editors, Creators, Removers, Ops, Of, Says
<1>4. \A q : LockOf(q)' = LockOf(q)
  BY <1>1, <1>3 DEF LockOf
<1>5. LibTypeOK'
  BY <1>1, <1>2, <1>3 DEF LibTypeOK
<1>6. (ListedIsStored /\ LocksApart /\ SharedDoubtful /\ Owned /\ SaysUntilWritten)'
  BY <1>1, <1>3, <1>4 DEF LibInv, ListedIsStored, LocksApart, SharedDoubtful, Owned, SaysUntilWritten
<1>7. (EditsKnow /\ EditsAlone)'
  BY <1>1, <1>3 DEF LibInv, EditsKnow, EditKnows, EditsAlone, EditIsSole, Rewritten
<1>8. (RemovesKnow /\ RemovesAlone /\ CreatesAlone)'
  BY <1>1, <1>3 DEF LibInv, RemovesKnow, RemoveKnows, RemovesAlone, RemoveSpares, CreatesAlone, CreateKnows
<1>9. AnswersKnow'
  <2>1. \A q \in Creators : editing[q].file \in Library
    BY <1>2, KindsTyped DEF Creation
  <2> QED
    BY <1>1, <1>2, <1>3, <2>1, LibraryAssumption DEF LibInv, LibTypeOK, AnswersKnow
<1> QED
  BY <1>5, <1>6, <1>7, <1>8, <1>9 DEF LibInv

\* The committed file that is taken back crosses the edits of its path, as a
\* transaction does that begins.
LEMMA AnswerFailsKeeps == ASSUME LibInv, NEW r \in Requests, AnswerFails(r) PROVE LibInv'
<1> DEFINE f == answering[r]
<1>1. LibTypeOK
  BY DEF LibInv
<1>2. /\ f \in Library
      /\ stored' = [stored EXCEPT ![f] = None]
      /\ withdrawn' = withdrawn \cup {f} /\ doubtful' = doubtful \cup {f}
      /\ editing' = Crossing(f) /\ answering' = [answering EXCEPT ![r] = None]
      /\ path' = path /\ point' = point /\ edits' = edits
  BY <1>1 DEF AnswerFails, LibTypeOK
<1> SUFFICES ASSUME NEW a \in Library, a = f PROVE LibInv'
  BY <1>2
<1> HIDE DEF f
<1>3. /\ \A q \in Editors : q \in Requests /\ editing[q] \in Edit
      /\ \A q \in Creators \cup Removers : q \in Requests /\ q \notin Editors
      /\ Active = Editors \cup Creators \cup Removers
  BY <1>1, KindsTyped
<1>4. \A q \in Requests : editing'[q] = IF q \in Writers(a) THEN [editing[q] EXCEPT !.crossed = TRUE] ELSE editing[q]
  BY <1>2 DEF Crossing
<1>5. Writers(a) = {q \in Editors : editing[q].at = a}
  BY DEF Writers, Editors
<1>6. ASSUME NEW q \in Editors
      PROVE  /\ editing'[q] \in Edit /\ SameEdit(editing[q], editing'[q])
             /\ editing'[q].stage = editing[q].stage
             /\ ~editing'[q].crossed => ~editing[q].crossed /\ editing[q].at # a
  <2>1. CASE q \in Writers(a)
    <3>1. editing'[q] = [editing[q] EXCEPT !.crossed = TRUE]
      BY <1>3, <1>4, <2>1
    <3> QED
      BY <1>3, <3>1, CrossedEdit
  <2>2. CASE q \notin Writers(a)
    BY <1>3, <1>4, <1>5, <2>2 DEF SameEdit
  <2> QED
    BY <2>1, <2>2
<1>7. \A q \in Creators \cup Removers : editing'[q] = editing[q]
  BY <1>3, <1>4, <1>5
<1>8. \A q \in Requests : editing'[q].op = editing[q].op /\ (editing'[q] = None <=> editing[q] = None)
  <2> SUFFICES ASSUME NEW q \in Requests
               PROVE  editing'[q].op = editing[q].op /\ (editing'[q] = None <=> editing[q] = None)
    OBVIOUS
  <2>1. CASE q \in Editors
    BY <1>3, <1>6, <2>1, LibraryAssumption DEF SameEdit
  <2>2. CASE q \notin Editors
    BY <1>4, <1>5, <2>2
  <2> QED
    BY <2>1, <2>2
<1>9. Active' = Active
  BY <1>8 DEF Active
<1>10. Editors' = Editors /\ Creators' = Creators /\ Removers' = Removers
  <2>1. \A o : Ops(o)' = Ops(o)
    BY <1>8, <1>9 DEF Ops, Active
  <2> QED
    BY <2>1 DEF Editors, Creators, Removers
<1>11. \A q \in Active : LockOf(q)' = LockOf(q)
  <2> SUFFICES ASSUME NEW q \in Active PROVE LockOf(q)' = LockOf(q)
    OBVIOUS
  <2>1. CASE q \in Editors
    <3>1. EditLock(editing'[q]) = EditLock(editing[q])
      BY <1>6, <2>1 DEF EditLock, SameEdit
    <3> QED
      BY <1>10, <2>1, <3>1 DEF LockOf
  <2>2. CASE q \notin Editors
    BY <1>3, <1>7, <1>10, <2>2 DEF LockOf
  <2> QED
    BY <2>1, <2>2
<1>12. Rows' = Rows /\ \A g : Of(g)' = Of(g) /\ Says(g)' = Says(g)
  BY <1>2 DEF Rows, Of, Says
<1>13. stored'[a] = None /\ \A b \in Library : b # a => stored'[b] = stored[b]
  BY <1>1, <1>2 DEF LibTypeOK
<1>14. \A g \in Rows : path[g] \in Library
  BY <1>1 DEF LibTypeOK, Rows
<1>15. LibTypeOK'
  <2>1. editing' \in [Requests -> Edit \cup Creation \cup Removal \cup {None}]
    <3>1. editing' = [q \in Requests |-> editing'[q]]
      BY <1>2 DEF Crossing
    <3>2. \A q \in Requests : editing'[q] \in Edit \cup Creation \cup Removal \cup {None}
      BY <1>1, <1>4, <1>5, <1>6 DEF LibTypeOK
    <3> QED
      BY <3>1, <3>2
  <2>2. stored' \in [Library -> Content \cup {None}] /\ doubtful' \subseteq Library /\ withdrawn' \subseteq Library
        /\ answering' \in [Requests -> Library \cup {None}]
    BY <1>1, <1>2 DEF LibTypeOK
  <2> QED
    BY <1>1, <1>2, <1>12, <2>1, <2>2 DEF LibTypeOK
<1>16. ListedIsStored' /\ SharedDoubtful'
  BY <1>2, <1>12, <1>13, <1>14 DEF LibInv, ListedIsStored, SharedDoubtful
<1>17. LocksApart'
  BY <1>9, <1>11 DEF LibInv, LocksApart
<1>18. EditsKnow'
  <2> SUFFICES ASSUME NEW q \in Editors PROVE EditKnows(editing[q])'
    BY <1>10 DEF EditsKnow
  <2>1. EditKnows(editing[q]) /\ SameEdit(editing[q], editing'[q])
    BY <1>6 DEF LibInv, EditsKnow
  <2> QED
    BY <1>2, <1>12, <2>1 DEF EditKnows, SameEdit
<1>19. EditsAlone'
  <2> SUFFICES ASSUME NEW q \in Editors, ~editing'[q].crossed PROVE EditIsSole(editing[q])'
    BY <1>6, <1>10 DEF LibInv, EditsAlone, SameEdit
  <2>1. /\ EditIsSole(editing[q]) /\ SameEdit(editing[q], editing'[q]) /\ editing'[q].stage = editing[q].stage
        /\ editing[q].at # a /\ editing[q].at \in Library
    BY <1>3, <1>6 DEF LibInv, EditsAlone, Edit
  <2>2. stored'[editing[q].at] = stored[editing[q].at]
    BY <1>13, <2>1
  <2> QED
    BY <1>2, <1>12, <2>1, <2>2 DEF EditIsSole, SameEdit, Rewritten
<1>20. RemovesKnow' /\ RemovesAlone'
  BY <1>2, <1>7, <1>10, <1>12 DEF LibInv, RemovesKnow, RemoveKnows, RemovesAlone, RemoveSpares
<1>21. \A q \in Creators : editing[q].file # a /\ editing[q].file \in Library
  BY <1>1, KindsTyped DEF LibInv, AnswersKnow, Creation, f
<1>22. CreatesAlone'
  <2> SUFFICES ASSUME NEW q \in Creators PROVE CreateKnows(editing[q])'
    <3>1. \A b \in Active : editing'[b].file = editing[b].file
      BY <1>3, <1>6, <1>7 DEF SameEdit
    <3>2. \A b \in Editors \cup Removers : editing'[b].at = editing[b].at
      BY <1>6, <1>7 DEF SameEdit
    <3> QED
      BY <1>3, <1>9, <1>10, <3>1, <3>2 DEF LibInv, CreatesAlone
  <2>1. editing'[q] = editing[q] /\ CreateKnows(editing[q]) /\ stored'[editing[q].file] = stored[editing[q].file]
    BY <1>7, <1>13, <1>21 DEF LibInv, CreatesAlone
  <2> QED
    BY <1>2, <1>12, <2>1 DEF CreateKnows
<1>23. SaysUntilWritten'
  <2> SUFFICES ASSUME NEW g \in Rows, path[g] \notin doubtful, path[g] # a,
                      \A q \in Editors : editing'[q].at = path[g] => editing'[q].stage = "read"
               PROVE  stored'[path[g]] = Says(g)
    BY <1>2, <1>10, <1>12 DEF SaysUntilWritten
  <2>1. \A q \in Editors : editing[q].at = path[g] => editing[q].stage = "read"
    BY <1>6 DEF SameEdit
  <2> QED
    BY <1>13, <1>14, <2>1 DEF LibInv, SaysUntilWritten
<1>24. Owned'
  <2> SUFFICES ASSUME NEW g \in Library, g # a, stored[g] # None, g \notin doubtful
               PROVE  \/ \E h \in Rows : path[h] = g
                      \/ \E q \in Creators : editing[q].file = g
                      \/ \E q \in Removers : editing[q].at = g
                      \/ \E q \in Editors : editing'[q].at = g /\ editing'[q].stage = "written"
    BY <1>2, <1>7, <1>10, <1>12, <1>13 DEF Owned
  <2>1. \A q \in Editors : editing'[q].at = editing[q].at /\ editing'[q].stage = editing[q].stage
    BY <1>6 DEF SameEdit
  <2> QED
    BY <2>1 DEF LibInv, Owned
<1>25. AnswersKnow'
  BY <1>1, <1>2, <1>7, <1>10, <1>21, LibraryAssumption DEF LibInv, LibTypeOK, AnswersKnow
<1> QED
  BY <1>15, <1>16, <1>17, <1>18, <1>19, <1>20, <1>22, <1>23, <1>24, <1>25 DEF LibInv

LEMMA RecordsShape ==
    ASSUME NEW V, NEW C \in Records(V)
    PROVE  C \in Content /\ \A s, t \in C : s[1] = t[1] => s = t
<1>1. C \in Content /\ \A s, t \in C : s[1] = t[1] <=> s[2] = t[2]
  BY DEF Records
<1>2. \A s \in C : s = <<s[1], s[2]>>
  BY <1>1 DEF Content
<1> QED
  BY <1>1, <1>2

LEMMA CommitFileKeeps == ASSUME LibInv, NEW r \in Requests, CommitFile(r) PROVE LibInv'
<1> DEFINE e == editing[r]
<1>1. LibTypeOK
  BY DEF LibInv
<1>0. r \in Creators /\ e \in Creation
  BY <1>1, KindsTyped DEF CommitFile, Creators
<1> SUFFICES ASSUME NEW f \in Library, f = editing[r].file PROVE LibInv'
  BY <1>0 DEF Creation
<1> DEFINE new(p) == [file |-> f, says |-> CHOOSE v \in Values : <<p, v>> \in e.content]
<1>2. /\ r \in Creators /\ Ends(r)
      /\ path' = [path EXCEPT ![f] = f]
      /\ point' = [p \in Points |-> IF \E v \in Values : <<p, v>> \in e.content THEN new(p) ELSE point[p]]
      /\ doubtful' = doubtful \ {f}
      /\ stored' = stored /\ edits' = edits
      /\ answering' = [answering EXCEPT ![r] = f] /\ withdrawn' = withdrawn
  BY DEF CommitFile, Ends, Creators
<1>3. /\ e \in Creation /\ f \in Library /\ e.content \in Content /\ CreateKnows(e)
      /\ r \in Active /\ r \notin Editors /\ r \notin Removers
  BY <1>0, <1>1, <1>2, KindsTyped DEF LibInv, CreatesAlone, Creation
<1>4. f # None /\ e.content # None
  BY <1>3, LibraryAssumption
<1>5. /\ editing'[r] = None /\ \A q \in Requests \ {r} : editing'[q] = editing[q]
      /\ Active' = Active \ {r} /\ Editors' = Editors \ {r}
      /\ Creators' = Creators \ {r} /\ Removers' = Removers \ {r}
      /\ \A q \in Active \ {r} : LockOf(q)' = LockOf(q)
      /\ editing' \in [Requests -> Edit \cup Creation \cup Removal \cup {None}]
  BY <1>1, <1>2, EndFrame
<1>6. /\ \A q \in Active \ {r} : q \in Requests /\ editing'[q] = editing[q] /\ editing[q].file # f
      /\ Active = Editors \cup Creators \cup Removers
      /\ \A q \in Editors \cup Removers : editing[q].at # f
  BY <1>1, <1>2, <1>5, KindsTyped DEF LibInv, CreatesAlone, Active
<1>7. Rows' = Rows \cup {f} /\ f \notin Rows /\ path'[f] = f /\ \A g \in Library \ {f} : path'[g] = path[g]
  BY <1>1, <1>2, <1>3, <1>4 DEF Rows, LibTypeOK, CreateKnows
<1>8. \A p \in Points : (\E v \in Values : <<p, v>> \in e.content) <=> p \in e.pts
  <2>1. e.pts = {s[1] : s \in e.content}
    BY <1>3 DEF CreateKnows
  <2>2. \A s \in e.content : s[2] \in Values /\ s = <<s[1], s[2]>>
    BY <1>3 DEF Content
  <2>3. ASSUME NEW p \in Points, NEW v \in Values, <<p, v>> \in e.content PROVE p \in e.pts
    <3>1. <<p, v>>[1] \in e.pts
      BY <2>1, <2>3
    <3> QED
      BY <3>1
  <2>4. ASSUME NEW p \in e.pts PROVE \E v \in Values : <<p, v>> \in e.content
    <3>1. PICK s \in e.content : p = s[1]
      BY <2>1
    <3>2. <<p, s[2]>> \in e.content /\ s[2] \in Values
      BY <2>2, <3>1
    <3> QED
      BY <3>2
  <2> QED
    BY <2>3, <2>4
<1>9. \A p \in e.pts : p \in Points /\ point[p] = None /\ new(p) \in Point /\ new(p).file = f
                       /\ <<p, new(p).says>> \in e.content
  <2> SUFFICES ASSUME NEW p \in e.pts
               PROVE  p \in Points /\ point[p] = None /\ new(p) \in Point /\ new(p).file = f
                      /\ <<p, new(p).says>> \in e.content
    OBVIOUS
  <2>1. p \in Points /\ point[p] = None
    BY <1>3 DEF Creation, CreateKnows
  <2>2. PICK v \in Values : <<p, v>> \in e.content
    BY <1>8, <2>1
  <2>3. (CHOOSE v2 \in Values : <<p, v2>> \in e.content) \in Values
        /\ <<p, CHOOSE v2 \in Values : <<p, v2>> \in e.content>> \in e.content
    BY <2>2
  <2> QED
    BY <1>3, <2>1, <2>3 DEF Point
<1> HIDE DEF new
<1>10. \A p \in Points : point'[p] = IF p \in e.pts THEN new(p) ELSE point[p]
  BY <1>2, <1>8
<1>11. \A g : g # f => Of(g)' = Of(g) /\ Says(g)' = Says(g)
  <2> SUFFICES ASSUME NEW g, g # f PROVE Of(g)' = Of(g) /\ Says(g)' = Says(g)
    OBVIOUS
  <2>1. \A p \in Points : (point'[p] # None /\ point'[p].file = g) <=> (point[p] # None /\ point[p].file = g)
    BY <1>9, <1>10, LibraryAssumption
  <2>2. Of(g)' = Of(g)
    BY <2>1 DEF Of
  <2>3. \A p \in Of(g) : point'[p] = point[p]
    BY <1>9, <1>10 DEF Of
  <2> QED
    BY <2>2, <2>3 DEF Says
<1>12. Says(f)' = e.content
  <2>1. Of(f) = {}
    BY <1>1, <1>4, <1>7 DEF Of, LibTypeOK
  <2>2. Of(f)' = e.pts
    <3>1. \A p \in e.pts : p \in Points /\ point'[p] # None /\ point'[p].file = f
      <4> SUFFICES ASSUME NEW p \in e.pts
                   PROVE  p \in Points /\ point'[p] # None /\ point'[p].file = f
        OBVIOUS
      <4>1. p \in Points /\ new(p) \in Point /\ new(p).file = f
        BY <1>9
      <4>2. point'[p] = new(p)
        BY <1>10, <4>1
      <4>3. None \notin Point
        BY LibraryAssumption
      <4> QED
        BY <4>1, <4>2, <4>3
    <3>2. \A p \in Points : p \notin e.pts => point'[p] = point[p] /\ ~(point[p] # None /\ point[p].file = f)
      BY <1>10, <2>1 DEF Of
    <3> QED
      BY <3>1, <3>2 DEF Of
  <2>3. \A p \in e.pts : point'[p].says = new(p).says
    BY <1>9, <1>10
  <2>4. Says(f)' = {<<p, new(p).says>> : p \in e.pts}
    BY <2>2, <2>3 DEF Says
  <2>5. \A s \in e.content : s[1] \in e.pts /\ s = <<s[1], new(s[1]).says>>
    <3> SUFFICES ASSUME NEW s \in e.content PROVE s[1] \in e.pts /\ s = <<s[1], new(s[1]).says>>
      OBVIOUS
    <3>1. s[1] \in e.pts
      BY <1>3 DEF CreateKnows
    <3>2. <<s[1], new(s[1]).says>> \in e.content
      BY <1>9, <3>1
    <3>3. s = <<s[1], new(s[1]).says>>
      BY <1>3, <3>2 DEF CreateKnows
    <3> QED
      BY <3>1, <3>3
  <2> QED
    BY <1>9, <2>4, <2>5
<1>13. ASSUME NEW q \in Active \ {r}, NEW p \in LockOf(q), p \in Points PROVE point'[p] = point[p]
  <2>1. LockOf(r) = e.pts
    BY <1>2, <1>3 DEF LockOf
  <2> QED
    BY <1>3, <1>10, <1>13, <2>1 DEF LibInv, LocksApart
<1>14. LibTypeOK'
  <2>1. point' \in [Points -> Point \cup {None}]
    BY <1>1, <1>2, <1>9, <1>10 DEF LibTypeOK
  <2>2. \A p \in Points : point'[p] # None => point'[p].file \in Rows' \cup {None}
    BY <1>1, <1>7, <1>9, <1>10, ZenonT(30) DEF LibTypeOK
  <2>3. path' \in [Library -> Library \cup {None}]
    BY <1>1, <1>2, <1>3 DEF LibTypeOK
  <2> QED
    BY <1>1, <1>2, <1>5, <2>1, <2>2, <2>3 DEF LibTypeOK
<1>15. ListedIsStored'
  BY <1>2, <1>3, <1>4, <1>7 DEF LibInv, ListedIsStored, CreateKnows, Rows
<1>16. LocksApart'
  BY <1>5 DEF LibInv, LocksApart
<1>17. EditsKnow'
  <2> SUFFICES ASSUME NEW q \in Editors PROVE EditKnows(editing[q])'
    BY <1>3, <1>5 DEF EditsKnow
  <2>1. EditKnows(editing[q]) /\ editing'[q] = editing[q] /\ editing[q].file # f /\ editing[q] \in Edit
        /\ q \in Active \ {r}
    BY <1>1, <1>3, <1>6, KindsTyped DEF LibInv, EditsKnow
  <2>2. editing[q].holds => point'[editing[q].pt] = point[editing[q].pt]
    BY <1>13, <2>1 DEF LockOf, EditLock, Edit
  <2>3. path'[editing[q].file] = path[editing[q].file]
    BY <1>7, <2>1 DEF Edit
  <2> QED
    BY <1>7, <2>1, <2>2, <2>3 DEF EditKnows
<1>18. EditsAlone'
  <2> SUFFICES ASSUME NEW q \in Editors, ~editing[q].crossed PROVE EditIsSole(editing[q])'
    BY <1>3, <1>5, <1>6 DEF LibInv, EditsAlone
  <2>1. /\ EditIsSole(editing[q]) /\ EditKnows(editing[q]) /\ editing'[q] = editing[q]
        /\ editing[q].file # f /\ editing[q] \in Edit
    BY <1>1, <1>3, <1>6, KindsTyped DEF LibInv, EditsAlone, EditsKnow
  <2>2. Says(editing[q].file)' = Says(editing[q].file)
    BY <1>11, <2>1
  <2>3. editing[q].file \in Rows /\ ~editing[q].holds => point'[editing[q].pt] = point[editing[q].pt]
    BY <1>9, <1>10, <2>1 DEF EditIsSole, EditKnows, Edit
  <2> QED
    BY <1>2, <1>7, <2>1, <2>2, <2>3 DEF EditIsSole, Rewritten
<1>19. RemovesKnow'
  <2> SUFFICES ASSUME NEW q \in Removers PROVE RemoveKnows(editing[q])'
    BY <1>3, <1>5, <1>6 DEF LibInv, RemovesKnow
  <2>1. /\ RemoveKnows(editing[q]) /\ editing'[q] = editing[q] /\ editing[q].file # f /\ editing[q] \in Removal
    BY <1>1, <1>3, <1>6, KindsTyped DEF LibInv, RemovesKnow
  <2>2. path'[editing[q].file] = path[editing[q].file] /\ Of(editing[q].file)' = Of(editing[q].file)
    BY <1>7, <1>11, <2>1 DEF Removal
  <2> QED
    BY <2>1, <2>2 DEF RemoveKnows
<1>20. RemovesAlone'
  <2> SUFFICES ASSUME NEW q \in Removers PROVE RemoveSpares(editing[q])'
    BY <1>3, <1>5, <1>6 DEF LibInv, RemovesAlone
  <2>1. RemoveSpares(editing[q]) /\ editing'[q] = editing[q] /\ editing[q].at # f
    BY <1>3, <1>6 DEF LibInv, RemovesAlone
  <2>2. \A g \in Rows' : path'[g] = editing[q].at => g \in Rows /\ path[g] = editing[q].at
    BY <1>7, <2>1 DEF Rows
  <2> QED
    BY <1>2, <2>1, <2>2 DEF RemoveSpares
<1>21. CreatesAlone'
  <2> SUFFICES ASSUME NEW q \in Creators \ {r} PROVE CreateKnows(editing[q])'
    BY <1>3, <1>5, <1>6 DEF LibInv, CreatesAlone
  <2>1. /\ CreateKnows(editing[q]) /\ editing'[q] = editing[q] /\ editing[q].file # f /\ editing[q] \in Creation
        /\ q \in Active \ {r} /\ q \notin Editors
    BY <1>1, <1>6, KindsTyped DEF LibInv, CreatesAlone
  <2>2. \A p \in editing[q].pts : point'[p] = point[p]
    BY <1>13, <2>1 DEF LockOf, Creation
  <2>3. path'[editing[q].file] = path[editing[q].file]
    BY <1>7, <2>1 DEF Creation
  <2>4. \A g \in Rows' : path'[g] # editing[q].file
    BY <1>7, <2>1 DEF CreateKnows, Rows
  <2> QED
    BY <1>2, <2>1, <2>2, <2>3, <2>4 DEF CreateKnows
<1>22. \A g \in Rows : g \in Library \ {f} /\ path[g] # f
  BY <1>3, <1>7 DEF CreateKnows, Rows
<1>23. SharedDoubtful'
  BY <1>2, <1>7, <1>22 DEF LibInv, SharedDoubtful
<1>24. SaysUntilWritten'
  <2> SUFFICES ASSUME NEW g \in Rows', path'[g] \notin doubtful',
                      \A q \in Editors : editing[q].at = path'[g] => editing[q].stage = "read"
               PROVE  stored[path'[g]] = Says(g)'
    BY <1>2, <1>3, <1>5, <1>6 DEF SaysUntilWritten
  <2>1. CASE g = f
    BY <1>3, <1>7, <1>12, <2>1 DEF CreateKnows
  <2>2. CASE g # f
    <3>1. g \in Rows /\ path'[g] = path[g] /\ path[g] \notin doubtful
      BY <1>2, <1>7, <1>22, <2>2
    <3> QED
      BY <1>11, <2>2, <3>1 DEF LibInv, SaysUntilWritten
  <2> QED
    BY <2>1, <2>2
<1>25. Owned'
  <2> SUFFICES ASSUME NEW g \in Library, g # f, stored[g] # None, g \notin doubtful
               PROVE  \/ \E h \in Rows : path[h] = g
                      \/ \E q \in Creators \ {r} : editing[q].file = g
                      \/ \E q \in Removers : editing[q].at = g
                      \/ \E q \in Editors : editing[q].at = g /\ editing[q].stage = "written"
    BY <1>2, <1>3, <1>5, <1>6, <1>7, <1>22 DEF Owned
  <2> QED
    BY DEF LibInv, Owned
<1>26. AnswersKnow'
  BY <1>1, <1>2, <1>5, <1>6 DEF LibInv, LibTypeOK, AnswersKnow
<1> QED
  BY <1>14, <1>15, <1>16, <1>17, <1>18, <1>19, <1>20, <1>21, <1>23, <1>24, <1>25, <1>26 DEF LibInv

LEMMA CommitRemovalKeeps == ASSUME LibInv, NEW r \in Requests, CommitRemoval(r) PROVE LibInv'
<1> DEFINE e == editing[r]
           n == [editing[r] EXCEPT !.stage = "gone"]
<1>1. LibTypeOK
  BY DEF LibInv
<1>2. r \in Removers /\ e \in Removal /\ e.stage = "open" /\ r \notin Editors /\ r \notin Creators /\ r \in Active
  BY <1>1, KindsTyped DEF CommitRemoval, Removers
<1>3. RemoveKnows(e)
  BY <1>2 DEF LibInv, RemovesKnow
<1> SUFFICES ASSUME NEW f \in Library, f = editing[r].file, path[f] = e.at, e.pts \subseteq Of(f) PROVE LibInv'
  BY <1>2, <1>3 DEF Removal, RemoveKnows
<1>4. /\ ~\E q \in Editing(f) : editing[q].holds
      /\ path' = [path EXCEPT ![f] = None]
      /\ point' = [p \in Points |-> IF p \in e.pts THEN None ELSE IF p \in Of(f) THEN Orphaned(p) ELSE point[p]]
      /\ editing' = [editing EXCEPT ![r] = n]
      /\ stored' = stored /\ edits' = edits /\ doubtful' = doubtful
      /\ answering' = answering /\ withdrawn' = withdrawn
  BY DEF CommitRemoval
<1>5. n \in Removal /\ n.op = "remove" /\ n.stage = "gone" /\ n.file = f /\ n.at = e.at /\ n.shared = e.shared
  BY <1>2 DEF Removal
<1>6. n # None
  BY <1>5, LibraryAssumption
<1> HIDE DEF n
<1>7. editing'[r] = n /\ \A q \in Requests \ {r} : editing'[q] = editing[q]
  BY <1>1, <1>4 DEF LibTypeOK
<1>8. Active' = Active /\ Editors' = Editors /\ Creators' = Creators /\ Removers' = Removers
  <2>1. Active' = Active
    BY <1>2, <1>6, <1>7 DEF Active
  <2>2. \A q \in Active : q \in Requests /\ editing'[q].op = editing[q].op
    BY <1>2, <1>5, <1>7 DEF Active, Removers, Ops
  <2> QED
    BY <2>1, <2>2 DEF Editors, Creators, Removers, Ops
<1>9. /\ Active = Editors \cup Creators \cup Removers
      /\ Editors \cap Creators = {} /\ Editors \cap Removers = {} /\ Creators \cap Removers = {}
  BY <1>1, KindsTyped
<1>10. /\ \A q \in Active \ {r} : q \in Requests /\ editing'[q] = editing[q]
       /\ \A q \in Active : editing'[q].file = editing[q].file
       /\ \A q \in Editors \cup Removers : editing'[q].at = editing[q].at
       /\ \A q \in Removers : editing'[q].shared = editing[q].shared
  BY <1>5, <1>7, <1>9 DEF Active
<1>11. LockOf(r)' = {} /\ \A q \in Active \ {r} : LockOf(q)' = LockOf(q)
  BY <1>2, <1>5, <1>7, <1>8, <1>10 DEF LockOf
<1>12. f \in Rows /\ Rows' = Rows \ {f} /\ path'[f] = None /\ \A g \in Library \ {f} : path'[g] = path[g]
  BY <1>1, <1>2, <1>4, LibraryAssumption DEF Rows, LibTypeOK, Removal
<1>13. \A p \in Points : p \notin Of(f) => point'[p] = point[p]
  BY <1>4
<1>14. ASSUME NEW p \in Of(f) PROVE point'[p] = None \/ (point'[p] \in Point /\ point'[p].file = None)
  <2>1. p \in Points /\ point[p] \in Point
    BY <1>1 DEF Of, LibTypeOK
  <2>2. Orphaned(p) \in Point /\ Orphaned(p).file = None
    BY <2>1 DEF Orphaned, Point
  <2>3. point'[p] = None \/ point'[p] = Orphaned(p)
    BY <1>4, <2>1
  <2> QED
    BY <2>2, <2>3
<1>15. ASSUME NEW g \in Library, g # f PROVE Of(g)' = Of(g) /\ Says(g)' = Says(g)
  <2>1. \A p \in Points : p \in Of(f) => p \notin Of(g) /\ ~(point'[p] # None /\ point'[p].file = g)
    BY <1>14, <1>15, LibraryAssumption DEF Of
  <2>2. Of(g)' = Of(g)
    BY <1>13, <2>1 DEF Of
  <2>3. \A p \in Of(g) : point'[p] = point[p]
    BY <1>13, <2>1 DEF Of
  <2> QED
    BY <2>2, <2>3 DEF Says
<1>16. LibTypeOK'
  <2>1. point' \in [Points -> Point \cup {None}]
    <3>1. \A p \in Points : point'[p] \in Point \cup {None}
      BY <1>1, <1>13, <1>14 DEF LibTypeOK
    <3>2. \E F : point' = [p \in Points |-> F[p]]
      <4>1. point' = [p \in Points |-> point'[p]]
        BY <1>4
      <4> QED
        BY <4>1
    <3> QED
      BY <3>1, <3>2
  <2>2. \A p \in Points : point'[p] # None => point'[p].file \in Rows' \cup {None}
    <3> SUFFICES ASSUME NEW p \in Points, point'[p] # None, point'[p].file # None PROVE point'[p].file \in Rows'
      OBVIOUS
    <3>1. p \notin Of(f)
      BY <1>14
    <3>2. point'[p] = point[p] /\ point[p].file # f
      BY <1>13, <3>1 DEF Of
    <3> QED
      BY <1>1, <1>12, <3>2 DEF LibTypeOK
  <2>3. path' \in [Library -> Library \cup {None}]
    BY <1>1, <1>4 DEF LibTypeOK
  <2>4. editing' \in [Requests -> Edit \cup Creation \cup Removal \cup {None}]
    BY <1>1, <1>4, <1>5 DEF LibTypeOK
  <2> QED
    BY <1>1, <1>4, <2>1, <2>2, <2>3, <2>4 DEF LibTypeOK
<1>17. ListedIsStored' /\ SharedDoubtful'
  BY <1>4, <1>12 DEF LibInv, ListedIsStored, SharedDoubtful, Rows
<1>18. LocksApart'
  BY <1>8, <1>11 DEF LibInv, LocksApart
<1>19. EditsKnow'
  <2> SUFFICES ASSUME NEW q \in Editors PROVE EditKnows(editing[q])'
    BY <1>8 DEF EditsKnow
  <2>1. EditKnows(editing[q]) /\ editing'[q] = editing[q] /\ editing[q] \in Edit
    BY <1>1, <1>2, <1>9, <1>10, KindsTyped DEF LibInv, EditsKnow
  <2>2. editing[q].holds => editing[q].file # f
    BY <1>4 DEF Editing, Editors
  <2>3. editing[q].holds => point'[editing[q].pt] = point[editing[q].pt]
    BY <1>13, <2>1, <2>2 DEF EditKnows, Of, Edit
  <2> QED
    BY <1>12, <2>1, <2>2, <2>3 DEF EditKnows, Rows
<1>20. EditsAlone'
  <2> SUFFICES ASSUME NEW q \in Editors, ~editing[q].crossed PROVE EditIsSole(editing[q])'
    BY <1>2, <1>8, <1>9, <1>10 DEF LibInv, EditsAlone
  <2>1. EditIsSole(editing[q]) /\ EditKnows(editing[q]) /\ editing'[q] = editing[q] /\ editing[q] \in Edit
    BY <1>1, <1>2, <1>9, <1>10, KindsTyped DEF LibInv, EditsAlone, EditsKnow
  <2>2. editing[q].file \in Rows' => editing[q].file \in Library \ {f} /\ editing[q].file \in Rows
    BY <1>12 DEF Rows
  <2>3. editing[q].file \in Rows' => Says(editing[q].file)' = Says(editing[q].file)
    BY <1>15, <2>1, <2>2
  <2>4. editing[q].file \in Rows' /\ ~editing[q].holds => point'[editing[q].pt] = point[editing[q].pt]
    BY <1>13, <2>1, <2>2 DEF EditIsSole, EditKnows, Of, Edit
  <2> QED
    BY <1>4, <2>1, <2>2, <2>3, <2>4 DEF EditIsSole, Rewritten
<1>21. RemovesKnow'
  <2>1. RemoveKnows(editing[r])'
    BY <1>5, <1>7, <1>12 DEF RemoveKnows
  <2>2. ASSUME NEW q \in Removers, q # r PROVE RemoveKnows(editing[q])'
    <3>1. /\ RemoveKnows(editing[q]) /\ editing'[q] = editing[q] /\ editing[q] \in Removal /\ editing[q].file # f
      BY <1>1, <1>2, <1>9, <1>10, <2>2, KindsTyped DEF LibInv, RemovesKnow
    <3>2. path'[editing[q].file] = path[editing[q].file] /\ Of(editing[q].file)' = Of(editing[q].file)
      BY <1>12, <1>15, <3>1 DEF Removal
    <3> QED
      BY <3>1, <3>2 DEF RemoveKnows
  <2> QED
    BY <1>8, <1>9, <1>10, <2>1, <2>2 DEF LibInv, RemovesKnow
<1>22. RemovesAlone'
  <2> SUFFICES ASSUME NEW q \in Removers PROVE RemoveSpares(editing[q])'
    BY <1>8, <1>10 DEF LibInv, RemovesAlone
  <2>1. RemoveSpares(editing[q])
    BY DEF LibInv, RemovesAlone
  <2>2. editing'[q].shared = editing[q].shared /\ editing'[q].at = editing[q].at /\ editing'[q].file = editing[q].file
    BY <1>9, <1>10
  <2>3. \A g \in Rows' : g \in Rows /\ path'[g] = path[g]
    BY <1>12 DEF Rows
  <2> QED
    BY <1>4, <2>1, <2>2, <2>3 DEF RemoveSpares
<1>23. CreatesAlone'
  <2> SUFFICES ASSUME NEW q \in Creators PROVE CreateKnows(editing[q])'
    BY <1>8, <1>9, <1>10 DEF LibInv, CreatesAlone
  <2>1. CreateKnows(editing[q]) /\ editing'[q] = editing[q] /\ editing[q].file # f /\ editing[q] \in Creation
    BY <1>1, <1>2, <1>9, <1>10, KindsTyped DEF LibInv, CreatesAlone
  <2>2. \A p \in editing[q].pts : p \in Points /\ point'[p] = point[p]
    BY <1>13, <2>1 DEF CreateKnows, Creation, Of
  <2>3. \A g \in Rows' : g \in Rows /\ path'[g] = path[g]
    BY <1>12 DEF Rows
  <2>4. path'[editing[q].file] = path[editing[q].file]
    BY <1>12, <2>1 DEF Creation
  <2> QED
    BY <1>4, <2>1, <2>2, <2>3, <2>4 DEF CreateKnows
<1>24. SaysUntilWritten'
  <2>1. \A g \in Rows' : g \in Rows /\ path'[g] = path[g] /\ Says(g)' = Says(g)
    BY <1>12, <1>15 DEF Rows
  <2>2. \A q \in Editors : editing'[q] = editing[q]
    BY <1>2, <1>9, <1>10
  <2> QED
    BY <1>4, <1>8, <2>1, <2>2 DEF LibInv, SaysUntilWritten
<1>25. Owned'
  <2> SUFFICES ASSUME NEW g \in Library, stored[g] # None, g \notin doubtful
               PROVE  \/ \E h \in Rows' : path'[h] = g
                      \/ \E q \in Creators : editing'[q].file = g
                      \/ \E q \in Removers : editing'[q].at = g
                      \/ \E q \in Editors : editing'[q].at = g /\ editing'[q].stage = "written"
    BY <1>4, <1>8 DEF Owned
  <2>1. \/ \E h \in Rows : path[h] = g
        \/ \E q \in Creators : editing[q].file = g
        \/ \E q \in Removers : editing[q].at = g
        \/ \E q \in Editors : editing[q].at = g /\ editing[q].stage = "written"
    BY DEF LibInv, Owned
  <2>2. CASE \E h \in Rows : path[h] = g
    BY <1>2, <1>10, <1>12, <2>2 DEF Rows
  <2>3. CASE \E q \in Creators : editing[q].file = g
    BY <1>9, <1>10, <2>3
  <2>4. CASE \E q \in Removers : editing[q].at = g
    BY <1>10, <2>4
  <2>5. CASE \E q \in Editors : editing[q].at = g /\ editing[q].stage = "written"
    BY <1>2, <1>9, <1>10, <2>5
  <2> QED
    BY <2>1, <2>2, <2>3, <2>4, <2>5
<1>26. AnswersKnow'
  BY <1>4, <1>8, <1>9, <1>10 DEF LibInv, AnswersKnow
<1> QED
  BY <1>16, <1>17, <1>18, <1>19, <1>20, <1>21, <1>22, <1>23, <1>24, <1>25, <1>26 DEF LibInv

-----------------------------------------------------------------------------
(* The theorem                                                             *)

LEMMA LibNextKeeps == ASSUME LibInv, [LibNext]_libvars PROVE LibInv'
<1>1. CASE UNCHANGED libvars
  <2> USE <1>1 DEF libvars
  <2>1. /\ Rows' = Rows /\ Active' = Active /\ Editors' = Editors /\ Creators' = Creators /\ Removers' = Removers
        /\ editing' = editing /\ path' = path /\ point' = point /\ stored' = stored /\ doubtful' = doubtful
        /\ edits' = edits /\ answering' = answering /\ withdrawn' = withdrawn
    BY DEF Rows, Active, Editors, Creators, Removers, Ops
  <2>2. (\A g : Of(g)' = Of(g) /\ Says(g)' = Says(g)) /\ (\A r : LockOf(r)' = LockOf(r))
    BY <2>1 DEF Of, Says, LockOf
  <2>3. (LibTypeOK /\ ListedIsStored /\ LocksApart /\ SharedDoubtful /\ Owned /\ SaysUntilWritten /\ AnswersKnow)'
    BY <2>1, <2>2
    DEF LibInv, LibTypeOK, ListedIsStored, LocksApart, SharedDoubtful, Owned, SaysUntilWritten, AnswersKnow
  <2>4. (EditsKnow /\ EditsAlone)'
    BY <2>1, <2>2 DEF LibInv, EditsKnow, EditKnows, EditsAlone, EditIsSole, Rewritten
  <2>5. (RemovesKnow /\ RemovesAlone /\ CreatesAlone)'
    BY <2>1, <2>2
    DEF LibInv, RemovesKnow, RemoveKnows, RemovesAlone, RemoveSpares, CreatesAlone, CreateKnows
  <2> QED
    BY <2>3, <2>4, <2>5 DEF LibInv
<1>2. ASSUME NEW r \in Requests, NEW f \in Library, NEW p \in Points, NEW v \in Values,
             CreatePoint(r, f, p, v) \/ UpdatePoint(r, f, p, v)
      PROVE  LibInv'
  <2> DEFINE new == [file |-> f, says |-> v]
  <2>1. new \in Point /\ new.file = f
    BY DEF Point
  <2>2. new # None
    BY <2>1, LibraryAssumption
  <2> HIDE DEF new
  <2>3. BeginEdit(r, f, p, new, "put") /\ (point[p] = None \/ p \in Of(f))
    BY <1>2 DEF CreatePoint, UpdatePoint, new
  <2> QED
    BY <2>1, <2>2, <2>3, BeginEditKeeps
<1>3. ASSUME NEW r \in Requests, NEW f \in Library, NEW p \in Points, DeletePoint(r, f, p) PROVE LibInv'
  <2>1. BeginEdit(r, f, p, None, "delete") /\ p \in Of(f)
    BY <1>3 DEF DeletePoint
  <2> QED
    BY <2>1, BeginEditKeeps
<1>4. ASSUME NEW r \in Requests, NEW f \in Library,
             (\E v \in Values : Upload(r, f, v)) \/ (\E A \in SUBSET Library : Merge(r, f, A))
      PROVE  LibInv'
  <2>1. PICK V : \E C \in Records(V) : CreateFile(r, f, C)
    BY <1>4 DEF Upload, Merge
  <2>2. PICK C \in Records(V) : CreateFile(r, f, C)
    BY <2>1
  <2>3. C \in Content /\ \A s, t \in C : s[1] = t[1] => s = t
    BY <2>2, RecordsShape
  <2> QED
    BY <2>2, <2>3, CreateFileKeeps
<1>5. ASSUME NEW r \in Requests, NEW f \in Library, OpenRemoval(r, f) PROVE LibInv'
  BY <1>5, OpenRemovalKeeps
<1>6. ASSUME NEW r \in Requests,
             \/ Rewrite(r) \/ CommitEdit(r) \/ FlushFile(r) \/ CommitFile(r) \/ AnswerFile(r) \/ AnswerFails(r)
             \/ CommitRemoval(r) \/ Unlink(r) \/ EditFails(r)
      PROVE  LibInv'
  BY <1>6, RewriteKeeps, CommitEditKeeps, FlushFileKeeps, CommitFileKeeps, AnswerFileKeeps, AnswerFailsKeeps,
     CommitRemovalKeeps, UnlinkKeeps, EditFailsKeeps
<1>7. ASSUME KillServer PROVE LibInv'
  BY <1>7, KillServerKeeps
<1> QED
  BY <1>1, <1>2, <1>3, <1>4, <1>5, <1>6, <1>7 DEF LibNext

LEMMA LibInvHolds == LibInv => LibraryHolds
<1> SUFFICES ASSUME LibInv PROVE LibraryHolds
  OBVIOUS
<1>1. LibTypeOK
  BY DEF LibInv
<1>2. StoredSaysRows
  BY DEF LibInv, SaysUntilWritten, StoredSaysRows, Writers, Editors
<1>3. NothingLeftBehind
  <2> SUFFICES ASSUME NEW f \in Library, stored[f] # None, f \notin doubtful, ~\E g \in Rows : path[g] = f
               PROVE  UnderWay(f) # {}
    BY DEF NothingLeftBehind
  <2>1. \/ \E r \in Creators : editing[r].file = f
        \/ \E r \in Removers \cup Editors : editing[r].at = f
    BY DEF LibInv, Owned
  <2>2. \E r \in Active : r \in UnderWay(f)
    BY <2>1 DEF UnderWay, Creators, Removers, Editors, Ops
  <2> QED
    BY <2>2
<1> QED
  BY <1>1, <1>2, <1>3 DEF LibInv, LibraryHolds

\* Whatever edits, uploads and deletions overlap, fail or are killed, every file of
\* the library that is listed is stored; it says what its rows say and nothing is
\* left behind, except at paths whose transactions overlapped or were cut off.
THEOREM LibraryAlwaysHolds == LibSpec => []LibraryHolds
<1>1. LibInit => LibInv
  BY LibInitHolds
<1>2. LibInv /\ [LibNext]_libvars => LibInv'
  BY LibNextKeeps
<1>3. LibInv => LibraryHolds
  BY LibInvHolds
<1> QED
  BY <1>1, <1>2, <1>3, PTL DEF LibSpec

-----------------------------------------------------------------------------
(* The airspace of the meets: what the requests know.                      *)

IdsUsed == \A s \in Listed : s <= last

\* A copy is in a place of its meet, an upload where its text is.
PathsKnown ==
    \A s \in Listed : source[s].at \notin taken =>
       /\ source[s].copied => \E i \in SourceIds : source[s].at = <<source[s].of, i>>
       /\ ~source[s].copied => source[s].at \in Texts

\* A change that nothing crossed has read what is still there.
ChangeKnows(q) ==
    ~q.crossed =>
       /\ q.id \in Listed /\ source[q.id].kind = q.was
       /\ q.seen # None => region[q.id] = q.seen
ChangesKnow == \A r \in Asking("change") : ChangeKnows(asking[r])

DeletionsKnow ==
    \A r \in Asking("delete") :
       /\ asking[r].id \in Listed /\ source[asking[r].id].at = asking[r].at
       /\ \A q \in Asking("delete") : asking[q].id = asking[r].id => q = r

UploadsStored == \A r \in Asking("upload") : asking[r].at \in disk \cup taken

\* A duplicate has copies of its own.
CopiesOwned(q) ==
    \A s \in DOMAIN q.rows :
       /\ q.rows[s].of = q.new /\ q.rows[s].copied
       /\ q.rows[s].at \notin taken => q.rows[s].at \in disk /\ q.rows[s].at = <<q.new, s>>

\* Of a source that is not apart, the row and its regions were read as one.
ReadAsOne(q) ==
    \A s \in DOMAIN q.rows \ q.apart :
       /\ q.regions = None =>
             s \in SourcesOf(q.of) /\ s \notin torn /\ source[s].kind = q.rows[s].kind
       /\ q.regions # None =>
             s \in DOMAIN q.regions /\ q.regions[s] = (q.rows[s].kind = "restricted_field")

DuplicatesKnow ==
    \A r \in Asking("duplicate") :
       /\ meet[asking[r].new] = "unused"
       /\ CopiesOwned(asking[r]) /\ ReadAsOne(asking[r])
       /\ asking[r].regions # None => DOMAIN asking[r].regions \subseteq DOMAIN asking[r].rows
       /\ \A q \in Asking("duplicate") : asking[q].new = asking[r].new => q = r

Duplication == UNION {Duplications(S, T) : S \in SUBSET SourceIds, T \in SUBSET SourceIds}
AskTyped == asking \in [Requests -> Uploads \cup Changes \cup Deletions \cup Duplication \cup {None}]

AirInv ==
    /\ AirTypeOK /\ AskTyped /\ IdsUsed /\ PathsKnown
    /\ ChangesKnow /\ DeletionsKnow /\ UploadsStored /\ DuplicatesKnow
    /\ TakenOrThere /\ CopyOfItsOwn /\ DrawnAsListed

LEMMA AskKinds ==
    ASSUME AskTyped
    PROVE  /\ \A r \in Asking("upload") : r \in Requests /\ asking[r] \in Uploads
           /\ \A r \in Asking("change") : r \in Requests /\ asking[r] \in Changes
           /\ \A r \in Asking("delete") : r \in Requests /\ asking[r] \in Deletions
           /\ \A r \in Asking("duplicate") : r \in Requests /\ asking[r] \in Duplication
           /\ \A r \in Requests : asking[r] # None =>
                 asking[r].op \in {"upload", "change", "delete", "duplicate"}
<1>1. \A e \in Duplication : e.op = "duplicate"
  <2> SUFFICES ASSUME NEW e \in Duplication PROVE e.op = "duplicate"
    OBVIOUS
  <2>1. PICK S \in SUBSET SourceIds, T \in SUBSET SourceIds : e \in Duplications(S, T)
    BY DEF Duplication
  <2> QED
    BY <2>1 DEF Duplications
<1>2. (\A e \in Uploads : e.op = "upload") /\ (\A e \in Changes : e.op = "change")
      /\ (\A e \in Deletions : e.op = "delete")
  BY DEF Uploads, Changes, Deletions
<1>3. \A r \in Requests : asking[r] # None => asking[r] \in Uploads \cup Changes \cup Deletions \cup Duplication
  BY DEF AskTyped
<1> QED
  BY <1>1, <1>2, <1>3 DEF Asking

LEMMA DuplicationShape ==
    ASSUME NEW q \in Duplication
    PROVE  /\ q.op = "duplicate" /\ q.of \in Meets /\ q.new \in Meets /\ q.apart \in SUBSET SourceIds
           /\ DOMAIN q.rows \subseteq SourceIds /\ \A s \in DOMAIN q.rows : q.rows[s] \in Source
           /\ q.regions # None =>
                 DOMAIN q.regions \subseteq SourceIds /\ \A s \in DOMAIN q.regions : q.regions[s] \in BOOLEAN
<1>1. PICK S \in SUBSET SourceIds, T \in SUBSET SourceIds : q \in Duplications(S, T)
  BY DEF Duplication
<1>2. /\ q.op = "duplicate" /\ q.of \in Meets /\ q.new \in Meets /\ q.apart \in SUBSET SourceIds
      /\ q.rows \in [S -> Source] /\ q.regions \in [T -> BOOLEAN] \cup {None}
  BY <1>1 DEF Duplications
<1> QED
  BY <1>2

LEMMA NoneNoRequest == None \notin Uploads \cup Changes \cup Deletions \cup Duplication
  BY AskAssumption DEF Duplication

\* What is typed is typed as the invariant of the module says it.
LEMMA AskingSome ==
    ASSUME NEW h \in [Requests -> Uploads \cup Changes \cup Deletions \cup Duplication \cup {None}]
    PROVE  \A r \in Requests : h[r] # None =>
              \/ h[r] \in Uploads \cup Changes \cup Deletions
              \/ \E S, T \in SUBSET SourceIds : h[r] \in Duplications(S, T)
  BY DEF Duplication

\* The end of a request.
LEMMA DoneFrame ==
    ASSUME AskTyped, NEW r \in Requests, asking' = Done(r)
    PROVE  /\ AskTyped'
           /\ \A op : Asking(op)' = Asking(op) \ {r}
           /\ asking'[r] = None /\ \A q \in Requests \ {r} : asking'[q] = asking[q]
<1>1. asking'[r] = None /\ \A q \in Requests \ {r} : asking'[q] = asking[q]
  BY DEF AskTyped, Done
<1>2. \A op : Asking(op)' = Asking(op) \ {r}
  BY <1>1 DEF Asking
<1>3. AskTyped'
  BY DEF AskTyped, Done
<1> QED
  BY <1>1, <1>2, <1>3

\* A new request.
LEMMA AskFrame ==
    ASSUME AskTyped, NEW r \in Requests, NEW q \in Uploads \cup Changes \cup Deletions \cup Duplication, Ask(r, q)
    PROVE  /\ AskTyped' /\ asked' = asked + 1 /\ asked < MaxAsked
           /\ \A op : r \notin Asking(op)
           /\ \A op : Asking(op)' = Asking(op) \cup (IF q.op = op THEN {r} ELSE {})
           /\ asking'[r] = q /\ \A p \in Requests \ {r} : asking'[p] = asking[p]
<1>1. asking'[r] = q /\ asking[r] = None /\ \A p \in Requests \ {r} : asking'[p] = asking[p]
  BY DEF AskTyped, Ask
<1>2. q # None
  BY NoneNoRequest
<1>3. \A op : r \notin Asking(op) /\ Asking(op)' = Asking(op) \cup (IF q.op = op THEN {r} ELSE {})
  BY <1>1, <1>2 DEF Asking
<1>4. AskTyped'
  BY DEF AskTyped, Ask
<1> QED
  BY <1>1, <1>3, <1>4 DEF Ask

LEMMA CrossingFrame ==
    ASSUME AskTyped, NEW r, NEW S \in SUBSET SourceIds, asking' = DoneCrossing(r, S)
    PROVE  /\ AskTyped'
           /\ \A op : Asking(op)' = Asking(op) \ {r}
           /\ \A q \in (Asking("upload") \cup Asking("delete")) \ {r} : asking'[q] = asking[q]
           /\ \A q \in Asking("change") \ {r} :
                 /\ asking'[q].id = asking[q].id /\ asking'[q].was = asking[q].was
                 /\ asking'[q].kind = asking[q].kind /\ asking'[q].seen = asking[q].seen
                 /\ ~asking'[q].crossed => ~asking[q].crossed /\ asking[q].id \notin S
           /\ \A q \in Asking("duplicate") \ {r} :
                 /\ asking'[q].of = asking[q].of /\ asking'[q].new = asking[q].new
                 /\ asking'[q].rows = asking[q].rows /\ asking'[q].regions = asking[q].regions
                 /\ asking[q].regions = None =>
                       asking'[q].apart = asking[q].apart \cup (S \cap DOMAIN asking[q].rows)
                 /\ asking[q].regions # None => asking'[q].apart = asking[q].apart
<1>1. \A q \in Requests :
        asking'[q] = IF q = r THEN None
                     ELSE IF q \in Asking("change") /\ asking[q].id \in S THEN [asking[q] EXCEPT !.crossed = TRUE]
                     ELSE IF q \in Asking("duplicate") /\ asking[q].regions = None
                          THEN [asking[q] EXCEPT !.apart = @ \cup (S \cap DOMAIN asking[q].rows)]
                     ELSE asking[q]
  BY DEF DoneCrossing
<1>2. \A op : \A q \in Asking(op) : q \in Requests /\ asking[q].op = op /\ asking[q] # None
  BY DEF Asking
<1>3. ASSUME NEW q \in Asking("change"), q # r
      PROVE  /\ asking'[q] \in Changes /\ asking'[q].op = "change"
             /\ asking'[q].id = asking[q].id /\ asking'[q].was = asking[q].was
             /\ asking'[q].kind = asking[q].kind /\ asking'[q].seen = asking[q].seen
             /\ ~asking'[q].crossed => ~asking[q].crossed /\ asking[q].id \notin S
  <2>1. q \in Requests /\ asking[q] \in Changes /\ q \notin Asking("duplicate")
    BY <1>2, AskKinds
  <2> DEFINE w == [asking[q] EXCEPT !.crossed = TRUE]
  <2>2. /\ w \in Changes /\ w.op = "change" /\ w.id = asking[q].id /\ w.was = asking[q].was
        /\ w.kind = asking[q].kind /\ w.seen = asking[q].seen /\ w.crossed
    BY <2>1 DEF Changes
  <2> HIDE DEF w
  <2>3. CASE asking[q].id \in S
    <3>1. asking'[q] = w
      BY <1>1, <1>3, <2>1, <2>3 DEF w
    <3> QED
      BY <2>2, <3>1
  <2>4. CASE asking[q].id \notin S
    BY <1>1, <1>2, <1>3, <2>1, <2>4
  <2> QED
    BY <2>3, <2>4
<1>4. ASSUME NEW q \in Asking("duplicate"), q # r
      PROVE  /\ asking'[q] \in Duplication /\ asking'[q].op = "duplicate"
             /\ asking'[q].of = asking[q].of /\ asking'[q].new = asking[q].new
             /\ asking'[q].rows = asking[q].rows /\ asking'[q].regions = asking[q].regions
             /\ asking[q].regions = None =>
                   asking'[q].apart = asking[q].apart \cup (S \cap DOMAIN asking[q].rows)
             /\ asking[q].regions # None => asking'[q].apart = asking[q].apart
  <2>1. q \in Requests /\ asking[q] \in Duplication /\ q \notin Asking("change")
    BY <1>2, AskKinds
  <2>2. CASE asking[q].regions = None
    <3> DEFINE A == asking[q].apart \cup (S \cap DOMAIN asking[q].rows)
    <3>1. A \in SUBSET SourceIds
      BY <2>1, DuplicationShape
    <3>2. asking'[q] = [asking[q] EXCEPT !.apart = A]
      BY <1>1, <1>4, <2>1, <2>2
    <3> HIDE DEF A
    <3>3. /\ asking'[q] \in Duplication /\ asking'[q].op = "duplicate"
          /\ asking'[q].of = asking[q].of /\ asking'[q].new = asking[q].new
          /\ asking'[q].rows = asking[q].rows /\ asking'[q].regions = asking[q].regions /\ asking'[q].apart = A
      <4> DEFINE old == asking[q]
                 w == asking'[q]
      <4>1. old \in Duplication /\ w = [old EXCEPT !.apart = A]
        BY <2>1, <3>2
      <4> HIDE DEF old, w
      <4>2. /\ w \in Duplication /\ w.op = "duplicate" /\ w.of = old.of /\ w.new = old.new /\ w.rows = old.rows
            /\ w.regions = old.regions /\ w.apart = A
        <5>1. PICK U \in SUBSET SourceIds, T \in SUBSET SourceIds : old \in Duplications(U, T)
          BY <4>1 DEF Duplication
        <5>2. /\ w \in Duplications(U, T) /\ w.op = "duplicate" /\ w.of = old.of /\ w.new = old.new
              /\ w.rows = old.rows /\ w.regions = old.regions /\ w.apart = A
          BY <3>1, <4>1, <5>1 DEF Duplications
        <5> QED
          BY <5>2 DEF Duplication
      <4> QED
        BY <4>2 DEF old, w
    <3> QED
      BY <2>2, <3>3 DEF A
  <2>3. CASE asking[q].regions # None
    BY <1>1, <1>2, <1>4, <2>1, <2>3
  <2> QED
    BY <2>2, <2>3
<1>5. \A q \in Asking("upload") \cup Asking("delete") : q # r => asking'[q] = asking[q]
  BY <1>1, <1>2, ZenonT(30)
<1>6. \A q \in Requests : asking[q] = None => asking'[q] = None
  BY <1>1, <1>2
<1>7. \A q \in Requests : q # r => (asking'[q] = None <=> asking[q] = None) /\ (asking[q] # None => asking'[q].op = asking[q].op)
  <2> SUFFICES ASSUME NEW q \in Requests, q # r, asking[q] # None
               PROVE  asking'[q] # None /\ asking'[q].op = asking[q].op
    BY <1>6
  <2>1. q \in Asking("upload") \cup Asking("delete") \cup Asking("change") \cup Asking("duplicate")
    BY AskKinds DEF Asking
  <2> QED
    BY <1>2, <1>3, <1>4, <1>5, <2>1, NoneNoRequest
<1>8. \A op : Asking(op)' = Asking(op) \ {r}
  <2>1. r \in Requests => asking'[r] = None
    BY <1>1
  <2> QED
    BY <1>7, <2>1 DEF Asking
<1>9. AskTyped'
  <2>1. ASSUME NEW q \in Requests
        PROVE  asking'[q] \in Uploads \cup Changes \cup Deletions \cup Duplication \cup {None}
    <3>1. CASE q = r \/ asking[q] = None
      BY <1>1, <1>6, <3>1
    <3>2. CASE q # r /\ asking[q] # None
      <4>1. q \in Asking("upload") \cup Asking("delete") \cup Asking("change") \cup Asking("duplicate")
        BY <3>2, AskKinds DEF Asking
      <4> QED
        BY <1>3, <1>4, <1>5, <3>2, <4>1, AskKinds
    <3> QED
      BY <3>1, <3>2
  <2>2. asking' = [q \in Requests |-> asking'[q]]
    BY DEF DoneCrossing
  <2> QED
    BY <2>1, <2>2 DEF AskTyped
<1> QED
  BY <1>3, <1>4, <1>5, <1>8, <1>9

-----------------------------------------------------------------------------
(* Steps that leave the rows                                               *)

RowsStay == UNCHANGED <<meet, source, region, last, torn>>

LEMMA RowsFrame ==
    ASSUME AirInv, RowsStay, taken \subseteq taken', disk' \subseteq Paths, taken' \subseteq Paths,
           asked' \in 0..MaxAsked, AskTyped'
    PROVE  /\ AirTypeOK' /\ IdsUsed' /\ PathsKnown' /\ CopyOfItsOwn' /\ DrawnAsListed' /\ Listed' = Listed
           /\ \A e : SourcesOf(e)' = SourcesOf(e)
<1>1. meet' = meet /\ source' = source /\ region' = region /\ last' = last /\ torn' = torn
  BY DEF RowsStay
<1>2. Listed' = Listed /\ \A e : SourcesOf(e)' = SourcesOf(e)
  BY <1>1 DEF Listed, SourcesOf
<1>3. AirTypeOK'
  <2>1. \A r \in Requests : asking'[r] # None =>
              \/ asking'[r] \in Uploads \cup Changes \cup Deletions
              \/ \E S, T \in SUBSET SourceIds : asking'[r] \in Duplications(S, T)
    BY AskingSome DEF AskTyped
  <2> QED
    BY <1>1, <2>1 DEF AirInv, AirTypeOK
<1>4. IdsUsed' /\ PathsKnown' /\ CopyOfItsOwn' /\ DrawnAsListed'
  BY <1>1, <1>2 DEF AirInv, IdsUsed, PathsKnown, CopyOfItsOwn, DrawnAsListed
<1> QED
  BY <1>2, <1>3, <1>4

\* What the requests but r know, when the rows stay and no file is removed.
LEMMA OthersKnow ==
    ASSUME AirInv, RowsStay, disk \subseteq disk', taken \subseteq taken', NEW r,
           \A q \in Requests \ {r} : asking'[q] = asking[q]
    PROVE  /\ \A q \in Asking("change") \ {r} : ChangeKnows(asking[q])'
           /\ \A q \in Asking("upload") \ {r} : asking'[q].at \in disk' \cup taken'
           /\ \A q \in Asking("duplicate") \ {r} : CopiesOwned(asking[q])' /\ ReadAsOne(asking[q])'
<1>1. meet' = meet /\ source' = source /\ region' = region /\ last' = last /\ torn' = torn
  BY DEF RowsStay
<1>2. Listed' = Listed
  BY <1>1 DEF Listed
<1>3. \A op : \A q \in Asking(op) \ {r} : asking'[q] = asking[q]
  BY DEF Asking
<1>4. ASSUME NEW q \in Asking("change") \ {r} PROVE ChangeKnows(asking[q])'
  <2>1. ChangeKnows(asking[q]) /\ asking'[q] = asking[q]
    BY <1>3 DEF AirInv, ChangesKnow
  <2> QED
    BY <1>1, <1>2, <2>1 DEF ChangeKnows
<1>5. ASSUME NEW q \in Asking("upload") \ {r} PROVE asking'[q].at \in disk' \cup taken'
  BY <1>3 DEF AirInv, UploadsStored
<1>6. ASSUME NEW q \in Asking("duplicate") \ {r} PROVE CopiesOwned(asking[q])' /\ ReadAsOne(asking[q])'
  <2>1. CopiesOwned(asking[q]) /\ ReadAsOne(asking[q]) /\ asking'[q] = asking[q]
    BY <1>3 DEF AirInv, DuplicatesKnow
  <2>2. CopiesOwned(asking[q])'
    BY <2>1 DEF CopiesOwned
  <2>3. ReadAsOne(asking[q])'
    BY <1>1, <1>2, <2>1 DEF ReadAsOne, SourcesOf
  <2> QED
    BY <2>2, <2>3
<1> QED
  BY <1>4, <1>5, <1>6

LEMMA AirInitHolds == AirInit => AirInv
<1> SUFFICES ASSUME AirInit PROVE AirInv
  OBVIOUS
<1>1. Listed = {} /\ \A op : Asking(op) = {}
  BY DEF AirInit, Listed, Asking
<1>2. AskTyped /\ AirTypeOK
  BY SourcesAssumption DEF AirInit, AskTyped, AirTypeOK, SourceIds
<1> QED
  BY <1>1, <1>2
  DEF AirInv, IdsUsed, PathsKnown, ChangesKnow, DeletionsKnow, UploadsStored, DuplicatesKnow, TakenOrThere,
      CopyOfItsOwn, DrawnAsListed

LEMMA StoreKeeps ==
    ASSUME AirInv, NEW r \in Requests, NEW e \in Meets, NEW c \in Texts, NEW k \in Kinds, Store(r, e, c, k)
    PROVE  AirInv'
<1> DEFINE u == [op |-> "upload", of |-> e, at |-> c, kind |-> k]
<1>1. u \in Uploads /\ u.op = "upload" /\ u.at = c
  BY DEF Uploads
<1>2. Ask(r, u) /\ disk' = disk \cup {c} /\ RowsStay /\ taken' = taken
  BY DEF Store, RowsStay
<1> HIDE DEF u
<1>3. AskTyped /\ AirTypeOK
  BY DEF AirInv
<1>4. /\ AskTyped' /\ asked' = asked + 1 /\ asked < MaxAsked
      /\ \A op : r \notin Asking(op)
      /\ \A op : Asking(op)' = Asking(op) \cup (IF u.op = op THEN {r} ELSE {})
      /\ asking'[r] = u /\ \A p \in Requests \ {r} : asking'[p] = asking[p]
  BY <1>1, <1>2, <1>3, AskFrame
<1>5. /\ Asking("upload")' = Asking("upload") \cup {r} /\ Asking("change")' = Asking("change")
      /\ Asking("delete")' = Asking("delete") /\ Asking("duplicate")' = Asking("duplicate")
  BY <1>1, <1>4
<1>6. disk' \subseteq Paths /\ taken' \subseteq Paths /\ asked' \in 0..MaxAsked
  BY <1>2, <1>3, <1>4, SourcesAssumption DEF AirTypeOK, Paths
<1>7. AirTypeOK' /\ IdsUsed' /\ PathsKnown' /\ CopyOfItsOwn' /\ DrawnAsListed' /\ Listed' = Listed
  BY <1>2, <1>4, <1>6, RowsFrame
<1>8. /\ \A q \in Asking("change") \ {r} : ChangeKnows(asking[q])'
      /\ \A q \in Asking("upload") \ {r} : asking'[q].at \in disk' \cup taken'
      /\ \A q \in Asking("duplicate") \ {r} : CopiesOwned(asking[q])' /\ ReadAsOne(asking[q])'
  BY <1>2, <1>4, OthersKnow
<1>9. /\ \A q \in Asking("delete") : asking'[q] = asking[q]
      /\ \A q \in Asking("duplicate") : asking'[q] = asking[q]
  BY <1>4 DEF Asking
<1>10. ChangesKnow' /\ UploadsStored'
  BY <1>1, <1>2, <1>4, <1>5, <1>8 DEF ChangesKnow, UploadsStored
<1>11. DeletionsKnow'
  BY <1>2, <1>5, <1>7, <1>9 DEF AirInv, DeletionsKnow, RowsStay
<1>12. DuplicatesKnow'
  BY <1>2, <1>4, <1>5, <1>8, <1>9 DEF AirInv, DuplicatesKnow, RowsStay
<1>13. TakenOrThere'
  BY <1>2, <1>5, <1>7, <1>9 DEF AirInv, TakenOrThere, RowsStay, Withdrawing
<1> QED
  BY <1>4, <1>7, <1>10, <1>11, <1>12, <1>13 DEF AirInv

LEMMA RowsThere ==
    ASSUME AirTypeOK, NEW s \in SourceIds
    PROVE  /\ region[s] # None => source[s] # None
           /\ source[s] # None => meet[source[s].of] = "there"
  BY Zenon DEF AirTypeOK

LEMMA ListedIds == AirTypeOK => \A s \in Listed : s \in SourceIds /\ source[s] \in Source
  BY DEF Listed, AirTypeOK

\* What the other requests know when r is done, which only added rows.
LEMMA DoneKnows ==
    ASSUME AirInv, NEW r \in Requests, asking' = Done(r), Listed \subseteq Listed',
           \A s \in Listed : source'[s] = source[s] /\ region'[s] = region[s] /\ (s \in torn' => s \in torn),
           disk \subseteq disk', taken \subseteq taken',
           \A q \in Asking("duplicate") \ {r} : meet'[asking[q].new] = meet[asking[q].new]
    PROVE  /\ AskTyped' /\ ChangesKnow' /\ DeletionsKnow' /\ UploadsStored' /\ DuplicatesKnow'
           /\ Withdrawing' = {asking[q].id : q \in Asking("delete") \ {r}}
<1>1. /\ AskTyped' /\ \A op : Asking(op)' = Asking(op) \ {r}
      /\ asking'[r] = None /\ \A q \in Requests \ {r} : asking'[q] = asking[q]
  BY DoneFrame DEF AirInv
<1>2. \A op : \A q \in Asking(op)' : q \in Requests /\ q # r /\ q \in Asking(op) /\ asking'[q] = asking[q]
  BY <1>1 DEF Asking
<1>3. ChangesKnow'
  <2> SUFFICES ASSUME NEW q \in Asking("change") \ {r} PROVE ChangeKnows(asking[q])'
    BY <1>1 DEF ChangesKnow
  <2>1. ChangeKnows(asking[q]) /\ asking'[q] = asking[q]
    BY <1>1, <1>2 DEF AirInv, ChangesKnow
  <2> QED
    BY <2>1 DEF ChangeKnows
<1>4. DeletionsKnow'
  BY <1>1, <1>2 DEF AirInv, DeletionsKnow
<1>5. UploadsStored'
  BY <1>1, <1>2 DEF AirInv, UploadsStored
<1>6. DuplicatesKnow'
  <2>1. ASSUME NEW q \in Asking("duplicate") \ {r} PROVE CopiesOwned(asking[q])' /\ ReadAsOne(asking[q])'
    <3>1. CopiesOwned(asking[q]) /\ ReadAsOne(asking[q]) /\ asking'[q] = asking[q]
      BY <1>1, <1>2 DEF AirInv, DuplicatesKnow
    <3>2. CopiesOwned(asking[q])'
      BY <3>1 DEF CopiesOwned
    <3>3. ReadAsOne(asking[q])'
      BY <3>1 DEF ReadAsOne, SourcesOf
    <3> QED
      BY <3>2, <3>3
  <2> QED
    BY <1>1, <1>2, <2>1 DEF AirInv, DuplicatesKnow
<1>7. Withdrawing' = {asking[q].id : q \in Asking("delete") \ {r}}
  BY <1>1, <1>2 DEF Withdrawing
<1> QED
  BY <1>1, <1>3, <1>4, <1>5, <1>6, <1>7

LEMMA CommitUploadKeeps == ASSUME AirInv, NEW r \in Requests, CommitUpload(r) PROVE AirInv'
<1> DEFINE u == asking[r]
           i == last + 1
           row == [of |-> u.of, kind |-> u.kind, at |-> u.at, copied |-> FALSE]
<1>1. AirTypeOK /\ AskTyped
  BY DEF AirInv
<1>2. /\ r \in Asking("upload") /\ last < MaxSources /\ meet[u.of] = "there"
      /\ source' = [source EXCEPT ![i] = row]
      /\ region' = [region EXCEPT ![i] = u.kind = "restricted_field"]
      /\ last' = i /\ asking' = Done(r)
      /\ meet' = meet /\ disk' = disk /\ asked' = asked /\ taken' = taken /\ torn' = torn
  BY DEF CommitUpload
<1>3. u \in Uploads /\ u.at \in disk \cup taken
  BY <1>1, <1>2, AskKinds DEF AirInv, UploadsStored
<1>4. u.of \in Meets /\ u.kind \in Kinds /\ u.at \in Texts /\ u.at \in Paths
  BY <1>3 DEF Uploads, Paths
<1>5. /\ row \in Source /\ row.of = u.of /\ row.kind = u.kind /\ row.at = u.at /\ row.copied = FALSE
  BY <1>4 DEF Source
<1>6. row # None /\ (u.kind = "restricted_field") \in BOOLEAN
  BY <1>5, AskAssumption
<1> HIDE DEF row
<1>7. last \in Nat /\ i \in SourceIds /\ i \in 0..MaxSources
  BY <1>1, <1>2, SourcesAssumption DEF AirTypeOK, SourceIds
<1> HIDE DEF i
<1>8. \A s \in Listed : s \in SourceIds /\ s # i
  BY <1>1, <1>7, ListedIds DEF AirInv, IdsUsed, SourceIds, i
<1>9. source'[i] = row /\ region'[i] = (row.kind = "restricted_field")
      /\ \A s \in SourceIds \ {i} : source'[s] = source[s] /\ region'[s] = region[s]
  BY <1>1, <1>2, <1>5, <1>7 DEF AirTypeOK
<1>10. Listed' = Listed \cup {i}
  BY <1>6, <1>7, <1>8, <1>9 DEF Listed
<1>11. \A s \in Listed : source'[s] = source[s] /\ region'[s] = region[s]
  BY <1>8, <1>9
<1>12. /\ AskTyped' /\ ChangesKnow' /\ DeletionsKnow' /\ UploadsStored' /\ DuplicatesKnow'
       /\ Withdrawing' = {asking[q].id : q \in Asking("delete") \ {r}}
  BY <1>2, <1>10, <1>11, DoneKnows
<1>13. Withdrawing' = Withdrawing
  BY <1>2, <1>12 DEF Withdrawing, Asking
<1>14. AirTypeOK'
  <2>1. \A q \in Requests : asking'[q] # None =>
              \/ asking'[q] \in Uploads \cup Changes \cup Deletions
              \/ \E S, T \in SUBSET SourceIds : asking'[q] \in Duplications(S, T)
    BY <1>12, AskingSome DEF AskTyped
  <2>2. source' \in [SourceIds -> Source \cup {None}] /\ region' \in [SourceIds -> BOOLEAN \cup {None}]
    BY <1>1, <1>2, <1>5, <1>6, <1>7 DEF AirTypeOK
  <2>3. \A s \in SourceIds : /\ region'[s] # None => source'[s] # None
                             /\ source'[s] # None => meet'[source'[s].of] = "there"
    <3>1. source'[i] # None /\ meet'[source'[i].of] = "there"
      BY <1>2, <1>5, <1>6, <1>9
    <3>2. ASSUME NEW s \in SourceIds \ {i}
          PROVE  /\ region'[s] # None => source'[s] # None
                 /\ source'[s] # None => meet'[source'[s].of] = "there"
      <4>1. source'[s] = source[s] /\ region'[s] = region[s] /\ meet' = meet /\ s \in SourceIds
        BY <1>2, <1>9
      <4>2. (region[s] # None => source[s] # None) /\ (source[s] # None => meet[source[s].of] = "there")
        BY <1>1, RowsThere
      <4> QED
        BY <4>1, <4>2
    <3> QED
      BY <3>1, <3>2
  <2> QED
    BY <1>1, <1>2, <1>7, <2>1, <2>2, <2>3 DEF AirTypeOK
<1>15. IdsUsed'
  BY <1>2, <1>7, <1>10, <1>1, ListedIds DEF AirInv, IdsUsed, i, SourceIds
<1>16. PathsKnown'
  BY <1>2, <1>4, <1>5, <1>9, <1>10, <1>11 DEF AirInv, PathsKnown
<1>17. TakenOrThere'
  BY <1>2, <1>3, <1>5, <1>9, <1>10, <1>11, <1>13 DEF AirInv, TakenOrThere
<1>18. CopyOfItsOwn'
  <2> SUFFICES ASSUME NEW s \in Listed', NEW t \in Listed', s # t, source'[s].at = source'[t].at, source'[s].copied,
                      source'[s].at \notin taken
               PROVE  FALSE
    BY <1>2 DEF CopyOfItsOwn
  <2>1. s \in Listed /\ source'[s] = source[s]
    BY <1>5, <1>9, <1>10, <1>11
  <2>2. CASE t = i
    <3>1. source[s].at \in Texts
      BY <1>4, <1>5, <1>9, <2>1, <2>2
    <3>2. PICK j \in SourceIds : source[s].at = <<source[s].of, j>>
      BY <2>1 DEF AirInv, PathsKnown
    <3>3. source[s].of \in Meets
      BY <1>1, <2>1, ListedIds DEF Source
    <3> QED
      BY <3>1, <3>2, <3>3, PathsAssumption
  <2>3. CASE t \in Listed
    BY <1>11, <2>1, <2>3 DEF AirInv, CopyOfItsOwn
  <2> QED
    BY <1>10, <2>2, <2>3
<1>19. DrawnAsListed'
  <2> SUFFICES ASSUME NEW s \in Listed', s \notin torn PROVE region'[s] = (source'[s].kind = "restricted_field")
    BY <1>2 DEF DrawnAsListed
  <2>1. CASE s = i
    BY <1>9, <2>1
  <2>2. CASE s \in Listed
    <3>1. region[s] = (source[s].kind = "restricted_field")
      BY <2>2 DEF AirInv, DrawnAsListed
    <3> QED
      BY <1>11, <2>2, <3>1
  <2> QED
    BY <1>10, <2>1, <2>2
<1> QED
  BY <1>12, <1>14, <1>15, <1>16, <1>17, <1>18, <1>19 DEF AirInv

\* A request goes on.
LEMMA StepFrame ==
    ASSUME AskTyped, NEW r \in Requests, asking[r] # None,
           NEW n \in Uploads \cup Changes \cup Deletions \cup Duplication, n.op = asking[r].op,
           asking' = [asking EXCEPT ![r] = n]
    PROVE  /\ AskTyped' /\ \A op : Asking(op)' = Asking(op)
           /\ asking'[r] = n /\ \A q \in Requests \ {r} : asking'[q] = asking[q]
<1>1. asking'[r] = n /\ n # None /\ \A q \in Requests \ {r} : asking'[q] = asking[q]
  BY NoneNoRequest DEF AskTyped
<1>2. \A op : Asking(op)' = Asking(op)
  BY <1>1 DEF Asking
<1>3. AskTyped'
  BY DEF AskTyped
<1> QED
  BY <1>1, <1>2, <1>3

LEMMA BeginChangeKeeps ==
    ASSUME AirInv, NEW r \in Requests, NEW s \in SourceIds, NEW k \in Kinds, BeginChange(r, s, k)
    PROVE  AirInv'
<1> DEFINE c == [op |-> "change", id |-> s, was |-> source[s].kind, kind |-> k, seen |-> None, crossed |-> FALSE]
<1>1. AirTypeOK /\ AskTyped
  BY DEF AirInv
<1>2. s \in Listed /\ Ask(r, c) /\ disk' = disk /\ RowsStay /\ taken' = taken
  BY DEF BeginChange, RowsStay
<1>3. source[s].kind \in Kinds
  BY <1>1, <1>2, ListedIds DEF Source
<1>4. /\ c \in Changes /\ c.op = "change" /\ c.id = s /\ c.was = source[s].kind /\ c.seen = None
  BY <1>3 DEF Changes
<1> HIDE DEF c
<1>5. /\ AskTyped' /\ asked' = asked + 1 /\ asked < MaxAsked
      /\ \A op : r \notin Asking(op)
      /\ \A op : Asking(op)' = Asking(op) \cup (IF c.op = op THEN {r} ELSE {})
      /\ asking'[r] = c /\ \A p \in Requests \ {r} : asking'[p] = asking[p]
  BY <1>1, <1>2, <1>4, AskFrame
<1>6. /\ Asking("change")' = Asking("change") \cup {r} /\ Asking("upload")' = Asking("upload")
      /\ Asking("delete")' = Asking("delete") /\ Asking("duplicate")' = Asking("duplicate")
  BY <1>4, <1>5
<1>7. disk' \subseteq Paths /\ taken' \subseteq Paths /\ asked' \in 0..MaxAsked
  BY <1>1, <1>2, <1>5, SourcesAssumption DEF AirTypeOK
<1>8. AirTypeOK' /\ IdsUsed' /\ PathsKnown' /\ CopyOfItsOwn' /\ DrawnAsListed' /\ Listed' = Listed
  BY <1>2, <1>5, <1>7, RowsFrame
<1>9. /\ \A q \in Asking("change") \ {r} : ChangeKnows(asking[q])'
      /\ \A q \in Asking("upload") \ {r} : asking'[q].at \in disk' \cup taken'
      /\ \A q \in Asking("duplicate") \ {r} : CopiesOwned(asking[q])' /\ ReadAsOne(asking[q])'
  BY <1>2, <1>5, OthersKnow
<1>10. \A q \in Asking("delete") \cup Asking("duplicate") : asking'[q] = asking[q]
  BY <1>5 DEF Asking
<1>11. ChangeKnows(asking[r])'
  BY <1>2, <1>4, <1>5, <1>8 DEF ChangeKnows, RowsStay
<1>12. ChangesKnow' /\ UploadsStored'
  BY <1>5, <1>6, <1>9, <1>11 DEF ChangesKnow, UploadsStored
<1>13. DeletionsKnow'
  BY <1>2, <1>6, <1>8, <1>10 DEF AirInv, DeletionsKnow, RowsStay
<1>14. DuplicatesKnow'
  BY <1>2, <1>5, <1>6, <1>9, <1>10 DEF AirInv, DuplicatesKnow, RowsStay
<1>15. TakenOrThere'
  BY <1>2, <1>6, <1>8, <1>10 DEF AirInv, TakenOrThere, RowsStay, Withdrawing
<1> QED
  BY <1>5, <1>8, <1>12, <1>13, <1>14, <1>15 DEF AirInv

LEMMA ReadRegionsKeeps == ASSUME AirInv, NEW r \in Requests, ReadRegions(r) PROVE AirInv'
<1> DEFINE c == asking[r]
           n == [asking[r] EXCEPT !.seen = region[asking[r].id]]
<1>1. AirTypeOK /\ AskTyped
  BY DEF AirInv
<1>2. /\ r \in Asking("change") /\ region[c.id] # None /\ asking' = [asking EXCEPT ![r] = n]
      /\ disk' = disk /\ RowsStay /\ taken' = taken /\ asked' = asked
  BY DEF ReadRegions, RowsStay
<1>3. c \in Changes /\ c # None /\ ChangeKnows(c) /\ c.op = "change"
  BY <1>1, <1>2, AskKinds DEF AirInv, ChangesKnow, Asking
<1>4. region[c.id] \in BOOLEAN
  BY <1>1, <1>2, <1>3 DEF AirTypeOK, Changes
<1>5. /\ n \in Changes /\ n.op = "change" /\ n.id = c.id /\ n.was = c.was /\ n.crossed = c.crossed
      /\ n.seen = region[c.id]
  BY <1>3, <1>4 DEF Changes
<1> HIDE DEF n
<1>6. /\ AskTyped' /\ \A op : Asking(op)' = Asking(op)
      /\ asking'[r] = n /\ \A q \in Requests \ {r} : asking'[q] = asking[q]
  BY <1>1, <1>2, <1>3, <1>5, StepFrame
<1>7. disk' \subseteq Paths /\ taken' \subseteq Paths /\ asked' \in 0..MaxAsked
  BY <1>1, <1>2 DEF AirTypeOK
<1>8. AirTypeOK' /\ IdsUsed' /\ PathsKnown' /\ CopyOfItsOwn' /\ DrawnAsListed' /\ Listed' = Listed
  BY <1>2, <1>6, <1>7, RowsFrame
<1>9. /\ \A q \in Asking("change") \ {r} : ChangeKnows(asking[q])'
      /\ \A q \in Asking("upload") \ {r} : asking'[q].at \in disk' \cup taken'
      /\ \A q \in Asking("duplicate") \ {r} : CopiesOwned(asking[q])' /\ ReadAsOne(asking[q])'
  BY <1>2, <1>6, OthersKnow
<1>10. /\ \A q \in Asking("delete") \cup Asking("duplicate") : asking'[q] = asking[q]
       /\ r \notin Asking("upload") \cup Asking("duplicate")
  BY <1>3, <1>6 DEF Asking
<1>11. ChangeKnows(asking[r])'
  BY <1>2, <1>3, <1>5, <1>6, <1>8 DEF ChangeKnows, RowsStay
<1>12. ChangesKnow' /\ UploadsStored'
  BY <1>6, <1>9, <1>10, <1>11 DEF ChangesKnow, UploadsStored
<1>13. DeletionsKnow'
  BY <1>2, <1>6, <1>8, <1>10 DEF AirInv, DeletionsKnow, RowsStay
<1>14. DuplicatesKnow'
  BY <1>2, <1>6, <1>9, <1>10 DEF AirInv, DuplicatesKnow, RowsStay
<1>15. TakenOrThere'
  BY <1>2, <1>6, <1>8, <1>10 DEF AirInv, TakenOrThere, RowsStay, Withdrawing
<1> QED
  BY <1>6, <1>8, <1>12, <1>13, <1>14, <1>15 DEF AirInv

LEMMA BeginDeleteKeeps ==
    ASSUME AirInv, NEW r \in Requests, NEW s \in SourceIds, BeginDelete(r, s) PROVE AirInv'
<1> DEFINE c == [op |-> "delete", id |-> s, at |-> source[s].at, stage |-> "open"]
<1>1. AirTypeOK /\ AskTyped
  BY DEF AirInv
<1>2. s \in Listed /\ s \notin Withdrawing /\ Ask(r, c) /\ disk' = disk /\ RowsStay /\ taken' = taken
  BY DEF BeginDelete, RowsStay
<1>3. source[s].at \in Paths
  BY <1>1, <1>2, ListedIds DEF Source
<1>4. c \in Deletions /\ c.op = "delete" /\ c.id = s /\ c.at = source[s].at
  BY <1>3 DEF Deletions
<1> HIDE DEF c
<1>5. /\ AskTyped' /\ asked' = asked + 1 /\ asked < MaxAsked
      /\ \A op : r \notin Asking(op)
      /\ \A op : Asking(op)' = Asking(op) \cup (IF c.op = op THEN {r} ELSE {})
      /\ asking'[r] = c /\ \A p \in Requests \ {r} : asking'[p] = asking[p]
  BY <1>1, <1>2, <1>4, AskFrame
<1>6. /\ Asking("delete")' = Asking("delete") \cup {r} /\ Asking("upload")' = Asking("upload")
      /\ Asking("change")' = Asking("change") /\ Asking("duplicate")' = Asking("duplicate")
  BY <1>4, <1>5
<1>7. disk' \subseteq Paths /\ taken' \subseteq Paths /\ asked' \in 0..MaxAsked
  BY <1>1, <1>2, <1>5, SourcesAssumption DEF AirTypeOK
<1>8. AirTypeOK' /\ IdsUsed' /\ PathsKnown' /\ CopyOfItsOwn' /\ DrawnAsListed' /\ Listed' = Listed
  BY <1>2, <1>5, <1>7, RowsFrame
<1>9. /\ \A q \in Asking("change") \ {r} : ChangeKnows(asking[q])'
      /\ \A q \in Asking("upload") \ {r} : asking'[q].at \in disk' \cup taken'
      /\ \A q \in Asking("duplicate") \ {r} : CopiesOwned(asking[q])' /\ ReadAsOne(asking[q])'
  BY <1>2, <1>5, OthersKnow
<1>10. \A q \in Asking("delete") \cup Asking("duplicate") : q # r /\ asking'[q] = asking[q]
  BY <1>5 DEF Asking
<1>11. ChangesKnow' /\ UploadsStored'
  BY <1>5, <1>6, <1>9 DEF ChangesKnow, UploadsStored
<1>12. DeletionsKnow'
  BY <1>2, <1>4, <1>5, <1>6, <1>8, <1>10 DEF AirInv, DeletionsKnow, RowsStay, Withdrawing
<1>13. DuplicatesKnow'
  BY <1>2, <1>5, <1>6, <1>9, <1>10 DEF AirInv, DuplicatesKnow, RowsStay
<1>14. TakenOrThere'
  BY <1>2, <1>6, <1>8, <1>10 DEF AirInv, TakenOrThere, RowsStay, Withdrawing
<1> QED
  BY <1>5, <1>8, <1>11, <1>12, <1>13, <1>14 DEF AirInv

LEMMA RemoveFileKeeps == ASSUME AirInv, NEW r \in Requests, RemoveFile(r) PROVE AirInv'
<1> DEFINE c == asking[r]
           n == [asking[r] EXCEPT !.stage = "unlinked"]
<1>1. AirTypeOK /\ AskTyped
  BY DEF AirInv
<1>2. /\ r \in Asking("delete") /\ asking' = [asking EXCEPT ![r] = n]
      /\ disk' = disk \ {c.at} /\ taken \subseteq taken'
      /\ taken' \subseteq taken \cup {c.at} /\ (CountedOn(c.id, c.at) => c.at \in taken')
      /\ RowsStay /\ asked' = asked
  BY DEF RemoveFile, RowsStay
<1>3. c \in Deletions /\ c # None /\ c.op = "delete" /\ c.at \in Paths
  BY <1>1, <1>2, AskKinds DEF Asking, Deletions
<1>4. n \in Deletions /\ n.op = "delete" /\ n.id = c.id /\ n.at = c.at
  BY <1>3 DEF Deletions
<1> HIDE DEF n
<1>5. /\ AskTyped' /\ \A op : Asking(op)' = Asking(op)
      /\ asking'[r] = n /\ \A q \in Requests \ {r} : asking'[q] = asking[q]
  BY <1>1, <1>2, <1>3, <1>4, StepFrame
<1>6. disk' \subseteq Paths /\ taken' \subseteq Paths /\ asked' \in 0..MaxAsked
  BY <1>1, <1>2, <1>3 DEF AirTypeOK
<1>7. AirTypeOK' /\ IdsUsed' /\ PathsKnown' /\ CopyOfItsOwn' /\ DrawnAsListed' /\ Listed' = Listed
      /\ \A e : SourcesOf(e)' = SourcesOf(e)
  BY <1>2, <1>5, <1>6, RowsFrame
<1>8. \A q \in Asking("change") \cup Asking("upload") \cup Asking("duplicate") : asking'[q] = asking[q]
  BY <1>3, <1>5 DEF Asking
<1>9. \A q \in Asking("delete") : asking'[q].id = asking[q].id /\ asking'[q].at = asking[q].at
  BY <1>4, <1>5 DEF Asking
<1>10. ChangesKnow'
  <2> SUFFICES ASSUME NEW q \in Asking("change") PROVE ChangeKnows(asking[q])'
    BY <1>5 DEF ChangesKnow
  <2>1. ChangeKnows(asking[q]) /\ asking'[q] = asking[q]
    BY <1>8 DEF AirInv, ChangesKnow
  <2> QED
    BY <1>2, <1>7, <2>1 DEF ChangeKnows, RowsStay
<1>11. UploadsStored'
  <2> SUFFICES ASSUME NEW q \in Asking("upload") PROVE asking[q].at \in disk' \cup taken'
    BY <1>5, <1>8 DEF UploadsStored
  <2>1. asking[q].at \in disk \cup taken
    BY DEF AirInv, UploadsStored
  <2>2. asking[q].at = c.at => c.at \in taken'
    BY <1>2 DEF CountedOn
  <2> QED
    BY <1>2, <2>1, <2>2
<1>12. DeletionsKnow'
  BY <1>2, <1>5, <1>7, <1>9 DEF AirInv, DeletionsKnow, RowsStay
<1>13. DuplicatesKnow'
  <2>1. ASSUME NEW q \in Asking("duplicate") PROVE CopiesOwned(asking[q])' /\ ReadAsOne(asking[q])'
    <3>1. CopiesOwned(asking[q]) /\ ReadAsOne(asking[q]) /\ asking'[q] = asking[q]
      BY <1>8 DEF AirInv, DuplicatesKnow
    <3>2. \A s \in DOMAIN asking[q].rows : asking[q].rows[s].at = c.at => c.at \in taken'
      BY <1>2 DEF CountedOn
    <3>3. CopiesOwned(asking[q])'
      BY <1>2, <3>1, <3>2 DEF CopiesOwned
    <3>4. ReadAsOne(asking[q])'
      BY <1>2, <1>7, <3>1 DEF ReadAsOne, RowsStay
    <3> QED
      BY <3>3, <3>4
  <2> QED
    BY <1>2, <1>5, <1>8, <2>1 DEF AirInv, DuplicatesKnow, RowsStay
<1>14. TakenOrThere'
  <2>1. Withdrawing' = Withdrawing
    BY <1>5, <1>9 DEF Withdrawing
  <2>2. c.id \in Withdrawing
    BY <1>2 DEF Withdrawing
  <2>3. \A s \in Listed : s # c.id /\ source[s].at = c.at => c.at \in taken'
    BY <1>2 DEF CountedOn
  <2> QED
    BY <1>2, <1>7, <2>1, <2>2, <2>3 DEF AirInv, TakenOrThere, RowsStay
<1> QED
  BY <1>5, <1>7, <1>10, <1>11, <1>12, <1>13, <1>14 DEF AirInv

LEMMA AskFailsKeeps == ASSUME AirInv, NEW r \in Requests, AskFails(r) PROVE AirInv'
<1>1. AirTypeOK /\ AskTyped
  BY DEF AirInv
<1>2. /\ asking' = Done(r) /\ disk' = disk /\ RowsStay /\ asked' = asked
      /\ taken \subseteq taken'
      /\ r \notin Asking("delete") => taken' = taken
      /\ r \in Asking("delete") => taken' = taken \cup {asking[r].at}
  BY DEF AskFails, LeftOnDisk, RowsStay
<1>3. r \in Asking("delete") => asking[r].at \in Paths
  BY <1>1, AskKinds DEF Deletions
<1>4. Listed' = Listed /\ source' = source /\ region' = region /\ torn' = torn /\ meet' = meet
  BY <1>2 DEF RowsStay, Listed
<1>5. /\ AskTyped' /\ ChangesKnow' /\ DeletionsKnow' /\ UploadsStored' /\ DuplicatesKnow'
      /\ Withdrawing' = {asking[q].id : q \in Asking("delete") \ {r}}
  BY <1>2, <1>4, DoneKnows
<1>6. disk' \subseteq Paths /\ taken' \subseteq Paths /\ asked' \in 0..MaxAsked
  BY <1>1, <1>2, <1>3 DEF AirTypeOK
<1>7. AirTypeOK' /\ IdsUsed' /\ PathsKnown' /\ CopyOfItsOwn' /\ DrawnAsListed'
  BY <1>2, <1>5, <1>6, RowsFrame
<1>8. TakenOrThere'
  <2> SUFFICES ASSUME NEW s \in Listed, s \notin Withdrawing' PROVE source[s].at \in disk \cup taken'
    BY <1>2, <1>4 DEF TakenOrThere
  <2>1. CASE s \in Withdrawing
    <3>1. r \in Asking("delete") /\ asking[r].id = s
      BY <1>5, <2>1 DEF Withdrawing
    <3>2. source[s].at = asking[r].at
      BY <3>1 DEF AirInv, DeletionsKnow
    <3> QED
      BY <1>2, <3>1, <3>2
  <2>2. CASE s \notin Withdrawing
    BY <1>2, <2>2 DEF AirInv, TakenOrThere
  <2> QED
    BY <2>1, <2>2
<1> QED
  BY <1>5, <1>7, <1>8 DEF AirInv

LEMMA ReadDuplicatedKeeps == ASSUME AirInv, NEW r \in Requests, ReadDuplicated(r) PROVE AirInv'
<1> DEFINE d == asking[r]
           found == {s \in SourcesOf(asking[r].of) : region[s] # None}
           F == [s \in found |-> region[s]]
           n == [asking[r] EXCEPT !.regions = F]
<1>1. AirTypeOK /\ AskTyped
  BY DEF AirInv
<1>2. /\ r \in Asking("duplicate") /\ d.regions = None /\ found \subseteq DOMAIN d.rows
      /\ asking' = [asking EXCEPT ![r] = n]
      /\ disk' = disk /\ RowsStay /\ taken' = taken /\ asked' = asked
  BY DEF ReadDuplicated, RowsStay
<1>3. d \in Duplication /\ d # None /\ d.op = "duplicate"
  BY <1>1, <1>2, AskKinds DEF Asking
<1>4. found \in SUBSET SourceIds
  BY <1>1, ListedIds DEF SourcesOf
<1>5. \A s \in found : region[s] \in BOOLEAN
  BY <1>1, <1>4 DEF AirTypeOK
<1>6. F \in [found -> BOOLEAN]
  BY <1>5
<1>7. F # None
  BY <1>4, <1>6, AskAssumption
<1>8. /\ n \in Duplication /\ n.op = "duplicate" /\ n.of = d.of /\ n.new = d.new
      /\ n.rows = d.rows /\ n.regions = F /\ n.apart = d.apart
  <2>1. PICK S \in SUBSET SourceIds, T \in SUBSET SourceIds : d \in Duplications(S, T)
    BY <1>3 DEF Duplication
  <2>2. n = [d EXCEPT !.regions = F]
    OBVIOUS
  <2> HIDE DEF d, n, F, found
  <2>3. n \in Duplications(S, found)
    BY <1>6, <2>1, <2>2 DEF Duplications
  <2>4. n.op = "duplicate" /\ n.of = d.of /\ n.new = d.new /\ n.rows = d.rows /\ n.regions = F /\ n.apart = d.apart
    BY <2>1, <2>2 DEF Duplications
  <2> QED
    BY <1>4, <2>1, <2>3, <2>4 DEF Duplication
<1>9. DOMAIN F = found /\ \A s \in found : F[s] = region[s]
  OBVIOUS
<1> HIDE DEF n, F
<1>10. /\ AskTyped' /\ \A op : Asking(op)' = Asking(op)
       /\ asking'[r] = n /\ \A q \in Requests \ {r} : asking'[q] = asking[q]
  BY <1>1, <1>2, <1>3, <1>8, StepFrame
<1>11. disk' \subseteq Paths /\ taken' \subseteq Paths /\ asked' \in 0..MaxAsked
  BY <1>1, <1>2 DEF AirTypeOK
<1>12. AirTypeOK' /\ IdsUsed' /\ PathsKnown' /\ CopyOfItsOwn' /\ DrawnAsListed' /\ Listed' = Listed
  BY <1>2, <1>10, <1>11, RowsFrame
<1>13. /\ \A q \in Asking("change") \ {r} : ChangeKnows(asking[q])'
       /\ \A q \in Asking("upload") \ {r} : asking'[q].at \in disk' \cup taken'
       /\ \A q \in Asking("duplicate") \ {r} : CopiesOwned(asking[q])' /\ ReadAsOne(asking[q])'
  BY <1>2, <1>10, OthersKnow
<1>14. /\ \A q \in Asking("delete") : asking'[q] = asking[q]
       /\ r \notin Asking("upload") \cup Asking("change")
       /\ \A q \in Asking("duplicate") \ {r} : asking'[q] = asking[q]
  BY <1>3, <1>10 DEF Asking
<1>15. CopiesOwned(asking[r])'
  BY <1>2, <1>8, <1>10 DEF AirInv, DuplicatesKnow, CopiesOwned
<1>16. ReadAsOne(asking[r])'
  <2>1. ASSUME NEW s \in DOMAIN d.rows \ d.apart
        PROVE  s \in found /\ region[s] = (d.rows[s].kind = "restricted_field")
    <3>1. s \in SourcesOf(d.of) /\ s \notin torn /\ source[s].kind = d.rows[s].kind
      BY <1>2 DEF AirInv, DuplicatesKnow, ReadAsOne
    <3>2. region[s] = (source[s].kind = "restricted_field")
      BY <3>1 DEF AirInv, DrawnAsListed, SourcesOf
    <3>3. region[s] # None
      BY <3>2, AskAssumption
    <3> QED
      BY <3>1, <3>2, <3>3
  <2> SUFFICES ASSUME NEW s \in DOMAIN n.rows \ n.apart
               PROVE  s \in DOMAIN F /\ F[s] = (n.rows[s].kind = "restricted_field")
    BY <1>7, <1>8, <1>10 DEF ReadAsOne
  <2> QED
    BY <1>8, <1>9, <2>1
<1>17. ChangesKnow' /\ UploadsStored'
  BY <1>10, <1>13, <1>14 DEF ChangesKnow, UploadsStored
<1>18. DeletionsKnow'
  BY <1>2, <1>10, <1>12, <1>14 DEF AirInv, DeletionsKnow, RowsStay
<1>19. DuplicatesKnow'
  BY <1>2, <1>8, <1>9, <1>10, <1>13, <1>14, <1>15, <1>16 DEF AirInv, DuplicatesKnow, RowsStay
<1>20. TakenOrThere'
  BY <1>2, <1>10, <1>12, <1>14 DEF AirInv, TakenOrThere, RowsStay, Withdrawing
<1> QED
  BY <1>10, <1>12, <1>17, <1>18, <1>19, <1>20 DEF AirInv

-----------------------------------------------------------------------------
(* Duplications                                                            *)

\* The copies get ids of their own, in the order of the sources.
LEMMA NewIds ==
    ASSUME NEW S \in SUBSET SourceIds, last \in Nat
    PROVE  /\ Cardinality(S) \in Nat
           /\ \A s \in S : NewId(S, s) \in Nat /\ NewId(S, s) > last /\ NewId(S, s) <= last + Cardinality(S)
           /\ \A s, t \in S : NewId(S, s) = NewId(S, t) => s = t
<1> DEFINE Upto(s) == {t \in S : t <= s}
<1>1. IsFiniteSet(S)
  <2>1. MaxSources \in Int
    BY SourcesAssumption
  <2>2. IsFiniteSet(SourceIds)
    BY <2>1, FS_Interval DEF SourceIds
  <2> QED
    BY <2>2, FS_Subset
<1>6. \A s \in S : s \in Nat
  BY SourcesAssumption DEF SourceIds
<1>2. Cardinality(S) \in Nat
  BY <1>1, FS_CardinalityType
<1>3. \A s \in S : /\ IsFiniteSet(Upto(s)) /\ Cardinality(Upto(s)) \in Nat
                   /\ Cardinality(Upto(s)) <= Cardinality(S) /\ Cardinality(Upto(s)) # 0
  <2> SUFFICES ASSUME NEW s \in S
               PROVE  /\ IsFiniteSet(Upto(s)) /\ Cardinality(Upto(s)) \in Nat
                      /\ Cardinality(Upto(s)) <= Cardinality(S) /\ Cardinality(Upto(s)) # 0
    OBVIOUS
  <2>1. Upto(s) \subseteq S /\ s \in Upto(s)
    BY SourcesAssumption DEF SourceIds
  <2> HIDE DEF Upto
  <2>2. IsFiniteSet(Upto(s)) /\ Cardinality(Upto(s)) <= Cardinality(S)
    BY <1>1, <2>1, FS_Subset
  <2>3. Cardinality(Upto(s)) \in Nat /\ Cardinality(Upto(s)) # 0
    BY <2>1, <2>2, FS_CardinalityType, FS_EmptySet
  <2> QED
    BY <2>2, <2>3
<1>4. ASSUME NEW s \in S, NEW t \in S, s < t PROVE Cardinality(Upto(s)) < Cardinality(Upto(t))
  <2>1. Upto(s) \subseteq Upto(t) /\ t \in Upto(t) /\ t \notin Upto(s)
    BY <1>4, <1>6
  <2> HIDE DEF Upto
  <2>2. Cardinality(Upto(s)) <= Cardinality(Upto(t)) /\ Cardinality(Upto(s)) # Cardinality(Upto(t))
    BY <1>3, <2>1, FS_Subset
  <2> QED
    BY <1>3, <2>2
<1>5. \A s \in S : NewId(S, s) = last + Cardinality(Upto(s))
  BY DEF NewId
<1> HIDE DEF Upto
<1> QED
  BY <1>2, <1>3, <1>4, <1>5, <1>6

LEMMA BeginDuplicateKeeps ==
    ASSUME AirInv, NEW r \in Requests, NEW e \in Meets, NEW new \in Meets, BeginDuplicate(r, e, new) PROVE AirInv'
<1> DEFINE row(s) == [of |-> new, kind |-> source[s].kind, at |-> CopyAt(new, s), copied |-> TRUE]
           rows == [s \in SourcesOf(e) |-> row(s)]
           gone == {s \in SourcesOf(e) : source[s].at \notin disk}
           n == [op |-> "duplicate", of |-> e, new |-> new, rows |-> rows, regions |-> None,
                 apart |-> torn \cap SourcesOf(e)]
<1>1. AirTypeOK /\ AskTyped
  BY DEF AirInv
<1>2. /\ meet[new] = "unused" /\ (\A q \in Asking("duplicate") : asking[q].new # new)
      /\ Ask(r, n)
      /\ disk' = disk \cup {rows[s].at : s \in SourcesOf(e) \ gone}
      /\ taken' = taken \cup {source[s].at : s \in gone}
      /\ RowsStay
  BY DEF BeginDuplicate, RowsStay
<1>3. \A s \in SourcesOf(e) : s \in SourceIds /\ source[s] \in Source /\ s \in Listed
  BY <1>1, ListedIds DEF SourcesOf
<1>4. ASSUME NEW s \in SourcesOf(e)
      PROVE  /\ row(s) \in Source /\ row(s).of = new /\ row(s).copied = TRUE /\ row(s).kind = source[s].kind
             /\ row(s).at = CopyAt(new, s)
  <2>1. CopyAt(new, s) \in Paths /\ source[s].kind \in Kinds
    BY <1>3 DEF CopyAt, Paths, Source
  <2> QED
    BY <2>1 DEF Source
<1>5. DOMAIN rows = SourcesOf(e) /\ (\A s \in SourcesOf(e) : rows[s] = row(s)) /\ rows \in [SourcesOf(e) -> Source]
  BY <1>4
<1> HIDE DEF rows, row
<1>6. /\ n.op = "duplicate" /\ n.of = e /\ n.new = new /\ n.rows = rows /\ n.regions = None
      /\ n.apart = torn \cap SourcesOf(e)
  OBVIOUS
<1>7. n \in Duplication
  <2>1. SourcesOf(e) \in SUBSET SourceIds
    BY <1>3
  <2>2. n \in Duplications(SourcesOf(e), {})
    BY <1>5, <2>1 DEF Duplications
  <2> QED
    BY <2>1, <2>2 DEF Duplication
<1> HIDE DEF n
<1>8. /\ AskTyped' /\ asked' = asked + 1 /\ asked < MaxAsked
      /\ \A op : r \notin Asking(op)
      /\ \A op : Asking(op)' = Asking(op) \cup (IF n.op = op THEN {r} ELSE {})
      /\ asking'[r] = n /\ \A p \in Requests \ {r} : asking'[p] = asking[p]
  BY <1>1, <1>2, <1>7, AskFrame
<1>9. /\ Asking("duplicate")' = Asking("duplicate") \cup {r} /\ Asking("upload")' = Asking("upload")
      /\ Asking("change")' = Asking("change") /\ Asking("delete")' = Asking("delete")
  BY <1>6, <1>8
<1>10. disk' \subseteq Paths /\ taken' \subseteq Paths /\ asked' \in 0..MaxAsked
  <2>1. disk' \subseteq Paths
    BY <1>1, <1>2, <1>4, <1>5 DEF AirTypeOK, Source
  <2>2. taken' \subseteq Paths
    BY <1>1, <1>2, <1>3 DEF AirTypeOK, Source
  <2>3. asked' \in 0..MaxAsked
    BY <1>1, <1>8, SourcesAssumption DEF AirTypeOK
  <2> QED
    BY <2>1, <2>2, <2>3
<1>11. /\ AirTypeOK' /\ IdsUsed' /\ PathsKnown' /\ CopyOfItsOwn' /\ DrawnAsListed' /\ Listed' = Listed
       /\ \A a : SourcesOf(a)' = SourcesOf(a)
  BY <1>2, <1>8, <1>10, RowsFrame
<1>12. /\ \A q \in Asking("change") \ {r} : ChangeKnows(asking[q])'
       /\ \A q \in Asking("upload") \ {r} : asking'[q].at \in disk' \cup taken'
       /\ \A q \in Asking("duplicate") \ {r} : CopiesOwned(asking[q])' /\ ReadAsOne(asking[q])'
  BY <1>2, <1>8, OthersKnow
<1>13. \A q \in Asking("delete") \cup Asking("duplicate") : q # r /\ asking'[q] = asking[q]
  BY <1>8 DEF Asking
<1>14. CopiesOwned(asking[r])'
  <2> SUFFICES ASSUME NEW s \in SourcesOf(e)
               PROVE  /\ rows[s].of = new /\ rows[s].copied
                      /\ rows[s].at \notin taken' => rows[s].at \in disk' /\ rows[s].at = <<new, s>>
    BY <1>5, <1>6, <1>8 DEF CopiesOwned
  <2>1. CASE source[s].at \in disk
    BY <1>2, <1>4, <1>5, <2>1 DEF CopyAt
  <2>2. CASE source[s].at \notin disk
    BY <1>2, <1>4, <1>5, <2>2 DEF CopyAt
  <2> QED
    BY <2>1, <2>2
<1>15. ReadAsOne(asking[r])'
  <2> SUFFICES ASSUME NEW s \in SourcesOf(e), s \notin torn
               PROVE  s \in SourcesOf(e) /\ s \notin torn /\ source[s].kind = rows[s].kind
    BY <1>2, <1>5, <1>6, <1>8, <1>11 DEF ReadAsOne, RowsStay
  <2> QED
    BY <1>4, <1>5
<1>16. ChangesKnow' /\ UploadsStored'
  BY <1>8, <1>9, <1>12 DEF ChangesKnow, UploadsStored
<1>17. DeletionsKnow'
  BY <1>2, <1>9, <1>11, <1>13 DEF AirInv, DeletionsKnow, RowsStay
<1>18. DuplicatesKnow'
  BY <1>2, <1>6, <1>8, <1>9, <1>12, <1>13, <1>14, <1>15 DEF AirInv, DuplicatesKnow, RowsStay
<1>19. TakenOrThere'
  BY <1>2, <1>9, <1>11, <1>13 DEF AirInv, TakenOrThere, RowsStay, Withdrawing
<1> QED
  BY <1>8, <1>11, <1>16, <1>17, <1>18, <1>19 DEF AirInv

LEMMA CommitDuplicateKeeps == ASSUME AirInv, NEW r \in Requests, CommitDuplicate(r) PROVE AirInv'
<1> DEFINE d == asking[r]
           S == DOMAIN asking[r].rows
           n(s) == NewId(S, s)
           New == {n(s) : s \in S}
<1>1. AirTypeOK /\ AskTyped
  BY DEF AirInv
<1>2. /\ r \in Asking("duplicate") /\ d.regions # None
      /\ last + Cardinality(S) <= MaxSources
      /\ meet' = [meet EXCEPT ![d.new] = "there"]
      /\ source' = [i \in SourceIds |-> IF \E s \in S : n(s) = i THEN d.rows[CHOOSE s \in S : n(s) = i] ELSE source[i]]
      /\ region' = [i \in SourceIds |-> IF \E s \in DOMAIN d.regions : n(s) = i
                       THEN d.regions[CHOOSE s \in S : n(s) = i] ELSE region[i]]
      /\ torn' = torn \cup {n(s) : s \in d.apart \cap S}
      /\ last' = last + Cardinality(S)
      /\ asking' = Done(r)
      /\ disk' = disk /\ asked' = asked /\ taken' = taken
  BY DEF CommitDuplicate
<1>3. d \in Duplication
  BY <1>1, <1>2, AskKinds
<1>4. /\ d.new \in Meets /\ S \in SUBSET SourceIds /\ (\A s \in S : d.rows[s] \in Source)
      /\ DOMAIN d.regions \subseteq SourceIds /\ \A s \in DOMAIN d.regions : d.regions[s] \in BOOLEAN
  BY <1>2, <1>3, DuplicationShape
<1>5. /\ meet[d.new] = "unused" /\ CopiesOwned(d) /\ ReadAsOne(d) /\ DOMAIN d.regions \subseteq S
      /\ \A q \in Asking("duplicate") : q # r => asking[q].new # d.new
  BY <1>2 DEF AirInv, DuplicatesKnow
<1>6. last \in Nat
  BY <1>1 DEF AirTypeOK
<1>7. /\ Cardinality(S) \in Nat
      /\ \A s \in S : n(s) \in Nat /\ n(s) > last /\ n(s) <= last + Cardinality(S)
      /\ \A s, t \in S : n(s) = n(t) => s = t
  BY <1>4, <1>6, NewIds
<1> HIDE DEF n
<1>8. \A s \in S : n(s) \in SourceIds
  BY <1>2, <1>6, <1>7, SourcesAssumption DEF SourceIds
<1>9. \A s \in Listed : s \in SourceIds /\ s <= last /\ s \notin New
  <2>1. \A s \in Listed : s \in SourceIds /\ s <= last
    BY <1>1, ListedIds DEF AirInv, IdsUsed
  <2> QED
    BY <1>6, <1>7, <2>1, SourcesAssumption DEF SourceIds
<1>10. ASSUME NEW s \in S PROVE source'[n(s)] = d.rows[s] /\ (s \in DOMAIN d.regions => region'[n(s)] = d.regions[s])
  <2>1. (CHOOSE t \in S : n(t) = n(s)) = s
    BY <1>7
  <2> QED
    BY <1>2, <1>8, <2>1
<1>11. \A i \in SourceIds \ New : source'[i] = source[i] /\ region'[i] = region[i]
  BY <1>2, <1>5
<1>12. ASSUME NEW s \in S, s \notin DOMAIN d.regions PROVE region'[n(s)] = None
  <2>1. n(s) \notin Listed /\ n(s) \in SourceIds
    BY <1>8, <1>9
  <2>2. region[n(s)] = None
    BY <1>1, <2>1, RowsThere DEF Listed
  <2>3. ~\E t \in DOMAIN d.regions : n(t) = n(s)
    BY <1>5, <1>7, <1>12
  <2> QED
    BY <1>2, <2>1, <2>2, <2>3
<1>13. Listed' = Listed \cup New
  <2>1. \A s \in S : source'[n(s)] # None
    BY <1>4, <1>10, AskAssumption
  <2> QED
    BY <1>8, <1>11, <2>1 DEF Listed
<1>14. \A s \in Listed : source'[s] = source[s] /\ region'[s] = region[s] /\ (s \in torn' => s \in torn)
  <2> SUFFICES ASSUME NEW s \in Listed
               PROVE  source'[s] = source[s] /\ region'[s] = region[s] /\ (s \in torn' => s \in torn)
    OBVIOUS
  <2>1. s \in SourceIds \ New
    BY <1>9
  <2>2. {n(t) : t \in d.apart \cap S} \subseteq New
    OBVIOUS
  <2>3. source'[s] = source[s] /\ region'[s] = region[s]
    BY <1>11, <2>1
  <2>4. torn' = torn \cup {n(t) : t \in d.apart \cap S}
    BY <1>2
  <2> HIDE DEF New
  <2> QED
    BY <2>1, <2>2, <2>3, <2>4
<1>15. \A q \in Asking("duplicate") \ {r} : meet'[asking[q].new] = meet[asking[q].new]
  <2> SUFFICES ASSUME NEW q \in Asking("duplicate") \ {r} PROVE meet'[asking[q].new] = meet[asking[q].new]
    OBVIOUS
  <2>1. asking[q] \in Duplication
    BY <1>1, AskKinds
  <2>2. asking[q].new \in Meets /\ asking[q].new # d.new
    BY <1>5, <2>1, DuplicationShape
  <2> QED
    BY <1>1, <1>2, <2>2 DEF AirTypeOK
<1>16. /\ AskTyped' /\ ChangesKnow' /\ DeletionsKnow' /\ UploadsStored' /\ DuplicatesKnow'
       /\ Withdrawing' = {asking[q].id : q \in Asking("delete") \ {r}}
  BY <1>2, <1>13, <1>14, <1>15, DoneKnows
<1>17. Withdrawing' = Withdrawing
  BY <1>2, <1>16 DEF Withdrawing, Asking
<1>18. /\ meet' \in [Meets -> {"unused", "there", "gone"}] /\ meet'[d.new] = "there"
       /\ \A e \in Meets : meet[e] = "there" => meet'[e] = "there"
  BY <1>1, <1>2, <1>4 DEF AirTypeOK
<1>19. ASSUME NEW s \in S
       PROVE  /\ source'[n(s)] \in Source /\ source'[n(s)].of = d.new /\ source'[n(s)].copied
              /\ source'[n(s)].at \notin taken => source'[n(s)].at \in disk /\ source'[n(s)].at = <<d.new, s>>
  BY <1>4, <1>5, <1>10 DEF CopiesOwned
<1>20. AirTypeOK'
  <2>1. \A q \in Requests : asking'[q] # None =>
              \/ asking'[q] \in Uploads \cup Changes \cup Deletions
              \/ \E U, T \in SUBSET SourceIds : asking'[q] \in Duplications(U, T)
    BY <1>16, AskingSome DEF AskTyped
  <2>2. source' \in [SourceIds -> Source \cup {None}]
    <3>1. \A i \in SourceIds : source'[i] \in Source \cup {None}
      BY <1>1, <1>11, <1>19 DEF AirTypeOK
    <3>2. source' = [i \in SourceIds |-> source'[i]]
      BY <1>2
    <3> QED
      BY <3>1, <3>2
  <2>3. region' \in [SourceIds -> BOOLEAN \cup {None}]
    <3>1. ASSUME NEW i \in SourceIds PROVE region'[i] \in BOOLEAN \cup {None}
      <4>1. CASE i \notin New
        BY <1>1, <1>11, <4>1 DEF AirTypeOK
      <4>2. ASSUME NEW s \in S, i = n(s) PROVE region'[i] \in BOOLEAN \cup {None}
        BY <1>4, <1>10, <1>12, <4>2
      <4> QED
        BY <4>1, <4>2
    <3>2. region' = [i \in SourceIds |-> region'[i]]
      BY <1>2
    <3> QED
      BY <3>1, <3>2
  <2>4. ASSUME NEW i \in SourceIds
        PROVE  /\ region'[i] # None => source'[i] # None
               /\ source'[i] # None => meet'[source'[i].of] = "there"
    <3>1. CASE i \in New
      <4>1. PICK s \in S : i = n(s)
        BY <3>1
      <4>2. source'[i] # None /\ source'[i].of = d.new
        BY <1>19, <4>1, AskAssumption
      <4> QED
        BY <1>18, <4>2
    <3>2. CASE i \notin New
      <4>1. source'[i] = source[i] /\ region'[i] = region[i]
        BY <1>11, <3>2
      <4>2. (region[i] # None => source[i] # None) /\ (source[i] # None => meet[source[i].of] = "there")
        BY <1>1, RowsThere
      <4>3. source[i] # None => source[i].of \in Meets
        BY <1>1, ListedIds DEF Listed, Source
      <4> QED
        BY <1>18, <4>1, <4>2, <4>3
    <3> QED
      BY <3>1, <3>2
  <2>5. torn' \subseteq SourceIds
    BY <1>1, <1>2, <1>8 DEF AirTypeOK
  <2>6. last' \in 0..MaxSources
    BY <1>2, <1>6, <1>7, SourcesAssumption
  <2>7. disk' \subseteq Paths /\ taken' \subseteq Paths /\ asked' \in 0..MaxAsked
    BY <1>1, <1>2 DEF AirTypeOK
  <2> QED
    BY <1>18, <2>1, <2>2, <2>3, <2>4, <2>5, <2>6, <2>7 DEF AirTypeOK
<1>21. IdsUsed'
  <2>1. \A i \in Listed' : i <= last'
    BY <1>2, <1>6, <1>7, <1>9, <1>13, SourcesAssumption DEF SourceIds
  <2> QED
    BY <2>1 DEF IdsUsed
<1>22. PathsKnown'
  <2> SUFFICES ASSUME NEW i \in Listed', source'[i].at \notin taken
               PROVE  /\ source'[i].copied => \E j \in SourceIds : source'[i].at = <<source'[i].of, j>>
                      /\ ~source'[i].copied => source'[i].at \in Texts
    BY <1>2 DEF PathsKnown
  <2>1. CASE i \in Listed
    BY <1>14, <2>1 DEF AirInv, PathsKnown
  <2>2. CASE i \in New
    <3>1. PICK s \in S : i = n(s)
      BY <2>2
    <3>2. s \in SourceIds
      BY <1>4
    <3> QED
      BY <1>19, <3>1, <3>2
  <2> QED
    BY <1>13, <2>1, <2>2
<1>23. TakenOrThere'
  <2> SUFFICES ASSUME NEW i \in Listed', i \notin Withdrawing PROVE source'[i].at \in disk \cup taken
    BY <1>2, <1>17 DEF TakenOrThere
  <2>1. CASE i \in Listed
    BY <1>14, <2>1 DEF AirInv, TakenOrThere
  <2>2. CASE i \in New
    BY <1>19, <2>2
  <2> QED
    BY <1>13, <2>1, <2>2
<1>24. CopyOfItsOwn'
  <2> SUFFICES ASSUME NEW i \in Listed', NEW j \in Listed', i # j, source'[i].at = source'[j].at, source'[i].copied,
                      source'[i].at \notin taken
               PROVE  FALSE
    BY <1>2 DEF CopyOfItsOwn
  <2>1. ASSUME NEW k \in Listed, source[k].at \notin taken, NEW s \in S PROVE source[k].at # <<d.new, s>>
    <3>1. source[k].of \in Meets /\ meet[source[k].of] = "there"
      BY <1>1, ListedIds, RowsThere DEF Listed, Source
    <3>2. source[k].of # d.new
      BY <1>5, <3>1
    <3>3. CASE source[k].copied
      <4>1. PICK m \in SourceIds : source[k].at = <<source[k].of, m>>
        BY <2>1, <3>3 DEF AirInv, PathsKnown
      <4> QED
        BY <3>2, <4>1
    <3>4. CASE ~source[k].copied
      <4>1. source[k].at \in Texts
        BY <2>1, <3>4 DEF AirInv, PathsKnown
      <4>2. <<d.new, s>> \in Meets \X SourceIds
        BY <1>4
      <4> QED
        BY <4>1, <4>2, PathsAssumption
    <3> QED
      BY <3>3, <3>4
  <2>2. CASE i \in Listed /\ j \in Listed
    BY <1>14, <2>2 DEF AirInv, CopyOfItsOwn
  <2>3. ASSUME NEW s \in S, i = n(s) PROVE FALSE
    <3>1. source'[i].at = <<d.new, s>>
      BY <1>19, <2>3
    <3>2. j \notin Listed
      BY <1>14, <2>1, <3>1
    <3>3. PICK t \in S : j = n(t)
      BY <1>13, <3>2
    <3>4. source'[j].at = <<d.new, t>>
      BY <1>19, <3>3
    <3> QED
      BY <2>3, <3>1, <3>3, <3>4
  <2>4. ASSUME i \in Listed, NEW t \in S, j = n(t) PROVE FALSE
    <3>1. source'[j].at = <<d.new, t>>
      BY <1>19, <2>4
    <3> QED
      BY <1>14, <2>1, <2>4, <3>1
  <2> QED
    BY <1>13, <2>2, <2>3, <2>4
<1>25. DrawnAsListed'
  <2> SUFFICES ASSUME NEW i \in Listed', i \notin torn' PROVE region'[i] = (source'[i].kind = "restricted_field")
    BY DEF DrawnAsListed
  <2>1. CASE i \in Listed
    <3>1. i \notin torn
      BY <1>2
    <3>2. region[i] = (source[i].kind = "restricted_field")
      BY <2>1, <3>1 DEF AirInv, DrawnAsListed
    <3> QED
      BY <1>14, <2>1, <3>2
  <2>2. ASSUME NEW s \in S, i = n(s) PROVE region'[i] = (source'[i].kind = "restricted_field")
    <3>1. s \notin d.apart
      BY <1>2, <2>2
    <3>2. s \in DOMAIN d.regions /\ d.regions[s] = (d.rows[s].kind = "restricted_field")
      BY <1>2, <1>5, <3>1 DEF ReadAsOne
    <3> QED
      BY <1>10, <2>2, <3>2
  <2> QED
    BY <1>13, <2>1, <2>2
<1> QED
  BY <1>16, <1>20, <1>21, <1>22, <1>23, <1>24, <1>25 DEF AirInv

\* What the other requests know when r is done, and with it the rows of S.
LEMMA CrossedKnow ==
    ASSUME AirInv, NEW r, NEW S \in SUBSET SourceIds, asking' = DoneCrossing(r, S), UNCHANGED <<disk, taken>>,
           \A s \in Listed \ S : /\ s \in Listed' /\ source'[s] = source[s] /\ region'[s] = region[s]
                                 /\ s \in torn' => s \in torn,
           \A q \in Asking("delete") \ {r} :
              asking[q].id \in Listed' /\ source'[asking[q].id].at = source[asking[q].id].at,
           \A q \in Asking("duplicate") \ {r} : meet'[asking[q].new] = meet[asking[q].new]
    PROVE  /\ AskTyped' /\ ChangesKnow' /\ DeletionsKnow' /\ UploadsStored' /\ DuplicatesKnow'
           /\ Withdrawing' = {asking[q].id : q \in Asking("delete") \ {r}}
<1>1. /\ AskTyped' /\ \A op : Asking(op)' = Asking(op) \ {r}
      /\ \A q \in (Asking("upload") \cup Asking("delete")) \ {r} : asking'[q] = asking[q]
  BY CrossingFrame DEF AirInv
<1>2. \A q \in Asking("change") \ {r} :
         /\ asking'[q].id = asking[q].id /\ asking'[q].was = asking[q].was
         /\ asking'[q].kind = asking[q].kind /\ asking'[q].seen = asking[q].seen
         /\ ~asking'[q].crossed => ~asking[q].crossed /\ asking[q].id \notin S
  BY CrossingFrame DEF AirInv
<1>3. \A q \in Asking("duplicate") \ {r} :
         /\ asking'[q].of = asking[q].of /\ asking'[q].new = asking[q].new
         /\ asking'[q].rows = asking[q].rows /\ asking'[q].regions = asking[q].regions
         /\ asking[q].regions = None => asking'[q].apart = asking[q].apart \cup (S \cap DOMAIN asking[q].rows)
         /\ asking[q].regions # None => asking'[q].apart = asking[q].apart
  BY CrossingFrame DEF AirInv
<1>4. disk' = disk /\ taken' = taken
  OBVIOUS
<1>5. ChangesKnow'
  <2> SUFFICES ASSUME NEW q \in Asking("change") \ {r} PROVE ChangeKnows(asking[q])'
    BY <1>1 DEF ChangesKnow
  <2>1. ChangeKnows(asking[q])
    BY DEF AirInv, ChangesKnow
  <2> QED
    BY <1>2, <2>1 DEF ChangeKnows
<1>6. DeletionsKnow'
  BY <1>1 DEF AirInv, DeletionsKnow
<1>7. UploadsStored'
  BY <1>1, <1>4 DEF AirInv, UploadsStored
<1>8. DuplicatesKnow'
  <2>1. ASSUME NEW q \in Asking("duplicate") \ {r} PROVE CopiesOwned(asking[q])' /\ ReadAsOne(asking[q])'
    <3>1. CopiesOwned(asking[q]) /\ ReadAsOne(asking[q])
      BY DEF AirInv, DuplicatesKnow
    <3>2. CopiesOwned(asking[q])'
      BY <1>3, <1>4, <3>1 DEF CopiesOwned
    <3>3. CASE asking[q].regions = None
      <4>1. ASSUME NEW s \in DOMAIN asking'[q].rows \ asking'[q].apart
            PROVE  s \in SourcesOf(asking[q].of)' /\ s \notin torn' /\ source'[s].kind = asking'[q].rows[s].kind
        <5>1. s \in DOMAIN asking[q].rows \ asking[q].apart /\ s \notin S
          BY <1>3, <3>3
        <5>2. s \in SourcesOf(asking[q].of) /\ s \notin torn /\ source[s].kind = asking[q].rows[s].kind
          BY <3>1, <3>3, <5>1 DEF ReadAsOne
        <5>3. s \in Listed \ S
          BY <5>1, <5>2 DEF SourcesOf
        <5> QED
          BY <1>3, <5>2, <5>3 DEF SourcesOf
      <4>2. asking'[q].regions = None
        BY <1>3, <3>3
      <4> QED
        BY <3>2, <4>1, <4>2 DEF ReadAsOne
    <3>4. CASE asking[q].regions # None
      <4>1. /\ asking'[q].rows = asking[q].rows /\ asking'[q].regions = asking[q].regions
            /\ asking'[q].apart = asking[q].apart
        BY <1>3, <3>4
      <4>2. ASSUME NEW s \in DOMAIN asking'[q].rows \ asking'[q].apart
            PROVE  /\ s \in DOMAIN asking'[q].regions
                   /\ asking'[q].regions[s] = (asking'[q].rows[s].kind = "restricted_field")
        <5>1. s \in DOMAIN asking[q].rows \ asking[q].apart
          BY <4>1
        <5>2. s \in DOMAIN asking[q].regions /\ asking[q].regions[s] = (asking[q].rows[s].kind = "restricted_field")
          BY <3>1, <3>4, <5>1 DEF ReadAsOne
        <5> QED
          BY <4>1, <5>2
      <4> QED
        BY <3>2, <3>4, <4>1, <4>2 DEF ReadAsOne
    <3> QED
      BY <3>2, <3>3, <3>4
  <2> QED
    BY <1>1, <1>3, <2>1 DEF AirInv, DuplicatesKnow
<1>9. Withdrawing' = {asking[q].id : q \in Asking("delete") \ {r}}
  BY <1>1 DEF Withdrawing
<1> QED
  BY <1>1, <1>5, <1>6, <1>7, <1>8, <1>9

LEMMA CommitChangeKeeps == ASSUME AirInv, NEW r \in Requests, CommitChange(r) PROVE AirInv'
<1> DEFINE c == asking[r]
           i == asking[r].id
           marked == Restricted(c.kind, c.seen)
<1>1. AirTypeOK /\ AskTyped
  BY DEF AirInv
<1>2. /\ r \in Asking("change") /\ c.seen # None /\ i \in Listed \ Withdrawing
      /\ source' = (IF c.kind = c.was THEN source ELSE [source EXCEPT ![i].kind = c.kind])
      /\ region' = (IF marked = c.seen THEN region ELSE [region EXCEPT ![i] = marked])
      /\ torn' = (IF c.crossed THEN torn \cup {i} ELSE torn)
      /\ asking' = DoneCrossing(r, {i})
      /\ meet' = meet /\ disk' = disk /\ asked' = asked /\ last' = last /\ taken' = taken
  BY DEF CommitChange
<1>3. c \in Changes /\ ChangeKnows(c)
  BY <1>1, <1>2, AskKinds DEF AirInv, ChangesKnow
<1>4. c.kind \in Kinds /\ c.seen \in BOOLEAN /\ marked \in BOOLEAN /\ marked = (c.kind = "restricted_field")
  BY <1>2, <1>3 DEF Changes, Restricted
<1>5. i \in SourceIds /\ source[i] \in Source
  BY <1>1, <1>2, ListedIds
<1> HIDE DEF marked
<1>6. /\ source' \in [SourceIds -> Source \cup {None}] /\ region' \in [SourceIds -> BOOLEAN \cup {None}]
      /\ \A s \in SourceIds \ {i} : source'[s] = source[s] /\ region'[s] = region[s]
  BY <1>1, <1>2, <1>4, <1>5 DEF AirTypeOK, Source
<1>7. /\ source'[i] \in Source /\ source'[i].of = source[i].of /\ source'[i].at = source[i].at
      /\ source'[i].copied = source[i].copied
  <2>1. CASE c.kind = c.was
    BY <1>2, <1>5, <2>1
  <2>2. CASE c.kind # c.was
    <3>1. source' = [source EXCEPT ![i] = [source[i] EXCEPT !.kind = c.kind]]
      BY <1>2, <2>2
    <3>2. source'[i] = [source[i] EXCEPT !.kind = c.kind]
      BY <1>1, <1>5, <3>1 DEF AirTypeOK
    <3> QED
      BY <1>4, <1>5, <3>2 DEF Source
  <2> QED
    BY <2>1, <2>2
<1>8. Listed' = Listed
  BY <1>2, <1>6, <1>7, AskAssumption DEF Listed
<1>9. \A s \in Listed : source'[s].of = source[s].of /\ source'[s].at = source[s].at /\ source'[s].copied = source[s].copied
  BY <1>6, <1>7, <1>8 DEF Listed
<1>10. \A q \in Asking("delete") : asking[q].id \in Listed
  BY DEF AirInv, DeletionsKnow
<1>11. \A s \in Listed \ {i} :
          /\ s \in Listed' /\ source'[s] = source[s] /\ region'[s] = region[s]
          /\ s \in torn' => s \in torn
  BY <1>2, <1>6, <1>8 DEF Listed
<1>12. /\ AskTyped' /\ ChangesKnow' /\ DeletionsKnow' /\ UploadsStored' /\ DuplicatesKnow'
       /\ Withdrawing' = {asking[q].id : q \in Asking("delete") \ {r}}
  <2>1. {i} \in SUBSET SourceIds
    BY <1>5
  <2>2. \A q \in Asking("delete") \ {r} :
           asking[q].id \in Listed' /\ source'[asking[q].id].at = source[asking[q].id].at
    BY <1>8, <1>9, <1>10
  <2> QED
    BY <1>2, <1>11, <2>1, <2>2, CrossedKnow
<1>13. Withdrawing' = Withdrawing
  BY <1>2, <1>12 DEF Withdrawing, Asking
<1>14. AirTypeOK'
  <2>1. \A q \in Requests : asking'[q] # None =>
              \/ asking'[q] \in Uploads \cup Changes \cup Deletions
              \/ \E S, T \in SUBSET SourceIds : asking'[q] \in Duplications(S, T)
    BY <1>12, AskingSome DEF AskTyped
  <2>2. ASSUME NEW s \in SourceIds
        PROVE  /\ region'[s] # None => source'[s] # None
               /\ source'[s] # None => meet'[source'[s].of] = "there"
    <3>1. (region[s] # None => source[s] # None) /\ (source[s] # None => meet[source[s].of] = "there")
      BY <1>1, RowsThere
    <3>2. CASE s = i
      BY <1>2, <1>5, <1>7, <3>1, <3>2, AskAssumption
    <3>3. CASE s # i
      <4>1. source'[s] = source[s] /\ region'[s] = region[s]
        BY <1>6, <3>3
      <4> QED
        BY <1>2, <3>1, <4>1
    <3> QED
      BY <3>2, <3>3
  <2>3. torn' \subseteq SourceIds
    BY <1>1, <1>2, <1>5 DEF AirTypeOK
  <2> QED
    BY <1>1, <1>2, <1>6, <2>1, <2>2, <2>3 DEF AirTypeOK
<1>15. IdsUsed' /\ PathsKnown' /\ TakenOrThere' /\ CopyOfItsOwn'
  BY <1>2, <1>8, <1>9, <1>13 DEF AirInv, IdsUsed, PathsKnown, TakenOrThere, CopyOfItsOwn
<1>16. DrawnAsListed'
  <2> SUFFICES ASSUME NEW s \in Listed, s \notin torn' PROVE region'[s] = (source'[s].kind = "restricted_field")
    BY <1>8 DEF DrawnAsListed
  <2>1. s \notin torn
    BY <1>2
  <2>2. region[s] = (source[s].kind = "restricted_field")
    BY <2>1 DEF AirInv, DrawnAsListed
  <2>3. CASE s # i
    BY <1>11, <2>2, <2>3
  <2>4. CASE s = i
    <3>1. source[i].kind = c.was /\ region[i] = c.seen
      BY <1>2, <1>3, <2>4 DEF ChangeKnows
    <3>2. source'[i].kind = c.kind
      BY <1>1, <1>2, <1>4, <1>5, <3>1 DEF AirTypeOK, Source
    <3>3. region'[i] = marked
      BY <1>1, <1>2, <1>5, <3>1 DEF AirTypeOK
    <3> QED
      BY <1>4, <2>4, <3>2, <3>3
  <2> QED
    BY <2>3, <2>4
<1> QED
  BY <1>12, <1>14, <1>15, <1>16 DEF AirInv

LEMMA CommitDeleteKeeps == ASSUME AirInv, NEW r \in Requests, CommitDelete(r) PROVE AirInv'
<1> DEFINE i == asking[r].id
<1>1. AirTypeOK /\ AskTyped
  BY DEF AirInv
<1>2. /\ r \in Asking("delete")
      /\ source' = [source EXCEPT ![i] = None] /\ region' = [region EXCEPT ![i] = None]
      /\ asking' = DoneCrossing(r, {i})
      /\ meet' = meet /\ disk' = disk /\ asked' = asked /\ last' = last /\ taken' = taken /\ torn' = torn
  BY DEF CommitDelete
<1>3. i \in Listed /\ \A q \in Asking("delete") : asking[q].id = i => q = r
  BY <1>2 DEF AirInv, DeletionsKnow
<1>4. i \in SourceIds
  BY <1>1, <1>3, ListedIds
<1> HIDE DEF i
<1>5. source'[i] = None /\ region'[i] = None
      /\ \A s \in SourceIds \ {i} : source'[s] = source[s] /\ region'[s] = region[s]
  BY <1>1, <1>2, <1>4 DEF AirTypeOK
<1>6. Listed' = Listed \ {i} /\ \A s \in Listed' : source'[s] = source[s] /\ region'[s] = region[s]
  BY <1>4, <1>5 DEF Listed
<1>7. \A q \in Asking("delete") \ {r} :
         asking[q].id \in Listed' /\ source'[asking[q].id].at = source[asking[q].id].at
  BY <1>3, <1>6 DEF AirInv, DeletionsKnow
<1>8. /\ AskTyped' /\ ChangesKnow' /\ DeletionsKnow' /\ UploadsStored' /\ DuplicatesKnow'
      /\ Withdrawing' = {asking[q].id : q \in Asking("delete") \ {r}}
  <2>1. {i} \in SUBSET SourceIds
    BY <1>4
  <2> QED
    BY <1>2, <1>6, <1>7, <2>1, CrossedKnow
<1>9. \A s \in Listed' : s \in Withdrawing => s \in Withdrawing'
  BY <1>6, <1>8 DEF Withdrawing, i
<1>10. AirTypeOK'
  <2>1. \A q \in Requests : asking'[q] # None =>
              \/ asking'[q] \in Uploads \cup Changes \cup Deletions
              \/ \E S, T \in SUBSET SourceIds : asking'[q] \in Duplications(S, T)
    BY <1>8, AskingSome DEF AskTyped
  <2>2. ASSUME NEW s \in SourceIds
        PROVE  /\ region'[s] # None => source'[s] # None
               /\ source'[s] # None => meet'[source'[s].of] = "there"
    <3>1. (region[s] # None => source[s] # None) /\ (source[s] # None => meet[source[s].of] = "there")
      BY <1>1, RowsThere
    <3>2. CASE s # i
      <4>1. source'[s] = source[s] /\ region'[s] = region[s]
        BY <1>5, <3>2
      <4> QED
        BY <1>2, <3>1, <4>1
    <3> QED
      BY <1>5, <3>2
  <2>3. source' \in [SourceIds -> Source \cup {None}] /\ region' \in [SourceIds -> BOOLEAN \cup {None}]
    BY <1>1, <1>2, <1>4 DEF AirTypeOK
  <2> QED
    BY <1>1, <1>2, <2>1, <2>2, <2>3 DEF AirTypeOK
<1>11. IdsUsed' /\ PathsKnown' /\ CopyOfItsOwn' /\ DrawnAsListed'
  BY <1>2, <1>6 DEF AirInv, IdsUsed, PathsKnown, CopyOfItsOwn, DrawnAsListed
<1>12. TakenOrThere'
  BY <1>2, <1>6, <1>9 DEF AirInv, TakenOrThere
<1> QED
  BY <1>8, <1>10, <1>11, <1>12 DEF AirInv

LEMMA DeleteMeetKeeps == ASSUME AirInv, NEW e \in Meets, DeleteMeet(e) PROVE AirInv'
<1> DEFINE S == SourcesOf(e)
<1>1. AirTypeOK /\ AskTyped
  BY DEF AirInv
<1>2. /\ meet[e] = "there" /\ S \cap Withdrawing = {} /\ asked < MaxAsked /\ asked' = asked + 1
      /\ meet' = [meet EXCEPT ![e] = "gone"]
      /\ source' = [s \in SourceIds |-> IF s \in S THEN None ELSE source[s]]
      /\ region' = [s \in SourceIds |-> IF s \in S THEN None ELSE region[s]]
      /\ asking' = DoneCrossing(None, S)
      /\ disk' = disk /\ last' = last /\ taken' = taken /\ torn' = torn
  BY DEF DeleteMeet, Cascade
<1>3. S \in SUBSET SourceIds /\ S \subseteq Listed
  BY DEF SourcesOf, Listed
<1>4. \A s \in Listed \ S : source[s].of # e
  BY DEF SourcesOf
<1>5. None \notin Requests
  BY AskAssumption
<1>6. \A op : Asking(op) \ {None} = Asking(op)
  BY <1>5 DEF Asking
<1> HIDE DEF S
<1>7. Listed' = Listed \ S /\ \A s \in Listed' : source'[s] = source[s] /\ region'[s] = region[s]
  BY <1>2, <1>3 DEF Listed
<1>8. \A q \in Asking("delete") : asking[q].id \in Listed' /\ source'[asking[q].id].at = source[asking[q].id].at
  BY <1>2, <1>7, SMTT(20) DEF AirInv, DeletionsKnow, Withdrawing
<1>9. \A q \in Asking("duplicate") : meet'[asking[q].new] = meet[asking[q].new]
  <2> SUFFICES ASSUME NEW q \in Asking("duplicate") PROVE meet'[asking[q].new] = meet[asking[q].new]
    OBVIOUS
  <2>1. asking[q].new \in Meets /\ meet[asking[q].new] = "unused"
    BY <1>1, AskKinds, DuplicationShape DEF AirInv, DuplicatesKnow
  <2> QED
    BY <1>1, <1>2, <2>1 DEF AirTypeOK
<1>10. /\ AskTyped' /\ ChangesKnow' /\ DeletionsKnow' /\ UploadsStored' /\ DuplicatesKnow'
       /\ Withdrawing' = {asking[q].id : q \in Asking("delete") \ {None}}
  <2>1. \A s \in Listed \ S : /\ s \in Listed' /\ source'[s] = source[s] /\ region'[s] = region[s]
                              /\ s \in torn' => s \in torn
    BY <1>2, <1>7
  <2> QED
    BY <1>2, <1>3, <1>6, <1>8, <1>9, <2>1, CrossedKnow
<1>11. Withdrawing' = Withdrawing
  BY <1>6, <1>10 DEF Withdrawing
<1>12. AirTypeOK'
  <2>1. \A q \in Requests : asking'[q] # None =>
              \/ asking'[q] \in Uploads \cup Changes \cup Deletions
              \/ \E U, T \in SUBSET SourceIds : asking'[q] \in Duplications(U, T)
    BY <1>10, AskingSome DEF AskTyped
  <2>2. ASSUME NEW s \in SourceIds
        PROVE  /\ region'[s] # None => source'[s] # None
               /\ source'[s] # None => meet'[source'[s].of] = "there"
    <3>1. (region[s] # None => source[s] # None) /\ (source[s] # None => meet[source[s].of] = "there")
      BY <1>1, RowsThere
    <3>2. CASE s \in S
      BY <1>2, <3>2
    <3>3. CASE s \notin S
      <4>1. source'[s] = source[s] /\ region'[s] = region[s]
        BY <1>2, <3>3
      <4>2. CASE source[s] # None
        <5>1. source[s].of \in Meets /\ source[s].of # e
          BY <1>1, <1>4, <3>3, <4>2, ListedIds DEF Listed, Source
        <5> QED
          BY <1>1, <1>2, <3>1, <4>1, <5>1 DEF AirTypeOK
      <4> QED
        BY <3>1, <4>1, <4>2
    <3> QED
      BY <3>2, <3>3
  <2>3. source' \in [SourceIds -> Source \cup {None}] /\ region' \in [SourceIds -> BOOLEAN \cup {None}]
    BY <1>1, <1>2 DEF AirTypeOK
  <2>4. meet' \in [Meets -> {"unused", "there", "gone"}] /\ asked' \in 0..MaxAsked
    BY <1>1, <1>2, SourcesAssumption DEF AirTypeOK
  <2> QED
    BY <1>1, <1>2, <2>1, <2>2, <2>3, <2>4 DEF AirTypeOK
<1>13. IdsUsed' /\ PathsKnown' /\ CopyOfItsOwn' /\ DrawnAsListed'
  <2>1. \A s \in Listed' : s \in Listed /\ source'[s] = source[s] /\ region'[s] = region[s]
    BY <1>7
  <2>2. IdsUsed'
    BY <1>2, <2>1 DEF AirInv, IdsUsed
  <2>3. PathsKnown'
    <3>1. taken' = taken
      BY <1>2
    <3> QED
      BY <2>1, <3>1 DEF AirInv, PathsKnown
  <2>4. CopyOfItsOwn'
    BY <1>2, <2>1 DEF AirInv, CopyOfItsOwn
  <2>5. DrawnAsListed'
    BY <1>2, <2>1 DEF AirInv, DrawnAsListed
  <2> QED
    BY <2>2, <2>3, <2>4, <2>5
<1>14. TakenOrThere'
  BY <1>2, <1>7, <1>11 DEF AirInv, TakenOrThere
<1> QED
  BY <1>10, <1>12, <1>13, <1>14 DEF AirInv

LEMMA AirNextKeeps == AirInv /\ [AirNext]_airvars => AirInv'
<1> SUFFICES ASSUME AirInv, [AirNext]_airvars PROVE AirInv'
  OBVIOUS
<1>1. ASSUME NEW r \in Requests, NEW e \in Meets, NEW c \in Texts, NEW k \in Kinds, Store(r, e, c, k) PROVE AirInv'
  BY <1>1, StoreKeeps
<1>2. ASSUME NEW r \in Requests, NEW s \in SourceIds, NEW k \in Kinds, BeginChange(r, s, k) PROVE AirInv'
  BY <1>2, BeginChangeKeeps
<1>3. ASSUME NEW r \in Requests, NEW s \in SourceIds, BeginDelete(r, s) PROVE AirInv'
  BY <1>3, BeginDeleteKeeps
<1>4. ASSUME NEW r \in Requests, NEW e \in Meets, NEW new \in Meets, BeginDuplicate(r, e, new) PROVE AirInv'
  BY <1>4, BeginDuplicateKeeps
<1>5. ASSUME NEW r \in Requests,
             \/ CommitUpload(r) \/ ReadRegions(r) \/ CommitChange(r) \/ RemoveFile(r) \/ CommitDelete(r)
             \/ ReadDuplicated(r) \/ CommitDuplicate(r) \/ AskFails(r)
      PROVE  AirInv'
  BY <1>5, CommitUploadKeeps, ReadRegionsKeeps, CommitChangeKeeps, RemoveFileKeeps, CommitDeleteKeeps,
     ReadDuplicatedKeeps, CommitDuplicateKeeps, AskFailsKeeps
<1>6. ASSUME NEW e \in Meets, DeleteMeet(e) PROVE AirInv'
  BY <1>6, DeleteMeetKeeps
<1>7. CASE UNCHANGED airvars
  BY <1>7
  DEF airvars, AirInv, AirTypeOK, AskTyped, IdsUsed, PathsKnown, ChangesKnow, ChangeKnows, DeletionsKnow,
      UploadsStored, DuplicatesKnow, CopiesOwned, ReadAsOne, TakenOrThere, CopyOfItsOwn, DrawnAsListed,
      Listed, SourcesOf, Asking, Withdrawing
<1> QED
  BY <1>1, <1>2, <1>3, <1>4, <1>5, <1>6, <1>7 DEF AirNext

\* routers/airspace.py and duplicate_event: every listed source has its file, unless a deletion
\* took one that others counted on; the file of a copy is nobody else's; and the regions are
\* drawn as the kind that is listed, unless changes of it, or one and a duplication, crossed.
THEOREM AirspaceAlwaysHolds == AirSpec => []AirspaceHolds
<1>1. AirInv => AirspaceHolds
  BY DEF AirInv, AirspaceHolds
<1> QED
  BY <1>1, AirInitHolds, AirNextKeeps, PTL DEF AirSpec
=============================================================================
