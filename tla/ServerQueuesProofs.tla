------------------------ MODULE ServerQueuesProofs ------------------------
(***************************************************************************)
(* Proofs about the server's two queues, for any branches, handlers,       *)
(* threads, events and scopes.  DeployQueue: a branch never has two        *)
(* deploys, so its script's lock is held by nobody but what a killed       *)
(* script left, and a push that somebody is to deploy is lost in the       *)
(* mishaps the property names and in no interleaving.  MeetStatsCache:     *)
(* the statistics go wrong only where a change and a refresh of the same   *)
(* event overlap: a refresh that has lost a payload was overlapped, and so *)
(* was a change that did not mark a fresh row.                             *)
(***************************************************************************)
EXTENDS DeployQueue, MeetStatsCache, FiniteSetTheorems, TLAPS

-----------------------------------------------------------------------------
(* The deploy queue                                                        *)

\* A thread, and a handler about to start one, work for a claimed branch.
WorkIsClaimed ==
    /\ \A t \in Threads : job[t] # None => active[job[t]]
    /\ \A r \in Requests : starting[r] # None => active[starting[r]]

\* A thread that holds a script's lock is running that script.
LockIsHeld ==
    \A b \in Branches, t \in Threads :
        flock[b] = t => job[t] = b /\ step[t] \in {"fetch", "build"}

\* OneDeployPerBranch, without the sets.
Alone ==
    /\ \A t, u \in Threads : job[t] # None /\ job[t] = job[u] => t = u
    /\ \A q, r \in Requests :
          starting[q] # None /\ starting[q] = starting[r] => q = r
    /\ \A t \in Threads, r \in Requests : job[t] # None => job[t] # starting[r]

IInv == TypeOK /\ WorkIsClaimed /\ LockIsHeld /\ Alone

-----------------------------------------------------------------------------
(* The inductive invariant *)

LEMMA InitInv == Init => IInv
  BY NoneAssumption, OrphanAssumption
     DEF Init, IInv, TypeOK, WorkIsClaimed, LockIsHeld, Alone

\* A push event claims a free branch, which nobody works for, or waits.
LEMMA DispatchInv ==
    ASSUME IInv, NEW r \in Requests, NEW b \in Branches, Dispatch(r, b)
    PROVE  IInv'
<1>1. CASE Busy(b)
  <2>1. /\ UNCHANGED <<active, starting, job, step, flock>>
        /\ queued' = [queued EXCEPT ![b] = TRUE]
        /\ owed' = [owed EXCEPT ![b] = TRUE]
    BY <1>1 DEF Dispatch
  <2>2. TypeOK'
    BY <2>1 DEF IInv, TypeOK
  <2>3. WorkIsClaimed' /\ LockIsHeld' /\ Alone'
    BY <2>1 DEF IInv, WorkIsClaimed, LockIsHeld, Alone
  <2> QED BY <2>2, <2>3 DEF IInv
<1>2. CASE ~Busy(b)
  <2> USE <1>2 DEF Dispatch, Busy, IInv
  <2>1. TypeOK'
    BY DEF TypeOK
  <2>2. WorkIsClaimed'
    BY DEF TypeOK, WorkIsClaimed
  <2>3. LockIsHeld'
    BY DEF LockIsHeld
  <2>4. Alone'
    BY NoneAssumption DEF TypeOK, WorkIsClaimed, Alone
  <2> QED BY <2>1, <2>2, <2>3, <2>4
<1> QED BY <1>1, <1>2

\* The thread takes over the branch from the handler that started it.
LEMMA StartThreadInv ==
    ASSUME IInv, NEW r \in Requests, NEW t \in Threads, StartThread(r, t)
    PROVE  IInv'
<1> USE DEF IInv, StartThread
<1>1. TypeOK'
  BY NoneAssumption DEF TypeOK
<1>2. WorkIsClaimed'
  BY DEF TypeOK, WorkIsClaimed
<1>3. LockIsHeld'
  BY DEF TypeOK, LockIsHeld
<1>4. Alone'
  BY NoneAssumption DEF TypeOK, Alone
<1> QED BY <1>1, <1>2, <1>3, <1>4

\* The steps of a thread that keeps its branch.
LEMMA ThreadInv ==
    ASSUME IInv, NEW t \in Threads,
           \/ Spawn(t) \/ SpawnFails(t) \/ Lock(t) \/ Refused(t) \/ Fetch(t)
           \/ ScriptExits(t) \/ TimeOut(t)
    PROVE  IInv'
<1> USE DEF IInv, GoOn
<1>1. CASE Spawn(t) \/ SpawnFails(t) \/ Refused(t)
  BY <1>1, NoneAssumption
     DEF TypeOK, WorkIsClaimed, LockIsHeld, Alone, Spawn, SpawnFails, Refused
<1>2. CASE Lock(t)
  <2>1. TypeOK' /\ WorkIsClaimed' /\ Alone'
    BY <1>2, NoneAssumption DEF TypeOK, WorkIsClaimed, Alone, Lock
  <2>2. LockIsHeld'
    BY <1>2, NoneAssumption, OrphanAssumption DEF TypeOK, LockIsHeld, Lock
  <2> QED BY <2>1, <2>2
<1>3. CASE Fetch(t)
  BY <1>3, NoneAssumption
     DEF TypeOK, WorkIsClaimed, LockIsHeld, Alone, Fetch
<1>4. CASE ScriptExits(t)
  <2>1. TypeOK' /\ WorkIsClaimed' /\ Alone'
    BY <1>4, NoneAssumption DEF TypeOK, WorkIsClaimed, Alone, ScriptExits
  <2>2. LockIsHeld'
    BY <1>4, NoneAssumption DEF TypeOK, LockIsHeld, ScriptExits
  <2> QED BY <2>1, <2>2
<1>5. CASE TimeOut(t)
  <2>1. TypeOK' /\ WorkIsClaimed' /\ Alone'
    BY <1>5, NoneAssumption DEF TypeOK, WorkIsClaimed, Alone, TimeOut
  <2>2. LockIsHeld'
    BY <1>5, NoneAssumption, OrphanAssumption DEF TypeOK, LockIsHeld, TimeOut
  <2> QED BY <2>1, <2>2
<1> QED BY <1>1, <1>2, <1>3, <1>4, <1>5

\* The end of a deploy: the branch is kept for the queued push, or let go.
LEMMA TakeNextInv ==
    ASSUME IInv, NEW t \in Threads, TakeNext(t) \/ FollowUpFails(t)
    PROVE  IInv'
<1> DEFINE b == job[t]
<1>1. b \in Branches
  BY NoneAssumption
     DEF IInv, TypeOK, TakeNext, FollowUpFails
<1>2. CASE /\ queued' = [queued EXCEPT ![b] = FALSE]
           /\ step' = [step EXCEPT ![t] = "spawn"]
           /\ step[t] = "next"
           /\ UNCHANGED <<active, starting, job, flock, owed>>
  BY <1>1, <1>2, NoneAssumption DEF IInv, TypeOK, WorkIsClaimed, LockIsHeld, Alone
<1>3. CASE /\ \/ /\ active' = [active EXCEPT ![b] = FALSE]
                 /\ queued' = queued
              \/ /\ active' = active
                 /\ queued' = [queued EXCEPT ![b] = FALSE]
           /\ job' = [job EXCEPT ![t] = None]
           /\ step' = [step EXCEPT ![t] = "idle"]
           /\ step[t] = "next"
           /\ UNCHANGED <<starting, flock, owed>>
  <2> USE <1>1, <1>3, NoneAssumption DEF IInv
  <2>1. TypeOK'
    BY DEF TypeOK
  <2>2. WorkIsClaimed'
    BY DEF TypeOK, WorkIsClaimed, Alone
  <2>3. LockIsHeld'
    BY DEF TypeOK, LockIsHeld
  <2>4. Alone'
    BY DEF TypeOK, Alone
  <2> QED BY <2>1, <2>2, <2>3, <2>4
<1>4. CASE TakeNext(t)
  BY <1>2, <1>3, <1>4 DEF TakeNext, ThreadReturns, Gone, PendingAfterPop
<1>5. CASE FollowUpFails(t)
  BY <1>3, <1>5 DEF FollowUpFails, ThreadReturns, Gone, PendingAfterPop
<1> QED BY <1>4, <1>5

LEMMA NextInv == IInv /\ [Next]_vars => IInv'
<1> SUFFICES ASSUME IInv, [Next]_vars PROVE IInv'
  OBVIOUS
<1>1. ASSUME NEW r \in Requests, NEW b \in Branches, Dispatch(r, b)
      PROVE  IInv'
  BY <1>1, DispatchInv
<1>2. ASSUME NEW r \in Requests, NEW t \in Threads, StartThread(r, t)
      PROVE  IInv'
  BY <1>2, StartThreadInv
<1>3. ASSUME NEW r \in Requests, StartFails(r)
      PROVE  IInv'
  BY <1>3 DEF IInv, TypeOK, WorkIsClaimed, LockIsHeld, Alone, StartFails
<1>4. ASSUME NEW t \in Threads,
             \/ Spawn(t) \/ SpawnFails(t) \/ Lock(t) \/ Refused(t) \/ Fetch(t)
             \/ ScriptExits(t) \/ TimeOut(t)
      PROVE  IInv'
  BY <1>4, ThreadInv
<1>5. ASSUME NEW t \in Threads, TakeNext(t) \/ FollowUpFails(t)
      PROVE  IInv'
  BY <1>5, TakeNextInv
<1>6. ASSUME NEW b \in Branches, OrphanEnds(b)
      PROVE  IInv'
  BY <1>6, NoneAssumption
     DEF IInv, TypeOK, WorkIsClaimed, LockIsHeld, Alone, OrphanEnds
<1>7. CASE Restart
  BY <1>7, NoneAssumption, OrphanAssumption
     DEF IInv, TypeOK, WorkIsClaimed, LockIsHeld, Alone, Restart
<1>8. CASE UNCHANGED vars
  BY <1>8 DEF IInv, TypeOK, WorkIsClaimed, LockIsHeld, Alone, vars
<1> QED BY <1>1, <1>2, <1>3, <1>4, <1>5, <1>6, <1>7, <1>8 DEF Next

LEMMA InvOneDeploy == IInv => OneDeployPerBranch
  BY NoneAssumption DEF IInv, Alone, OneDeployPerBranch

LEMMA InvRefused == IInv => RefusedOnlyByOrphan
  BY NoneAssumption
     DEF IInv, TypeOK, LockIsHeld, Alone, RefusedOnlyByOrphan

\* The state keeps its types, and a thread has a branch when it is not idle.
THEOREM TypeCorrect == Spec => []TypeOK
<1>1. IInv => TypeOK
  BY DEF IInv
<1> QED BY <1>1, InitInv, NextInv, PTL DEF Spec

\* However many threads and handlers there are, a branch has one deploy at a
\* time.
THEOREM OneDeploy == Spec => []OneDeployPerBranch
  BY InitInv, NextInv, InvOneDeploy, PTL DEF Spec

\* A script finds its lock taken only by the remains of a killed one.
THEOREM RefusalNeedsOrphan == Spec => []RefusedOnlyByOrphan
  BY InitInv, NextInv, InvRefused, PTL DEF Spec

-----------------------------------------------------------------------------
(* A push is lost only in a mishap *)

Mishap(b) ==
    \/ Restart
    \/ \E r \in Requests : StartFails(r)
    \/ \E t \in Threads :
          /\ job[t] = b
          /\ \/ SpawnFails(t) \/ FollowUpFails(t) \/ TimeOut(t)
             \/ ScriptExits(t)
             \/ Refused(t) /\ flock[b] = Orphan

\* A thread's step leaves alone what the others carry.
LEMMA OthersCarry ==
    ASSUME IInv, NEW b \in Branches, Carried(b),
           NEW t \in Threads, job[t] # b,
           UNCHANGED starting,
           queued'[b] = queued[b],
           \A u \in Threads \ {t} : job'[u] = job[u] /\ step'[u] = step[u]
    PROVE  Carried(b)'
  BY DEF Carried

\* The threads' steps that are no mishap of b leave its push carried.
LEMMA ThreadCarries ==
    ASSUME IInv, NEW b \in Branches, Carried(b), owed'[b], ~Mishap(b),
           NEW t \in Threads,
           \/ Spawn(t) \/ SpawnFails(t) \/ Lock(t) \/ Refused(t) \/ Fetch(t)
           \/ ScriptExits(t) \/ TimeOut(t) \/ TakeNext(t) \/ FollowUpFails(t)
    PROVE  Carried(b)'
<1>1. CASE job[t] # b
  <2>1. /\ UNCHANGED starting
        /\ queued'[b] = queued[b]
        /\ \A u \in Threads \ {t} : job'[u] = job[u] /\ step'[u] = step[u]
    BY <1>1, NoneAssumption
       DEF Spawn, SpawnFails, Lock, Refused, Fetch, ScriptExits, TimeOut,
           TakeNext, FollowUpFails, GoOn, ThreadReturns, IInv, TypeOK
  <2> QED BY <1>1, <2>1, OthersCarry
<1>2. CASE job[t] = b
  <2>1. \A r \in Requests : starting[r] # b
    BY <1>2, NoneAssumption DEF IInv, Alone
  <2>2. \A u \in Threads : job[u] = b => u = t
    BY <1>2, NoneAssumption DEF IInv, Alone
  <2>3. queued[b] \/ step[t] \in {"spawn", "lock", "fetch"}
    BY <2>1, <2>2 DEF Carried
  <2>4. CASE Spawn(t) \/ Lock(t)
    BY <1>2, <2>4 DEF Carried, Spawn, Lock, GoOn, IInv, TypeOK
  <2>5. CASE Refused(t)
    <3>1. flock[b] = Orphan
      BY <1>2, <2>5, InvRefused DEF Refused, GoOn, RefusedOnlyByOrphan
    <3> QED BY <1>2, <2>5, <3>1 DEF Mishap
  <2>6. CASE Fetch(t)
    BY <1>2, <2>6 DEF Fetch, IInv, TypeOK
  <2>7. CASE TakeNext(t)
    <3>1. queued[b] /\ step[t] = "next"
      BY <2>3, <2>7 DEF TakeNext
    <3>2. job'[t] = b /\ step'[t] = "spawn"
      BY <1>2, <2>7, <3>1 DEF TakeNext, FollowUp, IInv, TypeOK
    <3> QED BY <3>2 DEF Carried
  <2>8. CASE SpawnFails(t) \/ ScriptExits(t) \/ TimeOut(t) \/ FollowUpFails(t)
    BY <1>2, <2>8 DEF Mishap
  <2> QED BY <2>4, <2>5, <2>6, <2>7, <2>8
<1> QED BY <1>1, <1>2

LEMMA StepCarries ==
    ASSUME IInv, [Next]_vars, NEW b \in Branches, Carried(b), owed'[b],
           ~Mishap(b)
    PROVE  Carried(b)'
<1>1. ASSUME NEW r \in Requests, NEW c \in Branches, Dispatch(r, c)
      PROVE  Carried(b)'
  BY <1>1, NoneAssumption DEF Dispatch, Carried, IInv, TypeOK
<1>2. ASSUME NEW r \in Requests, NEW t \in Threads, StartThread(r, t)
      PROVE  Carried(b)'
  BY <1>2, NoneAssumption DEF StartThread, Carried, IInv, TypeOK
<1>3. ASSUME NEW r \in Requests, StartFails(r)
      PROVE  Carried(b)'
  BY <1>3 DEF Mishap
<1>4. ASSUME NEW t \in Threads,
             \/ Spawn(t) \/ SpawnFails(t) \/ Lock(t) \/ Refused(t) \/ Fetch(t)
             \/ ScriptExits(t) \/ TimeOut(t) \/ TakeNext(t) \/ FollowUpFails(t)
      PROVE  Carried(b)'
  BY <1>4, ThreadCarries
<1>5. ASSUME NEW c \in Branches, OrphanEnds(c)
      PROVE  Carried(b)'
  BY <1>5 DEF OrphanEnds, Carried
<1>6. CASE Restart
  BY <1>6 DEF Mishap
<1>7. CASE UNCHANGED vars
  BY <1>7 DEF vars, Carried
<1> QED BY <1>1, <1>2, <1>3, <1>4, <1>5, <1>6, <1>7 DEF Next

\* The lock of the queue leaves no interleaving of pushes and finishing
\* deploys in which an accepted push is forgotten.
THEOREM LossNeedsMishap == Spec => LostOnlyInMishap
<1> DEFINE Step == \A b \in Branches :
                      Carried(b) /\ owed'[b] /\ ~Carried(b)' => Mishap(b)
<1>1. IInv /\ [Next]_vars => Step
  BY StepCarries
<1>2. Step => \A b \in Branches :
         Carried(b) /\ owed'[b] /\ ~Carried(b)'
           => \/ Restart
              \/ \E r \in Requests : StartFails(r)
              \/ \E t \in Threads :
                    /\ job[t] = b
                    /\ \/ SpawnFails(t) \/ FollowUpFails(t) \/ TimeOut(t)
                       \/ ScriptExits(t)
                       \/ Refused(t) /\ flock[b] = Orphan
  BY DEF Mishap
<1> QED BY <1>1, <1>2, InitInv, NextInv, PTL DEF Spec, LostOnlyInMishap

-----------------------------------------------------------------------------
(* The queue implements DeployPromise *)

\* A step that leaves alone what is done for other branches than b.
Elsewhere(b) ==
    \A c \in Branches \ {b} : Run'[c] = Run[c] /\ queued'[c] = queued[c]

\* Whoever works for a branch has claimed it: the cases of Run.
LEMMA RunCases ==
    ASSUME IInv, NEW b \in Branches
    PROVE  /\ Run[b] \in {"none", "due", "past", "lost"}
           /\ Run[b] = "none" <=> ~active[b]
           /\ Run[b] = "due" <=> Due(b)
           /\ Run[b] = "past" <=> ~Due(b) /\ \E t \in Threads : job[t] = b
<1>1. Due(b) \/ (\E t \in Threads : job[t] = b) => active[b]
  BY NoneAssumption DEF IInv, WorkIsClaimed, Due
<1> QED BY <1>1 DEF Run

\* The functions that differ in one place.
LEMMA OnlyHere ==
    ASSUME NEW b \in Branches, Elsewhere(b), NEW v, Run'[b] = v
    PROVE  Run' = [Run EXCEPT ![b] = v]
<1>1. Run = [c \in Branches |-> Run[c]] /\ Run' = [c \in Branches |-> Run'[c]]
  BY DEF Run
<1> QED BY <1>1 DEF Elsewhere

LEMMA DispatchPushes ==
    ASSUME IInv, NEW r \in Requests, NEW b \in Branches, Dispatch(r, b)
    PROVE  Abstract!Push(b)
<1>1. IInv'
  BY DispatchInv
<1>2. CASE active[b]
  <2>1. Run' = Run
    BY <1>2 DEF Dispatch, Busy, Run, Due
  <2> QED BY <1>2, <2>1, RunCases DEF Dispatch, Busy, Abstract!Push
<1>3. CASE ~active[b]
  <2>1. starting' = [starting EXCEPT ![r] = b] /\ active' = [active EXCEPT ![b] = TRUE]
        /\ UNCHANGED <<queued, job, step>> /\ starting[r] = None
    BY <1>3 DEF Dispatch, Busy
  <2>2. Run'[b] = "due"
    BY <2>1, <1>1, RunCases DEF Due, Run, IInv, TypeOK
  <2>3. ASSUME NEW c \in Branches \ {b} PROVE Due(c)' <=> Due(c)
    BY <2>1, NoneAssumption DEF Due, IInv, TypeOK
  <2>4. Elsewhere(b)
    BY <2>1, <2>3 DEF Elsewhere, Run, IInv, TypeOK
  <2>5. Run[b] = "none"
    BY <1>3, RunCases
  <2> QED BY <2>1, <2>2, <2>4, <2>5, OnlyHere DEF Abstract!Push
<1> QED BY <1>2, <1>3

\* The handler has started its thread, or will not: the deploy is due, or lost.
LEMMA HandlerKeeps ==
    ASSUME IInv, NEW r \in Requests, StartFails(r) \/ \E t \in Threads : StartThread(r, t)
    PROVE  (Run' = Run /\ queued' = queued) \/ \E b \in Branches : Abstract!Lose(b)
<1>1. PICK b \in Branches : b = starting[r] /\ Run[b] = "due" /\ active[b]
  BY RunCases, NoneAssumption DEF StartFails, StartThread, IInv, TypeOK, Due, WorkIsClaimed
<1>2. ASSUME NEW t \in Threads, StartThread(r, t)
      PROVE  Run' = Run /\ queued' = queued
  <2>1. ASSUME NEW c \in Branches
        PROVE  /\ Due(c)' <=> Due(c)
               /\ c # b => ((\E u \in Threads : job'[u] = c) <=> \E u \in Threads : job[u] = c)
    BY <1>1, <1>2, NoneAssumption DEF StartThread, Due, IInv, TypeOK
  <2> QED BY <1>1, <1>2, <2>1, RunCases DEF StartThread, Run
<1>3. ASSUME StartFails(r)
      PROVE  Abstract!Lose(b)
  <2>1. ~Due(b)' /\ \A t \in Threads : job[t] # b
    BY <1>1, <1>3, NoneAssumption DEF StartFails, Due, IInv, TypeOK, Alone
  <2>2. Run'[b] = "lost"
    BY <1>1, <1>3, <2>1 DEF StartFails, Run
  <2>3. ASSUME NEW c \in Branches \ {b} PROVE Due(c)' <=> Due(c)
    BY <1>1, <1>3, NoneAssumption DEF StartFails, Due, IInv, TypeOK
  <2>4. Elsewhere(b)
    BY <1>3, <2>3 DEF StartFails, Elsewhere, Run
  <2> QED BY <1>1, <1>3, <2>2, <2>4, OnlyHere DEF StartFails, Abstract!Lose
<1> QED BY <1>1, <1>2, <1>3

\* What a deploy thread does with its script: nothing, or it has passed.
LEMMA ScriptPasses ==
    ASSUME IInv, NEW t \in Threads,
           \/ Spawn(t) \/ SpawnFails(t) \/ Lock(t) \/ Refused(t) \/ Fetch(t)
           \/ ScriptExits(t) \/ TimeOut(t)
    PROVE  (Run' = Run /\ queued' = queued) \/ \E b \in Branches : Abstract!Pass(b)
<1> DEFINE early(s) == s \in {"spawn", "lock", "fetch"}
<1>1. /\ step[t] \in {"spawn", "lock", "fetch", "build"}
      /\ step' = [step EXCEPT ![t] = step'[t]]
      /\ early(step'[t]) => early(step[t])
      /\ UNCHANGED <<active, queued, starting, job>>
  BY DEF Spawn, SpawnFails, Lock, Refused, Fetch, ScriptExits, TimeOut, GoOn, IInv, TypeOK
<1>2. PICK b \in Branches : b = job[t] /\ active[b]
  BY <1>1 DEF IInv, TypeOK, WorkIsClaimed
<1>3. ASSUME NEW c \in Branches \ {b} PROVE Due(c)' <=> Due(c)
  BY <1>1, <1>2, <1>3 DEF Due, IInv, TypeOK
<1>4. Elsewhere(b)
  BY <1>1, <1>3 DEF Elsewhere, Run
<1>5. CASE early(step[t]) <=> early(step'[t])
  <2>1. Due(b)' <=> Due(b)
    BY <1>1, <1>5 DEF Due, IInv, TypeOK
  <2>2. Run' = Run
    BY <1>1, <1>3, <2>1 DEF Run
  <2> QED BY <1>1, <2>2
<1>6. CASE early(step[t]) /\ ~early(step'[t])
  <2>1. \A r \in Requests : starting[r] # b
    BY <1>2, NoneAssumption DEF IInv, Alone
  <2>2. \A u \in Threads : job[u] = b => u = t
    BY <1>2, NoneAssumption DEF IInv, Alone
  <2>3. Due(b) /\ ~Due(b)'
    BY <1>1, <1>2, <1>6, <2>1, <2>2 DEF Due, IInv, TypeOK
  <2>4. Run[b] = "due" /\ Run'[b] = "past"
    BY <1>1, <1>2, <2>3 DEF Run
  <2> QED BY <1>1, <1>2, <1>4, <2>4, OnlyHere DEF Abstract!Pass
<1> QED BY <1>1, <1>5, <1>6

\* The end of a deploy thread's script ends the deploy, or its follow-up is lost.
LEMMA TakeNextEnds ==
    ASSUME IInv, NEW t \in Threads, TakeNext(t) \/ FollowUpFails(t)
    PROVE  \E b \in Branches : Abstract!End(b) \/ Abstract!Lose(b)
<1>1. step[t] = "next" /\ UNCHANGED starting
  BY DEF TakeNext, FollowUpFails
<1>2. PICK b \in Branches : b = job[t] /\ active[b]
  BY <1>1 DEF IInv, TypeOK, WorkIsClaimed
<1>3. \A r \in Requests : starting[r] # b
  BY <1>2, NoneAssumption DEF IInv, Alone
<1>4. \A u \in Threads : job[u] = b => u = t
  BY <1>2, NoneAssumption DEF IInv, Alone
<1>5. ~Due(b) /\ Run[b] = "past"
  BY <1>1, <1>2, <1>3, <1>4 DEF Due, Run
<1>6. CASE TakeNext(t) /\ queued[b]
  <2>1. /\ queued' = [queued EXCEPT ![b] = FALSE]
        /\ step' = [step EXCEPT ![t] = "spawn"]
        /\ UNCHANGED <<active, job>>
    BY <1>2, <1>6 DEF TakeNext, FollowUp, PendingAfterPop
  <2>2. Run'[b] = "due"
    BY <1>2, <2>1 DEF Run, Due, IInv, TypeOK
  <2>3. ASSUME NEW c \in Branches \ {b} PROVE Due(c)' <=> Due(c)
    BY <1>1, <1>2, <2>1 DEF Due, IInv, TypeOK
  <2>4. Elsewhere(b)
    BY <2>1, <2>3 DEF Elsewhere, Run, IInv, TypeOK
  <2> QED BY <1>2, <1>5, <1>6, <2>1, <2>2, <2>4, OnlyHere DEF Abstract!End
<1>7. CASE \/ TakeNext(t) /\ ~queued[b]
           \/ FollowUpFails(t)
  <2>1. /\ job' = [job EXCEPT ![t] = None]
        /\ step' = [step EXCEPT ![t] = "idle"]
    BY <1>2, <1>7 DEF TakeNext, FollowUpFails, FollowUp, ThreadReturns, Gone
  <2>2. ASSUME NEW c \in Branches \ {b}
        PROVE  /\ Due(c)' <=> Due(c)
               /\ (\E u \in Threads : job'[u] = c) <=> \E u \in Threads : job[u] = c
    BY <1>1, <1>2, <2>1, NoneAssumption DEF Due, IInv, TypeOK
  <2>3. ~Due(b)' /\ \A u \in Threads : job'[u] # b
    BY <1>1, <1>2, <1>3, <1>4, <2>1, NoneAssumption DEF Due, IInv, TypeOK
  <2>4. CASE TakeNext(t) /\ ~queued[b]
    <3>1. active' = [active EXCEPT ![b] = FALSE] /\ queued' = queued
      BY <1>2, <2>4 DEF TakeNext, FollowUp
    <3>2. Run'[b] = "none"
      BY <1>2, <3>1 DEF Run, IInv, TypeOK
    <3>3. Elsewhere(b)
      BY <2>2, <3>1 DEF Elsewhere, Run, IInv, TypeOK
    <3>4. queued' = [queued EXCEPT ![b] = FALSE]
      BY <1>2, <2>4, <3>1 DEF IInv, TypeOK
    <3> QED BY <1>2, <1>5, <2>4, <3>2, <3>3, <3>4, OnlyHere DEF Abstract!End
  <2>5. CASE FollowUpFails(t)
    <3>1. queued[b] /\ queued' = [queued EXCEPT ![b] = FALSE] /\ active' = active
      BY <1>2, <2>5 DEF FollowUpFails, FollowUp, PendingAfterPop
    <3>2. Run'[b] = "lost"
      BY <1>2, <2>3, <3>1 DEF Run
    <3>3. Elsewhere(b)
      BY <2>2, <3>1 DEF Elsewhere, Run, IInv, TypeOK
    <3> QED BY <1>2, <1>5, <3>1, <3>2, <3>3, OnlyHere DEF Abstract!Lose
  <2> QED BY <1>7, <2>4, <2>5
<1> QED BY <1>6, <1>7

LEMMA StepImplements ==
    ASSUME IInv, [Next]_vars
    PROVE  [Abstract!PromiseNext]_<<Run, queued>>
<1> USE DEF Abstract!PromiseNext
<1>1. ASSUME NEW r \in Requests, NEW b \in Branches, Dispatch(r, b)
      PROVE  [Abstract!PromiseNext]_<<Run, queued>>
  BY <1>1, DispatchPushes
<1>2. ASSUME NEW r \in Requests, StartFails(r) \/ \E t \in Threads : StartThread(r, t)
      PROVE  [Abstract!PromiseNext]_<<Run, queued>>
  BY <1>2, HandlerKeeps
<1>3. ASSUME NEW t \in Threads,
             \/ Spawn(t) \/ SpawnFails(t) \/ Lock(t) \/ Refused(t) \/ Fetch(t)
             \/ ScriptExits(t) \/ TimeOut(t)
      PROVE  [Abstract!PromiseNext]_<<Run, queued>>
  BY <1>3, ScriptPasses
<1>4. ASSUME NEW t \in Threads, TakeNext(t) \/ FollowUpFails(t)
      PROVE  [Abstract!PromiseNext]_<<Run, queued>>
  BY <1>4, TakeNextEnds
<1>5. ASSUME NEW b \in Branches, OrphanEnds(b)
      PROVE  [Abstract!PromiseNext]_<<Run, queued>>
  BY <1>5 DEF OrphanEnds, Run, Due
<1>6. CASE Restart
  <2>1. Run' = [b \in Branches |-> "none"]
    BY <1>6 DEF Restart, Run
  <2> QED BY <1>6, <2>1 DEF Restart, Abstract!Reset
<1>7. CASE UNCHANGED vars
  BY <1>7 DEF vars, Run, Due
<1> QED BY <1>1, <1>2, <1>3, <1>4, <1>5, <1>6, <1>7 DEF Next

\* For any branches, handlers and threads, every behaviour of the queue is one of
\* DeployPromise: a push is answered by a deploy or by one more after the present
\* one, and no interleaving makes two deploys of a branch or forgets the one owed.
THEOREM Implements == Spec => Abstract!PromiseSpec
<1>1. Init => Abstract!PromiseInit
  BY DEF Init, Abstract!PromiseInit, Run
<1>2. IInv /\ [Next]_vars => [Abstract!PromiseNext]_(Abstract!promiseVars)
  BY StepImplements DEF Abstract!promiseVars
<1> QED BY <1>1, <1>2, InitInv, NextInv, PTL DEF Spec, Abstract!PromiseSpec

-----------------------------------------------------------------------------
(* The cache of meet statistics                                            *)

\* StatsTypeOK without the bound on the queue.
Types ==
    /\ row \in [Events -> [Scopes -> Statuses]]
    /\ current \in [Events -> [Scopes -> BOOLEAN]]
    /\ pending \subseteq Events
    /\ jobs \in Seq(Events)
    /\ running \in Events \cup {NoEvent}
    /\ stage \in {"idle", "build", "store", "finish"}
    /\ cursor \in 1..NumScopes + 1
    /\ built \subseteq Scopes
    /\ pc \in [Clients -> {"idle", "invalidated", "queueing", "marking"}]
    /\ on \in [Clients -> Events \cup {NoEvent}]
    /\ scope \in [Viewers -> Scopes]
    /\ marks \in [Writers -> SUBSET Scopes]
    /\ seen \in [Viewers -> Statuses]
    /\ raced \subseteq Events

\* The thread has an event when it is not idle, a request when it is not idle,
\* and the scope whose payload is to be stored exists.
Shape ==
    /\ stage # "idle" => running \in Events
    /\ stage = "store" => cursor <= NumScopes
    /\ \A c \in Clients : pc[c] # "idle" => on[c] \in Events
    /\ \A w \in Writers : pc[w] # "marking"

\* A payload of the running refresh is outdated only if a change came between.
LostIsRaced ==
    \A s \in Scopes :
        /\ stage \in {"build", "store"} /\ s < cursor /\ s \notin built
             => running \in raced
        /\ stage = "store" /\ s = cursor /\ s \notin built => running \in raced

\* A row that a change has not marked became fresh while the change was open.
UnmarkedIsRaced ==
    \A w \in Writers, s \in Scopes :
        pc[w] = "invalidated" /\ row[on[w]][s] = "fresh" /\ s \notin marks[w]
          => on[w] \in raced

StatsInv ==
    /\ Types
    /\ Shape
    /\ LostIsRaced
    /\ UnmarkedIsRaced
    /\ WrongOnlyAfterOverlap

-----------------------------------------------------------------------------
LEMMA StatsInitInv == StatsInit => StatsInv
  BY NumScopesAssumption, ClientsAssumption
     DEF StatsInit, StatsInv, Types, Shape, LostIsRaced, UnmarkedIsRaced,
         WrongOnlyAfterOverlap, Wrong, Scopes, Clients, Statuses

\* Steps that touch neither the rows nor the refresh nor the open changes.
LEMMA QuietStep ==
    ASSUME StatsInv, Types', Shape',
           UNCHANGED <<row, current, running, stage, cursor, built, marks,
                       raced>>,
           \A w \in Writers : pc'[w] = "invalidated"
               => pc[w] = "invalidated" /\ on'[w] = on[w]
    PROVE  StatsInv'
  BY DEF StatsInv, LostIsRaced, UnmarkedIsRaced, WrongOnlyAfterOverlap, Wrong

\* A change that is open has marked every row that was fresh at its start.
LEMMA InvalidateInv ==
    ASSUME StatsInv, NEW w \in Writers, NEW e \in Events, Invalidate(w, e)
    PROVE  StatsInv'
<1> USE DEF Invalidate, StatsInv
<1>0. w \in Clients
  BY DEF Clients
<1>1. Types'
  BY <1>0 DEF Types, worker
<1>2. Shape'
  BY <1>0 DEF Types, Shape, worker
<1>3. LostIsRaced'
  BY DEF LostIsRaced, worker
<1>4. UnmarkedIsRaced'
  <2> SUFFICES ASSUME NEW v \in Writers, NEW s \in Scopes,
                      pc'[v] = "invalidated", row'[on'[v]][s] = "fresh",
                      s \notin marks'[v]
               PROVE  on'[v] \in raced'
    BY DEF UnmarkedIsRaced
  <2>1. CASE v = w
    <3>1. on'[v] = e /\ marks'[v] = {x \in Scopes : row[e][x] \notin LeftAsIs}
      BY <2>1, <1>0 DEF Types
    <3> QED BY <3>1 DEF LeftAsIs
  <2>2. CASE v # w
    <3>1. pc'[v] = pc[v] /\ on'[v] = on[v] /\ marks'[v] = marks[v]
      BY <2>2, <1>0 DEF Types, Clients
    <3> QED BY <3>1 DEF UnmarkedIsRaced
  <2> QED BY <2>1, <2>2
<1>5. WrongOnlyAfterOverlap'
  BY DEF WrongOnlyAfterOverlap, Wrong
<1> QED BY <1>1, <1>2, <1>3, <1>4, <1>5

\* What was fresh and unmarked is wrong after the change, and raced.
LEMMA CommitChangeInv ==
    ASSUME StatsInv, NEW w \in Writers, CommitChange(w)
    PROVE  StatsInv'
<1> DEFINE e == on[w]
<1>0. w \in Clients /\ e \in Events
  BY DEF Clients, CommitChange, StatsInv, Shape
<1>1. /\ row' = [row EXCEPT ![e] =
                   [s \in Scopes |-> IF s \in marks[w] THEN "stale" ELSE @[s]]]
      /\ current' = [current EXCEPT ![e] = [s \in Scopes |-> FALSE]]
      /\ built' = IF running = e THEN {} ELSE built
      /\ raced' = IF Refreshing(e) THEN raced \cup {e} ELSE raced
      /\ pc[w] = "invalidated"
      /\ pc' = [pc EXCEPT ![w] = "queueing"]
      /\ UNCHANGED <<pending, jobs, running, stage, cursor, on, scope, marks,
                     seen>>
  BY DEF CommitChange
<1>2. \A s \in Scopes : row'[e][s] = IF s \in marks[w] THEN "stale" ELSE row[e][s]
  BY <1>0, <1>1 DEF StatsInv, Types
<1>3. \A f \in Events : f # e => row'[f] = row[f] /\ current'[f] = current[f]
  BY <1>0, <1>1 DEF StatsInv, Types
<1>4. raced \subseteq raced'
  BY <1>1
<1>5. Types'
  <2>1. row' \in [Events -> [Scopes -> Statuses]]
    BY <1>0, <1>1 DEF StatsInv, Types, Statuses
  <2>2. current' \in [Events -> [Scopes -> BOOLEAN]]
    BY <1>0, <1>1 DEF StatsInv, Types
  <2>3. built' \subseteq Scopes /\ raced' \subseteq Events
    BY <1>0, <1>1 DEF StatsInv, Types
  <2> QED BY <1>0, <1>1, <2>1, <2>2, <2>3 DEF StatsInv, Types
<1>6. Shape'
  BY <1>0, <1>1 DEF StatsInv, Types, Shape
<1>7. LostIsRaced'
  BY <1>0, <1>1, <1>4 DEF StatsInv, LostIsRaced, Refreshing
<1>8. UnmarkedIsRaced'
  <2> SUFFICES ASSUME NEW v \in Writers, NEW s \in Scopes,
                      pc'[v] = "invalidated", row'[on[v]][s] = "fresh",
                      s \notin marks[v]
               PROVE  on[v] \in raced'
    BY <1>1 DEF UnmarkedIsRaced
  <2>1. v \in Clients /\ pc[v] = "invalidated"
    BY <1>0, <1>1 DEF StatsInv, Types, Clients
  <2>2. on[v] \in Events
    BY <2>1 DEF StatsInv, Shape
  <2>3. row[on[v]][s] = "fresh"
    BY <1>2, <1>3, <2>2
  <2> QED BY <1>4, <2>1, <2>3 DEF StatsInv, UnmarkedIsRaced
<1>9. WrongOnlyAfterOverlap'
  <2> SUFFICES ASSUME NEW f \in Events, NEW s \in Scopes, Wrong(f, s)'
               PROVE  f \in raced'
    BY DEF WrongOnlyAfterOverlap
  <2>1. CASE f = e
    <3>1. row[e][s] = "fresh" /\ s \notin marks[w]
      BY <1>2, <2>1 DEF Wrong
    <3> QED BY <1>1, <1>4, <2>1, <3>1 DEF StatsInv, UnmarkedIsRaced
  <2>2. CASE f # e
    BY <1>3, <1>4, <2>2 DEF Wrong, StatsInv, WrongOnlyAfterOverlap
  <2> QED BY <2>1, <2>2
<1> QED BY <1>5, <1>6, <1>7, <1>8, <1>9 DEF StatsInv

\* A viewer that writes a row leaves it not fresh.
LEMMA MarkInv ==
    ASSUME StatsInv, NEW v \in Viewers, MarkRefreshing(v)
    PROVE  StatsInv'
<1> DEFINE e == on[v]
           s == scope[v]
<1>0. v \in Clients /\ v \notin Writers /\ e \in Events /\ s \in Scopes
  BY ClientsAssumption DEF Clients, MarkRefreshing, StatsInv, Shape, Types
<1>1. /\ \/ /\ row' = [row EXCEPT ![e][s] = "refreshing"]
            /\ current' = [current EXCEPT ![e][s] = FALSE]
         \/ UNCHANGED <<row, current>>
      /\ pc' = [pc EXCEPT ![v] = "idle"]
      /\ on' = [on EXCEPT ![v] = NoEvent]
      /\ UNCHANGED <<pending, jobs, running, stage, cursor, built, scope,
                     marks, seen, raced>>
  BY DEF MarkRefreshing, Return, worker
<1>2. /\ row \in [Events -> [Scopes -> Statuses]]
      /\ current \in [Events -> [Scopes -> BOOLEAN]]
  BY DEF StatsInv, Types
<1>3. /\ row' \in [Events -> [Scopes -> Statuses]]
      /\ current' \in [Events -> [Scopes -> BOOLEAN]]
      /\ \A f \in Events, x \in Scopes :
           row'[f][x] = "fresh"
             => row[f][x] = "fresh" /\ current'[f][x] = current[f][x]
  <2>1. CASE UNCHANGED <<row, current>>
    BY <1>2, <2>1
  <2>2. CASE /\ row' = [row EXCEPT ![e][s] = "refreshing"]
             /\ current' = [current EXCEPT ![e][s] = FALSE]
    <3>1. /\ row' = [row EXCEPT ![e] = [row[e] EXCEPT ![s] = "refreshing"]]
          /\ current' = [current EXCEPT ![e] = [current[e] EXCEPT ![s] = FALSE]]
      BY <2>2
    <3>2. /\ [row[e] EXCEPT ![s] = "refreshing"] \in [Scopes -> Statuses]
          /\ [current[e] EXCEPT ![s] = FALSE] \in [Scopes -> BOOLEAN]
      BY <1>0, <1>2 DEF Statuses
    <3>3. /\ row' \in [Events -> [Scopes -> Statuses]]
          /\ current' \in [Events -> [Scopes -> BOOLEAN]]
      BY <1>0, <1>2, <3>1, <3>2
    <3> HIDE DEF e, s
    <3>4. ASSUME NEW f \in Events, NEW x \in Scopes
          PROVE  row'[f][x] = "fresh"
                   => row[f][x] = "fresh" /\ current'[f][x] = current[f][x]
      <4>1. CASE f = e /\ x = s
        BY <1>0, <1>2, <3>1, <4>1
      <4>2. CASE f = e /\ x # s
        BY <1>0, <1>2, <3>1, <4>2
      <4>3. CASE f # e
        BY <1>0, <1>2, <3>1, <4>3
      <4> QED BY <4>1, <4>2, <4>3
    <3> QED BY <3>3, <3>4
  <2> QED BY <1>1, <2>1, <2>2
<1>8. Types'
  BY <1>0, <1>1, <1>3 DEF StatsInv, Types
<1>4. Shape'
  BY <1>0, <1>1 DEF StatsInv, Types, Shape
<1>5. LostIsRaced'
  BY <1>1 DEF StatsInv, LostIsRaced
<1>6. UnmarkedIsRaced'
  <2> SUFFICES ASSUME NEW w \in Writers, NEW x \in Scopes,
                      pc'[w] = "invalidated", row'[on'[w]][x] = "fresh",
                      x \notin marks'[w]
               PROVE  on'[w] \in raced'
    BY DEF UnmarkedIsRaced
  <2>1. w \in Clients /\ pc[w] = "invalidated" /\ on'[w] = on[w]
    BY <1>0, <1>1 DEF StatsInv, Types, Clients
  <2>2. on[w] \in Events
    BY <2>1 DEF StatsInv, Shape
  <2> QED BY <1>1, <1>3, <2>1, <2>2 DEF StatsInv, UnmarkedIsRaced
<1>7. WrongOnlyAfterOverlap'
  BY <1>1, <1>3 DEF StatsInv, WrongOnlyAfterOverlap, Wrong
<1> QED BY <1>4, <1>5, <1>6, <1>7, <1>8 DEF StatsInv

-----------------------------------------------------------------------------
(* The refresh thread *)

LEMMA StartJobInv == StatsInv /\ StartJob => StatsInv'
<1> SUFFICES ASSUME StatsInv, StartJob PROVE StatsInv'
  OBVIOUS
<1> USE DEF StartJob, StatsInv, clients
<1>1. Head(jobs) \in Events /\ Tail(jobs) \in Seq(Events)
  BY DEF Types
<1>2. Types' /\ Shape'
  BY <1>1, NumScopesAssumption DEF Types, Shape
<1>3. LostIsRaced'
  BY DEF LostIsRaced, Scopes
<1>4. UnmarkedIsRaced' /\ WrongOnlyAfterOverlap'
  BY DEF UnmarkedIsRaced, WrongOnlyAfterOverlap, Wrong
<1> QED BY <1>2, <1>3, <1>4

\* The payload just built is that of the scope to be stored.
LEMMA BuildInv == StatsInv /\ Build => StatsInv'
<1> SUFFICES ASSUME StatsInv, Build PROVE StatsInv'
  OBVIOUS
<1> USE DEF Build, StatsInv, clients, AllStored
<1>1. cursor \in Scopes
  BY NumScopesAssumption DEF Types, Scopes
<1>2. Types' /\ Shape'
  BY <1>1, NumScopesAssumption DEF Types, Shape, Scopes
<1>3. LostIsRaced'
  BY DEF LostIsRaced
<1>4. UnmarkedIsRaced' /\ WrongOnlyAfterOverlap'
  BY DEF UnmarkedIsRaced, WrongOnlyAfterOverlap, Wrong
<1> QED BY <1>2, <1>3, <1>4

LEMMA StoreInv == StatsInv /\ Store => StatsInv'
<1> SUFFICES ASSUME StatsInv, Store PROVE StatsInv'
  OBVIOUS
<1> USE DEF Store, StatsInv, clients
<1>1. Types' /\ Shape'
  BY NumScopesAssumption DEF Types, Shape
<1>2. LostIsRaced'
  <2> SUFFICES ASSUME NEW s \in Scopes, s < cursor + 1, s \notin built
               PROVE  running \in raced
    BY DEF LostIsRaced
  <2>1. s < cursor \/ s = cursor
    BY NumScopesAssumption DEF Types, Scopes
  <2> QED BY <2>1 DEF LostIsRaced
<1>3. UnmarkedIsRaced' /\ WrongOnlyAfterOverlap'
  BY DEF UnmarkedIsRaced, WrongOnlyAfterOverlap, Wrong
<1> QED BY <1>1, <1>2, <1>3

\* The commit makes every row fresh: the outdated payloads are raced, and so
\* is every change that is open.
LEMMA CommitJobInv == StatsInv /\ CommitJob => StatsInv'
<1> SUFFICES ASSUME StatsInv, CommitJob PROVE StatsInv'
  OBVIOUS
<1>1. /\ running \in Events
      /\ stage = "build" /\ cursor > NumScopes
      /\ row' = [row EXCEPT ![running] = [s \in Scopes |-> "fresh"]]
      /\ current' = [current EXCEPT ![running] = [s \in Scopes |-> s \in built]]
      /\ stage' = "finish"
      /\ raced' = IF ChangeOpen(running) THEN raced \cup {running}
                  ELSE IF built = Scopes THEN raced \ {running} ELSE raced
      /\ UNCHANGED <<pending, jobs, running, cursor, built, pc, on, scope,
                     marks, seen>>
  BY DEF CommitJob, AllStored, clients, StatsInv, Shape
<1>2. \A s \in Scopes : row'[running][s] = "fresh"
                          /\ current'[running][s] = (s \in built)
  BY <1>1 DEF StatsInv, Types
<1>3. \A f \in Events : f # running => row'[f] = row[f] /\ current'[f] = current[f]
  BY <1>1 DEF StatsInv, Types
<1>4. \A f \in Events : f # running /\ f \in raced => f \in raced'
  BY <1>1
<1>5. Types'
  <2>1. row' \in [Events -> [Scopes -> Statuses]]
    BY <1>1 DEF StatsInv, Types, Statuses
  <2>2. current' \in [Events -> [Scopes -> BOOLEAN]]
    <3>1. [s \in Scopes |-> s \in built] \in [Scopes -> BOOLEAN]
      OBVIOUS
    <3> QED BY <1>1, <3>1 DEF StatsInv, Types
  <2> QED BY <1>1, <2>1, <2>2 DEF StatsInv, Types
<1>6. Shape' /\ LostIsRaced'
  BY <1>1 DEF StatsInv, Shape, LostIsRaced
<1>7. UnmarkedIsRaced'
  <2> SUFFICES ASSUME NEW w \in Writers, NEW s \in Scopes,
                      pc[w] = "invalidated", row'[on[w]][s] = "fresh",
                      s \notin marks[w]
               PROVE  on[w] \in raced'
    BY <1>1 DEF UnmarkedIsRaced
  <2>1. on[w] \in Events
    BY DEF StatsInv, Shape, Clients
  <2>2. CASE on[w] = running
    BY <1>1, <2>2 DEF ChangeOpen
  <2>3. CASE on[w] # running
    BY <1>3, <1>4, <2>1, <2>3 DEF StatsInv, UnmarkedIsRaced
  <2> QED BY <2>2, <2>3
<1>8. WrongOnlyAfterOverlap'
  <2> SUFFICES ASSUME NEW f \in Events, NEW s \in Scopes, Wrong(f, s)'
               PROVE  f \in raced'
    BY DEF WrongOnlyAfterOverlap
  <2>1. CASE f = running
    <3>1. s \notin built
      BY <1>2, <2>1 DEF Wrong
    <3>2. s < cursor
      BY <1>1, NumScopesAssumption DEF StatsInv, Types, Scopes
    <3>3. running \in raced
      BY <1>1, <3>1, <3>2 DEF StatsInv, LostIsRaced
    <3> QED BY <1>1, <2>1, <3>1, <3>3
  <2>2. CASE f # running
    BY <1>3, <1>4, <2>2 DEF Wrong, StatsInv, WrongOnlyAfterOverlap
  <2> QED BY <2>1, <2>2
<1> QED BY <1>5, <1>6, <1>7, <1>8 DEF StatsInv

LEMMA EndJobInv == StatsInv /\ (FailJob \/ FinishJob \/ ServerRestart) => StatsInv'
<1> SUFFICES ASSUME StatsInv, FailJob \/ FinishJob \/ ServerRestart PROVE StatsInv'
  OBVIOUS
<1> USE DEF FailJob, FinishJob, ServerRestart, Finished, clients, StatsInv
<1>1. 1 \in 1..NumScopes + 1
  BY NumScopesAssumption
<1>2. CASE FailJob
  <2>1. Types' /\ Shape'
    BY <1>2 DEF Types, Shape
  <2>2. LostIsRaced' /\ UnmarkedIsRaced' /\ WrongOnlyAfterOverlap'
    BY <1>2 DEF LostIsRaced, UnmarkedIsRaced, WrongOnlyAfterOverlap, Wrong
  <2> QED BY <2>1, <2>2
<1>3. CASE FinishJob
  <2>1. Types' /\ Shape'
    BY <1>1, <1>3 DEF Types, Shape
  <2>2. LostIsRaced' /\ UnmarkedIsRaced' /\ WrongOnlyAfterOverlap'
    BY <1>3 DEF LostIsRaced, UnmarkedIsRaced, WrongOnlyAfterOverlap, Wrong
  <2> QED BY <2>1, <2>2
<1>4. CASE ServerRestart
  <2>1. Types'
    BY <1>1, <1>4 DEF Types
  <2>2. Shape'
    BY <1>4 DEF Shape, Clients
  <2>3. LostIsRaced' /\ UnmarkedIsRaced' /\ WrongOnlyAfterOverlap'
    BY <1>4 DEF LostIsRaced, UnmarkedIsRaced, WrongOnlyAfterOverlap, Wrong, Clients
  <2> QED BY <2>1, <2>2, <2>3
<1> QED BY <1>2, <1>3, <1>4

-----------------------------------------------------------------------------
(* Requests that change no row *)

LEMMA RollBackInv ==
    ASSUME StatsInv, NEW w \in Writers, RollBack(w)
    PROVE  StatsInv'
<1>1. w \in Clients
  BY DEF Clients
<1>2. Types' /\ Shape'
  BY <1>1 DEF StatsInv, Types, Shape, RollBack, Return, worker
<1> QED BY <1>1, <1>2, QuietStep DEF RollBack, Return, worker, StatsInv, Types, Clients

LEMMA ViewInv ==
    ASSUME StatsInv, NEW v \in Viewers, NEW e \in Events, NEW s \in Scopes,
           View(v, e, s)
    PROVE  StatsInv'
<1>1. v \in Clients /\ v \notin Writers
  BY ClientsAssumption DEF Clients
<1>2. Types' /\ Shape'
  BY <1>1 DEF StatsInv, Types, Shape, View, worker
<1> QED BY <1>1, <1>2, QuietStep DEF View, worker, StatsInv, Types, Clients

LEMMA QueueInv ==
    ASSUME StatsInv, NEW c \in Clients, QueueRefresh(c)
    PROVE  StatsInv'
<1>1. on[c] \in Events
  BY DEF QueueRefresh, StatsInv, Shape
<1>2. Append(jobs, on[c]) \in Seq(Events)
  BY <1>1 DEF StatsInv, Types
<1>3. /\ pending' \subseteq Events /\ jobs' \in Seq(Events)
      /\ \/ c \in Viewers /\ pc' = [pc EXCEPT ![c] = "marking"] /\ on' = on
         \/ /\ pc' = [pc EXCEPT ![c] = "idle"]
            /\ on' = [on EXCEPT ![c] = NoEvent]
      /\ UNCHANGED <<row, current, running, stage, cursor, built, scope, marks,
                     seen, raced>>
  BY <1>1, <1>2 DEF QueueRefresh, Return, worker, StatsInv, Types
<1>4. Types'
  BY <1>3 DEF StatsInv, Types
<1>5. Shape'
  <2>1. CASE c \in Viewers /\ pc' = [pc EXCEPT ![c] = "marking"] /\ on' = on
    <3>1. c \notin Writers
      BY <2>1, ClientsAssumption
    <3>2. \A w \in Writers : pc'[w] = pc[w]
      BY <2>1, <3>1 DEF StatsInv, Types, Clients
    <3>3. \A d \in Clients : pc'[d] # "idle" => on'[d] \in Events
      BY <1>1, <2>1 DEF StatsInv, Types, Shape
    <3> QED BY <1>3, <3>2, <3>3 DEF StatsInv, Shape
  <2>2. CASE /\ pc' = [pc EXCEPT ![c] = "idle"]
             /\ on' = [on EXCEPT ![c] = NoEvent]
    <3>1. \A w \in Writers : pc'[w] # "marking"
      BY <2>2 DEF StatsInv, Types, Shape, Clients
    <3>2. \A d \in Clients : pc'[d] # "idle" => on'[d] \in Events
      BY <2>2 DEF StatsInv, Types, Shape
    <3> QED BY <1>3, <3>1, <3>2 DEF StatsInv, Shape
  <2> QED BY <1>3, <2>1, <2>2
<1> QED BY <1>3, <1>4, <1>5, QuietStep DEF StatsInv, Types, Clients

LEMMA StatsNextInv == StatsInv /\ [StatsNext]_statsvars => StatsInv'
<1> SUFFICES ASSUME StatsInv, [StatsNext]_statsvars PROVE StatsInv'
  OBVIOUS
<1>1. ASSUME NEW w \in Writers,
             \/ \E e \in Events : Invalidate(w, e)
             \/ CommitChange(w) \/ RollBack(w)
      PROVE  StatsInv'
  BY <1>1, InvalidateInv, CommitChangeInv, RollBackInv
<1>2. ASSUME NEW v \in Viewers,
             \/ \E e \in Events, s \in Scopes : View(v, e, s)
             \/ MarkRefreshing(v)
      PROVE  StatsInv'
  BY <1>2, ViewInv, MarkInv
<1>3. ASSUME NEW c \in Clients, QueueRefresh(c)
      PROVE  StatsInv'
  BY <1>3, QueueInv
<1>4. CASE StartJob \/ Build \/ Store \/ CommitJob
  BY <1>4, StartJobInv, BuildInv, StoreInv, CommitJobInv
<1>5. CASE FailJob \/ FinishJob \/ ServerRestart
  BY <1>5, EndJobInv
<1>6. CASE UNCHANGED statsvars
  BY <1>6 DEF statsvars, StatsInv, Types, Shape, LostIsRaced, UnmarkedIsRaced,
              WrongOnlyAfterOverlap, Wrong
<1> QED BY <1>1, <1>2, <1>3, <1>4, <1>5, <1>6 DEF StatsNext

\* However many requests, scopes and events there are, and whatever fails or
\* restarts, outdated statistics are marked fresh only after an overlap.
THEOREM WrongNeedsOverlap == StatsSpec => []WrongOnlyAfterOverlap
<1>1. StatsInv => WrongOnlyAfterOverlap
  BY DEF StatsInv
<1> QED BY <1>1, StatsInitInv, StatsNextInv, PTL DEF StatsSpec

-----------------------------------------------------------------------------
(* The queue.  PendingIsOneJob counts; what is inductive is that no event is *)
(* queued twice or while it runs, and that the pending set holds just what   *)
(* is queued and what runs.                                                  *)

Queued == {jobs[i] : i \in 1..Len(jobs)}
JobsOf(e) == {i \in 1..Len(jobs) : jobs[i] = e}

OneEach ==
    /\ stage = "idle" <=> running = NoEvent
    /\ \A i, j \in 1..Len(jobs) : jobs[i] = jobs[j] => i = j
    /\ running \notin Queued
    /\ pending = Queued \cup ({running} \ {NoEvent})

QInv == StatsInv /\ OneEach

\* Whatever the queue is, a job that was not in it is in it once when appended.
LEMMA AppendedOnce ==
    ASSUME NEW q \in Seq(Events), NEW e \in Events,
           \A i, j \in 1..Len(q) : q[i] = q[j] => i = j,
           \A i \in 1..Len(q) : q[i] # e
    PROVE  /\ \A i, j \in 1..Len(Append(q, e)) : Append(q, e)[i] = Append(q, e)[j] => i = j
           /\ {Append(q, e)[i] : i \in 1..Len(Append(q, e))} = {q[i] : i \in 1..Len(q)} \cup {e}
<1> DEFINE r == Append(q, e)
<1>1. /\ Len(r) = Len(q) + 1 /\ Len(q) \in Nat
      /\ \A i \in 1..Len(q) : r[i] = q[i]
      /\ r[Len(q) + 1] = e
  OBVIOUS
<1>2. \A i \in 1..Len(r) : i \in 1..Len(q) \/ i = Len(q) + 1
  BY <1>1
<1>3. \A i, j \in 1..Len(r) : r[i] = r[j] => i = j
  BY <1>1, <1>2
<1>4. {r[i] : i \in 1..Len(r)} \subseteq {q[i] : i \in 1..Len(q)} \cup {e}
  BY <1>1, <1>2
<1>5. {q[i] : i \in 1..Len(q)} \cup {e} \subseteq {r[i] : i \in 1..Len(r)}
  BY <1>1
<1> QED BY <1>3, <1>4, <1>5

\* The job taken from a queue that holds it once is not in it any more.
LEMMA TakenOnce ==
    ASSUME NEW q \in Seq(Events), q # <<>>,
           \A i, j \in 1..Len(q) : q[i] = q[j] => i = j
    PROVE  /\ \A i, j \in 1..Len(Tail(q)) : Tail(q)[i] = Tail(q)[j] => i = j
           /\ {Tail(q)[i] : i \in 1..Len(Tail(q))} = {q[i] : i \in 1..Len(q)} \ {Head(q)}
<1> DEFINE r == Tail(q)
<1>1. /\ Len(q) \in Nat \ {0} /\ Len(r) = Len(q) - 1
      /\ \A i \in 1..Len(r) : r[i] = q[i + 1]
      /\ Head(q) = q[1]
  OBVIOUS
<1>2. \A i \in 1..Len(r) : i + 1 \in 1..Len(q) /\ i + 1 # 1
  BY <1>1
<1>3. \A i, j \in 1..Len(r) : r[i] = r[j] => i = j
  BY <1>1, <1>2
<1>4. {r[i] : i \in 1..Len(r)} \subseteq {q[i] : i \in 1..Len(q)} \ {Head(q)}
  BY <1>1, <1>2
<1>5. ASSUME NEW x \in {q[i] : i \in 1..Len(q)} \ {Head(q)}
      PROVE  x \in {r[i] : i \in 1..Len(r)}
  <2>1. PICK i \in 1..Len(q) : x = q[i]
    OBVIOUS
  <2>2. i # 1 /\ i - 1 \in 1..Len(r)
    BY <1>1, <2>1
  <2>3. r[i - 1] = q[i]
    BY <1>1, <2>2
  <2> QED BY <2>1, <2>2, <2>3
<1> QED BY <1>3, <1>4, <1>5

LEMMA QInit == StatsInit => QInv
  BY StatsInitInv DEF StatsInit, QInv, OneEach, Queued

LEMMA QQueue ==
    ASSUME QInv, NEW c \in Clients, QueueRefresh(c)
    PROVE  OneEach'
<1> DEFINE e == on[c]
<1>1. e \in Events /\ jobs \in Seq(Events)
  BY DEF QInv, StatsInv, Types, Shape, QueueRefresh
<1>2. UNCHANGED <<running, stage>>
  BY DEF QueueRefresh, worker
<1>3. CASE e \in pending
  <2>1. UNCHANGED <<pending, jobs>>
    BY <1>3 DEF QueueRefresh, NeedsJob
  <2> QED BY <1>2, <2>1 DEF QInv, OneEach, Queued
<1>4. CASE e \notin pending
  <2>1. pending' = pending \cup {e} /\ jobs' = Append(jobs, e)
    BY <1>4 DEF QueueRefresh, NeedsJob
  <2>2. \A i \in 1..Len(jobs) : jobs[i] # e
    BY <1>4 DEF QInv, OneEach, Queued
  <2>3. running # e
    BY <1>1, <1>4, NoEventAssumption DEF QInv, OneEach
  <2>4. /\ \A i, j \in 1..Len(jobs') : jobs'[i] = jobs'[j] => i = j
        /\ Queued' = Queued \cup {e}
    BY <1>1, <2>1, <2>2, AppendedOnce DEF QInv, OneEach, Queued
  <2> QED BY <1>2, <2>1, <2>3, <2>4 DEF QInv, OneEach
<1> QED BY <1>3, <1>4

LEMMA QStart ==
    ASSUME QInv, StartJob
    PROVE  OneEach'
<1>1. jobs \in Seq(Events) /\ jobs # <<>> /\ Head(jobs) \in Events
  BY DEF QInv, StatsInv, Types, StartJob
<1>2. /\ running' = Head(jobs) /\ jobs' = Tail(jobs)
      /\ stage' = "build" /\ running = NoEvent /\ pending' = pending
  BY DEF StartJob, QInv, OneEach
<1>3. /\ \A i, j \in 1..Len(jobs') : jobs'[i] = jobs'[j] => i = j
      /\ Queued' = Queued \ {Head(jobs)}
  <2>1. \A i, j \in 1..Len(jobs) : jobs[i] = jobs[j] => i = j
    BY DEF QInv, OneEach
  <2>2. /\ \A i, j \in 1..Len(Tail(jobs)) : Tail(jobs)[i] = Tail(jobs)[j] => i = j
        /\ {Tail(jobs)[i] : i \in 1..Len(Tail(jobs))} = {jobs[i] : i \in 1..Len(jobs)} \ {Head(jobs)}
    BY <1>1, <2>1, TakenOnce, Zenon
  <2> QED BY <1>2, <2>2, Zenon DEF Queued
<1>4. Head(jobs) \in Queued
  BY <1>1 DEF Queued
<1> QED BY <1>1, <1>2, <1>3, <1>4, NoEventAssumption DEF QInv, OneEach

LEMMA QNext == QInv /\ [StatsNext]_statsvars => QInv'
<1> SUFFICES ASSUME QInv, [StatsNext]_statsvars PROVE OneEach'
  BY StatsNextInv DEF QInv
<1>1. ASSUME NEW c \in Clients, QueueRefresh(c) PROVE OneEach'
  BY <1>1, QQueue
<1>2. CASE StartJob
  BY <1>2, QStart
\* The refresh goes on or fails: its event stays the one that runs.
<1>3. CASE Build \/ Store \/ CommitJob \/ FailJob
  <2>1. UNCHANGED <<jobs, pending, running>> /\ stage # "idle" /\ stage' # "idle"
    BY <1>3 DEF Build, Store, CommitJob, FailJob
  <2> QED BY <2>1 DEF QInv, OneEach, Queued
<1>4. CASE FinishJob
  <2>1. /\ stage = "finish" /\ running \in Events
        /\ pending' = pending \ {running} /\ running' = NoEvent
        /\ stage' = "idle" /\ jobs' = jobs
    BY <1>4 DEF FinishJob, Finished, QInv, StatsInv, Shape
  <2>2. NoEvent \notin Queued /\ Queued' = Queued
    BY <2>1, NoEventAssumption DEF QInv, StatsInv, Types, OneEach, Queued
  <2> QED BY <2>1, <2>2 DEF QInv, OneEach
<1>5. CASE ServerRestart
  BY <1>5 DEF ServerRestart, OneEach, Queued
<1>6. CASE UNCHANGED <<jobs, pending, running, stage>>
  BY <1>6 DEF QInv, OneEach, Queued
<1>7. ASSUME NEW w \in Writers, \/ \E e \in Events : Invalidate(w, e)
                                \/ CommitChange(w) \/ RollBack(w)
      PROVE  UNCHANGED <<jobs, pending, running, stage>>
  BY <1>7 DEF Invalidate, CommitChange, RollBack, worker
<1>8. ASSUME NEW v \in Viewers, \/ \E e \in Events, s \in Scopes : View(v, e, s)
                                \/ MarkRefreshing(v)
      PROVE  UNCHANGED <<jobs, pending, running, stage>>
  BY <1>8 DEF View, MarkRefreshing, worker
<1>9. CASE UNCHANGED statsvars
  BY <1>9, <1>6 DEF statsvars
<1> QED BY <1>1, <1>2, <1>3, <1>4, <1>5, <1>6, <1>7, <1>8, <1>9 DEF StatsNext

\* An event that is pending has exactly one job: what the loop of the queue,
\* the lock and the finally clause keep, over restarts too.
LEMMA OneJobEach == QInv => PendingIsOneJob
<1> SUFFICES ASSUME QInv, NEW e \in Events
             PROVE  Cardinality(JobsOf(e))
                      + (IF running = e THEN 1 ELSE 0) = (IF e \in pending THEN 1 ELSE 0)
  BY DEF PendingIsOneJob, JobsOf
<1>1. CASE e \in Queued
  <2>1. PICK i \in 1..Len(jobs) : jobs[i] = e
    BY <1>1 DEF Queued
  <2>2. JobsOf(e) = {i}
    BY <2>1 DEF QInv, OneEach, JobsOf
  <2>3. running # e /\ e \in pending
    BY <1>1 DEF QInv, OneEach
  <2>4. Cardinality(JobsOf(e)) = 1
    BY <2>2, FS_Singleton
  <2> QED BY <2>3, <2>4
<1>2. CASE e \notin Queued
  <2>1. JobsOf(e) = {}
    BY <1>2 DEF Queued, JobsOf
  <2>2. running = e <=> e \in pending
    BY <1>2, NoEventAssumption DEF QInv, OneEach
  <2>3. Cardinality(JobsOf(e)) = 0
    BY <2>1, FS_EmptySet
  <2> QED BY <2>2, <2>3
<1> QED BY <1>1, <1>2

\* No more jobs wait than there are events: the queue needs no bound of its own.
LEMMA QueueBounded == QInv => Len(jobs) <= Cardinality(Events)
<1> SUFFICES ASSUME QInv PROVE Len(jobs) <= Cardinality(Events)
  OBVIOUS
<1>1. jobs \in Seq(Events) /\ Len(jobs) \in Nat
  BY DEF QInv, StatsInv, Types
<1>2. jobs \in Injection(1..Len(jobs), Events)
  BY <1>1 DEF QInv, OneEach, Injection, IsInjective
<1>3. Cardinality(1..Len(jobs)) <= Cardinality(Events)
  BY <1>2, EventsAssumption, FS_Injection
<1>4. Cardinality(1..Len(jobs)) = Len(jobs)
  <2>1. 1 \in Int /\ Len(jobs) \in Int
    BY <1>1
  <2>2. Cardinality(1..Len(jobs)) = IF 1 > Len(jobs) THEN 0 ELSE Len(jobs) - 1 + 1
    BY <2>1, FS_Interval, Zenon
  <2> QED BY <1>1, <2>2
<1> QED BY <1>3, <1>4

\* The pending set never blocks an event's refreshes for good: it holds an
\* event exactly while one job of it is queued or running.
THEOREM OneJob == StatsSpec => []PendingIsOneJob
  BY QInit, QNext, OneJobEach, PTL DEF StatsSpec

\* Every variable keeps its type, and the queue never holds more jobs than
\* there are events.
THEOREM StatsTypeCorrect == StatsSpec => []StatsTypeOK
<1>1. QInv => StatsTypeOK
  BY QueueBounded DEF QInv, StatsInv, Types, StatsTypeOK
<1> QED BY <1>1, QInit, QNext, PTL DEF StatsSpec
=============================================================================
