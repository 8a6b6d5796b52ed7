---------------------------- MODULE DeployQueue ----------------------------
(***************************************************************************)
(* The deploy queue of the GitHub webhook listener                         *)
(* (deploy/staging/webhook_listener.py) and the deploy scripts it runs     *)
(* (deploy/staging/deploy-common.sh).  A push event is handled by a thread *)
(* of its own, which either claims its branch and starts a deploy thread,  *)
(* or leaves the push pending for the thread that holds the branch.  A     *)
(* deploy thread runs the script, gives up on it after ten minutes, and    *)
(* then takes the pending push or lets go of the branch.  The script takes *)
(* a file lock first and exits with status 0 if it is held.                *)
(*                                                                         *)
(* A timed-out script is killed, but not the processes it started: they    *)
(* inherited the descriptor of the lock and hold it until they end.        *)
(***************************************************************************)
EXTENDS Naturals

CONSTANTS Branches,   \* keys of BRANCH_MAP, each with a script and a lock
          Requests,   \* handler threads, at any one time
          Threads,    \* deploy threads, at any one time
          None,       \* no branch; nobody
          Orphan      \* processes left by a script that was killed

ASSUME NoneAssumption == None \notin Branches \cup Threads
ASSUME OrphanAssumption == Orphan \notin Threads \cup {None}

VARIABLES
    active,    \* _active_deploys
    queued,   \* branches with an entry in _pending_deploys
    starting,  \* the branch a handler has claimed and starts a thread for
    job,       \* the branch a deploy thread works for
    step,      \* where it is; "lock", "fetch" and "build": where its script is
    flock,     \* who holds the script's lock: a thread's script, Orphan, None
    owed       \* branches with a push accepted since a script last fetched

vars == <<active, queued, starting, job, step, flock, owed>>

TypeOK ==
    /\ active \in [Branches -> BOOLEAN]
    /\ queued \in [Branches -> BOOLEAN]
    /\ starting \in [Requests -> Branches \cup {None}]
    /\ job \in [Threads -> Branches \cup {None}]
    /\ step \in [Threads -> {"idle", "spawn", "lock", "fetch", "build", "next"}]
    /\ \A t \in Threads : step[t] = "idle" <=> job[t] = None
    /\ flock \in [Branches -> Threads \cup {None, Orphan}]
    /\ owed \in [Branches -> BOOLEAN]

Init ==
    /\ active = [b \in Branches |-> FALSE]
    /\ queued = [b \in Branches |-> FALSE]
    /\ starting = [r \in Requests |-> None]
    /\ job = [t \in Threads |-> None]
    /\ step = [t \in Threads |-> "idle"]
    /\ flock = [b \in Branches |-> None]
    /\ owed = [b \in Branches |-> FALSE]

-----------------------------------------------------------------------------
\* Mutants of Busy and FollowUp, below.
BusyIfPending(b) == queued[b]
NoFollowUp(b) == FALSE

\* The test of dispatch_deploy.
Busy(b) == active[b]

\* _pending_deploys.pop.
PendingAfterPop(b) == FALSE
FollowUp(b) == queued[b]

\* A deploy thread that returns works for no branch.
Gone(t) == None

\* Somebody will run the script for b from its start.
Carried(b) ==
    \/ \E r \in Requests : starting[r] = b
    \/ \E t \in Threads :
          /\ job[t] = b
          /\ queued[b] \/ step[t] \in {"spawn", "lock", "fetch"}

-----------------------------------------------------------------------------
(* The handler of a push event *)

\* do_POST for a branch of the map, up to the end of dispatch_deploy's "with".
Dispatch(r, b) ==
    /\ starting[r] = None
    /\ IF Busy(b)
       THEN /\ queued' = [queued EXCEPT ![b] = TRUE]
            /\ UNCHANGED <<active, starting>>
       ELSE /\ active' = [active EXCEPT ![b] = TRUE]
            /\ starting' = [starting EXCEPT ![r] = b]
            /\ UNCHANGED queued
    /\ owed' = [owed EXCEPT ![b] = TRUE]
    /\ UNCHANGED <<job, step, flock>>

\* thread.start(), outside the lock.
StartThread(r, t) ==
    /\ starting[r] # None
    /\ step[t] = "idle"
    /\ job' = [job EXCEPT ![t] = starting[r]]
    /\ step' = [step EXCEPT ![t] = "spawn"]
    /\ starting' = [starting EXCEPT ![r] = None]
    /\ UNCHANGED <<active, queued, flock, owed>>

\* thread.start() raises; the branch stays claimed.
StartFails(r) ==
    /\ starting[r] # None
    /\ starting' = [starting EXCEPT ![r] = None]
    /\ UNCHANGED <<active, queued, job, step, flock, owed>>

-----------------------------------------------------------------------------
(* The deploy thread: _run_deploy, and the script it waits for *)

GoOn(t, from, to) ==
    /\ step[t] = from
    /\ step' = [step EXCEPT ![t] = to]

\* Popen.
Spawn(t) ==
    /\ GoOn(t, "spawn", "lock")
    /\ UNCHANGED <<active, queued, starting, job, flock, owed>>

\* Popen raises: logged, and the thread goes on.
SpawnFails(t) ==
    /\ GoOn(t, "spawn", "next")
    /\ UNCHANGED <<active, queued, starting, job, flock, owed>>

\* flock -n succeeds.
Lock(t) ==
    /\ GoOn(t, "lock", "fetch")
    /\ flock[job[t]] = None
    /\ flock' = [flock EXCEPT ![job[t]] = t]
    /\ UNCHANGED <<active, queued, starting, job, owed>>

\* "Another deployment is already running": exit 0, a success to the listener.
Refused(t) ==
    /\ GoOn(t, "lock", "next")
    /\ flock[job[t]] # None
    /\ UNCHANGED <<active, queued, starting, job, flock, owed>>

\* git fetch reads the remote: what was pushed by now will be deployed.
Fetch(t) ==
    /\ GoOn(t, "fetch", "build")
    /\ owed' = [owed EXCEPT ![job[t]] = FALSE]
    /\ UNCHANGED <<active, queued, starting, job, flock>>

\* The script exits, from the end or from a command that fails.
ScriptExits(t) ==
    /\ GoOn(t, "fetch", "next") \/ GoOn(t, "build", "next")
    /\ flock' = [flock EXCEPT ![job[t]] = None]
    /\ UNCHANGED <<active, queued, starting, job, owed>>

\* communicate() times out; the shell is killed and waited for, what it was
\* running is not.
TimeOut(t) ==
    /\ \E s \in {"lock", "fetch", "build"} : GoOn(t, s, "next")
    /\ IF flock[job[t]] = t
       THEN \E left \in {Orphan, None} : flock' = [flock EXCEPT ![job[t]] = left]
       ELSE UNCHANGED flock
    /\ UNCHANGED <<active, queued, starting, job, owed>>

\* What a killed script left running ends.
OrphanEnds(b) ==
    /\ flock[b] = Orphan
    /\ flock' = [flock EXCEPT ![b] = None]
    /\ UNCHANGED <<active, queued, starting, job, step, owed>>

\* The thread returns.
ThreadReturns(t) ==
    /\ job' = [job EXCEPT ![t] = Gone(t)]
    /\ step' = [step EXCEPT ![t] = "idle"]

\* The last "with" of _run_deploy: a thread for the pending push, which is t
\* from now on, or the branch is let go.
TakeNext(t) ==
    LET b == job[t] IN
    /\ step[t] = "next"
    /\ IF FollowUp(b)
       THEN /\ queued' = [queued EXCEPT ![b] = PendingAfterPop(b)]
            /\ step' = [step EXCEPT ![t] = "spawn"]
            /\ UNCHANGED <<active, job>>
       ELSE /\ active' = [active EXCEPT ![b] = FALSE]
            /\ ThreadReturns(t)
            /\ UNCHANGED queued
    /\ UNCHANGED <<starting, flock, owed>>

\* The same, but thread.start() raises and ends the thread.
FollowUpFails(t) ==
    LET b == job[t] IN
    /\ step[t] = "next"
    /\ FollowUp(b)
    /\ queued' = [queued EXCEPT ![b] = PendingAfterPop(b)]
    /\ ThreadReturns(t)
    /\ UNCHANGED <<active, starting, flock, owed>>

\* systemd stops and restarts the service, with every process of its group.
Restart ==
    /\ active' = [b \in Branches |-> FALSE]
    /\ queued' = [b \in Branches |-> FALSE]
    /\ starting' = [r \in Requests |-> None]
    /\ job' = [t \in Threads |-> None]
    /\ step' = [t \in Threads |-> "idle"]
    /\ flock' = [b \in Branches |-> None]
    /\ UNCHANGED owed

-----------------------------------------------------------------------------
Next ==
    \/ \E r \in Requests : \/ \E b \in Branches : Dispatch(r, b)
                           \/ \E t \in Threads : StartThread(r, t)
                           \/ StartFails(r)
    \/ \E t \in Threads : \/ Spawn(t) \/ SpawnFails(t)
                          \/ Lock(t) \/ Refused(t) \/ Fetch(t)
                          \/ ScriptExits(t) \/ TimeOut(t)
                          \/ TakeNext(t) \/ FollowUpFails(t)
    \/ \E b \in Branches : OrphanEnds(b)
    \/ Restart

Spec == Init /\ [][Next]_vars

\* The listener's threads run, and communicate() has a timeout.  Nothing is
\* assumed of the scripts: one may hang at any point.
Fairness ==
    /\ \A r \in Requests : WF_vars(\E t \in Threads : StartThread(r, t))
    /\ \A t \in Threads : /\ WF_vars(Spawn(t) \/ SpawnFails(t))
                          /\ WF_vars(TimeOut(t))
                          /\ WF_vars(TakeNext(t))

FairSpec == Spec /\ Fairness

-----------------------------------------------------------------------------
(* Properties *)

\* A branch has at most one deploy under way: one thread, or one handler about
\* to start it (webhook_listener.py 93-131).
OneDeployPerBranch ==
    \A b \in Branches :
        LET here == {t \in Threads : job[t] = b}
            soon == {r \in Requests : starting[r] = b}
        IN  /\ \A t, u \in here : t = u
            /\ \A q, r \in soon : q = r
            /\ here = {} \/ soon = {}

\* The script's lock is never held by another script of the listener, only by
\* what a timed-out one left behind: so a deploy is skipped, and called a
\* success, in that case alone (deploy-common.sh 39-42).
RefusedOnlyByOrphan ==
    \A t \in Threads :
        step[t] = "lock" => flock[job[t]] \in {None, Orphan}

\* Whatever interleaving of pushes and finishing deploys, an accepted push
\* waits for a script to fetch it, until a thread or a process cannot be
\* started, the listener dies, the script does or finds the lock of an orphan
\* (webhook_listener.py 63-131).
LostOnlyInMishap ==
    [][\A b \in Branches :
         Carried(b) /\ owed'[b] /\ ~Carried(b)'
           => \/ Restart
              \/ \E r \in Requests : StartFails(r)
              \/ \E t \in Threads :
                    /\ job[t] = b
                    /\ \/ SpawnFails(t) \/ FollowUpFails(t) \/ TimeOut(t)
                       \/ ScriptExits(t)
                       \/ Refused(t) /\ flock[b] = Orphan]_vars

-----------------------------------------------------------------------------
(* The abstract specification that the queue implements *)

\* The threads of b have not read the remote yet.
Due(b) ==
    \/ \E r \in Requests : starting[r] = b
    \/ \E t \in Threads : job[t] = b /\ step[t] \in {"spawn", "lock", "fetch"}

Run == [b \in Branches |->
          IF ~active[b] THEN "none"
          ELSE IF Due(b) THEN "due"
          ELSE IF \E t \in Threads : job[t] = b THEN "past" ELSE "lost"]

Abstract == INSTANCE DeployPromise WITH run <- Run, again <- queued

\* Threads, handlers and scripts, in whatever interleaving and with whatever
\* failures, do for a branch what DeployPromise says: one deploy, one more for
\* all that came meanwhile, and each of them at last (webhook_listener.py 54-131).
KeepsPromise == Abstract!Promise
=============================================================================
