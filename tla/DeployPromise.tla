---------------------------- MODULE DeployPromise ----------------------------
(***************************************************************************)
(* What the webhook listener promises for a branch                         *)
(* (deploy/staging/webhook_listener.py): one deploy at a time, and after   *)
(* it one more for all the pushes that came meanwhile.  Threads, handlers  *)
(* and locks are DeployQueue's; it implements this specification.          *)
(***************************************************************************)
CONSTANT Branches

VARIABLES run,   \* the deploy of each branch: none, "due", "past" once it reads the remote
                 \* no more, and "lost" when its thread did not start
          again  \* a push has come since

promiseVars == <<run, again>>

PromiseInit ==
    /\ run = [b \in Branches |-> "none"]
    /\ again = [b \in Branches |-> FALSE]

\* A push gets a deploy, or one more after the present one.
Push(b) ==
    \/ run[b] = "none" /\ run' = [run EXCEPT ![b] = "due"] /\ UNCHANGED again
    \/ run[b] # "none" /\ again' = [again EXCEPT ![b] = TRUE] /\ UNCHANGED run

\* The deploy has read the remote, or ends without it.
Pass(b) == run[b] = "due" /\ run' = [run EXCEPT ![b] = "past"] /\ UNCHANGED again

End(b) ==
    /\ run[b] = "past"
    /\ run' = [run EXCEPT ![b] = IF again[b] THEN "due" ELSE "none"]
    /\ again' = [again EXCEPT ![b] = FALSE]

\* A thread is not started.
Lose(b) ==
    \/ run[b] = "due" /\ run' = [run EXCEPT ![b] = "lost"] /\ UNCHANGED again
    \/ /\ run[b] = "past" /\ again[b]
       /\ run' = [run EXCEPT ![b] = "lost"]
       /\ again' = [again EXCEPT ![b] = FALSE]

Reset == run' = [b \in Branches |-> "none"] /\ again' = [b \in Branches |-> FALSE]

PromiseNext == Reset \/ \E b \in Branches : Push(b) \/ Pass(b) \/ End(b) \/ Lose(b)

PromiseSpec == PromiseInit /\ [][PromiseNext]_promiseVars

\* A deploy reads the remote, or ends without it, and makes room at last.
Promise ==
    /\ PromiseSpec
    /\ \A b \in Branches : WF_promiseVars(Pass(b) \/ End(b) \/ Lose(b))
=============================================================================
