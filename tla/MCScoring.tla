------------------------------ MODULE MCScoring ------------------------------
(* A track is evaluated in a task, or a task's evaluations are scored, or    *)
(* the results of a meet are shown: the three do not interact while they     *)
(* run, and a run takes one of them.                                         *)
EXTENDS TaskEvaluation, GapScoring, ResultPages, TLC

VARIABLE part
vars == <<evalvars, gapvars, pagevars, part>>

\* Courses on the line 0..3; N has no fix in its margin.
P(k, a, x) == [kind |-> k, at |-> a, exit |-> x, margin |-> 1]
N(k, a, x) == [P(k, a, x) EXCEPT !.margin = 0]
Courses == {<<P("start", 0, TRUE), P("tp", 2, FALSE), P("goal", 3, FALSE)>>,
            <<P("launch", 0, FALSE), P("start", 0, FALSE), N("ess", 3, FALSE), P("goal", 0, FALSE)>>,
            <<P("start", 0, TRUE), P("tp", 3, TRUE), P("goal", 1, FALSE)>>}
\* No clock; two gates, an opening and a finish; two gates and a close
Clocks == {[open |-> 0, close |-> 0, finish |-> 0, gates |-> 1, interval |-> 0],
           [open |-> 4, close |-> 0, finish |-> 10, gates |-> 2, interval |-> 3],
           [open |-> 3, close |-> 8, finish |-> 0, gates |-> 2, interval |-> 5]}
\* Races under each of them, the other tasks under one
MCTasks == {[type |-> ty, points |-> ps, open |-> c.open, close |-> c.close, finish |-> c.finish,
             gates |-> c.gates, interval |-> c.interval] :
                ps \in Courses, <<ty, c>> \in {x \in {"race", "elapsed", "open"} \X Clocks :
                    (x[1] = "elapsed" => x[2].open = 3) /\ (x[1] = "open" => x[2].open = 4)}}

\* Flights of a task of length 4
Flight(st, d, s, e, l, j) == [status |-> st, dist |-> d, start |-> s, ess |-> e, lead |-> l, jump |-> j]
MCFlights == {Flight("goal", 4, 2, 5, 6, 0), Flight("goal", 4, 4, 4, 7, 20), Flight("goal", 4, 3, 6, 6, 0),
              Flight("ess", 3, 1, 3, 4, 0), Flight("partial", 2, 2, 0, 33, 0), Flight("partial", 1, 0, 0, 0, 0)}
Meet(nomdist, version, lwf, use, diffcalc, hg, handicap, normalize, open, ss) ==
    [mindist |-> 0, nomdist |-> nomdist, nomtime |-> 0, sspenalty |-> ss, lwf |-> lwf, use |-> use,
     diffcalc |-> diffcalc, version |-> version, hg |-> hg, handicap |-> handicap, normalize |-> normalize,
     open |-> open, multiplier |-> [p \in Rivals |-> IF p = 2 THEN 120 ELSE 100]]
MCEvents == {Meet(2, 2021, 26, {"leading", "arrival_position"}, "all", TRUE, TRUE, FALSE, 1, 100),
             Meet(3, 2020, 0, {"leading"}, "lo", TRUE, FALSE, FALSE, 2, 0),
             Meet(0, 2023, 0, {"departure", "arrival_time"}, "all", FALSE, TRUE, TRUE, 0, 20)}
MCCharges == {[type |-> "percentage", value |-> 10], [type |-> "fixed", value |-> 50]}

\* Two tasks, two pilots: outcomes of a task that may be practice, with
\* handicaps, and of one that counts, without.
Outcome(status, raw, points, handicap, tie) ==
    [status |-> status, competes |-> tie > 0, raw |-> raw, points |-> points, handicap |-> handicap,
     tie |-> tie, file |-> tie > 0]
MCOutcomes == [t \in Sheets |-> IF t = "long"
    THEN {Outcome("goal", 3, 4, TRUE, 1), Outcome("partial", 5, 3, TRUE, 2), Outcome("minimum_distance", 1, 1, TRUE, 0)}
    ELSE {Outcome("goal", 2, 2, FALSE, 1), Outcome("goal", 2, 1, FALSE, 1)}]
MCPilotId == <<2, 1>>
MCSettings == {[visibility |-> "public", ftv |-> FALSE], [visibility |-> "private", ftv |-> TRUE]}

MCInit ==
    /\ part \in {"track", "gap", "pages"}
    /\ EvalInit /\ (part # "track" => task = CHOOSE t \in TaskSet : TRUE)
    /\ GapInit /\ (part # "gap" => event = CHOOSE ev \in Events : TRUE)
    /\ PagesInit /\ (part # "pages" => meet = CHOOSE s \in Settings : TRUE)

\* Other evaluations run beside those of races with one of the clocks.
MCFly ==
    /\ part = "track" /\ EvalNext /\ UNCHANGED <<gapvars, pagevars, part>>
    /\ overlap' # "none" => task.open = 4 /\ task.type = "race"
\* The flights are entered in one order, as scores depend on what is entered
\* only.  Penalties come last, on a day on which the second pilot reached goal
\* and the third had no start.
MCScore ==
    /\ part = "gap"
    /\ (\A p \in Rivals : entry[p] # None) => entry[2].status = "goal" /\ entry[3].start = 0
    /\ GapNext
    /\ \A p, q \in Rivals : p < q /\ entry'[q] # None => entry'[p] # None
    /\ UNCHANGED <<evalvars, pagevars, part>>

\* Tasks are rescored while they are drafts of a public meet, one at a time.
\* Other rescorings and other changes come between its steps, and rows of two
\* rescorings stay, in "long" and while "short" has no results.  A meet is
\* private only with both tasks published.
Busy == {r \in Requests : rescoring[r] # None}
Drafts == meet.visibility = "public" /\ \A t \in Sheets : listing[t] = [status |-> "draft", practice |-> FALSE]
LongOnly == (\A r \in Busy : rescoring[r].task = "long") /\ WithResult("short") = {}
MCShow ==
    /\ part = "pages" /\ PagesNext /\ UNCHANGED <<evalvars, gapvars, part>>
    /\ Busy' # {} => Drafts'
    /\ Busy # {} /\ rescoring' = rescoring => LongOnly /\ UNCHANGED <<listing, meet>>
    /\ Cardinality(Busy') > 1 \/ mixed' # {} => LongOnly'
    /\ meet'.visibility = "private" => \A t \in Sheets : listing'[t].status = "published"
Symmetry == Permutations(Requests)
MCNext == MCFly \/ MCScore \/ MCShow
MCSpec == MCInit /\ [][MCNext]_vars

\* Penalties are entered once everybody is scored, for the first pilot: they
\* touch the score of one pilot only.
Bounded == \A p \in Rivals : charged[p] # <<>> => p = 1 /\ \A q \in Rivals : entry[q] # None
=============================================================================
