--------------------------- MODULE TaskEvaluation ---------------------------
(***************************************************************************)
(* What a track is worth in a task (backend/app/services/scoring.py,       *)
(* evaluate_task, and services/airscore/verify.py, validate_task).         *)
(*                                                                         *)
(* The track grows by a fix at a time and is evaluated as a whole, as it   *)
(* is whenever a file is scored.  Geometry is a line: a point of the task  *)
(* lies at a position, a fix at the position itself is in its cylinder, a  *)
(* fix up to its margin away in that margin, and no fix on a boundary.     *)
(* Fix i is recorded at time 2i, so that a gate may open between two fixes.*)
(*                                                                         *)
(* The distances of the task's points are kept in lists of the module      *)
(* airscore/task.py, which every evaluation of the process overwrites.     *)
(* What one of another task, running in another thread, makes of this one  *)
(* is a choice (FlyBeside, FlyAcross); an IndexError stores nothing.       *)
(***************************************************************************)
EXTENDS Integers, Sequences, FiniteSetsExt, Functions

CONSTANTS TaskSet,    \* [type, points, open, close, finish, gates, interval]; a time 0 is unset
          Positions, MaxFixes,
          MinDist,    \* the minimum distance of the formula
          Misread,    \* distances that the lists of another task may yield
          Lengths     \* numbers of points that other tasks have

\* The margin is that of the rules in use: at least 5 m, or the meet's own
\* minimum for an open distance, where the launch keeps its radius too.
PointRecords == [kind : {"launch", "start", "tp", "ess", "goal"}, at : Int, exit : BOOLEAN, margin : Nat]

TaskRecords ==
    [type : {"race", "elapsed", "open"}, points : Seq(PointRecords) \ {<<>>}, open : Nat, close : Nat,
     finish : Nat, gates : Nat, interval : Nat]

ASSUME EvalAssumption ==
    /\ TaskSet \subseteq TaskRecords /\ Positions \subseteq Int /\ MaxFixes \in Nat /\ MinDist \in Nat
    /\ Misread \subseteq Nat /\ Lengths \subseteq Nat

VARIABLES task,   \* the task and its points
          track,  \* the fixes recorded so far
          scored, \* their evaluation
          overlap \* what an evaluation of another task did to it (history)

evalvars == <<task, track, scored, overlap>>

At(i) == 2 * i
End == At(MaxFixes + 1)
Upto(time) == IF time = 0 THEN End ELSE time
Apart(x, y) == IF x < y THEN y - x ELSE x - y
Larger(x, y) == IF x < y THEN y ELSE x
Smaller(x, y) == IF x < y THEN x ELSE y

Nominal(p, x) == x = p.at
Within(p, x) == Apart(x, p.at) <= p.margin
IsStart(p) == p.kind = "start"
Required(p) == p.kind # "launch"
Dom(t) == 1..Len(t.points)

-----------------------------------------------------------------------------
(* The crossings of a point, as verify.py finds them: the fix that shows   *)
(* it and the first fix after it.                                          *)
NoHit == [shown |-> 0, after |-> 0]

\* _find_entry_hit, verify.py: from outside, or at once on the first fix
Enters(p, trk, i) == Within(p, trk[i]) /\ (i = 1 \/ ~Within(p, trk[i - 1]))
\* _find_exit_hit, verify.py: out of the cylinder from within its margin
Leaves(p, trk, i) == i > 1 /\ Within(p, trk[i - 1]) /\ ~Nominal(p, trk[i])

Crosses(p, trk, i) == IF p.exit THEN Leaves(p, trk, i) ELSE Enters(p, trk, i)
\* An exit shows the last fix inside; an entry of the start, the last one outside.
Shown(p, i) == IF p.exit \/ (IsStart(p) /\ i > 1) THEN i - 1 ELSE i

Crossings(p, trk, cursor, latest) == {i \in cursor..Len(trk) : At(i) <= latest /\ Crosses(p, trk, i)}
HitAt(p, i) == [shown |-> Shown(p, i), after |-> i]
FirstHit(p, trk, cursor, latest) ==
    LET is == Crossings(p, trk, cursor, latest) IN IF is = {} THEN NoHit ELSE HitAt(p, Min(is))
LastHit(p, trk, cursor, latest) ==
    LET is == Crossings(p, trk, cursor, latest) IN IF is = {} THEN NoHit ELSE HitAt(p, Max(is))

\* The cursor after a hit, which its fix has used up
Beyond(hit) == hit.shown + 1

\* _build_airscore_verifier_task: sfinish
Finish(t) == IF t.finish # 0 THEN t.finish ELSE t.close
LatestFor(t, p) == IF IsStart(p) /\ t.type = "elapsed" THEN End ELSE Upto(Finish(t))

NextRequired(t, w) == {v \in (w + 1)..Len(t.points) : Required(t.points[v])}

AnyStart(t, w, trk, cursor) == LastHit(t.points[w], trk, cursor, LatestFor(t, t.points[w]))
\* The last crossing of the start before the next required point is made
StartHit(t, w, trk, cursor) ==
    LET p == t.points[w]
        latest == LatestFor(t, p)
        first == FirstHit(p, trk, cursor, latest)
        next == IF first = NoHit \/ NextRequired(t, w) = {} THEN NoHit
                ELSE FirstHit(t.points[Min(NextRequired(t, w))], trk, first.after, latest)
    IN LastHit(p, trk, cursor, IF next = NoHit THEN latest ELSE Smaller(latest, At(next.shown)))

\* What a visit of point w does with the hit it found, in either walk: once a
\* point is missed, later ones are only noted.
Visited(t, s, w, hit) ==
    CASE s.missed # 0 /\ ~Required(t.points[w]) -> s
      [] hit # NoHit /\ s.missed = 0 -> [s EXCEPT !.hits[w] = hit, !.cursor = Beyond(hit)]
      [] hit # NoHit /\ s.missed # 0 /\ Required(t.points[w]) -> [s EXCEPT !.ignored = @ \cup {w}, !.cursor = Beyond(hit)]
      [] hit = NoHit /\ s.missed = 0 /\ Required(t.points[w]) -> [s EXCEPT !.missed = w]
      [] OTHER -> s
Unvisited(t) == [hits |-> [w \in Dom(t) |-> NoHit], cursor |-> 1, missed |-> 0, ignored |-> {}]

\* The walk of validate_task over the points
WalkHit(t, trk, s, w) ==
    LET p == t.points[w] IN
    IF s.missed # 0 \/ ~Required(p) THEN FirstHit(p, trk, s.cursor, End)
    ELSE IF IsStart(p) THEN StartHit(t, w, trk, s.cursor)
    ELSE FirstHit(p, trk, s.cursor, LatestFor(t, p))
Walk(t, trk) ==
    LET walk[w \in 0..Len(t.points)] ==
            IF w = 0 THEN Unvisited(t)
            ELSE LET s == walk[w - 1] IN Visited(t, s, w, WalkHit(t, trk, s, w))
    IN walk[Len(t.points)]

-----------------------------------------------------------------------------
(* The crossings as scoring.py finds them for an open-distance task: one   *)
(* pass over the fixes that remembers where the pilot was.                 *)
Skips(s, i, cursor, latest, last) == i < cursor \/ At(i) > latest \/ (s.hit # NoHit /\ ~last)

EntryLook(p, trk, s, i) ==
    LET inside == Within(p, trk[i]) IN
    [hit |-> IF ~inside \/ s.inside THEN s.hit
             ELSE [shown |-> IF IsStart(p) /\ s.outside # 0 THEN s.outside ELSE i, after |-> i],
     inside |-> inside, outside |-> IF inside THEN s.outside ELSE i]
EntryScan(p, trk, cursor, latest, last) ==
    LET before == cursor > 1 /\ Within(p, trk[cursor - 1])
        scan[i \in 0..Len(trk)] ==
            IF i = 0 THEN [hit |-> NoHit, inside |-> before, outside |-> IF before THEN 0 ELSE cursor - 1]
            ELSE LET s == scan[i - 1] IN
                 IF Skips(s, i, cursor, latest, last) THEN s ELSE EntryLook(p, trk, s, i)
    IN scan[Len(trk)].hit

\* An exit is armed by a fix within, and shown by the last one in the cylinder.
Arm(p, trk, s, i) ==
    CASE Nominal(p, trk[i]) -> [s EXCEPT !.armed = i, !.nominal = i]
      [] ~Within(p, trk[i]) -> [s EXCEPT !.armed = 0, !.nominal = 0]
      [] OTHER -> [s EXCEPT !.armed = i]
ExitLook(p, trk, s, i) ==
    IF s.armed = 0 \/ Nominal(p, trk[i]) THEN Arm(p, trk, s, i)
    ELSE Arm(p, trk, [hit |-> [shown |-> IF s.nominal # 0 THEN s.nominal ELSE s.armed, after |-> i],
                      armed |-> 0, nominal |-> 0], i)
ExitScan(p, trk, cursor, latest, last) ==
    LET start == [hit |-> NoHit, armed |-> 0, nominal |-> 0]
        scan[i \in 0..Len(trk)] ==
            IF i = 0 THEN IF cursor = 1 THEN start ELSE Arm(p, trk, start, cursor - 1)
            ELSE LET s == scan[i - 1] IN
                 IF Skips(s, i, cursor, latest, last) THEN s ELSE ExitLook(p, trk, s, i)
    IN scan[Len(trk)].hit

PointHit(p, trk, cursor, latest, last) ==
    IF p.exit THEN ExitScan(p, trk, cursor, latest, last) ELSE EntryScan(p, trk, cursor, latest, last)

\* start_close_at: the finish of the task when the start has no close
StartClose(t) == IF t.close # 0 THEN t.close ELSE t.finish

\* The walk of evaluate_task for an open-distance task: the last start before
\* the close, and no limit afterwards.
OpenHit(t, trk, s, w) ==
    LET p == t.points[w]
        starting == IsStart(p) /\ s.missed = 0
    IN PointHit(p, trk, s.cursor, IF starting THEN Upto(StartClose(t)) ELSE End, starting)
OpenWalk(t, trk) ==
    LET walk[w \in 0..Len(t.points)] ==
            IF w = 0 THEN Unvisited(t)
            ELSE LET s == walk[w - 1] IN Visited(t, s, w, OpenHit(t, trk, s, w))
    IN walk[Len(t.points)]

Hits(t, trk) == IF t.type = "open" THEN OpenWalk(t, trk) ELSE Walk(t, trk)

-----------------------------------------------------------------------------
(* The scored start: a gate of a race, the clock of an elapsed-time task.  *)
\* _start_gate_times
Gates(t) == IF t.open = 0 THEN <<>> ELSE [g \in 1..t.gates |-> t.open + (g - 1) * t.interval]
Unscored == [time |-> 0, gate |-> 0, jump |-> 0]

\* _score_race_start: the first gate that opens while the pilot crosses, or
\* the last one before
GateFor(gates, actual, after) ==
    LET between == {g \in DOMAIN gates : actual <= gates[g] /\ gates[g] <= after}
    IN IF between # {} THEN Min(between) ELSE Max({g \in DOMAIN gates : gates[g] <= actual})

RaceStart(t, actual, after) ==
    LET gates == Gates(t) IN
    CASE gates = <<>> -> [time |-> actual, gate |-> 0, jump |-> 0]
      [] gates # <<>> /\ actual < gates[1] ->
           [time |-> gates[1], gate |-> 1, jump |-> IF after < gates[1] THEN gates[1] - actual ELSE 0]
      [] OTHER -> LET g == GateFor(gates, actual, after) IN [time |-> gates[g], gate |-> g, jump |-> 0]

\* _score_elapsed_start
ElapsedStart(t, actual) ==
    CASE actual < t.open -> [time |-> t.open, gate |-> 0, jump |-> t.open - actual]
      [] t.close # 0 /\ actual >= t.open /\ actual > t.close -> [time |-> t.close, gate |-> 0, jump |-> 0]
      [] OTHER -> [time |-> actual, gate |-> 0, jump |-> 0]

\* _score_start
ScoredStart(t, hit) ==
    CASE hit = NoHit -> Unscored
      [] hit # NoHit /\ t.type = "elapsed" -> ElapsedStart(t, At(hit.shown))
      [] OTHER -> RaceStart(t, At(hit.shown), At(hit.after))

-----------------------------------------------------------------------------
(* Distance flown (airscore/task.py) and what follows from it.             *)
LegsTo(t, w) ==
    LET legs[v \in 0..Len(t.points)] ==
            IF v <= 1 THEN 0 ELSE legs[v - 1] + Apart(t.points[v - 1].at, t.points[v].at)
    IN legs[w]
Total(t) == LegsTo(t, Len(t.points))
\* distance_flown: the whole distance less what remains by way of point w
Flown(t, w, x) == Larger(LegsTo(t, w) - Apart(t.points[w].at, x), 0)

PointOf(t, kinds) == LET ws == {w \in Dom(t) : t.points[w].kind \in kinds} IN IF ws = {} THEN 0 ELSE Max(ws)
StartOf(t) == PointOf(t, {"start"})
\* precompute_waypoint_dist: without a goal, the first point stands for it
GoalOf(t) == IF PointOf(t, {"goal"}) = 0 /\ t.type # "open" THEN 1 ELSE PointOf(t, {"goal"})
EssOf(t) == IF PointOf(t, {"ess"}) # 0 THEN PointOf(t, {"ess"}) ELSE GoalOf(t)
HitOf(s, w) == IF w = 0 THEN NoHit ELSE s.hits[w]
MadeIn(t, s) == {w \in Dom(t) : Required(t.points[w]) /\ s.hits[w] # NoHit}

\* The farthest of the fixes after the last point made, without regard to time
Base(t, s) == LET made == MadeIn(t, s) IN IF made = {} THEN 0 ELSE LegsTo(t, Max(made))
Progress(t, trk, s) ==
    LET after == Beyond(s.hits[Max(MadeIn(t, s))])
        reached == {Smaller(Flown(t, s.missed, trk[i]), LegsTo(t, s.missed)) : i \in after..Len(trk)}
    IN IF s.missed = 0 \/ MadeIn(t, s) = {} THEN Base(t, s) ELSE Max(reached \cup {Base(t, s)})

Summary(t, s, goal, ess, ended, start, dist) ==
    [hits |-> s.hits, missed |-> s.missed, ignored |-> s.ignored, start |-> start, distance |-> dist,
     status |-> CASE goal -> "goal" [] ~goal /\ ess # NoHit -> "ess"
                  [] ~goal /\ ess = NoHit /\ dist > 0 -> "partial" [] OTHER -> "uploaded",
     elapsed |-> IF start.time > 0 /\ ended # NoHit THEN Larger(At(ended.shown) - start.time, 0) ELSE 0]
Judged(t, trk, s, goal, total, progress) ==
    Summary(t, s, goal, HitOf(s, EssOf(t)), HitOf(s, IF t.type = "open" /\ goal THEN GoalOf(t) ELSE EssOf(t)),
            ScoredStart(t, HitOf(s, StartOf(t))),
            IF goal THEN total ELSE Larger(progress, IF trk = <<>> THEN 0 ELSE MinDist))
InGoalBy(t, s) == s.missed = 0 /\ HitOf(s, GoalOf(t)) # NoHit
EvaluationOf(t, trk, s) == Judged(t, trk, s, InGoalBy(t, s), Total(t), Progress(t, trk, s))
Evaluation(t, trk) == EvaluationOf(t, trk, Hits(t, trk))

\* With the lists of another task, what is read of the distance is any number.
Confused(t, trk, total, read) ==
    LET s == Hits(t, trk) IN Judged(t, trk, s, InGoalBy(t, s), total, read)
\* precompute_waypoint_dist, its loops ended early by another's number of points:
\* validate_task sees no goal or ess beyond k and no margin beyond m.
Shortened(t, k, m) ==
    IF t.type = "open" THEN t
    ELSE [t EXCEPT !.points = [w \in Dom(t) |->
             [t.points[w] EXCEPT !.kind = IF w > k /\ @ \in {"goal", "ess"} THEN "tp" ELSE @,
                                 !.margin = IF w > m THEN 0 ELSE @]]]

-----------------------------------------------------------------------------
(* The leading coefficient (_compute_leading_coeff): each unit of distance *)
(* weighed by the task time at which it was first gained after the start.  *)
\* _leading_target_indices: the first required point not made before fix i
Target(t, hits, i) ==
    LET ahead == {w \in Dom(t) : Required(t.points[w]) /\ (hits[w] = NoHit \/ hits[w].shown >= i)}
    IN IF ahead = {} THEN Max({w \in Dom(t) : Required(t.points[w])}) ELSE Min(ahead)

Gained(t, trk, e, i) ==
    LET new == Flown(t, Target(t, e.hits, i), trk[i]) IN IF e.distance > 0 THEN Smaller(new, e.distance) ELSE new

OpenedAt(t, e) == IF t.open # 0 THEN t.open ELSE e.start.time
ClosedAt(t) == LET close == IF t.type = "open" THEN StartClose(t) ELSE Finish(t) IN Upto(close)

Gain(time, new, most) == time * (new - most)

\* The distance gained by each fix and the area under the gains
InSection(t, e, i) ==
    i > e.hits[StartOf(t)].shown /\ (HitOf(e, EssOf(t)) # NoHit => i <= HitOf(e, EssOf(t)).shown)
GainedBefore(t, trk, e) == Larger(Gained(t, trk, e, e.hits[StartOf(t)].shown), LegsTo(t, StartOf(t)))
Gains(t, trk, e) ==
    LET gains[i \in 0..Len(trk)] ==
            IF i = 0 THEN [most |-> GainedBefore(t, trk, e), area |-> 0]
            ELSE LET s == gains[i - 1]
                     new == Gained(t, trk, e, i)
                 IN IF ~InSection(t, e, i) \/ new <= s.most THEN s
                    ELSE [most |-> new, area |-> s.area + Gain(Larger(At(i) - OpenedAt(t, e), 0), new, s.most)]
    IN gains[Len(trk)]
\* Without the speed section's end, what is left counts until the close.
Outstanding(t, e, most) ==
    LET left == LegsTo(t, EssOf(t)) - e.distance
        waited == (LegsTo(t, EssOf(t)) - LegsTo(t, StartOf(t))) * Larger(e.start.time - OpenedAt(t, e), 0)
    IN IF HitOf(e, EssOf(t)) = NoHit /\ most > LegsTo(t, StartOf(t)) /\ left > 0
       THEN waited + left * (ClosedAt(t) - OpenedAt(t, e)) ELSE 0

Leading(t, trk, e) ==
    IF e.start = Unscored \/ EssOf(t) = 0 THEN 0
    ELSE LET g == Gains(t, trk, e) IN g.area + Outstanding(t, e, g.most)

-----------------------------------------------------------------------------
(* The flight.                                                             *)
EvalInit == task \in TaskSet /\ track = <<>> /\ scored = Evaluation(task, track) /\ overlap = "none"

Fly ==
    /\ Len(track) < MaxFixes
    /\ \E x \in Positions : LET longer == Append(track, x)
                            IN track' = longer /\ scored' = Evaluation(task, longer)
    /\ overlap' = "none"
    /\ UNCHANGED task

\* Another evaluation prepares its task while this one reads distances
FlyBeside ==
    /\ Len(track) < MaxFixes
    /\ \E x \in Positions, d \in Misread :
          LET longer == Append(track, x)
          IN track' = longer /\ scored' = Confused(task, longer, Total(task), d)
    /\ overlap' = "reading"
    /\ UNCHANGED task

\* or while this one prepares its own.
FlyAcross ==
    /\ Len(track) < MaxFixes
    /\ \E x \in Positions, d \in Misread, k, m, j \in Lengths :
          LET longer == Append(track, x)
              total == LegsTo(task, Smaller(j, Len(task.points)))
          IN track' = longer /\ scored' = Confused(Shortened(task, k, m), longer, total, d)
    /\ overlap' = "preparing"
    /\ UNCHANGED task

EvalNext == Fly \/ FlyBeside \/ FlyAcross

EvalSpec == EvalInit /\ [][EvalNext]_evalvars

-----------------------------------------------------------------------------
(* Properties.                                                             *)

\* What an evaluation may say, whatever runs beside it: points are made in order
\* up to the one missed, only a whole course is goal.  The distance is within
\* the task or the minimum when nothing ran beside it.
EvalTypeOK ==
    LET e == scored IN
    /\ overlap \in {"none", "reading", "preparing"}
    /\ e.missed \in 0..Len(task.points)
    /\ \A w \in Dom(task) : Required(task.points[w]) =>
          (e.hits[w] # NoHit <=> (e.missed = 0 \/ w < e.missed))
    /\ e.distance \in Nat
    /\ e.status = "goal" => e.missed = 0 /\ (overlap # "preparing" => e.distance = Total(task))
    /\ overlap = "none" =>
          /\ e.distance <= Larger(Total(task), MinDist)
          /\ e.missed # 0 => e.distance <= Larger(LegsTo(task, e.missed), MinDist)

\* The launch, which is optional, comes first and is passed at once or never.
LaunchFirst ==
    \A w \in Dom(task) : ~Required(task.points[w]) =>
        w = 1 /\ ~task.points[w].exit /\ (track = <<>> \/ Within(task.points[w], track[1]))

\* Whether the point after the start is one to enter
EnteredNext(t, w) ==
    NextRequired(t, w) # {} => LET next == t.points[Min(NextRequired(t, w))] IN ~next.exit /\ ~IsStart(next)

\* The walk takes the first crossing it can and gives no point up for a
\* restart: whenever the fixes hold crossings of all the points in order, and
\* in time, the pilot is in goal.  Not so when the point after the start is
\* itself to be left (validate_task), and not when the margins were lost while
\* another task was prepared.
MadeIfFlown ==
    LET ps == task.points
        required == {w \in Dom(task) : Required(ps[w])}
        from == IF required = Dom(task) THEN 1 ELSE 2  \* the first fix is the launch's
    IN task.type # "open" /\ overlap # "preparing" /\ LaunchFirst /\ (\A w \in required : IsStart(ps[w]) => EnteredNext(task, w)) =>
       ( (\E f \in [required -> 1..Len(track)] :
            \A w \in required :
               /\ f[w] \in Crossings(ps[w], track, from, LatestFor(task, ps[w]))
               /\ \A v \in required : v < w => Shown(ps[v], f[v]) < f[w])
         => scored.missed = 0 )

\* An entry is recorded after the point before it: no fix counts for both
\* (test_cursor_does_not_reuse_same_fix_for_next_turnpoint).
EnteredAfter ==
    LET e == scored IN
    \A v, w \in Dom(task) :
        v < w /\ e.hits[v] # NoHit /\ e.hits[w] # NoHit /\ ~task.points[w].exit /\ ~IsStart(task.points[w])
            => e.hits[v].shown < e.hits[w].shown

\* The two copies of the rules for crossings, in verify.py and in scoring.py,
\* find the same crossings of a point when given the same margin, also in the
\* open-distance tasks that one serves.
ScansAgree ==
    task.type = "open" => \A w \in Dom(task), cursor \in 1..Len(track), latest \in {task.close, End} :
        LET p == task.points[w] IN
        /\ PointHit(p, track, cursor, latest, FALSE) = FirstHit(p, track, cursor, latest)
        /\ PointHit(p, track, cursor, latest, TRUE) = LastHit(p, track, cursor, latest)

\* The scored start of a race is a gate that was open when the pilot left,
\* and the last such; only a start before the first gate is scored later than
\* flown.  What a pilot's time gains over the time flown is the jump, unless
\* the end of the speed section was not seen while another task was prepared.
StartFits ==
    LET e == scored
        hit == HitOf(e, StartOf(task))
        gates == Gates(task)
    IN hit # NoHit =>
       /\ task.type # "elapsed" /\ gates # <<>> =>
            /\ e.start.time <= At(hit.after) \/ (e.start.gate = 1 /\ e.start.jump > 0)
            /\ \A g \in DOMAIN gates : gates[g] <= At(hit.shown) => gates[g] <= e.start.time
       /\ e.elapsed > 0 /\ task.type # "open" /\ overlap # "preparing" =>
            e.elapsed + e.start.jump >= At(e.hits[EssOf(task)].shown) - At(hit.after)

\* A fix more takes no point back from a pilot: a restart is accepted until
\* the next point is made, and for an open distance until the start closes.
\* Evaluations of other tasks may change that only while they prepare theirs.
PointsStayMade ==
    [][LaunchFirst /\ overlap # "preparing" /\ overlap' # "preparing" /\ (task.type = "open" => At(Len(track)) > Upto(StartClose(task)))
          => MadeIn(task, scored) \subseteq MadeIn(task, scored')]_evalvars

\* Nor distance, unless the pilot starts again, if no evaluation of another task
\* ran beside either of the two.
DistanceStays ==
    [][LaunchFirst /\ overlap = "none" /\ overlap' = "none" /\ HitOf(scored', StartOf(task)) = HitOf(scored, StartOf(task))
          => scored.distance <= scored'.distance]_evalvars

\* The leading coefficient is the time, since the opening, at which each unit
\* of the distance was first gained after the start.  It is read from the lists.
LeadingIsFirstTimes ==
    LET e == scored
        fixes == {i \in 1..Len(track) : InSection(task, e, i)}
        before == GainedBefore(task, track, e)
        most == Max({Gained(task, track, e, i) : i \in fixes} \cup {before})
        first == [d \in (before + 1)..most |-> Min({At(i) : i \in {j \in fixes : Gained(task, track, e, j) >= d}})]
        waited == [d \in (before + 1)..most |-> Larger(first[d] - OpenedAt(task, e), 0)]
    IN overlap = "none" /\ e.start # Unscored /\ EssOf(task) # 0 =>
       Leading(task, track, e) = Outstanding(task, e, most) + SumFunctionOnSet(waited, (before + 1)..most)

\* What was flown is what is scored: points in order, by either copy of the
\* rules, from the right gate, with the coefficient of the first times, but for
\* what evaluations of other tasks that run beside it do to distances and margins.
FlownIsScored == EvalTypeOK /\ MadeIfFlown /\ EnteredAfter /\ ScansAgree /\ StartFits /\ LeadingIsFirstTimes

\* A longer flight is worth no less, but for the same.
FixesNeverHurt == PointsStayMade /\ DistanceStays
=============================================================================
