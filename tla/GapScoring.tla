----------------------------- MODULE GapScoring -----------------------------
(***************************************************************************)
(* From the evaluations of a task to points, penalties, handicaps and      *)
(* ranks (backend/app/services/scoring.py, _score_evaluations, and         *)
(* services/airscore/gap.py).                                              *)
(*                                                                         *)
(* Evaluations and penalties are entered one at a time, as the desk enters *)
(* them, and the task is scored as a whole.  Points are whole numbers,     *)
(* rounded down, shares are per mille; the polynomials of the formulas are *)
(* kept, roots and powers are replaced by proportions.                     *)
(***************************************************************************)
EXTENDS Integers, Sequences, FiniteSetsExt, Functions, Database

CONSTANTS Rivals,      \* the pilots of the event: 1..n, their ids
          Events,      \* the settings of the event
          Flights,     \* [status, dist, start, ess, lead, jump]: what evaluate_task returned
          Charges,     \* [type, value]: penalties the desk may enter
          MaxCharges,  \* bound on the penalties of a pilot
          Ess          \* the length of the task to the end of its speed section

VARIABLES event,   \* the settings of the event
          entry,   \* what is to be scored of each pilot
          charged, \* table score_penalties
          sheet    \* the scores, as the last rescoring wrote them

gapvars == <<event, entry, charged, sheet>>

EventRecords ==
    [mindist : Nat, nomdist : Nat, nomtime : Nat, sspenalty : Nat, lwf : Nat, use : SUBSET STRING,
     diffcalc : STRING, version : Nat, hg : BOOLEAN, handicap : BOOLEAN, normalize : BOOLEAN, open : Nat,
     multiplier : [Rivals -> Nat]]
FlightRecords ==
    [status : {"goal", "ess", "partial"}, dist : Nat, start : Nat, ess : Nat, lead : Nat, jump : Nat]

ASSUME GapAssumption ==
    /\ Rivals \subseteq Nat /\ IsFiniteSet(Rivals) /\ MaxCharges \in Nat /\ Ess \in Nat
    /\ Events \subseteq EventRecords /\ Flights \subseteq FlightRecords
    /\ Charges \subseteq [type : {"percentage", "fixed"}, value : Nat]
    /\ None \notin [status : {"goal", "ess", "partial", "minimum_distance", "did_not_fly", "absent"},
                     dist : Nat, start : Nat, ess : Nat, lead : Nat, jump : Nat]

Least(S, none) == IF S = {} THEN none ELSE Min(S)
Most(S, none) == IF S = {} THEN none ELSE Max(S)
Bound(x, low, high) == IF x < low THEN low ELSE IF x > high THEN high ELSE x
Count(S) == Cardinality(S)

-----------------------------------------------------------------------------
(* _build_formula: a setting that is missing or 0 takes its default.       *)
Setting(v, default) == IF v = 0 THEN default ELSE v
ArrivalMode(use) ==
    IF "arrival_time" \in use THEN "timed" ELSE IF "arrival_position" \in use THEN "position" ELSE "off"
DepartureMode(use) ==
    IF "leading" \in use THEN "leadout" ELSE IF "departure" \in use THEN "departure" ELSE "off"
Formula(ev) ==
    [mindist |-> Setting(ev.mindist, 1), nomdist |-> Setting(ev.nomdist, 2), nomtime |-> Setting(ev.nomtime, 4),
     sspenalty |-> Bound(ev.sspenalty, 0, 100), lwf |-> Setting(ev.lwf, 100),
     arrival |-> ArrivalMode(ev.use), departure |-> DepartureMode(ev.use),
     diffcalc |-> ev.diffcalc, version |-> ev.version, hg |-> ev.hg,
     normalize |-> ev.normalize, open |-> ev.open]

\* _build_airscore_pilot_result: without a start there is no time
PilotResult(f, e) ==
    [dist |-> IF e.status = "minimum_distance" THEN f.mindist ELSE e.dist, start |-> e.start,
     end |-> IF e.start = 0 THEN 0 ELSE e.ess,
     time |-> IF e.start = 0 \/ e.ess < e.start THEN 0 ELSE e.ess - e.start,
     goal |-> e.status = "goal", penalty |-> e.jump, lead |-> e.lead,
     result |-> CASE e.status = "did_not_fly" -> "dnf" [] e.status = "absent" -> "abs" [] OTHER -> "lo"]

-----------------------------------------------------------------------------
(* build_task_totals and day_quality, for the pilots' results r.           *)
Flew(x) == x.dist > 0 \/ x.result = "lo"
Active(r) == {p \in DOMAIN r : r[p].result # "abs"}
Scorable(r) == {p \in Active(r) : r[p].result # "dnf"}
Timed(r) == {p \in Active(r) : r[p].end > r[p].start}
InGoal(r) == {p \in Active(r) : r[p].goal}

\* The distance that counts: a pilot who flew has the minimum
Effective(f, r) == [p \in Active(r) |-> IF Flew(r[p]) /\ r[p].dist < f.mindist THEN f.mindist ELSE r[p].dist]
Launched(r) == {p \in Active(r) : Flew(r[p])}
Second(r) ==  \* all but the fastest
    {p \in Timed(r) : \E q \in Timed(r) : q # p /\ (r[q].time < r[p].time \/ (r[q].time = r[p].time /\ q < p))}
Leaders(r) == {p \in (IF Timed(r) # {} THEN Timed(r) ELSE Active(r)) : r[p].lead > 0}
Spread(f, r) == IF f.diffcalc = "lo" THEN Scorable(r) \ InGoal(r) ELSE Scorable(r)
Lookahead(f, r) ==
    LET landedOut == Count(Launched(r)) - Count(InGoal(r))
    IN IF landedOut > 0 THEN (3 * Most({r[p].dist : p \in Active(r) \ InGoal(r)} \cup {f.mindist}, 0)) \div landedOut ELSE 0

Totals(f, r) ==
    LET eff == Effective(f, r)
        fastest == Least({r[p].time : p \in Timed(r)}, 0)
    IN [pilots |-> Count(Active(r)), launched |-> Count(Launched(r)), goal |-> Count(InGoal(r)), ess |-> Count(Timed(r)),
        distance |-> SumFunctionOnSet(eff, Active(r)),
        maxdist |-> Most({eff[p] : p \in Active(r)} \cup {f.mindist}, 0),
        fastest |-> fastest, tqtime |-> Least({r[p].time : p \in Second(r)}, fastest),
        firstdepart |-> Least({r[p].start : p \in {q \in InGoal(r) : r[q].start > 0}}, 0),
        firstarrival |-> Least({r[p].end : p \in Timed(r)}, 0), lastarrival |-> Most({r[p].end : p \in Timed(r)}, 0),
        mincoeff |-> Least({r[p].lead : p \in Leaders(r)}, 0),
        spread |-> Spread(f, r), lookahead |-> Lookahead(f, r)]

LaunchValidity(t) ==  \* for a nominal launch of 95 %
    LET n == 20 * t.launched d == 19 * t.pilots
    IN IF n > d THEN 1000 ELSE Bound((27 * n * d * d + 2917 * n * n * d - 1944 * n * n * n) \div (d * d * d), 0, 1000)

DistValidity(f, t) ==  \* "area", for a nominal goal of 30 %; negative, it makes a negative share, of which 0 is kept
    LET area == t.launched * (130 * (f.nomdist - f.mindist) + 30 * Most({0, t.maxdist - f.nomdist}, 0))
    IN IF area <= 0 THEN 0 ELSE Bound((200000 * (t.distance - t.launched * f.mindist)) \div area, 0, 1000)

TimeValidity(f, t) ==
    LET n == IF t.ess = 0 THEN t.maxdist ELSE IF f.version >= 2021 THEN t.fastest ELSE t.tqtime
        d == IF t.ess = 0 THEN f.nomdist ELSE f.nomtime
    IN IF n >= d THEN 1000
       ELSE Bound((2912 * n * d * d + 457 * n * n * n - 271 * d * d * d - 2098 * n * n * d) \div (d * d * d), 100, 1000)

Quality(f, t) == IF t.pilots = 0 THEN 0
                 ELSE (((DistValidity(f, t) * TimeValidity(f, t)) \div 1000) * LaunchValidity(t)) \div 1000

\* points_weight, for the distance weights of 2014
DistanceWeight(n, d) == (900 * d * d * d - 1665 * n * d * d + 1713 * n * n * d - 587 * n * n * n) \div (d * d * d)
LeadingShare(f, other) ==
    IF f.departure = "off" THEN 0 ELSE (other * (IF f.lwf # 100 THEN 10 * f.lwf ELSE 175)) \div 1000
ArrivalShare(f, other) == IF f.arrival = "off" THEN 0 ELSE other \div 8
Shares(f, distance, other) ==
    [distance |-> distance, speed |-> other - LeadingShare(f, other) - ArrivalShare(f, other),
     start |-> LeadingShare(f, other), arrival |-> ArrivalShare(f, other)]
WeightsOf(f, quality, weight) == Shares(f, (quality * weight) \div 1000, (quality * (1000 - weight)) \div 1000)
Weights(f, t) ==
    IF t.launched = 0 THEN Shares(f, 0, 0)
    ELSE WeightsOf(f, Quality(f, t), DistanceWeight(t.goal, t.launched))

-----------------------------------------------------------------------------
(* The points of a pilot (gap.py).                                         *)
\* calc_kmdiff: the share of the field that a distance leaves behind
Difficulty(f, t, r, dist) ==
    LET behind == Count({q \in t.spread : Most({0, r[q].dist - t.lookahead}, 0) <= dist})
    IN IF f.diffcalc = "lo" /\ t.spread # {} THEN (1000 * behind) \div Count(t.spread)
       ELSE (1000 * behind) \div Most({t.launched, 1}, 1)

DistancePoints(f, t, r, p, available) ==
    (available * ((1000 * r[p].dist) \div t.maxdist + Difficulty(f, t, r, r[p].dist))) \div 2000

SpeedPoints(t, x, available) ==
    IF x.time <= 0 THEN 0 ELSE Bound((available * (1000 - (1000 * (x.time - t.fastest)) \div t.fastest)) \div 1000, 0, available)

ArrivalCurve(n, d) == (200 * d * d * d + 37 * n * d * d + 130 * n * n * d + 633 * n * n * n) \div (d * d * d)
ArrivalPoints(f, t, x, place, available) ==
    CASE x.time <= 0 -> 0
      [] x.time > 0 /\ f.arrival = "timed" ->
           Bound((available * ArrivalCurve(6 - (x.end - t.firstarrival), 6)) \div 1000, 0, available)
      [] OTHER -> Bound((available * ArrivalCurve(t.ess - place + 1, t.ess)) \div 1000, 0, available)

\* A departure before the first of the pilots in goal is worth more than is available.
DeparturePoints(f, t, x, lead, mincoeff, available, speed) ==
    LET n == x.start - t.firstdepart d == f.nomtime IN
    CASE f.departure = "off" -> 0
      [] f.departure = "leadout" ->
           IF lead <= 0 THEN 0
           ELSE IF lead <= mincoeff THEN available
           ELSE IF mincoeff <= 0 THEN 0
           ELSE Bound((available * (1000 - (1000 * (lead - mincoeff)) \div mincoeff)) \div 1000, 0, available)
      [] OTHER ->
           IF 2 * n >= d \/ x.time <= 0 THEN 0
           ELSE Most({0, (((SpeedPoints(t, x, speed) * available) \div Most({speed, 1}, 1))
                     * ((1000 * d * d * d - 6312 * n * d * d + 10932 * n * n * d - 2990 * n * n * n) \div (d * d * d))) \div 1000}, 0)

\* _score_evaluations: the opening, or else the start of the first pilot that has one
FirstStart(f, r) == LET ps == {p \in DOMAIN r : r[p].start > 0} IN IF ps = {} THEN 0 ELSE r[Min(ps)].start
Opened(f, r) ==
    LET started == {p \in DOMAIN r : r[p].start > 0}
    IN IF f.open # 0 THEN f.open ELSE IF started = {} THEN 0 ELSE r[Min(started)].start
Window == 24  \* without a finish: a day

\* points_allocation: what a pilot without the end of the speed section is
\* missing counts until the last arrival and not until the finish.
Unfinished(t, x) == t.goal # 0 /\ x.start # 0 /\ x.end <= x.start /\ t.lastarrival # 0
Lead(f, t, r, p) ==
    LET left == Ess - r[p].dist
    IN IF ~Unfinished(t, r[p]) THEN r[p].lead
       ELSE Most({0, r[p].lead - left * Window + left * (t.lastarrival - Opened(f, r))}, 0)
\* Only those pilots can lower the least coefficient of the task.
LeastLead(f, t, r) ==
    LET unfinished == {p \in DOMAIN r : Unfinished(t, r[p])}
    IN IF t.mincoeff = 0 THEN 0 ELSE Min({t.mincoeff} \cup {x \in {Lead(f, t, r, p) : p \in unfinished} : x > 0})

\* The order of elapsed times, and of distance; pilots that cross together share a place.
Elapsed(x) == IF x.end > x.start THEN x.end - x.start ELSE 99
Ahead(r, p, q) ==
    \/ Elapsed(r[p]) < Elapsed(r[q])
    \/ Elapsed(r[p]) = Elapsed(r[q]) /\ (r[p].dist > r[q].dist \/ (r[p].dist = r[q].dist /\ p < q))
Position(r, p) == 1 + Count({q \in DOMAIN r : Ahead(r, q, p)})
Place(r, p) ==
    Min({Position(r, q) : q \in {o \in DOMAIN r : Position(r, o) <= Position(r, p) /\
            \A m \in DOMAIN r : Position(r, m) \in Position(r, o)..Position(r, p) => r[m].end = r[p].end}})

\* points_allocation, for totals t, shares a and the least coefficient
Points(f, r, t, a, least, p) ==
    LET x == r[p]
        kept(points) == IF x.goal THEN points ELSE points - (points * f.sspenalty) \div 100
    IN IF x.result \in {"dnf", "abs"} THEN [distance |-> 0, speed |-> 0, arrival |-> 0, departure |-> 0]
       ELSE [distance |-> DistancePoints(f, t, r, p, a.distance), speed |-> kept(SpeedPoints(t, x, a.speed)),
             arrival |-> kept(ArrivalPoints(f, t, x, Place(r, p), a.arrival)),
             departure |-> DeparturePoints(f, t, x, Lead(f, t, r, p), least, a.start, a.speed)]
TotalPoints(s, x) == Most({0, s.distance + s.speed + s.arrival + s.departure - x.penalty}, 0)

-----------------------------------------------------------------------------
(* Handicap, penalties and rank.                                           *)
Competitive == {"goal", "ess", "partial"}
Multiplied(ev, raw, p) == (raw[p] * ev.multiplier[p]) \div 100
Adjusted(ev, raw, e) ==
    LET rated == {p \in DOMAIN raw : e[p].status \in Competitive}
        top == Most({Multiplied(ev, raw, p) : p \in rated}, 0)
        target == IF ev.normalize THEN 1000 ELSE Most({raw[p] : p \in rated}, 0)
    IN [p \in DOMAIN raw |-> IF ~ev.handicap THEN raw[p]
                             ELSE IF top > 0 THEN (Multiplied(ev, raw, p) * target) \div top
                             ELSE Multiplied(ev, raw, p)]

\* _apply_penalties: percentages one after the other, then what is fixed
Cut(score, cs) ==
    LET cut[i \in 0..Len(cs)] ==
            IF i = 0 THEN score
            ELSE IF cs[i].type # "percentage" THEN cut[i - 1]
            ELSE cut[i - 1] - (cut[i - 1] * cs[i].value) \div 100
    IN cut[Len(cs)]
Taken(score, cs) ==
    LET left[i \in 0..Len(cs)] ==
            IF i = 0 THEN score ELSE IF cs[i].type # "fixed" THEN left[i - 1] ELSE left[i - 1] - cs[i].value
    IN left[Len(cs)]
Penalised(score, cs) == Most({0, Taken(Cut(score, cs), cs)}, 0)

\* _manual_penalty_lines: the same two loops for the lines that are shown, of
\* which a penalty of 0 gets none; what runs is the score after each line.
OnLine(c, type) == c.type = type /\ c.value > 0
RunningCut(score, cs) ==
    LET running[i \in 0..Len(cs)] ==
            IF i = 0 THEN score
            ELSE LET before == running[i - 1]
                     delta == (before * cs[i].value) \div 100
                 IN IF OnLine(cs[i], "percentage") THEN before - delta ELSE before
    IN running[Len(cs)]
Running(score, cs) ==
    LET running[i \in 0..Len(cs)] ==
            IF i = 0 THEN RunningCut(score, cs)
            ELSE LET before == running[i - 1] IN IF OnLine(cs[i], "fixed") THEN before - cs[i].value ELSE before
    IN running[Len(cs)]
ShownPenalty(score, cs) == Most({0, score - Most({0, Running(score, cs)}, 0)}, 0)

Entered(e) == {p \in Rivals : e[p] # None}
PilotResults(ev, e) == [p \in Entered(e) |-> PilotResult(Formula(ev), e[p])]
\* From the points of the formula to the score: what is added up, multiplied
\* and subtracted, in this order.
Final(points, raw, adjusted, cs) ==
    [p \in DOMAIN raw |-> [points |-> points[p], raw |-> raw[p], adjusted |-> adjusted[p],
                           final |-> Penalised(adjusted[p], cs[p])]]
AfterHandicap(ev, e, cs, points, raw) == Final(points, raw, Adjusted(ev, raw, e), cs)
AfterPoints(ev, e, cs, r, points) == AfterHandicap(ev, e, cs, points, [p \in DOMAIN r |-> TotalPoints(points[p], r[p])])
AllPoints(f, r, t, a, least) == [p \in DOMAIN r |-> Points(f, r, t, a, least, p)]
PointsFor(f, r, t) == AllPoints(f, r, t, Weights(f, t), LeastLead(f, t, r))
ScoresOf(ev, e, cs, f, r) == AfterPoints(ev, e, cs, r, PointsFor(f, r, Totals(f, r)))
Scores(ev, e, cs) == ScoresOf(ev, e, cs, Formula(ev), PilotResults(ev, e))

StatusOrder == [goal |-> 0, ess |-> 1, partial |-> 2]
Key(ev, e, s, p) ==
    <<-(IF ev.handicap THEN s[p].final ELSE s[p].raw), StatusOrder[e[p].status],
      IF e[p].ess > e[p].start THEN e[p].ess - e[p].start ELSE 99, -e[p].dist>>
Lower(j, k) == \E i \in DOMAIN j : j[i] < k[i] /\ \A h \in 1..(i - 1) : j[h] = k[h]
Rank(ev, e, s, p) ==
    1 + Count({q \in DOMAIN s : e[q].status \in Competitive /\
                  (Lower(Key(ev, e, s, q), Key(ev, e, s, p))
                   \/ (Key(ev, e, s, q) = Key(ev, e, s, p) /\ Ahead(PilotResults(ev, e), q, p)))})

-----------------------------------------------------------------------------
(* The desk: whatever is entered, the task is scored again.                *)
NoFlight(s) == [status |-> s, dist |-> 0, start |-> 0, ess |-> 0, lead |-> 0, jump |-> 0]
StatusOnly == {NoFlight("minimum_distance"), NoFlight("did_not_fly"), NoFlight("absent")}

GapInit ==
    /\ event \in Events
    /\ entry = [p \in Rivals |-> None]
    /\ charged = [p \in Rivals |-> <<>>]
    /\ sheet = <<>>

Enter(p, f) ==
    LET e == [entry EXCEPT ![p] = f] IN
    /\ entry[p] = None
    /\ entry' = e /\ sheet' = Scores(event, e, charged)
    /\ UNCHANGED <<event, charged>>

Charge(p, c) ==
    LET cs == [charged EXCEPT ![p] = Append(@, c)] IN
    /\ entry[p] # None /\ Len(charged[p]) < MaxCharges
    /\ charged' = cs /\ sheet' = Scores(event, entry, cs)
    /\ UNCHANGED <<event, entry>>

GapNext ==
    \E p \in Rivals : (\E f \in Flights \cup StatusOnly : Enter(p, f)) \/ (\E c \in Charges : Charge(p, c))

GapSpec == GapInit /\ [][GapNext]_gapvars

-----------------------------------------------------------------------------
(* Properties.                                                             *)
Results == PilotResults(event, entry)
DayTotals == Totals(Formula(event), Results)
Available == Weights(Formula(event), DayTotals)
Rated == {p \in DOMAIN sheet : entry[p].status \in Competitive}

\* A leading weight above what distance and arrival leave makes the share of the
\* speed negative (points_weight); nothing is claimed of such a day.
SpeedCounts == Available.speed >= 0

\* A penalty of more than 100 % may turn the score's sign, twice so raise it.
Moderate(p) == \A i \in DOMAIN charged[p] : charged[p][i].type = "percentage" => charged[p][i].value <= 100

\* No share of the points exceeds what the day makes available, and that is
\* within 1000 points times the quality of the day; ranks are 1, 2, 3, ...
\* (Departure points may exceed their share: DeparturePoints.)
GapTypeOK ==
    LET a == Available IN
    /\ a.distance + a.speed + a.start + a.arrival <= Quality(Formula(event), DayTotals)
    /\ \A p \in DOMAIN sheet :
          LET s == sheet[p] IN
          /\ s.points.distance \in 0..a.distance /\ (SpeedCounts => s.points.speed \in 0..a.speed)
          /\ s.points.arrival \in 0..a.arrival
          /\ Formula(event).departure # "departure" => s.points.departure \in 0..a.start
          /\ Moderate(p) => s.final \in 0..s.adjusted
    /\ {Rank(event, entry, sheet, p) : p \in Rated} = 1..Count(Rated)

\* A pilot who was no worse than another in anything is not behind the other:
\* not through the shares of difficulty, the places or the corrected leading
\* coefficients.  Places go by the elapsed time, the distance and then the
\* order of the ids, whoever crosses first, so it takes the place too.
\* Departure points fall with a later start up to a third of the nominal time
\* after the first; from there to a half, where they end, they rise again
\* (pilot_departure_leadout), and such a start is left out.
BetterNotBehind ==
    LET f == Formula(event) r == Results t == DayTotals
        Better(x, y) == y <= 0 \/ (x > 0 /\ x <= y)
        Waited(q) == r[q].start - t.firstdepart
        Fading(q) == 3 * Waited(q) <= f.nomtime \/ 2 * Waited(q) >= f.nomtime
    IN SpeedCounts => \A p, q \in DOMAIN sheet :
         /\ r[p].result = "lo" /\ r[p].dist >= r[q].dist /\ (r[q].goal => r[p].goal)
         /\ Better(r[p].time, r[q].time) /\ Better(r[p].end, r[q].end) /\ r[p].penalty <= r[q].penalty
         /\ Better(Lead(f, t, r, p), Lead(f, t, r, q)) /\ (f.arrival = "position" => Ahead(r, p, q))
         /\ (f.departure = "departure" => r[p].start <= r[q].start /\ Fading(q))
         => sheet[p].raw >= sheet[q].raw

\* Whoever has the least coefficient takes all the leading points, also after
\* the coefficients of those who landed out were corrected.
SomeoneLeads ==
    Formula(event).departure = "leadout" /\ (\E p \in Timed(Results) : Results[p].lead > 0) =>
        \E p \in DOMAIN sheet : sheet[p].points.departure = Available.start

\* With a clock for the start, the points before penalties do not depend on the
\* order in which the pilots are read, which is that of their ids: two that
\* exchange their flights exchange their points.  Without one the first pilot's
\* start stands for it; and arrival positions go by elapsed time, in the order
\* of the ids when it is equal.
OrderFree ==
    Formula(event).open # 0 /\ Formula(event).arrival # "position" /\ (\A p \in Rivals : charged[p] = <<>>) =>
        \A p, q \in DOMAIN sheet :
            q = p + 1 => LET Other(x) == IF x = p THEN q ELSE IF x = q THEN p ELSE x
                         moved == Scores([event EXCEPT !.multiplier = [x \in Rivals |-> event.multiplier[Other(x)]]],
                                         [x \in Rivals |-> entry[Other(x)]], charged)
                     IN \A x \in DOMAIN sheet : moved[x].raw = sheet[Other(x)].raw

\* The handicap gives the best of the multiplied scores the best of the raw
\* ones, or 1000, and keeps their order.
HandicapFair ==
    LET raw == [p \in DOMAIN sheet |-> sheet[p].raw]
        best == {p \in Rated : \A q \in Rated : Multiplied(event, raw, q) <= Multiplied(event, raw, p)}
    IN event.handicap =>
       /\ \A p \in best : Multiplied(event, raw, p) > 0 =>
             sheet[p].adjusted = IF event.normalize THEN 1000 ELSE Most({raw[q] : q \in Rated}, 0)
       /\ \A p, q \in Rated : Multiplied(event, raw, p) <= Multiplied(event, raw, q)
                                => sheet[p].adjusted <= sheet[q].adjusted

\* The lines shown with a result explain the difference that the penalties
\* make (build_result_penalty_payload and _apply_penalties).
LinesExplain ==
    \A p \in DOMAIN sheet : Moderate(p) => ShownPenalty(sheet[p].adjusted, charged[p]) = sheet[p].adjusted - sheet[p].final

\* A day is fair: no pilot behind a worse one, the same points in any order, and
\* what is subtracted explained.
DayIsFair == GapTypeOK /\ BetterNotBehind /\ SomeoneLeads /\ OrderFree /\ HandicapFair /\ LinesExplain
=============================================================================
