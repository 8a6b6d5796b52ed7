---------------------------- MODULE ResultPages ----------------------------
(***************************************************************************)
(* The results of a meet as its three audiences read them: the organisers, *)
(* the signed-in pilots (official results only) and the public (published  *)
(* tasks only, official or not).  backend/app/routers/results.py and       *)
(* routers/public.py compute the same pages twice, from the same rows,     *)
(* with conditions of their own; the rows come and go with rescoring       *)
(* (services/scoring.py), with publishing results and tasks (results.py,   *)
(* tasks.py), and the pilots with the meet's entry list (pilots.py).       *)
(*                                                                         *)
(* A rescoring reads, runs its DELETE and commits the rows it inserts; the *)
(* rows that another one commits in between are not deleted.               *)
(***************************************************************************)
EXTENDS Integers, Sequences, FiniteSets, FiniteSetsExt, Functions, Database

CONSTANTS Sheets,       \* tasks of the meet
          Competitors,  \* pilots: numbers, in the order of their names
          PilotId,      \* their ids
          Outcomes,     \* what a scoring can make of a pilot, for each task
          Removable,    \* pilots who may leave the meet
          Trainable,    \* tasks that may be practice
          Settings,     \* what the meet may be set to: [visibility, ftv]
          NoResult, Unranked

StatusOnlyValues == {"minimum_distance", "did_not_fly", "absent"}

CompetitiveStatuses == {"goal", "ess", "partial"}

\* What a scoring makes of a pilot: a track that competes, a status only, or a
\* track in a task without a course ("uploaded").  Penalties take off points,
\* never below 0; in a meet with handicaps the points may also exceed the raw
\* ones.  "tie" stands for status, time and distance, the better the less.
Scorings ==
    {o \in [status : CompetitiveStatuses \cup StatusOnlyValues \cup {"uploaded"}, competes : BOOLEAN,
            raw : Nat, points : Nat, handicap : BOOLEAN, tie : Nat, file : BOOLEAN] :
        (o.competes <=> o.status \in CompetitiveStatuses) /\ (o.handicap \/ o.points <= o.raw)}

ResultOf(t) ==
    [outcome : Outcomes[t], rank : 1..Unranked, state : {"provisional", "official"},
     latest : BOOLEAN]     \* made by the task's latest scoring (history)

ASSUME PagesAssumption ==
    /\ IsFiniteSet(Sheets) /\ Unranked \in Nat /\ Competitors \subseteq 1..(Unranked - 1)
    /\ PilotId \in [Competitors -> Nat]
    /\ \A p, q \in Competitors : PilotId[p] = PilotId[q] => p = q
    /\ Removable \subseteq Competitors /\ Trainable \subseteq Sheets
    /\ Settings \subseteq [visibility : {"public", "private"}, ftv : BOOLEAN]
    /\ \A t \in Sheets : Outcomes[t] \subseteq Scorings /\ NoResult \notin ResultOf(t)

VARIABLES
    listing,    \* each task: [status, practice]
    results,    \* its score_results, by pilot
    roster,     \* pilots entered in the meet
    meet,       \* the meet: [visibility, ftv]
    rescoring,  \* the rescoring of each request, or None
    mixed       \* history: tasks that were last rescored while another
                \* rescoring committed, after the DELETE of the one

pagevars == <<listing, results, roster, meet, rescoring, mixed>>

\* A rescoring: the pilots it read, those whose rows its DELETE saw, and
\* (history) whether another one of the task has committed since.
Rescorings ==
    [task : Sheets, step : {"read", "deleted"}, entered : SUBSET Competitors,
     doomed : SUBSET Competitors, crossed : BOOLEAN]

\* Rows are of tasks and pilots that exist, and a pilot has a rank exactly if
\* the outcome is one that competes: status-only rows never keep a rank.
PagesTypeOK ==
    /\ listing \in [Sheets -> [status : {"draft", "published"}, practice : BOOLEAN]]
    /\ \A t \in Sheets : results[t] \in [Competitors -> ResultOf(t) \cup {NoResult}]
    /\ roster \subseteq Competitors
    /\ meet \in Settings
    /\ rescoring \in [Requests -> Rescorings \cup {None}]
    /\ mixed \subseteq Sheets
    /\ \A t \in Sheets, p \in Competitors :
          results[t][p] # NoResult => (results[t][p].rank = Unranked <=> ~results[t][p].outcome.competes)

PagesInit ==
    /\ listing = [t \in Sheets |-> [status |-> "draft", practice |-> FALSE]]
    /\ results = [t \in Sheets |-> [p \in Competitors |-> NoResult]]
    /\ roster = Competitors
    /\ meet \in Settings
    /\ rescoring = [r \in Requests |-> None]
    /\ mixed = {}

Has(t, p) == results[t][p] # NoResult
WithResult(t) == {p \in Competitors : Has(t, p)}
PointsOf(t, p) == results[t][p].outcome.points
StatusOf(t, p) == results[t][p].outcome.status

\* Sequences of numbers compared from the left, as Python compares tuples.
Less(a, b) == \E i \in DOMAIN a : a[i] < b[i] /\ \A j \in 1..(i - 1) : a[j] = b[j]

-----------------------------------------------------------------------------
(* Rescoring *)

\* What a pilot is ranked by: with handicaps the points, penalties taken off;
\* without them the points before penalties.
RankedBy(o) == IF o.handicap THEN o.points ELSE o.raw

\* Ranks count the competing pilots; those level in all keep the order in
\* which they were scored, that of their ids.
RankKey(got, p) == <<-RankedBy(got[p]), got[p].tie, PilotId[p]>>
RankOf(got, p) ==
    IF ~got[p].competes THEN Unranked
    ELSE Cardinality({q \in DOMAIN got : got[q].competes /\ ~Less(RankKey(got, p), RankKey(got, q))})

Fresh(got, p) ==
    [outcome |-> got[p], rank |-> RankOf(got, p), state |-> "provisional", latest |-> TRUE]

\* The request r, of its rescoring of t, has taken a step.
Rescoring(r, t, step) == rescoring[r] # None /\ rescoring[r].task = t /\ rescoring[r].step = step

\* rescore_task reads the pilots of the meet, and what they flew.
RescoreTask(r, t) ==
    /\ rescoring[r] = None
    /\ rescoring' = [rescoring EXCEPT ![r] =
          [task |-> t, step |-> "read", entered |-> roster, doomed |-> {}, crossed |-> FALSE]]
    /\ UNCHANGED <<listing, results, roster, meet, mixed>>

\* Its DELETE: all rows of the task, also of pilots who have left the meet.
DeleteScores(r, t) ==
    /\ Rescoring(r, t, "read")
    /\ rescoring' = [rescoring EXCEPT ![r].step = "deleted", ![r].doomed = WithResult(t)]
    /\ UNCHANGED <<listing, results, roster, meet, mixed>>

\* A mutant of Survivors: the DELETE spares the rows of pilots not read.
SurvivorsNotRead(r, t) == WithResult(t) \ rescoring[r].entered

\* The rows that others inserted after r's DELETE
Survivors(r, t) == WithResult(t) \ rescoring[r].doomed

Replaced(r, t, got) ==
    [p \in Competitors |->
        IF p \in DOMAIN got THEN Fresh(got, p)
        ELSE IF p \in Survivors(r, t) THEN [results[t][p] EXCEPT !.latest = FALSE]
        ELSE NoResult]

\* r has committed: its rows are no longer those the others' DELETE saw.
Crossed(r, t) ==
    [o \in Requests |->
        IF o = r THEN None
        ELSE IF Rescoring(o, t, "deleted")
             THEN [rescoring[o] EXCEPT !.doomed = rescoring[o].doomed \ rescoring[r].doomed, !.crossed = TRUE]
        ELSE rescoring[o]]

\* The rest of it, and the request's commit: rows for the pilots read who have
\* something to score, with handicaps or without.  Changing the handicaps
\* rescores, so that any rescoring may find them changed.  A second row of a
\* pilot is refused (uq_score_task_pilot).
InsertScores(r, t) ==
    /\ Rescoring(r, t, "deleted")
    /\ \E flown \in SUBSET (rescoring[r].entered \ Survivors(r, t)) : \E got \in [flown -> Outcomes[t]] :
          /\ \A p, q \in flown : got[p].handicap = got[q].handicap
          /\ results' = [results EXCEPT ![t] = Replaced(r, t, got)]
    /\ rescoring' = Crossed(r, t)
    /\ mixed' = IF rescoring[r].crossed THEN mixed \cup {t} ELSE mixed \ {t}
    /\ UNCHANGED <<listing, roster, meet>>

\* A constraint or the evaluation fails: the transaction is rolled back.
RescoreFails(r) ==
    /\ rescoring[r] # None
    /\ rescoring' = [rescoring EXCEPT ![r] = None]
    /\ UNCHANGED <<listing, results, roster, meet, mixed>>

-----------------------------------------------------------------------------
(* Other changes *)

PromoteResult(t, p) ==
    /\ Has(t, p) /\ results[t][p].state # "official"
    /\ results' = [results EXCEPT ![t][p].state = "official"]
    /\ UNCHANGED <<listing, roster, meet, rescoring, mixed>>

\* publish_task_results and unpublish_task_results
StateAll(t, state) ==
    /\ WithResult(t) # {}
    /\ results' = [results EXCEPT ![t] = [p \in Competitors |->
                 IF Has(t, p) THEN [results[t][p] EXCEPT !.state = state] ELSE NoResult]]
    /\ UNCHANGED <<listing, roster, meet, rescoring, mixed>>

\* All rows of a task go: those that a DELETE under way saw, too.
Clear(t) ==
    /\ results' = [results EXCEPT ![t] = [p \in Competitors |-> NoResult]]
    /\ rescoring' = [r \in Requests |->
          IF Rescoring(r, t, "deleted") THEN [rescoring[r] EXCEPT !.doomed = {}] ELSE rescoring[r]]
    /\ mixed' = mixed \ {t}

DeleteTaskResults(t) ==
    /\ Clear(t)
    /\ UNCHANGED <<listing, roster, meet>>

PublishTask(t) ==
    /\ listing' = [listing EXCEPT ![t].status = "published"]
    /\ UNCHANGED <<results, roster, meet, rescoring, mixed>>

\* Unpublishing a task throws its results away; editing it back to a draft,
\* or into a practice task, keeps them.
UnpublishTask(t) ==
    /\ listing' = [listing EXCEPT ![t].status = "draft"]
    /\ Clear(t)
    /\ UNCHANGED <<roster, meet>>

UpdateTask(t) ==
    /\ \E status \in {"draft", "published"}, practice \in BOOLEAN :
          /\ practice => t \in Trainable
          /\ listing' = [listing EXCEPT ![t] = [status |-> status, practice |-> practice]]
    /\ UNCHANGED <<results, roster, meet, rescoring, mixed>>

\* A pilot who is removed keeps the rows scored so far.
EnterOrRemove(p) ==
    /\ roster' = IF p \in roster THEN roster \ {p} ELSE roster \cup {p}
    /\ UNCHANGED <<listing, results, meet, rescoring, mixed>>

UpdateEvent ==
    /\ meet' \in Settings
    /\ UNCHANGED <<listing, results, roster, rescoring, mixed>>

PagesNext ==
    \/ \E t \in Sheets :
          \/ \E r \in Requests : RescoreTask(r, t) \/ DeleteScores(r, t) \/ InsertScores(r, t)
          \/ DeleteTaskResults(t)
          \/ StateAll(t, "official") \/ StateAll(t, "provisional")
          \/ PublishTask(t) \/ UnpublishTask(t) \/ UpdateTask(t)
          \/ \E p \in Competitors : PromoteResult(t, p)
    \/ \E r \in Requests : RescoreFails(r)
    \/ \E p \in Removable : EnterOrRemove(p)
    \/ UpdateEvent

PagesSpec == PagesInit /\ [][PagesNext]_pagevars

-----------------------------------------------------------------------------
(* Pages *)

Audiences == {"organiser", "pilot", "public"}

\* get_public_task and every public page of results: the meet and the task.
OnPublicPages(t) == meet.visibility = "public" /\ listing[t].status = "published"

\* The rows of a task a viewer's queries select, removed pilots' included.
Selected(v, t) ==
    CASE v = "organiser" -> WithResult(t)
      [] v = "pilot" -> {p \in WithResult(t) : results[t][p].state = "official"}
      [] v = "public" -> IF OnPublicPages(t) THEN WithResult(t) ELSE {}

\* get_task_results, get_public_task_results: one line for each pilot entered,
\* "unscored" where no row is selected.
Listed(v, t) == Selected(v, t) \cap roster

\* _task_result_sort_key: least first
LineKey(v, t, p) ==
    IF p \notin Selected(v, t) THEN <<3, 0, Unranked, p>>
    ELSE CASE StatusOf(t, p) = "did_not_fly" -> <<1, 0, results[t][p].rank, p>>
           [] StatusOf(t, p) = "absent" -> <<2, 0, results[t][p].rank, p>>
           [] OTHER -> <<0, -PointsOf(t, p), results[t][p].rank, p>>

AboveInTable(v, t, p, q) == Less(LineKey(v, t, p), LineKey(v, t, q))

\* get_scoring_operations: the desk's order, by class of line and rank
DeskClass(t, p) ==
    CASE ~Has(t, p) -> 4
      [] Has(t, p) /\ results[t][p].rank # Unranked -> 0
      [] OTHER -> [minimum_distance |-> 1, did_not_fly |-> 2, absent |-> 3,
                   uploaded |-> 4][StatusOf(t, p)]

AboveOnDesk(t, p, q) ==
    LET key(n) == <<DeskClass(t, n), IF Has(t, n) THEN results[t][n].rank ELSE Unranked, n>>
    IN  Less(key(p), key(q))

\* task_result_summary, public_task_result_summary: the quality of the day is
\* read from the first row by rank, then by points.
FirstRow(v, t) ==
    CHOOSE p \in Selected(v, t) : \A q \in Selected(v, t) \ {p} :
        ~Less(<<results[t][q].rank, -PointsOf(t, q), q>>, <<results[t][p].rank, -PointsOf(t, p), p>>)

SummaryIsLatest(v, t) == results[t][FirstRow(v, t)].latest

\* get_public_upload_track: a file is replayed if a public result was scored
\* from it.  The pilot need not be entered any more.
TrackServed(t, p) == OnPublicPages(t) /\ Has(t, p) /\ results[t][p].outcome.file

-----------------------------------------------------------------------------
(* Standings: pilot_summary and public_pilot_summary *)

CountedAll(v) == {t \in Sheets : v # "public" \/ listing[t].status = "published"}

Competition(v) == {t \in CountedAll(v) : ~listing[t].practice}

PointsShown(v, t, p) == IF p \in Listed(v, t) THEN PointsOf(t, p) ELSE 0
ScoresShown(v, p) == [t \in Sheets |-> PointsShown(v, t, p)]

BestOf(v, t) == Max({0} \cup {PointsOf(t, p) : p \in Listed(v, t)})
BestScores(v) == [t \in Sheets |-> BestOf(v, t)]

\* The tasks whose best score is positive: the days of the FTV standings.
Days(v) == {t \in Competition(v) : BestOf(v, t) > 0}

\* The tasks an FTV sum runs over: a practice task is left out of it even
\* where it has a best score of its own.
Shared(v) == {t \in CountedAll(v) : ~listing[t].practice /\ BestOf(v, t) > 0}

\* Share of the best on every day, times the average best: over the common
\* denominator of the days (their product times their number).
Times(a, b) == a * b
Product(f, ts) == FoldFunctionOnSet(Times, 1, f, ts)

FtvShare(v, p) ==
    [t \in Sheets |-> PointsShown(v, t, p) * Product(BestScores(v), Shared(v) \ {t})]

FtvTotal(v, p) ==
    SumFunctionOnSet(FtvShare(v, p), Shared(v)) * SumFunctionOnSet(BestScores(v), Days(v))

PlainTotal(v, p) == SumFunctionOnSet(ScoresShown(v, p), Competition(v))

\* The public page knows no FTV.
UsesFtv(v) == v # "public" /\ meet.ftv

TotalOf(v, p) == IF UsesFtv(v) /\ Days(v) # {} THEN FtvTotal(v, p) ELSE PlainTotal(v, p)

-----------------------------------------------------------------------------
(* Properties *)

\* What a page of a task says was made by one scoring: the lines of its table
\* and the quality of the day, read from a row that need not be on the table
\* (its pilot may have left the meet), belong together on everybody's page.
\* Only where the last rescoring was crossed by another one, whose rows its
\* DELETE did not see, the rows of two may stand side by side.
OneScoringShown ==
    \A v \in Audiences, t \in Sheets \ mixed : \A p \in Listed(v, t) :
        results[t][p].latest = SummaryIsLatest(v, t)

\* The pages agree on the totals once everything is out: the pilots' with the
\* organisers' when all results are official, and the public's with the
\* organisers' when all scored tasks of a public meet are published, unless
\* the meet is ranked by FTV, which the public page leaves out.
TotalsAgree ==
    \A p \in roster :
        /\ (\A t \in Sheets : Selected("pilot", t) \cap roster = Listed("organiser", t))
              => TotalOf("pilot", p) = TotalOf("organiser", p)
        /\ (~meet.ftv /\ \A t \in Sheets : WithResult(t) # {} => OnPublicPages(t))
              => TotalOf("public", p) = TotalOf("organiser", p)

\* FTV or not, nobody is placed behind a pilot who did no better on any of
\* the competition's days: practice days never decide.
BetterEveryDayNotBehind ==
    \A v \in Audiences : \A p, q \in roster :
        (\A t \in Sheets : ~listing[t].practice => PointsShown(v, t, p) >= PointsShown(v, t, q))
            => TotalOf(v, p) >= TotalOf(v, q)

\* A track is replayed to the public exactly if the public table has a line
\* scored from it; the one exception is a pilot who has left the meet, whose
\* line is gone while the track is still served.
ReplayMatchesTable ==
    \A t \in Sheets, p \in Competitors :
        /\ p \in Listed("public", t) /\ results[t][p].outcome.file => TrackServed(t, p)
        /\ TrackServed(t, p) => p \in Listed("public", t) \/ p \notin roster

\* Ranks, desk and tables put two pilots in the same order, in a task that is
\* of one scoring.  They may differ where the points do not follow the rank:
\* the one ranked first was penalised (in a meet without handicaps, where the
\* penalties do not count for the rank), the second holds points for the
\* minimum distance, or has a track in a task that has no course.
OrdersAgree ==
    \A v \in Audiences, t \in Sheets \ mixed : \A p, q \in Listed(v, t) :
        AboveOnDesk(t, p, q)
            => \/ AboveInTable(v, t, p, q)
               \/ ~results[t][p].outcome.handicap /\ PointsOf(t, p) < results[t][p].outcome.raw
               \/ StatusOf(t, q) \in {"minimum_distance", "uploaded"}

\* The pages say the same of the results, from one scoring, to everybody who
\* sees all of them.
PagesAgree ==
    PagesTypeOK /\ OneScoringShown /\ TotalsAgree /\ BetterEveryDayNotBehind /\ ReplayMatchesTable /\ OrdersAgree
=============================================================================
