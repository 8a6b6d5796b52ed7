-------------------------- MODULE AirspaceRefresh --------------------------
(***************************************************************************)
(* The FAA airspace (backend/app/services/faa_airspace.py and              *)
(* routers/faa_airspace.py): three sources of the FAA's ArcGIS server,     *)
(* imported into the database and served from memory.  Tasks of one event  *)
(* loop refresh them: the import at the first start, a loop for class and  *)
(* special-use airspace, a loop for flight restrictions, and the refresh   *)
(* that an administrator asks for.                                         *)
(*                                                                         *)
(* The content of a source is the version that its lastEditDate stands     *)
(* for; it is read in two pages.                                           *)
(***************************************************************************)
EXTENDS Naturals, Sequences, FiniteSets, Database

CONSTANTS MaxRevisions,  \* bound on the edits at the FAA
          MaxOutages,    \* bound on the failures that end, and on the kills
          Chosen,        \* what an administrator asks to refresh: lists of sources
          MaxRefreshes,  \* bound on the refreshes asked for
          Bare           \* a page of features without geometry

ASSUME RefreshAssumption ==
    /\ Chosen \subseteq Seq({"class", "sua", "tfr"}) \ {<<>>}
    /\ {MaxRevisions, MaxOutages, MaxRefreshes} \subseteq Nat
    /\ None \notin 0..MaxRevisions /\ Bare \notin (0..MaxRevisions) \cup {None}
    /\ None \notin [date : (0..MaxRevisions) \cup {None}, any : BOOLEAN]

VARIABLES remote,     \* at the FAA: the version of each source and what it has
          broken,     \* the queries for class airspace fail for good
          imported,   \* faa_airspace_features: by source and page the version, None without
          meta,       \* faa_airspace_meta
          cache,      \* _feature_cache
          up,         \* the tasks are running
          job,        \* what each of them does
          outages,
          refreshes,
          overtaken,  \* history: sources edited while what is imported was fetched
          unloaded    \* history: the last load of the cache failed, or was left out

faavars == <<remote, broken, imported, meta, cache, up, job, outages, refreshes, overtaken, unloaded>>

Feeds == {"class", "sua", "tfr"}
Versions == 0..MaxRevisions
Kinds == {"none", "bare", "full"}   \* no features, features without geometry, features
Pages == [1..2 -> Versions \cup {None}]
Reads == [1..2 -> Versions \cup {None, Bare}]
Nothing == <<None, None>>
Jobs == {"boot", "main", "tfr", "manual"}
Job == [todo : Seq(Feeds), step : {"check", "first", "second", "date", "import"},
        read : Reads, date : Versions \cup {None}, edited : BOOLEAN, force : BOOLEAN, ok : SUBSET Feeds]

\* The count that the status shows is zero just when nothing is there.
FaaTypeOK ==
    /\ remote \in [Feeds -> [ver : Versions, has : Kinds]]
    /\ broken \in BOOLEAN
    /\ imported \in [Feeds -> Pages] /\ cache \in [Feeds -> Pages]
    /\ meta \in [Feeds -> [date : Versions \cup {None}, any : BOOLEAN] \cup {None}]
    /\ up \in BOOLEAN /\ job \in [Jobs -> Job \cup {None}]
    /\ outages \in 0..MaxOutages /\ refreshes \in 0..MaxRefreshes
    /\ overtaken \subseteq Feeds /\ unloaded \in BOOLEAN
    /\ \A s \in Feeds : imported[s] # Nothing <=> meta[s] # None /\ meta[s].any

Page(s) == CASE remote[s].has = "none" -> None
             [] remote[s].has = "bare" -> Bare
             [] remote[s].has = "full" -> remote[s].ver

\* _import_to_db skips the features without geometry.
Stored(read) == [p \in 1..2 |-> IF read[p] = Bare THEN None ELSE read[p]]
Whole(s) == Stored([p \in 1..2 |-> Page(s)])

\* A new database, or one that an earlier run has filled.
FaaInit ==
    /\ remote = [s \in Feeds |-> [ver |-> 0, has |-> "full"]]
    /\ broken \in BOOLEAN
    /\ \/ imported = [s \in Feeds |-> Nothing] /\ meta = [s \in Feeds |-> None]
       \/ imported = [s \in Feeds |-> Whole(s)] /\ meta = [s \in Feeds |-> [date |-> 0, any |-> TRUE]]
    /\ cache = [s \in Feeds |-> Nothing]
    /\ up = FALSE /\ job = [j \in Jobs |-> None]
    /\ outages = 0 /\ refreshes = 0
    /\ overtaken = {} /\ unloaded = FALSE

AtWork == {j \in Jobs : job[j] # None}
At(st) == {j \in AtWork : job[j].step = st}
Feed(j) == Head(job[j].todo)

Begin(todo, step, force) ==
    [todo |-> todo, step |-> step, read |-> Nothing, date |-> None, edited |-> FALSE, force |-> force, ok |-> {}]

Load == cache' = imported' /\ unloaded' = FALSE

-----------------------------------------------------------------------------
(* Starting, waking and ending                                             *)

\* start_faa_airspace_refresh: the server is not up before the first import is through.
Start ==
    /\ ~up /\ AtWork = {}
    /\ UNCHANGED <<remote, broken, imported, meta, outages, refreshes, overtaken>>
    /\ Load
    /\ IF \E s \in Feeds : imported[s] # Nothing THEN up' = TRUE /\ job' = job
       ELSE up' = FALSE /\ job' = [job EXCEPT !["boot"] = Begin(<<"class", "sua", "tfr">>, "first", FALSE)]

\* The loops sleep between their passes.
Wake(j) ==
    /\ up /\ job[j] = None
    /\ \/ j = "main" /\ job' = [job EXCEPT ![j] = Begin(<<"class", "sua">>, "check", FALSE)]
       \/ j = "tfr" /\ job' = [job EXCEPT ![j] = Begin(<<"tfr">>, "check", FALSE)]
    /\ UNCHANGED <<remote, broken, imported, meta, cache, up, outages, refreshes, overtaken, unloaded>>

\* refresh_cache begins nothing while a refresh is under way.
Refresh(todo, force) ==
    /\ up /\ job["manual"] = None /\ refreshes < MaxRefreshes
    /\ refreshes' = refreshes + 1
    /\ job' = [job EXCEPT !["manual"] = Begin(todo, "check", force)]
    /\ UNCHANGED <<remote, broken, imported, meta, cache, up, outages, overtaken, unloaded>>

FirstStep(j) == IF j = "boot" THEN "first" ELSE "check"

LastFeed(j) == Len(job[j].todo) = 1

\* A refresh keeps one outcome of each source: of a source that is listed twice, the last.
Got(j) == IF j = "manual" THEN job[j].ok \cup {Feed(j)} ELSE {}
Missed(j) == job[j].ok \ {Feed(j)}

\* The job goes on with its next source.
GoesOn(j, ok) ==
    IF LastFeed(j) THEN [job EXCEPT ![j] = None]
    ELSE [job EXCEPT ![j] = [Begin(Tail(job[j].todo), FirstStep(j), job[j].force) EXCEPT !.ok = ok]]

\* The first import and a refresh load the cache at their end, a refresh if an outcome
\* is an import; the first import is followed by the loops.
CacheKept(j, ok) ==
    IF LastFeed(j) /\ (j = "boot" \/ ok # {}) THEN Load /\ up' = (up \/ j = "boot")
    ELSE UNCHANGED <<cache, up>> /\ unloaded' = (unloaded \/ ~(job[j].ok \subseteq ok))

\* A failure ends the pass of a loop, not a refresh nor the first import.
Failed(j) == IF j \in {"boot", "manual"} THEN GoesOn(j, Missed(j)) ELSE [job EXCEPT ![j] = None]

-----------------------------------------------------------------------------
(* _check_freshness                                                        *)

Stale(m, ver) == m.date # ver \/ ~m.any

\* The row of a new source is committed with the check.
CheckFeed(j) ==
    /\ UNCHANGED <<remote, broken, imported, outages, refreshes, overtaken>>
    /\ j \in At("check")
    /\ LET s == Feed(j)
           new == meta[s] = None
       IN  /\ meta' = IF new THEN [meta EXCEPT ![s] = [date |-> None, any |-> FALSE]] ELSE meta
           /\ IF new \/ Stale(meta[s], remote[s].ver) \/ job[j].force
              THEN job' = [job EXCEPT ![j].step = "first"] /\ UNCHANGED <<cache, up, unloaded>>
              ELSE job' = GoesOn(j, Missed(j)) /\ CacheKept(j, Missed(j))

\* A check that fails takes the data to be current.
CheckFails(j) ==
    /\ UNCHANGED <<remote, broken, imported, meta, refreshes, overtaken>>
    /\ j \in At("check") /\ outages < MaxOutages
    /\ outages' = outages + 1
    /\ IF job[j].force THEN job' = [job EXCEPT ![j].step = "first"] /\ UNCHANGED <<cache, up, unloaded>>
                       ELSE job' = GoesOn(j, Missed(j)) /\ CacheKept(j, Missed(j))

-----------------------------------------------------------------------------
(* _fetch_and_import                                                       *)

FetchFirst(j) ==
    /\ j \in At("first") /\ ~(broken /\ Feed(j) = "class")
    /\ job' = [job EXCEPT ![j].step = "second", ![j].read = <<Page(Feed(j)), None>>, ![j].edited = FALSE]
    /\ UNCHANGED <<remote, broken, imported, meta, cache, up, outages, refreshes, overtaken, unloaded>>

FetchSecond(j) ==
    /\ j \in At("second")
    /\ job' = [job EXCEPT ![j].step = "date", ![j].read[2] = Page(Feed(j))]
    /\ UNCHANGED <<remote, broken, imported, meta, cache, up, outages, refreshes, overtaken, unloaded>>

\* A page that fails fails the fetch.
PageLost(j) == Failed(j)

FetchFails(j) ==
    /\ UNCHANGED <<remote, broken, imported, meta, refreshes, overtaken>>
    /\ \/ j \in At("first") /\ broken /\ Feed(j) = "class" /\ outages' = outages /\ job' = Failed(j)
       \/ j \in At("first") /\ outages < MaxOutages /\ outages' = outages + 1 /\ job' = Failed(j)
       \/ j \in At("second") /\ outages < MaxOutages /\ outages' = outages + 1 /\ job' = PageLost(j)
    /\ CacheKept(j, Missed(j))

\* The date is asked for when the features are there; None when that fails.
AskDate(j) ==
    /\ j \in At("date")
    /\ \/ job' = [job EXCEPT ![j].step = "import", ![j].date = remote[Feed(j)].ver] /\ outages' = outages
       \/ /\ outages < MaxOutages /\ outages' = outages + 1
          /\ job' = [job EXCEPT ![j].step = "import"]
    /\ UNCHANGED <<remote, broken, imported, meta, cache, up, refreshes, overtaken, unloaded>>

\* _import_to_db keeps what there is when nothing was read.
Kept(read) == read = Nothing

Counted(s) == TRUE

Imported(j) ==
    LET s == Feed(j)
        b == job[j]
    IN  IF Kept(b.read) THEN UNCHANGED <<imported, meta, overtaken>>
        ELSE /\ imported' = [imported EXCEPT ![s] = Stored(b.read)]
             /\ meta' = [meta EXCEPT ![s] = [date |-> b.date, any |-> Counted(s) /\ Stored(b.read) # Nothing]]
             /\ overtaken' = IF b.edited THEN overtaken \cup {s} ELSE overtaken \ {s}

\* The loops load the cache after each import, without a pause in between.
Import(j) ==
    /\ j \in At("import")
    /\ Imported(j)
    /\ job' = GoesOn(j, Got(j))
    /\ IF j \in {"main", "tfr"} THEN Load /\ up' = up ELSE CacheKept(j, Got(j))
    /\ UNCHANGED <<remote, broken, outages, refreshes>>

\* The import is rolled back,
ImportFails(j) ==
    /\ UNCHANGED <<remote, broken, imported, meta, refreshes, overtaken>>
    /\ j \in At("import") /\ outages < MaxOutages
    /\ outages' = outages + 1
    /\ job' = Failed(j)
    /\ CacheKept(j, Missed(j))

\* or it is committed and the cache cannot be loaded.
LoadFails(j) ==
    /\ j \in At("import") /\ outages < MaxOutages
    /\ j \in {"main", "tfr"} \/ (j = "manual" /\ LastFeed(j))
    /\ outages' = outages + 1
    /\ Imported(j)
    /\ job' = [job EXCEPT ![j] = None]
    /\ unloaded' = TRUE
    /\ UNCHANGED <<remote, broken, cache, up, refreshes>>

-----------------------------------------------------------------------------
(* The FAA, and the server's end                                           *)

Revise(s, has) ==
    /\ remote["class"].ver + remote["sua"].ver + remote["tfr"].ver < MaxRevisions
    /\ remote' = [remote EXCEPT ![s] = [ver |-> @.ver + 1, has |-> has]]
    /\ job' = [j \in Jobs |-> IF j \in At("second") \cup At("date") \cup At("import") /\ Feed(j) = s
                                THEN [job[j] EXCEPT !.edited = TRUE] ELSE job[j]]
    /\ UNCHANGED <<broken, imported, meta, cache, up, outages, refreshes, overtaken, unloaded>>

KillTasks ==
    /\ outages < MaxOutages /\ (up \/ AtWork # {})
    /\ outages' = outages + 1
    /\ up' = FALSE /\ job' = [j \in Jobs |-> None]
    /\ cache' = [s \in Feeds |-> Nothing] /\ unloaded' = FALSE
    /\ UNCHANGED <<remote, broken, imported, meta, refreshes, overtaken>>

\* What the event loop goes on with in any case.
Proceed(j) ==
    \/ Wake(j) \/ CheckFeed(j) \/ FetchFirst(j) \/ FetchSecond(j) \/ AskDate(j) \/ Import(j)
    \/ broken /\ FetchFails(j)

FaaNext ==
    \/ Start
    \/ \E j \in Jobs : Proceed(j) \/ CheckFails(j) \/ FetchFails(j) \/ ImportFails(j) \/ LoadFails(j)
    \/ \E todo \in Chosen, force \in BOOLEAN : Refresh(todo, force)
    \/ \E s \in Feeds, has \in Kinds : Revise(s, has)
    \/ KillTasks

\* The server is started again; the event loop runs every task that can go on.
FaaFairness == WF_faavars(Start) /\ \A j \in Jobs : WF_faavars(Proceed(j))

-----------------------------------------------------------------------------
(* Properties                                                              *)

\* The date kept with a source is that of what was imported, all of it: else the
\* loops would take old data to be current.  An edit between the first page and the
\* question for the date, which comes after the last, is the exception.
DatedAsRead ==
    \A s \in Feeds \ overtaken :
        meta[s] # None /\ meta[s].date = remote[s].ver => imported[s] = Whole(s)

\* A source that has features loses them to an answer of features without geometry,
\* never to an answer without any.
NeverEmptied ==
    [][\A s \in Feeds : imported[s] # Nothing /\ imported'[s] = Nothing =>
          \E j \in At("import") : Feed(j) = s /\ Bare \in {job[j].read[1], job[j].read[2]}]_imported

UpToDate(s) ==
    remote[s].has # "none" /\ s \notin overtaken => imported[s] = Whole(s) /\ (cache[s] = imported[s] \/ unloaded)

\* Flight restrictions come to be served as they are at the FAA, even when class
\* airspace cannot be had at all; so does the rest when it can.
AllUpToDate == UpToDate("tfr") /\ (broken \/ (UpToDate("class") /\ UpToDate("sua")))
CatchesUp == <>[]AllUpToDate
=============================================================================
