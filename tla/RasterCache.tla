---------------------------- MODULE RasterCache ----------------------------
(***************************************************************************)
(* The weather overlays (backend/app/services/raster_cache.py,             *)
(* demand_tracker.py, raster_scheduler.py and routers/weather.py): a map   *)
(* asks for a raster, which is answered from the cache or fetched, stored  *)
(* and counted as a demand; a scheduler fetches in advance what is         *)
(* demanded.  Both are coroutines of one thread; only fetching is awaited. *)
(* Time passes in days; a model is run once a day.                         *)
(***************************************************************************)
EXTENDS Naturals, FiniteSets, Database

CONSTANTS Models, Variables,
          Valid,        \* the hours of the latest run that are by day
          MaxPerCycle,  \* MAX_PER_CYCLE
          KeepDays, StaleDays, ForgetDays,
          LastDay       \* bound on the clock

VARIABLES day,
          row,      \* the table raster_cache: when each raster was stored
          file,     \* the PNG files
          demand,   \* demand_pairs: when each pair was viewed last
          viewing,  \* the rasters that requests are fetching
          cycle,    \* the rasters that the scheduler's cycle has still to fetch
          warmed    \* history: the rasters that a cycle has fetched

rastervars == <<day, row, file, demand, viewing, cycle, warmed>>

Days == 0..LastDay
Raster == [model : Models, var : Variables, fxx : Valid, run : Days]

\* The table of a new database
NoDemand == [p \in Models \X Variables |-> None]

RasterInit ==
    /\ day = 0
    /\ row = [k \in Raster |-> None]
    /\ file = {}
    /\ demand = NoDemand
    /\ viewing = [r \in Requests |-> None]
    /\ cycle = {}
    /\ warmed = {}

\* get_cached_raster: a row whose file is missing is deleted.
Cached(k) == row[k] # None /\ k \in file

Unorphaned(K) == [k \in Raster |-> IF k \in K /\ k \notin file THEN None ELSE row[k]]

\* _rel_path formats the run's hour as a number; both callers, the endpoint
\* (hour: str) and the scheduler (_latest_available_run), have a text.
HourOfRun == "str"
PathFormats == HourOfRun = "int"

\* store_raster writes the file, then the row; without a path it raises.
StoreRaster(k) ==
    IF PathFormats
    THEN file' = file \cup {k} /\ row' = [row EXCEPT ![k] = day]
    ELSE UNCHANGED <<file, row>>

\* weather_raster: the answer comes from the cache, and is not a demand then.
ServeCached(k) ==
    /\ Cached(k)
    /\ UNCHANGED rastervars

StartFetch(r, k) ==
    /\ viewing[r] = None
    /\ k.run <= day
    /\ ~Cached(k)
    /\ row' = Unorphaned({k})
    /\ viewing' = [viewing EXCEPT ![r] = k]
    /\ UNCHANGED <<day, file, demand, cycle, warmed>>

\* What cannot be stored is answered all the same, and record_view is called.
AnswerView(r) ==
    /\ viewing[r] # None
    /\ StoreRaster(viewing[r])
    /\ demand' = [demand EXCEPT ![<<viewing[r].model, viewing[r].var>>] = day]
    /\ viewing' = [viewing EXCEPT ![r] = None]
    /\ UNCHANGED <<day, cycle, warmed>>

FailView(r) ==
    /\ viewing[r] # None
    /\ viewing' = [viewing EXCEPT ![r] = None]
    /\ UNCHANGED <<day, row, file, demand, cycle, warmed>>

\* get_active_demands
Active == {p \in DOMAIN demand : demand[p] # None /\ demand[p] + StaleDays >= day}

Wanted == {k \in Raster : k.run = day /\ <<k.model, k.var>> \in Active}
Missing == {k \in Wanted : ~Cached(k)}

\* _run_cycle queues what is missing, as much as a cycle may hold.
StartCycle ==
    /\ cycle = {}
    /\ Missing # {}
    /\ cycle' \in {Q \in SUBSET Missing :
                      Cardinality(Q) = CHOOSE n \in {Cardinality(Missing), MaxPerCycle} :
                                          n <= Cardinality(Missing) /\ n <= MaxPerCycle}
    /\ row' = Unorphaned(Wanted)
    /\ UNCHANGED <<day, file, demand, viewing, warmed>>

\* _fetch_one: an exception, of fetching or of storing, is a failure of this one.
Pregenerate(k) ==
    /\ k \in cycle
    /\ cycle' = cycle \ {k}
    /\ \/ StoreRaster(k) /\ warmed' = warmed \cup {k}
       \/ UNCHANGED <<row, file, warmed>>
    /\ UNCHANGED <<day, demand, viewing>>

\* The server starts: prune_old_rasters removes the directory of each run that
\* has an old row, prune_stale_demands what nobody viewed for long.
RestartServer ==
    LET old == {k \in Raster : row[k] # None /\ row[k] + KeepDays < day}
        gone == {k \in Raster : \E j \in old : j.model = k.model /\ j.run = k.run}
    IN  /\ file' = file \ gone
        /\ row' = [k \in Raster |-> IF k \in old THEN None ELSE row[k]]
        /\ demand' = [p \in DOMAIN demand |->
              IF demand[p] # None /\ demand[p] + ForgetDays < day THEN None ELSE demand[p]]
        /\ viewing' = [r \in Requests |-> None]
        /\ cycle' = {}
        /\ warmed' = warmed \ gone
        /\ UNCHANGED day

NextDay ==
    /\ day < LastDay
    /\ day' = day + 1
    /\ UNCHANGED <<row, file, demand, viewing, cycle, warmed>>

RasterNext ==
    \/ \E k \in Raster : ServeCached(k) \/ Pregenerate(k)
    \/ \E r \in Requests : AnswerView(r) \/ FailView(r) \/ \E k \in Raster : StartFetch(r, k)
    \/ StartCycle \/ RestartServer \/ NextDay

RasterSpec == RasterInit /\ [][RasterNext]_rastervars

-----------------------------------------------------------------------------
\* "pre-warms the raster cache for model/variable pairs that users have previously
\* viewed, so subsequent visits get instant responses" (raster_scheduler.py): what a
\* cycle has fetched is not fetched again by a request.
VisitIsInstant ==
    [][\A r \in Requests, k \in Raster : StartFetch(r, k) => k \notin warmed]_rastervars
=============================================================================
