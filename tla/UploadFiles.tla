---------------------------- MODULE UploadFiles ----------------------------
(***************************************************************************)
(* Stored IGC files, task uploads and logbook flights                      *)
(* (backend/app/services/task_uploads.py, services/logbook.py,             *)
(* routers/uploads.py, routers/logbook.py, routers/tasks.py).              *)
(*                                                                         *)
(* A request that stores a file looks for the row, then awaits the check   *)
(* for the file and its writing, and commits the row last.  A request that *)
(* deletes commits first and unlinks the file afterwards.  The name of a   *)
(* stored file is made from its content, so rows may name one file.        *)
(***************************************************************************)
EXTENDS Naturals, FiniteSets, Database

CONSTANTS Tasks, Pilots, Contents,
          MaxUploads, MaxFlights  \* bounds on the rows ever inserted

ASSUME FilesAssumption ==
    /\ MaxUploads \in Nat /\ MaxFlights \in Nat
    /\ IsFiniteSet(Requests)
    /\ None \notin ({"igc"} \X Contents \X (1..MaxUploads)) \cup ({"logbook"} \X Pilots \X Contents)

VARIABLES tasks,    \* table tasks
          uploads,  \* table igc_uploads
          flights,  \* table pilot_flights
          lastUpload, lastFlight, \* their sequences
          disk,     \* the stored files
          filing,   \* what each request does
          shared,   \* history: paths that two rows or requests named at once
          torn,     \* history: paths that an attachment unlinked and failed, or that
                    \* its flight no longer had, and those of uploads whose flight
                    \* a request took that had read it without one
          overlaps  \* history: uploads that two requests were storing at once

filevars == <<tasks, uploads, flights, lastUpload, lastFlight, disk, filing,
              shared, torn, overlaps>>

Idle == [step |-> "idle"]
IgcPath(c, n) == <<"igc", c, n>>
LogbookPath(p, c) == <<"logbook", p, c>>
ContentOf(path) == IF path[1] = "igc" THEN path[2] ELSE path[3]
Paths == ({"igc"} \X Contents \X (1..MaxUploads)) \cup ({"logbook"} \X Pilots \X Contents)

FileInit ==
    /\ tasks = Tasks
    /\ uploads = {} /\ flights = {}
    /\ lastUpload = 0 /\ lastFlight = 0
    /\ disk = {}
    /\ filing = [r \in Requests |-> Idle]
    /\ shared = {} /\ torn = {} /\ overlaps = {}

FileTypeOK ==
    /\ tasks \subseteq Tasks
    /\ uploads \subseteq [id : 1..lastUpload, task : Tasks, pilot : Pilots,
                          content : Contents, name : 1..MaxUploads]
    /\ flights \subseteq [id : 1..lastFlight, pilot : Pilots, upload : 0..lastUpload,
                          path : Paths \cup {None}, points : BOOLEAN]
    /\ \A f, g \in flights : f.id = g.id => f = g
    /\ disk \cup shared \cup torn \subseteq Paths
    /\ \A r \in Requests : filing[r].step \in {"idle", "check", "write", "insert", "unlink"}

-----------------------------------------------------------------------------
PathOf(u) == IgcPath(u.content, u.name)
LinkedTo(us) == {f \in flights : \E u \in us : f.upload = u.id}

\* manual_filename_with_suffix: n is the first number the pilot has not used.
ManualName(t, p, n) ==
    LET used == {u.name : u \in {x \in uploads : x.task = t /\ x.pilot = p}}
    IN n \notin used /\ \A m \in 1..(n - 1) : m \in used

\* sync_task_upload_to_logbook
Synced(u, id) == [id |-> id, pilot |-> u.pilot, upload |-> u.id, path |-> PathOf(u), points |-> FALSE]

Begin(r, job) == filing[r] = Idle /\ filing' = [filing EXCEPT ![r] = job]
SameUpload(t, p, c) == {u \in uploads : u.task = t /\ u.pilot = p /\ u.content = c}

\* An upload that exists is synced with its flight.
SyncAgain(r, u) ==
    LET old == LinkedTo({u})
    IN /\ filing[r] = Idle
       /\ old = {} => lastFlight < MaxFlights
       /\ lastFlight' = IF old = {} THEN lastFlight + 1 ELSE lastFlight
       /\ flights' = (flights \ old) \cup
             IF old = {} THEN {Synced(u, lastFlight + 1)}
                         ELSE {[Synced(u, f.id) EXCEPT !.points = f.points] : f \in old}
       /\ UNCHANGED <<uploads, filing, overlaps>>

\* store_task_upload up to its first await; "for" is the flight an operator
\* selected, or 0.
Storers == {r \in Requests : filing[r].step \in {"check", "write", "insert"}}
StoreUpload(r, t, p, c, manual, for) ==
    /\ t \in tasks
    /\ UNCHANGED <<tasks, lastUpload, disk, torn>>
    /\ \/ \E u \in SameUpload(t, p, c) :
             (\A y \in SameUpload(t, p, c) : u.id <= y.id) /\ SyncAgain(r, u)
       \/ /\ SameUpload(t, p, c) = {}
          /\ \E name \in 1..MaxUploads :
                /\ IF manual THEN ManualName(t, p, name) ELSE name = 1
                /\ Begin(r, [step |-> "check", kind |-> "upload", path |-> IgcPath(c, name),
                             task |-> t, pilot |-> p, flight |-> for])
          /\ overlaps' = overlaps \cup
                {k \in {<<t, p, c>>} : \E o \in Storers :
                    filing[o].kind = "upload" /\ <<filing[o].task, filing[o].pilot, ContentOf(filing[o].path)>> = k}
          /\ UNCHANGED <<uploads, flights, lastFlight>>

\* upload_igc and bulk_upload_igc: a name is made unique for a manual upload.
Upload(r, t, p, c, manual) == StoreUpload(r, t, p, c, manual, 0)

\* _create_logbook_owned_flight_from_parsed up to its first await
StoreFlight(r, p, c) ==
    /\ Begin(r, [step |-> "check", kind |-> "flight", path |-> LogbookPath(p, c),
                 task |-> None, pilot |-> p, flight |-> 0])
    /\ UNCHANGED <<tasks, uploads, flights, lastUpload, lastFlight, disk, torn, overlaps>>

\* create_app_upload_flight: stored for the task of that day, if one is found
AppUpload(r, p, c) == StoreFlight(r, p, c) \/ \E t \in tasks : StoreUpload(r, t, p, c, FALSE, 0)

\* import_logbook_folder_files, for one file
ImportFile(r, p, c) ==
    /\ ~\E f \in flights : f.pilot = p /\ f.path # None /\ ContentOf(f.path) = c
    /\ AppUpload(r, p, c)

\* attach_logbook_flight_file
AttachFile(r, f, c) ==
    /\ f.upload = 0
    /\ Begin(r, [step |-> "check", kind |-> "attach", path |-> LogbookPath(f.pilot, c),
                 task |-> None, pilot |-> f.pilot, flight |-> f.id, previous |-> f.path])
    /\ UNCHANGED <<tasks, uploads, flights, lastUpload, lastFlight, disk, torn, overlaps>>

\* select_logbook_igc_candidate, for a flight that is not of this task's upload
SelectFlight(r, t, f) ==
    /\ f.path \in disk
    /\ ~\E u \in uploads : u.id = f.upload /\ u.task = t /\ u.pilot = f.pilot
    /\ StoreUpload(r, t, f.pilot, ContentOf(f.path), FALSE, IF f.upload = 0 THEN f.id ELSE 0)

\* stored_path.exists()
CheckFile(r) ==
    /\ filing[r].step = "check"
    /\ filing' = [filing EXCEPT ![r].step = IF filing[r].path \in disk THEN "insert" ELSE "write"]
    /\ UNCHANGED <<tasks, uploads, flights, lastUpload, lastFlight, disk, torn, overlaps>>

\* stored_path.write_bytes
WriteFile(r) ==
    /\ filing[r].step = "write"
    /\ disk' = disk \cup {filing[r].path}
    /\ filing' = [filing EXCEPT ![r].step = "insert"]
    /\ UNCHANGED <<tasks, uploads, flights, lastUpload, lastFlight, torn, overlaps>>

\* The rest of store_task_upload.  A flight without an upload takes the place
\* of the one that was just synced (select_logbook_igc_candidate).
InsertUpload(r) ==
    LET job == filing[r]
        u == [id |-> lastUpload + 1, task |-> job.task, pilot |-> job.pilot,
              content |-> ContentOf(job.path), name |-> job.path[3]]
        chosen == {f \in flights : f.id = job.flight}
    IN /\ job.step = "insert" /\ job.kind = "upload" /\ job.task \in tasks
       /\ job.flight # 0 => chosen # {}
       /\ lastUpload < MaxUploads /\ lastFlight < MaxFlights
       /\ uploads' = uploads \cup {u}
       /\ lastUpload' = lastUpload + 1 /\ lastFlight' = lastFlight + 1
       /\ flights' = (flights \ chosen) \cup
             IF chosen = {} THEN {Synced(u, lastFlight + 1)} ELSE {Synced(u, job.flight)}
       /\ torn' = torn \cup {f.path : f \in {x \in chosen : x.upload # 0}}
       /\ filing' = [filing EXCEPT ![r] = Idle]
       /\ UNCHANGED <<tasks, disk, overlaps>>

\* The rest of _create_logbook_owned_flight_from_parsed
InsertFlight(r) ==
    LET job == filing[r]
    IN /\ job.step = "insert" /\ job.kind = "flight"
       /\ lastFlight < MaxFlights
       /\ lastFlight' = lastFlight + 1
       /\ flights' = flights \cup {[id |-> lastFlight + 1, pilot |-> job.pilot, upload |-> 0,
                                    path |-> job.path, points |-> TRUE]}
       /\ filing' = [filing EXCEPT ![r] = Idle]
       /\ UNCHANGED <<tasks, uploads, lastUpload, disk, torn, overlaps>>

\* The rest of attach_igc_to_existing_flight: the path that the request read
\* when it began is overwritten, if the new one differs, and its file unlinked
\* before the caller commits, which may fail.  The flight may have got another
\* file, or an upload, meanwhile.
Previous(job) == {job.previous} \ {None, job.path}
FinishAttach(r, commits) ==
    LET job == filing[r]
    IN /\ job.step = "insert" /\ job.kind = "attach"
       /\ \E f \in flights :
             LET given == IF job.path = job.previous THEN f.path ELSE job.path
             IN /\ f.id = job.flight
                /\ disk' = disk \ Previous(job)
                /\ flights' = IF commits
                      THEN (flights \ {f}) \cup {[f EXCEPT !.path = given, !.points = TRUE]}
                      ELSE flights
                /\ torn' = torn \cup (IF commits /\ f.path = job.previous THEN {} ELSE Previous(job))
                               \cup (IF f.upload = 0 THEN {} ELSE {f.path})
       /\ filing' = [filing EXCEPT ![r] = Idle]
       /\ UNCHANGED <<tasks, uploads, lastUpload, lastFlight, overlaps>>

\* The request fails before it commits: the file stays.
StoreFails(r) ==
    /\ r \in Storers
    /\ filing' = [filing EXCEPT ![r] = Idle]
    /\ UNCHANGED <<tasks, uploads, flights, lastUpload, lastFlight, disk, torn, overlaps>>

\* _detach_upload_from_logbook: flights keep the path, and get the points.
Detached(us) == {[f EXCEPT !.upload = 0, !.points = TRUE] : f \in LinkedTo(us)}
AnyFile(us) == {}
Preserved(us) == {PathOf(u) : u \in {x \in us : \E f \in LinkedTo({x}) : f.path = PathOf(x)}}

DeleteRows(r, us, kept, paths) ==
    /\ uploads' = uploads \ us
    /\ flights' = (flights \ LinkedTo(us)) \cup kept
    /\ IF paths = {} THEN filing[r] = Idle /\ UNCHANGED filing
       ELSE Begin(r, [step |-> "unlink", paths |-> paths])
    /\ UNCHANGED <<lastUpload, lastFlight, disk, torn, overlaps>>

\* delete_upload and delete_all_uploads_for_task
DeleteUploads(r, us) ==
    /\ us # {}
    /\ DeleteRows(r, us, Detached(us), {PathOf(u) : u \in us} \ Preserved(us))
    /\ UNCHANGED tasks
DeleteUpload(r, u) == DeleteUploads(r, {u})
DeleteAllUploads(r, t) == DeleteUploads(r, {u \in uploads : u.task = t})

\* delete_flight, _delete_flight_records: with its upload, if it has one
DeleteFlight(r, f) ==
    LET us == {u \in uploads : u.id = f.upload}
    IN IF us # {} THEN DeleteRows(r, us, {}, {PathOf(u) : u \in us}) /\ UNCHANGED tasks
       ELSE /\ flights' = flights \ {f}
            /\ IF f.path = None THEN filing[r] = Idle /\ UNCHANGED filing
               ELSE Begin(r, [step |-> "unlink", paths |-> {f.path}])
            /\ UNCHANGED <<tasks, uploads, lastUpload, lastFlight, disk, torn, overlaps>>

\* delete_task: the flights stay, without an upload and without its points.
DeleteTask(r, t) ==
    LET us == {u \in uploads : u.task = t}
    IN /\ t \in tasks
       /\ tasks' = tasks \ {t}
       /\ DeleteRows(r, us, {[f EXCEPT !.upload = 0] : f \in LinkedTo(us)}, {})

\* After the commit; _cleanup_stored_file
Unlink(r) ==
    /\ filing[r].step = "unlink"
    /\ disk' = disk \ filing[r].paths
    /\ filing' = [filing EXCEPT ![r] = Idle]
    /\ UNCHANGED <<tasks, uploads, flights, lastUpload, lastFlight, torn, overlaps>>

\* create_manual_flight
ManualFlight(p) ==
    /\ lastFlight < MaxFlights
    /\ lastFlight' = lastFlight + 1
    /\ flights' = flights \cup {[id |-> lastFlight + 1, pilot |-> p, upload |-> 0,
                                 path |-> None, points |-> FALSE]}
    /\ UNCHANGED <<tasks, uploads, lastUpload, disk, filing, torn, overlaps>>

\* Who names a path: the rows, and requests that store it.  A request that
\* gives a flight the file it had does not write the path.
Storing(path) ==
    {r \in Storers : filing[r].path = path /\ (filing[r].kind = "attach" => filing[r].previous # path)}
Unlinking(path) == {r \in Requests : filing[r].step = "unlink" /\ path \in filing[r].paths}
Contested(path) ==
    \/ Cardinality({f \in flights : f.path = path}) + Cardinality(Storing(path)) > 1
    \/ Storing(path) # {} /\ Unlinking(path) # {}

FileNext ==
    /\ \/ \E r \in Requests :
             \/ \E t \in tasks, p \in Pilots, c \in Contents, manual \in BOOLEAN : Upload(r, t, p, c, manual)
             \/ \E p \in Pilots, c \in Contents : AppUpload(r, p, c) \/ ImportFile(r, p, c)
             \/ \E f \in flights :
                   \/ DeleteFlight(r, f)
                   \/ \E c \in Contents : AttachFile(r, f, c)
                   \/ \E t \in tasks : f.path # None /\ SelectFlight(r, t, f)
             \/ CheckFile(r) \/ WriteFile(r) \/ InsertUpload(r) \/ InsertFlight(r)
             \/ \E commits \in BOOLEAN : FinishAttach(r, commits)
             \/ StoreFails(r) \/ Unlink(r)
             \/ \E u \in uploads : DeleteUpload(r, u)
             \/ \E t \in tasks : DeleteAllUploads(r, t) \/ DeleteTask(r, t)
       \/ \E p \in Pilots : ManualFlight(p)
    /\ shared' = shared \cup {path \in Paths : Contested(path)'}

FileSpec == FileInit /\ [][FileNext]_filevars

-----------------------------------------------------------------------------
\* The file of an upload or a flight is there (delete_upload's
\* preserve_stored_path), unless two rows or requests named it at one time, or
\* an attachment unlinked it that failed, or whose flight no longer had it.
FilesKept ==
    \A path \in {PathOf(u) : u \in uploads} \cup ({f.path : f \in flights} \ {None}) :
       path \in disk \cup shared \cup torn

\* Every upload has one flight in its pilot's logbook, with the same file,
\* unless a request that had read the flight without an upload took it.
LogbookFollows ==
    \A u \in uploads :
       PathOf(u) \notin torn =>
          /\ Cardinality(LinkedTo({u})) = 1
          /\ \A f \in LinkedTo({u}) : f.pilot = u.pilot /\ f.path = PathOf(u)

\* A pilot has one upload of a file for a task, unless two requests were
\* storing it at one time (no constraint of the table forbids it).
OneUploadPerFile ==
    \A u, v \in uploads :
       u # v /\ u.task = v.task /\ u.pilot = v.pilot /\ u.content = v.content
          => <<u.task, u.pilot, u.content>> \in overlaps

\* Stored files, uploads and flights of the logbook belong together.
FilesHold == FileTypeOK /\ FilesKept /\ LogbookFollows /\ OneUploadPerFile
=============================================================================
