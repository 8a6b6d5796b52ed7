---------------------------- MODULE ScoringDesk ----------------------------
(***************************************************************************)
(* Selections and results of one task (backend/app/routers/results.py,     *)
(* routers/uploads.py, routers/tasks.py, services/task_uploads.py and      *)
(* rescore_task of services/scoring.py).                                   *)
(*                                                                         *)
(* A rescoring reads the selections, evaluates, deletes the task's rows    *)
(* of score_results and inserts new ones.  A statement of the database     *)
(* sees the rows committed before it.  So the transactions are two steps:  *)
(* a request has read, a rescoring or a deletion has also run its DELETE,  *)
(* and then it commits, or fails because of a constraint: one result and   *)
(* one selection for a pilot, and uploads that exist.                      *)
(***************************************************************************)
EXTENDS Naturals, FiniteSets, Database

CONSTANTS Scored,     \* the pilots of the event
          Statuses,   \* STATUS_ONLY_VALUES
          MaxFiles,   \* bound on the uploads of the task
          MaxRounds   \* bound on the rescorings that commit

Files == 1..MaxFiles

\* A status is no upload, and NULL neither a status nor a pilot.
ASSUME DeskAssumption ==
    /\ MaxFiles \in Nat /\ MaxRounds \in Nat
    /\ None \notin Statuses \cup Scored \cup Files
    /\ Statuses \cap (Files \cup {0}) = {}

VARIABLES owner,    \* table igc_uploads: the pilot of each upload
          lastFile, \* its sequence
          input,    \* table task_scoring_inputs
          result,   \* table score_results
          rounds,   \* the rescorings that committed
          desk,     \* what each request does
          raced     \* history: requests during which another one committed

deskvars == <<owner, lastFile, input, result, rounds, desk, raced>>

NoRow == [none |-> TRUE]
Free == [step |-> "free"]
Choice(u, s) == [selected |-> u, status |-> s]
Present(own) == {u \in Files : own[u] # None}
RowOf(p) == <<p, result[p].round>>  \* stands for the row's key
RowsOf(ps) == {RowOf(p) : p \in ps}
Exists(u) == u \in Present(owner)

\* The uploads with those that a transaction has inserted
Owners(files) == [u \in Files |-> IF u \in DOMAIN files THEN files[u] ELSE owner[u]]

DeskTypeOK ==
    /\ owner \in [Files -> Scored \cup {None}] /\ lastFile \in 0..MaxFiles
    /\ \A p \in Scored :
          /\ input[p] = NoRow \/ /\ input[p].selected \in Files \cup {0}
                                 /\ input[p].status \in Statuses \cup {None}
          /\ result[p] = NoRow \/ /\ result[p].file \in Files \cup {0}
                                  /\ result[p].basis \in Files \cup Statuses
                                  /\ result[p].round \in 1..MaxRounds
                                  /\ result[p].state \in {"provisional", "official"}
    /\ rounds \in 0..MaxRounds
    /\ \A r \in Requests : desk[r].step \in {"free", "read", "deleted"}
    /\ raced \subseteq {r \in Requests : desk[r] # Free}

DeskInit ==
    /\ owner = [u \in Files |-> None] /\ lastFile = 0
    /\ input = [p \in Scored |-> NoRow]
    /\ result = [p \in Scored |-> NoRow]
    /\ rounds = 0
    /\ desk = [r \in Requests |-> Free]
    /\ raced = {}

-----------------------------------------------------------------------------
(* What a rescoring reads                                                  *)

\* The basis of a pilot's result, or None, for the selection in: its file if
\* it is the pilot's, else the status an operator gave.
Basis(p, in, own) ==
    IF in = NoRow THEN None
    ELSE IF in.selected # 0
         THEN IF own[in.selected] = p THEN in.selected ELSE None
         ELSE in.status

\* The columns a request changes of the row it read; all of a row that is new.
Changes(p, choice) ==
    IF input[p] = NoRow THEN choice
    ELSE [c \in {x \in {"selected", "status"} : choice[x] # input[p][x]} |-> choice[c]]
Written(p, cols) ==
    [c \in {"selected", "status"} |->
        IF c \in DOMAIN cols THEN cols[c] ELSE input[p][c]]

\* What the transaction reads of a row, its own writing included
Committed(p, write) == input[p]
Sees(p, write) == IF p \in DOMAIN write THEN Written(p, write[p]) ELSE input[p]

\* rescore_task up to its DELETE, in a transaction that has written the
\* selections "write" (a partial function) and inserted the uploads "files".
Reads(r, kind, write, files) ==
    /\ desk[r] = Free
    /\ desk' = [desk EXCEPT ![r] =
          [step |-> "read", kind |-> kind, write |-> write, files |-> files,
           new |-> {p \in DOMAIN write : input[p] = NoRow}, doomed |-> {},
           plan |-> [p \in {q \in Scored : Basis(q, Sees(q, write), Owners(files)) # None} |->
                        Basis(p, Sees(p, write), Owners(files))]]]
    /\ UNCHANGED <<owner, input, result, rounds, raced>>

\* select_upload_for_scoring: a selection is kept.
AnyChoice(p) == TRUE
EmptyChoice(p) == input[p] = NoRow \/ input[p].selected = 0
Selects(p, u) == [q \in {p} |-> Changes(p, Choice(u, None))]
Nothing == [x \in {} |-> None]

-----------------------------------------------------------------------------
(* Requests                                                                *)

\* rescore and save_penalties
Rescore(r) == Reads(r, "rescore", Nothing, Nothing) /\ UNCHANGED lastFile

\* store_task_upload of a new file; it is selected and scored unless it
\* started late or a file is selected (auto_select_and_rescore).
StoreFile(r, p, late) ==
    /\ lastFile < MaxFiles
    /\ lastFile' = lastFile + 1
    /\ IF late \/ ~EmptyChoice(p)
       THEN /\ desk[r] = Free
            /\ owner' = [owner EXCEPT ![lastFile'] = p]
            /\ UNCHANGED <<input, result, rounds, desk, raced>>
       ELSE Reads(r, "upload", Selects(p, lastFile'), [u \in {lastFile'} |-> p])

\* select_logbook_igc_candidate, for a flight of an upload of the task
SelectCandidate(r, u) ==
    /\ Exists(u)
    /\ Reads(r, "rescore", IF EmptyChoice(owner[u]) THEN Selects(owner[u], u) ELSE Nothing, Nothing)
    /\ UNCHANGED lastFile

\* update_scoring_input reads the upload and the row; nothing is rescored.
ChooseInput(r, p, u, s) ==
    /\ u # 0 => Exists(u) /\ owner[u] = p /\ s = None
    /\ desk[r] = Free
    /\ desk' = [desk EXCEPT ![r] =
          [step |-> "deleted", kind |-> "input", write |-> [q \in {p} |-> Changes(p, Choice(u, s))],
           files |-> Nothing, new |-> {q \in {p} : input[q] = NoRow}, plan |-> Nothing, doomed |-> {}]]
    /\ UNCHANGED <<owner, lastFile, input, result, rounds, raced>>

\* delete_upload has cleared the selections and deleted the results it sees.
DeleteStored(r, us) ==
    /\ us # {} /\ \A u \in us : Exists(u)
    /\ desk[r] = Free
    /\ desk' = [desk EXCEPT ![r] =
          [step |-> "deleted", kind |-> "delete", files |-> us,
           cleared |-> {p \in Scored : input[p] # NoRow /\ input[p].selected \in us},
           doomed |-> RowsOf({p \in Scored : result[p] # NoRow /\ result[p].file \in us})]]
    /\ UNCHANGED <<owner, lastFile, input, result, rounds, raced>>

\* The DELETE of rescore_task
DeleteResults(r) ==
    /\ desk[r].step = "read"
    /\ desk' = [desk EXCEPT ![r].step = "deleted", ![r].doomed = RowsOf({p \in Scored : result[p] # NoRow})]
    /\ UNCHANGED <<owner, lastFile, input, result, rounds, raced>>

-----------------------------------------------------------------------------
(* Commits and failures                                                    *)

Raced(r) == raced' = {o \in Requests \ {r} : desk[o] # Free}
Done(r) == desk' = [desk EXCEPT ![r] = Free] /\ Raced(r)

\* uq_score_task_pilot, uq_task_scoring_input_task_pilot and the keys of
\* uploads: what r inserts fits the rows that others committed meanwhile.
KeysHold(job, own) ==
    /\ \A p \in DOMAIN job.plan : job.plan[p] \in Statuses \cup Present(own)
    /\ \A p \in DOMAIN job.write :
          "selected" \in DOMAIN job.write[p] => job.write[p].selected \in {0} \cup Present(own)
\* A pilot's row after the transaction's DELETE
Kept(job, p) == IF result[p] = NoRow \/ RowOf(p) \in job.doomed THEN NoRow ELSE result[p]
RowsUnique(job) ==
    /\ \A p \in DOMAIN job.plan : Kept(job, p) = NoRow
    /\ \A p \in job.new : input[p] = NoRow

\* The row of a pilot's result after a rescoring: inserted, deleted or kept.
Rescored(job) ==
    [p \in Scored |->
       IF p \in DOMAIN job.plan
       THEN [file |-> IF job.plan[p] \in Files THEN job.plan[p] ELSE 0,
             basis |-> job.plan[p], round |-> rounds + 1, state |-> "provisional"]
       ELSE Kept(job, p)]

CommitScores(r) ==
    LET job == desk[r]
        own == Owners(job.files)
        scores == job.kind # "input"
    IN /\ job.step = "deleted" /\ job.kind \in {"rescore", "upload", "input"}
       /\ scores => rounds < MaxRounds
       /\ KeysHold(job, own) /\ RowsUnique(job)
       /\ owner' = own
       /\ input' = [p \in Scored |-> IF p \in DOMAIN job.write THEN Written(p, job.write[p]) ELSE input[p]]
       /\ result' = IF scores THEN Rescored(job) ELSE result
       /\ rounds' = IF scores THEN rounds + 1 ELSE rounds
       /\ UNCHANGED lastFile
       /\ Done(r)

\* delete_upload and delete_all_uploads_for_task commit.  Rows committed since
\* its statements lose their key to the upload (ON DELETE SET NULL).
KeepKey(row, us, column) == row
SetNull(row, us, column) == IF row[column] \in us THEN [row EXCEPT ![column] = 0] ELSE row
CommitDelete(r) ==
    LET job == desk[r]
    IN /\ job.step = "deleted" /\ job.kind = "delete"
       /\ owner' = [u \in Files |-> IF u \in job.files THEN None ELSE owner[u]]
       /\ input' = [p \in Scored |->
             IF input[p] = NoRow THEN NoRow
             ELSE IF p \in job.cleared THEN Choice(0, None)
             ELSE SetNull(input[p], job.files, "selected")]
       /\ result' = [p \in Scored |->
             IF Kept(job, p) = NoRow THEN NoRow ELSE SetNull(result[p], job.files, "file")]
       /\ UNCHANGED <<lastFile, rounds>>
       /\ Done(r)

\* A constraint fails, or the client's connection: the transaction rolls back.
DeskFail(r) ==
    /\ desk[r] # Free
    /\ desk' = [desk EXCEPT ![r] = Free]
    /\ raced' = raced \ {r}
    /\ UNCHANGED <<owner, lastFile, input, result, rounds>>

\* delete_task_results and unpublish_task, in one transaction
ClearScoring(r) ==
    /\ desk[r] = Free
    /\ result' = [p \in Scored |-> NoRow]
    /\ input' = [p \in Scored |-> IF input[p] = NoRow THEN NoRow ELSE Choice(0, None)]
    /\ UNCHANGED <<owner, lastFile, rounds, desk>>
    /\ Raced(r)

\* promote_result, publish_task_results and unpublish_task_results.  Rows a
\* rescoring deleted meanwhile make the UPDATE, and so the request, fail.
Publish(r, ps, to) ==
    /\ desk[r] = Free
    /\ ps # {} /\ \A p \in ps : result[p] # NoRow /\ result[p].state # to
    /\ result' = [p \in Scored |-> IF p \in ps THEN [result[p] EXCEPT !.state = to] ELSE result[p]]
    /\ UNCHANGED <<owner, lastFile, input, rounds, desk, raced>>

DeskNext ==
    \E r \in Requests :
       \/ Rescore(r) \/ ClearScoring(r)
       \/ \E p \in Scored :
             \/ \E late \in BOOLEAN : StoreFile(r, p, late)
             \/ \E u \in 0..MaxFiles, s \in Statuses \cup {None} : ChooseInput(r, p, u, s)
       \/ \E u \in Files : SelectCandidate(r, u) \/ DeleteStored(r, {u})
       \/ DeleteStored(r, {u \in Files : Exists(u)})
       \/ \E ps \in SUBSET Scored, to \in {"provisional", "official"} : Publish(r, ps, to)
       \/ DeleteResults(r) \/ CommitScores(r) \/ CommitDelete(r) \/ DeskFail(r)

DeskSpec == DeskInit /\ [][DeskNext]_deskvars

-----------------------------------------------------------------------------
Rescores(r) == CommitScores(r) /\ rounds' # rounds

\* A result names an upload of its own pilot, and so does a selection, however
\* requests that delete, select and rescore cross.
OwnFilesOnly ==
    \A p \in Scored :
       /\ result[p] # NoRow /\ result[p].file # 0 => owner[result[p].file] = p
       /\ input[p] # NoRow /\ input[p].selected # 0 => owner[input[p].selected] = p

\* A rescoring that no commit crossed leaves exactly the results its
\* selections ask for, all of one scoring: the points of a pilot depend on
\* the others', so rows of two rescorings must not stand side by side.
RescoredAsSelected ==
    [][\A r \in Requests \ raced : Rescores(r) =>
          \A p \in Scored :
             LET basis == Basis(p, input'[p], owner')
             IN IF basis = None THEN result'[p] = NoRow
                ELSE /\ result'[p] # NoRow
                     /\ result'[p].basis = basis /\ result'[p].round = rounds']_deskvars

\* When a file is deleted no score of it remains, unless a rescoring that
\* read it committed while the deletion was under way.
DeletedFileUnscored ==
    [][\A r \in Requests \ raced : CommitDelete(r) =>
          \A p \in Scored : result'[p] # NoRow => result'[p].basis \notin desk[r].files]_deskvars

\* "Select either an upload or a status override, not both": a row gets both
\* only from requests that crossed, each of which changes one column.
EitherFileOrStatus ==
    [][\A p \in Scored :
          /\ input'[p] # NoRow /\ input'[p].selected # 0 /\ input'[p].status # None
          /\ input[p] = NoRow \/ input[p].selected = 0 \/ input[p].status = None
          => \E r \in raced : CommitScores(r)]_deskvars

\* A file that an operator selected is not replaced by one that arrives,
\* unless the operator chose while the upload was being stored.
SelectionStands ==
    [][\A r \in Requests \ raced : CommitScores(r) /\ desk[r].kind = "upload" =>
          \A p \in Scored : input[p] # NoRow /\ input[p].selected # 0
                            => input'[p] = input[p]]_deskvars

\* Results and selections are whole and name files of their own pilots.
DeskHolds == DeskTypeOK /\ OwnFilesOnly

\* The rows of results are those of one scoring of what was selected and stored.
ScoredAsSelected == RescoredAsSelected /\ DeletedFileUnscored

\* What an operator selects stands, and is one thing.
SelectionsHold == EitherFileOrStatus /\ SelectionStands
=============================================================================
