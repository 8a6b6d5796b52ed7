-------------------------- MODULE TurnpointLibrary --------------------------
(***************************************************************************)
(* The library of turnpoint files (backend/app/routers/turnpoints.py and   *)
(* services/turnpoints.py): of each file there are a row, its turnpoints   *)
(* and the stored file itself, which every edit of a turnpoint rewrites    *)
(* before it commits, from the turnpoints that it sees.                    *)
(*                                                                         *)
(* An edit holds the lock of the turnpoint that it changes, an insertion a *)
(* share of the row of its file, until the end of its transaction.         *)
(***************************************************************************)
EXTENDS Naturals, FiniteSets, Database

CONSTANTS Library, Points, Values,
          MaxEdits   \* bound on the requests

VARIABLES path,      \* the committed rows: where each file is stored, None without row
          point,     \* the committed turnpoints: the file and what it says
          stored,    \* by path: what the stored file says, None when it is not there
          editing,   \* the transaction of each request
          answering, \* of a request whose new file is committed: the file, until the answer
          edits,
          doubtful,  \* history: paths written by transactions that overlapped, failed or were killed
          withdrawn  \* history: paths whose file a failure after the commit took back

libvars == <<path, point, stored, editing, answering, edits, doubtful, withdrawn>>

Point == [file : Library \cup {None}, says : Values]
Content == SUBSET (Points \X Values)

Edit == [op : {"put", "delete"}, pt : Points, file : Library, at : Library, new : Point \cup {None}, holds : BOOLEAN,
         content : Content, stage : {"read", "written"}, crossed : BOOLEAN]
Creation == [op : {"create"}, file : Library, pts : SUBSET Points, content : Content,
             stage : {"written", "flushed"}]
Removal == [op : {"remove"}, file : Library, pts : SUBSET Points, shared : BOOLEAN, at : Library, stage : {"open", "gone"}]

ASSUME LibraryAssumption ==
    /\ MaxEdits \in Nat /\ None \notin Library \cup Point \cup Edit \cup Creation \cup Removal
    /\ \A C \in Content : C # None

Rows == {f \in Library : path[f] # None}

\* Of each turnpoint, the file has a row or there is none.
LibTypeOK ==
    /\ path \in [Library -> Library \cup {None}]
    /\ point \in [Points -> Point \cup {None}]
    /\ stored \in [Library -> Content \cup {None}]
    /\ editing \in [Requests -> Edit \cup Creation \cup Removal \cup {None}]
    /\ answering \in [Requests -> Library \cup {None}]
    /\ edits \in 0..MaxEdits
    /\ doubtful \subseteq Library
    /\ withdrawn \subseteq Library
    /\ \A p \in Points : point[p] # None => point[p].file \in Rows \cup {None}

Of(f) == {p \in Points : point[p] # None /\ point[p].file = f}
Says(f) == {<<p, point[p].says>> : p \in Of(f)}

\* An earlier release let two rows share a stored file.
LibInit ==
    /\ path \in {q \in [Library -> Library \cup {None}] :
                    \A f \in Library : q[f] # None => q[q[f]] = q[f]}
    /\ point \in [Points -> Point \cup {None}]
    /\ \A p \in Points : point[p] # None => point[p].file \in Rows
    /\ stored = [f \in Library |-> IF path[f] = f THEN Says(f) ELSE None]
    /\ editing = [r \in Requests |-> None]
    /\ answering = editing
    /\ edits = 0
    /\ doubtful = {f \in Library : \E g \in Library \ {f} : path[f] # None /\ path[g] = path[f]}
    /\ withdrawn = {}

Active == {r \in Requests : editing[r] # None}
Ops(o) == {r \in Active : editing[r].op = o}
Editing(f) == {r \in Ops("put") \cup Ops("delete") : editing[r].file = f}
Writers(at) == {r \in Ops("put") \cup Ops("delete") : editing[r].at = at}
UnderWay(at) == {r \in Active : at = IF editing[r].op = "create" THEN editing[r].file ELSE editing[r].at}

\* Turnpoints that a transaction has changed, deleted or inserted.
Locked == {editing[r].pt : r \in {q \in Ops("put") \cup Ops("delete") : editing[q].holds}}
            \cup UNION {editing[r].pts : r \in Ops("create") \cup {q \in Ops("remove") : editing[q].stage = "open"}}

Another(r) == editing[r] = None /\ answering[r] = None /\ edits < MaxEdits /\ edits' = edits + 1

\* The edits of a stored file know of each other from here on.
Crossing(at) ==
    [q \in Requests |-> IF q \in Writers(at) THEN [editing[q] EXCEPT !.crossed = TRUE] ELSE editing[q]]

-----------------------------------------------------------------------------
(* Turnpoints: create_, update_ and delete_library_turnpoint               *)

\* _source_turnpoints: the committed turnpoints and one's own change.
Rewritten(f, p, new) == {s \in Says(f) : s[1] # p} \cup IF new = None THEN {} ELSE {<<p, new.says>>}

\* The change is flushed and the file's turnpoints are read; a change of nothing
\* takes no lock.
BeginEdit(r, f, p, new, op) ==
    /\ Another(r)
    /\ f \in Rows
    /\ new # point[p] => p \notin Locked
    /\ editing' = [Crossing(path[f]) EXCEPT ![r] =
          [op |-> op, pt |-> p, file |-> f, at |-> path[f], new |-> new, holds |-> new # point[p],
           content |-> Rewritten(f, p, new), stage |-> "read", crossed |-> Writers(path[f]) # {}]]
    /\ UNCHANGED <<path, point, stored, answering, doubtful, withdrawn>>

\* Insertion is blocked while the row of the file is being deleted; so is what
\* comes after its deletion, which fails.
CreatePoint(r, f, p, v) ==
    point[p] = None /\ p \notin Locked /\ BeginEdit(r, f, p, [file |-> f, says |-> v], "put")
UpdatePoint(r, f, p, v) ==
    p \in Of(f) /\ BeginEdit(r, f, p, [file |-> f, says |-> v], "put")
DeletePoint(r, f, p) ==
    p \in Of(f) /\ p \notin Locked /\ BeginEdit(r, f, p, None, "delete")

\* rewrite_turnpoint_source_file, which makes the folder and the file anew if they
\* are gone.
Rewrite(r) ==
    /\ r \in Ops("put") \cup Ops("delete") /\ editing[r].stage = "read"
    /\ LET e == editing[r]
       IN  /\ stored' = [stored EXCEPT ![e.at] = e.content]
           /\ doubtful' = IF e.crossed THEN doubtful \cup {e.at} ELSE doubtful
           /\ withdrawn' = withdrawn \ {e.at}
    /\ editing' = [editing EXCEPT ![r].stage = "written"]
    /\ UNCHANGED <<path, point, answering, edits>>

\* A file that was rewritten alone says what its rows say; unless it is shared.
CommitEdit(r) ==
    /\ r \in Ops("put") \cup Ops("delete") /\ editing[r].stage = "written"
    /\ LET e == editing[r]
           alone == /\ ~e.crossed
                    /\ \A g \in Rows \ {e.file} : path[g] # e.at
                    /\ \A q \in Ops("remove") : editing[q].at # e.at
       IN  /\ e.file \in Rows
           /\ point' = IF e.holds THEN [point EXCEPT ![e.pt] = e.new] ELSE point
           /\ doubtful' = IF alone THEN doubtful \ {e.at} ELSE doubtful \cup {e.at}
    /\ editing' = [editing EXCEPT ![r] = None]
    /\ UNCHANGED <<path, stored, answering, edits, withdrawn>>

-----------------------------------------------------------------------------
(* Files: upload, save-as, merge, delete                                   *)

\* _create_library_source writes a file of its own, and flushes its rows.
CreateFile(r, f, C) ==
    /\ Another(r)
    /\ path[f] = None /\ stored[f] = None
    /\ \A g \in Rows : path[g] # f
    /\ UnderWay(f) = {} /\ (\A q \in Active : editing[q].file # f) /\ \A q \in Requests : answering[q] # f
    /\ \A s \in C : point[s[1]] = None /\ s[1] \notin Locked
    /\ stored' = [stored EXCEPT ![f] = C]
    /\ editing' = [editing EXCEPT ![r] =
          [op |-> "create", file |-> f, pts |-> {s[1] : s \in C}, content |-> C, stage |-> "written"]]
    /\ withdrawn' = withdrawn \ {f}
    /\ UNCHANGED <<path, point, answering, doubtful>>

FlushFile(r) ==
    /\ r \in Ops("create") /\ editing[r].stage = "written"
    /\ editing' = [editing EXCEPT ![r].stage = "flushed"]
    /\ UNCHANGED <<path, point, stored, answering, edits, doubtful, withdrawn>>

\* Records for new turnpoints, one for each of V.
Records(V) == {C \in Content : {s[2] : s \in C} = V /\ \A s, t \in C : s[1] = t[1] <=> s[2] = t[2]}

Upload(r, f, v) == \E C \in Records({v}) : CreateFile(r, f, C)

\* merge_library_sources takes what two of the files both have once.
Merge(r, f, A) ==
    /\ A \subseteq Rows /\ Cardinality(A) > 1
    /\ \E C \in Records({point[p].says : p \in UNION {Of(g) : g \in A}}) : CreateFile(r, f, C)

CommitFile(r) ==
    /\ r \in Ops("create") /\ editing[r].stage = "flushed"
    /\ LET e == editing[r]
       IN  /\ path' = [path EXCEPT ![e.file] = e.file]
           /\ point' = [p \in Points |-> IF \E v \in Values : <<p, v>> \in e.content
                           THEN [file |-> e.file, says |-> CHOOSE v \in Values : <<p, v>> \in e.content]
                           ELSE point[p]]
           /\ doubtful' = doubtful \ {e.file}
           /\ answering' = [answering EXCEPT ![r] = e.file]
    /\ editing' = [editing EXCEPT ![r] = None]
    /\ UNCHANGED <<stored, edits, withdrawn>>

\* The row is read again for the answer.
AnswerFile(r) ==
    /\ answering[r] # None
    /\ answering' = [answering EXCEPT ![r] = None]
    /\ UNCHANGED <<path, point, stored, editing, edits, doubtful, withdrawn>>

\* That is under the same try as the commit: after an error _cleanup_new_file removes
\* the file of the committed row.
AnswerFails(r) ==
    /\ answering[r] # None
    /\ LET f == answering[r]
       IN  /\ stored' = [stored EXCEPT ![f] = None]
           /\ withdrawn' = withdrawn \cup {f}
           /\ doubtful' = doubtful \cup {f}
           /\ editing' = Crossing(f)
    /\ answering' = [answering EXCEPT ![r] = None]
    /\ UNCHANGED <<path, point, edits>>

\* delete_library_source deletes the turnpoints when nobody holds one of them,
OpenRemoval(r, f) ==
    /\ Another(r)
    /\ f \in Rows
    /\ Of(f) \cap Locked = {}
    /\ ~\E q \in Ops("remove") : editing[q].file = f
    /\ editing' = [Crossing(path[f]) EXCEPT ![r] =
          [op |-> "remove", file |-> f, pts |-> Of(f), at |-> path[f], stage |-> "open",
           shared |-> \E g \in Rows \ {f} : path[g] = path[f]]]
    /\ UNCHANGED <<path, point, stored, answering, doubtful, withdrawn>>

\* ON DELETE SET NULL of Turnpoint.source_id
Orphaned(p) == [point[p] EXCEPT !.file = None]

\* then the row, when no insertion shares it: what was inserted since belongs to no file.
CommitRemoval(r) ==
    /\ r \in Ops("remove") /\ editing[r].stage = "open"
    /\ LET e == editing[r]
       IN  /\ ~\E q \in Editing(e.file) : editing[q].holds
           /\ path' = [path EXCEPT ![e.file] = None]
           /\ point' = [p \in Points |-> IF p \in e.pts THEN None
                           ELSE IF p \in Of(e.file) THEN Orphaned(p) ELSE point[p]]
    /\ editing' = [editing EXCEPT ![r].stage = "gone"]
    /\ UNCHANGED <<stored, answering, edits, doubtful, withdrawn>>

Spared(e) == e.shared

Unlink(r) ==
    /\ r \in Ops("remove") /\ editing[r].stage = "gone"
    /\ stored' = IF Spared(editing[r]) THEN stored ELSE [stored EXCEPT ![editing[r].at] = None]
    /\ editing' = [editing EXCEPT ![r] = None]
    /\ UNCHANGED <<path, point, answering, edits, doubtful, withdrawn>>

-----------------------------------------------------------------------------
\* Mutant of TakenBack: the new file stays.
LeftThere(e) == stored

\* _cleanup_new_file after a failure knows the new file once its rows are flushed;
\* an edit's file stays as it was rewritten, a removal's where it was.
TakenBack(e) == IF e.op = "create" /\ e.stage = "flushed" THEN [stored EXCEPT ![e.file] = None] ELSE stored

\* The paths that a transaction leaves in doubt when it ends here.
InDoubt(e) ==
    CASE e.op \in {"put", "delete"} -> IF e.stage = "written" THEN {e.at} ELSE {}
      [] e.op = "create" -> IF e.stage = "written" THEN {e.file} ELSE {}
      [] e.op = "remove" -> IF e.stage = "gone" THEN {e.at} ELSE {}

\* An error before the transaction's end, or before the file is unlinked.
EditFails(r) ==
    /\ r \in Active
    /\ stored' = TakenBack(editing[r])
    /\ doubtful' = doubtful \cup InDoubt(editing[r])
    /\ editing' = [editing EXCEPT ![r] = None]
    /\ UNCHANGED <<path, point, answering, edits, withdrawn>>

\* The server is killed: nothing is taken back, nothing is unlinked any more.
KillServer ==
    /\ Active # {} \/ \E r \in Requests : answering[r] # None
    /\ editing' = [r \in Requests |-> None]
    /\ answering' = editing'
    /\ doubtful' = doubtful \cup (UNION {InDoubt(editing[r]) : r \in Active})
          \cup {editing[r].file : r \in {q \in Ops("create") : editing[q].stage = "flushed"}}
    /\ UNCHANGED <<path, point, stored, edits, withdrawn>>

LibNext ==
    \/ \E r \in Requests, f \in Library :
          \/ \E p \in Points, v \in Values : CreatePoint(r, f, p, v) \/ UpdatePoint(r, f, p, v)
          \/ \E p \in Points : DeletePoint(r, f, p)
          \/ \E v \in Values : Upload(r, f, v)
          \/ \E A \in SUBSET Library : Merge(r, f, A)
          \/ OpenRemoval(r, f)
    \/ \E r \in Requests : \/ Rewrite(r) \/ CommitEdit(r)
                           \/ FlushFile(r) \/ CommitFile(r) \/ AnswerFile(r) \/ AnswerFails(r)
                           \/ CommitRemoval(r) \/ Unlink(r) \/ EditFails(r)
    \/ KillServer

LibSpec == LibInit /\ [][LibNext]_libvars

-----------------------------------------------------------------------------
(* Properties                                                              *)

\* Whatever overlaps, fails or is killed, a file that is listed can be
\* downloaded: it is written before its row and removed after it.  Only a creation
\* that failed after its commit has taken it back, until an edit writes it again.
ListedIsStored == \A f \in Rows : stored[path[f]] = None => path[f] \in withdrawn

\* The stored file, which is what a download sends, says what the rows say, unless
\* transactions on it overlapped, failed or were killed since it was last rewritten.
StoredSaysRows ==
    \A f \in Rows : Writers(path[f]) = {} /\ path[f] \notin doubtful => stored[path[f]] = Says(f)

\* A stored file without a row is left behind only in the same cases, never by a
\* deletion that ends or by an upload that fails once its rows are flushed.
NothingLeftBehind ==
    \A f \in Library :
        stored[f] # None /\ f \notin doubtful =>
           (\E g \in Rows : path[g] = f) \/ UnderWay(f) # {}

\* Rows and stored files of the library belong together, whatever overlaps,
\* fails or is killed.
LibraryHolds == LibTypeOK /\ ListedIsStored /\ StoredSaysRows /\ NothingLeftBehind
=============================================================================
