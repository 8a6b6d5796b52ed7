------------------------------ MODULE DeskProofs ------------------------------
(***************************************************************************)
(* Proofs about the scoring desk and the stored files, for any pilots,     *)
(* statuses, uploads, contents and requests.                               *)
(*                                                                         *)
(* A transaction of the desk holds files and a plan it has read.  Files are*)
(* numbered once and owned once, so what it holds of a pilot is the pilot's*)
(* or nobody's when it commits; and what an uncrossed one has read is still*)
(* what is there.                                                          *)
(*                                                                         *)
(* Rows and requests name a stored file.  Unless two name one path at one  *)
(* time, the row that names it has its file, and the request that          *)
(* is about to name it has found the file or written it.                   *)
(*                                                                         *)
(* After its DELETE a rescoring has seen all rows of its task, until another*)
(* one commits: the rows of a task whose rescoring was not crossed are of that*)
(* one scoring, in the order in which it scored them, whatever is published,*)
(* withdrawn or removed since; the pages read nothing else of them.        *)
(*                                                                         *)
(* The evaluation of a track visits its fixes and the points of its task in*)
(* order.  Each visit keeps the cursor at the fix of the last hit, so the  *)
(* hits lie in order; a point is missed only if no fix after the cursor    *)
(* hits it; the leading time is a sum over the gains of the fixes, which   *)
(* has the same value taken level by level.                                *)
(***************************************************************************)
EXTENDS UploadFiles, ScoringDesk, ResultPages, TaskEvaluation, FiniteSetTheorems, WellFoundedInduction, TLAPS

-----------------------------------------------------------------------------
(* The desk: what a transaction under way has read and will write.         *)

Busy == {r \in Requests : desk[r] # Free}
Scoring == {r \in Busy : desk[r].kind # "delete"}
Deleting == {r \in Busy : desk[r].kind = "delete"}

Selection == [selected : Files \cup {0}, status : Statuses \cup {None}]
Result == [file : Files \cup {0}, basis : Files \cup Statuses, round : 1..MaxRounds,
           state : {"provisional", "official"}]

RowShape ==
    /\ owner \in [Files -> Scored \cup {None}]
    /\ input \in [Scored -> Selection \cup {NoRow}]
    /\ result \in [Scored -> Result \cup {NoRow}]

IsScoring(j) ==
    /\ {"step", "doomed"} \subseteq DOMAIN j
    /\ j.step \in {"read", "deleted"} /\ j.kind \in {"rescore", "upload", "input"}
    /\ j.kind = "input" => j.step = "deleted"
    /\ DOMAIN j.write \subseteq Scored /\ DOMAIN j.files \subseteq Files /\ j.new \subseteq DOMAIN j.write
    /\ \A p \in DOMAIN j.write :
          /\ DOMAIN j.write[p] \subseteq {"selected", "status"}
          /\ "selected" \in DOMAIN j.write[p] => j.write[p]["selected"] \in Files \cup {0}
          /\ "status" \in DOMAIN j.write[p] => j.write[p]["status"] \in Statuses \cup {None}
    /\ \A u \in DOMAIN j.files : j.files[u] \in Scored
    /\ DOMAIN j.plan \subseteq Scored /\ \A p \in DOMAIN j.plan : j.plan[p] \in Files \cup Statuses

IsDeleting(j) == j.step = "deleted" /\ j.kind = "delete" /\ j.files \subseteq Files /\ j.cleared \subseteq Scored

JobShape ==
    /\ desk = [r \in Requests |-> desk[r]]
    /\ \A r \in Scoring : IsScoring(desk[r])
    /\ \A r \in Deleting : IsDeleting(desk[r])

\* An upload gets its number once and its owner once.
Awaited(u) == \E r \in Scoring : u \in DOMAIN desk[r].files
NumbersUsed ==
    /\ \A u \in Files : owner[u] # None => u <= lastFile
    /\ \A r \in Scoring : \A u \in DOMAIN desk[r].files :
          /\ u <= lastFile /\ owner[u] = None
          /\ \A q \in Scoring : u \in DOMAIN desk[q].files => q = r

\* An upload of p, or one that is deleted, whatever happens.
StaysOf(u, p) == u \in Files /\ u <= lastFile /\ owner[u] \in {p, None} /\ ~Awaited(u)
IsOf(j, u, p) == (u \in DOMAIN j.files /\ j.files[u] = p) \/ StaysOf(u, p)

OwnPlanned ==
    \A r \in Scoring :
       /\ \A p \in DOMAIN desk[r].plan : desk[r].plan[p] \in Files => IsOf(desk[r], desk[r].plan[p], p)
       /\ \A p \in DOMAIN desk[r].write :
             "selected" \in DOMAIN desk[r].write[p] /\ desk[r].write[p]["selected"] # 0
                => IsOf(desk[r], desk[r].write[p]["selected"], p)

\* A row that was missing is written whole.
NewIsWhole ==
    \A r \in Scoring : \A p \in DOMAIN desk[r].write :
       input[p] = NoRow => DOMAIN desk[r].write[p] = {"selected", "status"}

\* A result whose file is gone is of a file that does not come back.
BasisStands ==
    \A p \in Scored : result[p] # NoRow =>
       /\ result[p].basis \in Files => result[p].file = result[p].basis \/ StaysOf(result[p].basis, None)

\* What a request that nothing crossed has read is what is there.
ReadsAll(j) ==
    \A p \in Scored :
       /\ p \in DOMAIN j.plan <=> Basis(p, Sees(p, j.write), Owners(j.files)) # None
       /\ p \in DOMAIN j.plan => j.plan[p] = Basis(p, Sees(p, j.write), Owners(j.files))
EitherWritten(j) ==
    \A p \in DOMAIN j.write : Written(p, j.write[p])["selected"] = 0 \/ Written(p, j.write[p])["status"] = None
UncrossedRead ==
    \A r \in Scoring \ raced :
       /\ desk[r].kind # "input" => ReadsAll(desk[r])
       /\ EitherWritten(desk[r])
       /\ desk[r].kind = "upload" => \A p \in DOMAIN desk[r].write : EmptyChoice(p)
       /\ desk[r].kind # "input" /\ desk[r].step = "deleted" =>
             \A p \in Scored : result[p] # NoRow => RowOf(p) \in desk[r].doomed
UncrossedDeletes ==
    \A r \in Deleting \ raced :
       /\ \A u \in desk[r].files : owner[u] # None
       /\ \A p \in Scored : result[p] # NoRow /\ result[p].file \in desk[r].files => RowOf(p) \in desk[r].doomed

DeskCore ==
    RowShape /\ JobShape /\ lastFile \in 0..MaxFiles /\ rounds \in 0..MaxRounds /\ raced \subseteq Busy
DeskInv ==
    /\ DeskCore /\ NumbersUsed /\ OwnPlanned /\ NewIsWhole /\ BasisStands /\ OwnFilesOnly
    /\ UncrossedRead /\ UncrossedDeletes

-----------------------------------------------------------------------------
(* Rows and columns                                                        *)

LEMMA SelectionShape ==
    ASSUME NEW x \in Selection
    PROVE  /\ x # NoRow /\ x["selected"] = x.selected /\ x["status"] = x.status
           /\ x.selected \in Files \cup {0} /\ x.status \in Statuses \cup {None}
           /\ DOMAIN x = {"selected", "status"}
  BY DEF Selection, NoRow

LEMMA ResultShape ==
    ASSUME NEW x \in Result
    PROVE  x # NoRow /\ x.file \in Files \cup {0} /\ x.basis \in Files \cup Statuses /\ x.round \in 1..MaxRounds
  BY DEF Result, NoRow

LEMMA CoreIsTyped == DeskCore => DeskTypeOK
<1> SUFFICES ASSUME DeskCore PROVE DeskTypeOK
  OBVIOUS
<1>1. ASSUME NEW p \in Scored
      PROVE  /\ input[p] = NoRow \/ /\ input[p].selected \in Files \cup {0}
                                    /\ input[p].status \in Statuses \cup {None}
             /\ result[p] = NoRow \/ /\ result[p].file \in Files \cup {0}
                                     /\ result[p].basis \in Files \cup Statuses
                                     /\ result[p].round \in 1..MaxRounds
                                     /\ result[p].state \in {"provisional", "official"}
  BY DEF DeskCore, RowShape, Selection, Result
<1>2. ASSUME NEW r \in Requests PROVE desk[r].step \in {"free", "read", "deleted"}
  <2>1. CASE desk[r] = Free
    BY <2>1 DEF Free
  <2>2. CASE desk[r] # Free
    <3>1. r \in Scoring \cup Deleting
      BY <2>2 DEF Scoring, Deleting, Busy
    <3> QED
      BY <3>1 DEF DeskCore, JobShape, IsScoring, IsDeleting
  <2> QED
    BY <2>1, <2>2
<1> QED
  BY <1>1, <1>2 DEF DeskCore, RowShape, DeskTypeOK, Busy

\* Columns that a transaction writes
IsColumns(cols) ==
    /\ DOMAIN cols \subseteq {"selected", "status"}
    /\ "selected" \in DOMAIN cols => cols["selected"] \in Files \cup {0}
    /\ "status" \in DOMAIN cols => cols["status"] \in Statuses \cup {None}

LEMMA WrittenShape ==
    ASSUME NEW p \in Scored, input[p] \in Selection \cup {NoRow}, NEW cols, IsColumns(cols),
           input[p] = NoRow => DOMAIN cols = {"selected", "status"}
    PROVE  /\ Written(p, cols) \in Selection
           /\ Written(p, cols).selected = IF "selected" \in DOMAIN cols THEN cols["selected"] ELSE input[p].selected
           /\ Written(p, cols).status = IF "status" \in DOMAIN cols THEN cols["status"] ELSE input[p].status
<1> DEFINE w(c) == IF c \in DOMAIN cols THEN cols[c] ELSE input[p][c]
<1>1. Written(p, cols) = [c \in {"selected", "status"} |-> w(c)]
  BY DEF Written
<1>2. /\ w("selected") = IF "selected" \in DOMAIN cols THEN cols["selected"] ELSE input[p].selected
      /\ w("status") = IF "status" \in DOMAIN cols THEN cols["status"] ELSE input[p].status
      /\ w("selected") \in Files \cup {0} /\ w("status") \in Statuses \cup {None}
  BY SelectionShape DEF IsColumns
<1> HIDE DEF w
<1>3. /\ [c \in {"selected", "status"} |-> w(c)] \in Selection
      /\ [c \in {"selected", "status"} |-> w(c)].selected = w("selected")
      /\ [c \in {"selected", "status"} |-> w(c)].status = w("status")
  BY <1>2 DEF Selection
<1> QED
  BY <1>1, <1>2, <1>3

LEMMA ChangesShape ==
    ASSUME NEW p \in Scored, input[p] \in Selection \cup {NoRow}, NEW x \in Selection
    PROVE  /\ IsColumns(Changes(p, x)) /\ (input[p] = NoRow => DOMAIN Changes(p, x) = {"selected", "status"})
           /\ "selected" \in DOMAIN Changes(p, x) => Changes(p, x)["selected"] = x.selected
           /\ Written(p, Changes(p, x)).selected = x.selected /\ Written(p, Changes(p, x)).status = x.status
           /\ Written(p, Changes(p, x)) \in Selection
<1>1. /\ x["selected"] = x.selected /\ x["status"] = x.status /\ DOMAIN x = {"selected", "status"}
      /\ x.selected \in Files \cup {0} /\ x.status \in Statuses \cup {None}
  BY SelectionShape
<1> DEFINE f == Changes(p, x)
<1>2. /\ IsColumns(f) /\ (input[p] = NoRow => DOMAIN f = {"selected", "status"})
      /\ \A c \in DOMAIN f : f[c] = x[c]
      /\ \A c \in {"selected", "status"} : c \notin DOMAIN f => x[c] = input[p][c]
  <2>1. CASE input[p] = NoRow
    BY <1>1, <2>1 DEF Changes, IsColumns
  <2>2. CASE input[p] # NoRow
    BY <1>1, <2>2 DEF Changes, IsColumns
  <2> QED
    BY <2>1, <2>2
<1> HIDE DEF f
<1>3. input[p] # NoRow => input[p]["selected"] = input[p].selected /\ input[p]["status"] = input[p].status
  BY SelectionShape
<1>4. /\ Written(p, f) \in Selection
      /\ Written(p, f).selected = IF "selected" \in DOMAIN f THEN f["selected"] ELSE input[p].selected
      /\ Written(p, f).status = IF "status" \in DOMAIN f THEN f["status"] ELSE input[p].status
  BY <1>2, WrittenShape
<1>5. Written(p, f).selected = x.selected /\ Written(p, f).status = x.status
  BY <1>1, <1>2, <1>3, <1>4
<1> QED
  BY <1>1, <1>2, <1>4, <1>5 DEF f

\* The basis of a result is one of the pilot's uploads, or a status.
LEMMA BasisShape ==
    ASSUME NEW p \in Scored, NEW x \in Selection \cup {NoRow}, NEW own \in [Files -> Scored \cup {None}],
           Basis(p, x, own) # None
    PROVE  \/ Basis(p, x, own) \in Files /\ own[Basis(p, x, own)] = p
           \/ Basis(p, x, own) \in Statuses
  BY SelectionShape DEF Basis

LEMMA DeskInitHolds == DeskInit => DeskInv
<1> SUFFICES ASSUME DeskInit PROVE DeskInv
  OBVIOUS
<1>1. Busy = {} /\ Scoring = {} /\ Deleting = {}
  BY DEF DeskInit, Busy, Scoring, Deleting
<1>2. RowShape /\ lastFile \in 0..MaxFiles /\ rounds \in 0..MaxRounds
  BY DeskAssumption DEF DeskInit, RowShape
<1>3. desk = [r \in Requests |-> desk[r]]
  BY DEF DeskInit
<1>4. BasisStands /\ OwnFilesOnly
  BY DEF DeskInit, BasisStands, OwnFilesOnly
<1>5. NumbersUsed /\ OwnPlanned /\ NewIsWhole /\ UncrossedRead /\ UncrossedDeletes
  BY <1>1 DEF DeskInit, NumbersUsed, OwnPlanned, NewIsWhole, UncrossedRead, UncrossedDeletes
<1> QED
  BY <1>1, <1>2, <1>3, <1>4, <1>5 DEF DeskInv, DeskCore, JobShape, DeskInit

-----------------------------------------------------------------------------
(* A request begins, or ends                                               *)

LEMMA JobsStay == JobShape /\ desk' = desk /\ Scoring' = Scoring /\ Deleting' = Deleting => JobShape'
<1> SUFFICES ASSUME JobShape, desk' = desk, Scoring' = Scoring, Deleting' = Deleting PROVE JobShape'
  OBVIOUS
<1>1. \A r \in Scoring' : IsScoring(desk'[r])
  BY DEF JobShape
<1>2. \A r \in Deleting' : IsDeleting(desk'[r])
  BY DEF JobShape
<1> QED
  BY <1>1, <1>2 DEF JobShape, IsScoring, IsDeleting

LEMMA JobBegins ==
    ASSUME JobShape, NEW r \in Requests, desk[r] = Free, NEW j, IsScoring(j) \/ IsDeleting(j),
           desk' = [desk EXCEPT ![r] = j]
    PROVE  /\ JobShape' /\ desk'[r] = j /\ \A o \in Requests \ {r} : desk'[o] = desk[o]
           /\ Busy' = Busy \cup {r} /\ r \notin Busy
           /\ Scoring' = IF j.kind # "delete" THEN Scoring \cup {r} ELSE Scoring
           /\ Deleting' = IF j.kind = "delete" THEN Deleting \cup {r} ELSE Deleting
           /\ IsScoring(j) <=> j.kind # "delete"
<1>1. desk'[r] = j /\ (\A o \in Requests \ {r} : desk'[o] = desk[o]) /\ desk' = [o \in Requests |-> desk'[o]]
  BY DEF JobShape
<1>2. j # Free /\ (IsScoring(j) <=> j.kind # "delete")
  BY DEF IsScoring, IsDeleting, Free
<1>3. Busy' = Busy \cup {r} /\ r \notin Busy
  BY <1>1, <1>2 DEF Busy
<1>4. /\ Scoring' = IF j.kind # "delete" THEN Scoring \cup {r} ELSE Scoring
      /\ Deleting' = IF j.kind = "delete" THEN Deleting \cup {r} ELSE Deleting
  BY <1>1, <1>3 DEF Scoring, Deleting, Busy
<1>5. \A q \in Scoring' : IsScoring(desk'[q])
  BY <1>1, <1>2, <1>3, <1>4 DEF JobShape, Scoring, Busy
<1>6. \A q \in Deleting' : IsDeleting(desk'[q])
  BY <1>1, <1>2, <1>3, <1>4 DEF JobShape, Deleting, Busy
<1>7. JobShape'
  BY <1>1, <1>5, <1>6 DEF JobShape, IsScoring, IsDeleting
<1> QED
  BY <1>1, <1>2, <1>3, <1>4, <1>7

LEMMA JobEnds ==
    ASSUME JobShape, NEW r \in Requests, desk' = [desk EXCEPT ![r] = Free]
    PROVE  /\ JobShape' /\ \A o \in Requests \ {r} : desk'[o] = desk[o]
           /\ Busy' = Busy \ {r} /\ Scoring' = Scoring \ {r} /\ Deleting' = Deleting \ {r}
<1>1. desk'[r] = Free /\ (\A o \in Requests \ {r} : desk'[o] = desk[o]) /\ desk' = [o \in Requests |-> desk'[o]]
  BY DEF JobShape
<1>2. Busy' = Busy \ {r}
  BY <1>1 DEF Busy
<1>3. Scoring' = Scoring \ {r} /\ Deleting' = Deleting \ {r}
  BY <1>1, <1>2 DEF Scoring, Deleting, Busy
<1>4. \A q \in Scoring' : IsScoring(desk'[q])
  BY <1>1, <1>3 DEF JobShape, Scoring, Busy
<1>5. \A q \in Deleting' : IsDeleting(desk'[q])
  BY <1>1, <1>3 DEF JobShape, Deleting, Busy
<1>6. JobShape'
  BY <1>1, <1>4, <1>5 DEF JobShape, IsScoring, IsDeleting
<1> QED
  BY <1>1, <1>2, <1>3, <1>6

\* What was read stays what is there while the rows stay.
LEMMA SameReading ==
    ASSUME UNCHANGED <<owner, input>>
    PROVE  /\ \A x, y : y.plan = x.plan /\ y.write = x.write /\ y.files = x.files =>
                 (ReadsAll(x) => ReadsAll(y)') /\ (EitherWritten(x) => EitherWritten(y)')
           /\ \A p : EmptyChoice(p) => EmptyChoice(p)'
<1>1. \A p, cols : Written(p, cols)' = Written(p, cols)
  BY DEF Written
<1>2. \A p, write : Sees(p, write)' = Sees(p, write)
  BY <1>1 DEF Sees
<1>3. \A files : Owners(files)' = Owners(files)
  BY DEF Owners, Files
<1>4. ASSUME NEW x, NEW y, y.plan = x.plan, y.write = x.write, y.files = x.files, ReadsAll(x)
      PROVE  ReadsAll(y)'
  <2>1. \A p : Basis(p, Sees(p, y.write), Owners(y.files))' = Basis(p, Sees(p, x.write), Owners(x.files))
    BY <1>2, <1>3, <1>4 DEF Basis
  <2> QED
    BY <1>4, <2>1 DEF ReadsAll
<1>5. ASSUME NEW x, NEW y, y.write = x.write, EitherWritten(x) PROVE EitherWritten(y)'
  BY <1>1, <1>5 DEF EitherWritten
<1>6. \A p : EmptyChoice(p) => EmptyChoice(p)'
  BY DEF EmptyChoice
<1> QED
  BY <1>4, <1>5, <1>6

LEMMA SameRows ==
    ASSUME UNCHANGED <<owner, input, result>>
    PROVE  /\ \A x, y : y.plan = x.plan /\ y.write = x.write /\ y.files = x.files =>
                 (ReadsAll(x) => ReadsAll(y)') /\ (EitherWritten(x) => EitherWritten(y)')
           /\ \A p : (EmptyChoice(p) => EmptyChoice(p)') /\ RowOf(p)' = RowOf(p)
<1>1. \A p : RowOf(p)' = RowOf(p)
  BY DEF RowOf
<1> QED
  BY <1>1, SameReading

\* What a request reads when it begins to score keeps the invariant.
LEMMA ScoringBegins ==
    ASSUME DeskInv, NEW r \in Requests, desk[r] = Free, NEW j, IsScoring(j), desk' = [desk EXCEPT ![r] = j],
           UNCHANGED <<owner, input, result, rounds, raced>>,
           lastFile <= lastFile', lastFile' \in 0..MaxFiles,
           \A u \in DOMAIN j.files : lastFile < u /\ u <= lastFile',
           \A p \in DOMAIN j.plan : j.plan[p] \in Files => IsOf(j, j.plan[p], p),
           \A p \in DOMAIN j.write : "selected" \in DOMAIN j.write[p] /\ j.write[p]["selected"] # 0
                                        => IsOf(j, j.write[p]["selected"], p),
           \A p \in DOMAIN j.write : input[p] = NoRow => DOMAIN j.write[p] = {"selected", "status"},
           j.kind # "input" => ReadsAll(j) /\ j.step = "read",
           EitherWritten(j),
           j.kind = "upload" => \A p \in DOMAIN j.write : EmptyChoice(p)
    PROVE  DeskInv'
<1>1. /\ JobShape' /\ desk'[r] = j /\ (\A o \in Requests \ {r} : desk'[o] = desk[o])
      /\ Busy' = Busy \cup {r} /\ r \notin Busy /\ Scoring' = Scoring \cup {r} /\ Deleting' = Deleting
      /\ Scoring \subseteq Busy /\ Deleting \subseteq Busy /\ Busy \subseteq Requests
  BY JobBegins DEF DeskInv, DeskCore, Scoring, Deleting, Busy
<1>2. /\ raced \subseteq Busy /\ lastFile \in 0..MaxFiles /\ rounds \in 0..MaxRounds /\ RowShape
      /\ DOMAIN j.files \subseteq Files
  BY DEF DeskInv, DeskCore, IsScoring
<1>3. /\ \A q \in Scoring : q # r /\ desk'[q] = desk[q] /\ (q \notin raced' => q \notin raced)
      /\ \A q \in Deleting : q # r /\ desk'[q] = desk[q] /\ (q \notin raced' => q \notin raced)
  BY <1>1
<1>4. DeskCore'
  BY <1>1, <1>2 DEF DeskCore, RowShape, Selection, Result, Files
<1>5. ASSUME NEW q \in Scoring, NEW u \in DOMAIN desk[q].files
      PROVE  u \in Files /\ u <= lastFile /\ u \notin DOMAIN j.files
  <2>1. u \in Files /\ u <= lastFile
    BY DEF DeskInv, NumbersUsed, DeskCore, JobShape, IsScoring
  <2> QED
    BY <2>1, <1>2, DeskAssumption DEF Files
<1>6. ASSUME NEW u \in DOMAIN j.files PROVE u \in Files /\ owner[u] = None /\ u <= lastFile' /\ ~(u <= lastFile)
  BY <1>2, DeskAssumption DEF DeskInv, NumbersUsed, Files
<1>7. ASSUME NEW u \in Files, u <= lastFile PROVE u <= lastFile'
  <2>1. u \in Nat /\ lastFile \in Nat /\ lastFile' \in Nat
    BY <1>2, DeskAssumption DEF Files
  <2> QED
    BY ONLY <1>7, <2>1, lastFile <= lastFile'
<1>8. NumbersUsed'
  <2>1. \A u \in Files : owner'[u] # None => u <= lastFile'
    BY <1>7 DEF DeskInv, NumbersUsed
  <2>2. ASSUME NEW q \in Scoring', NEW u \in DOMAIN desk'[q].files
        PROVE  u <= lastFile' /\ owner'[u] = None /\ \A o \in Scoring' : u \in DOMAIN desk'[o].files => o = q
    <3>1. CASE q = r
      BY <3>1, <1>1, <1>3, <1>5, <1>6
    <3>2. CASE q # r
      <4>1. q \in Scoring /\ u \in DOMAIN desk[q].files /\ u \notin DOMAIN j.files
        BY <3>2, <1>1, <1>3, <1>5
      <4>2. owner[u] = None /\ \A o \in Scoring : u \in DOMAIN desk[o].files => o = q
        BY <4>1 DEF DeskInv, NumbersUsed
      <4>3. u <= lastFile'
        BY <4>1, <1>5, <1>7
      <4> QED
        BY <4>1, <4>2, <4>3, <1>1, <1>3
    <3> QED
      BY <3>1, <3>2
  <2> QED
    BY <2>1, <2>2 DEF NumbersUsed, Files
<1>9. ASSUME NEW u, NEW p, StaysOf(u, p) PROVE StaysOf(u, p)'
  <2>1. u \in Files /\ u <= lastFile /\ owner[u] \in {p, None} /\ u \notin DOMAIN j.files
    BY <1>9, <1>6 DEF StaysOf
  <2>2. ~Awaited(u)'
    BY <1>9, <2>1, <1>1, <1>3 DEF StaysOf, Awaited
  <2> QED
    BY <2>1, <2>2, <1>7 DEF StaysOf, Files
<1>10. ASSUME NEW x
       PROVE  /\ ReadsAll(x) => ReadsAll(x)'
              /\ EitherWritten(x) => EitherWritten(x)'
              /\ \A p : (EmptyChoice(p) => EmptyChoice(p)') /\ RowOf(p)' = RowOf(p)
  BY SameRows
<1>11. OwnPlanned'
  <2>1. ASSUME NEW q \in Scoring'
        PROVE  /\ \A p \in DOMAIN desk'[q].plan : desk'[q].plan[p] \in Files => IsOf(desk'[q], desk'[q].plan[p], p)
               /\ \A p \in DOMAIN desk'[q].write :
                     "selected" \in DOMAIN desk'[q].write[p] /\ desk'[q].write[p]["selected"] # 0
                        => IsOf(desk'[q], desk'[q].write[p]["selected"], p)
    <3>1. CASE q = r
      BY <3>1, <1>1
    <3>2. CASE q # r
      BY <3>2, <1>1, <1>3 DEF DeskInv, OwnPlanned
    <3> QED
      BY <3>1, <3>2
  <2>2. Files' = Files
    BY DEF Files
  <2> QED
    BY <2>1, <2>2, <1>9 DEF OwnPlanned, IsOf
<1>12. NewIsWhole'
  BY <1>1, <1>3 DEF DeskInv, NewIsWhole
<1>13. BasisStands' /\ OwnFilesOnly'
  BY <1>9 DEF DeskInv, BasisStands, OwnFilesOnly, Files
<1>14. UncrossedRead'
  <2>1. ASSUME NEW q \in Scoring' \ raced'
        PROVE  /\ desk'[q].kind # "input" => ReadsAll(desk'[q])
               /\ EitherWritten(desk'[q])
               /\ desk'[q].kind = "upload" => \A p \in DOMAIN desk'[q].write : EmptyChoice(p)
               /\ desk'[q].kind # "input" /\ desk'[q].step = "deleted" =>
                     \A p \in Scored : result[p] # NoRow => RowOf(p) \in desk'[q].doomed
    <3>1. CASE q = r
      BY <3>1, <1>1
    <3>2. CASE q # r
      BY <3>2, <1>1, <1>3 DEF DeskInv, UncrossedRead
    <3> QED
      BY <3>1, <3>2
  <2> QED
    BY <2>1, <1>10 DEF UncrossedRead
<1>15. UncrossedDeletes'
  BY <1>1, <1>3 DEF DeskInv, UncrossedDeletes, RowOf
<1> QED
  BY <1>4, <1>8, <1>11, <1>12, <1>13, <1>14, <1>15 DEF DeskInv

\* An upload that is stored keeps its owner until it is deleted.
LEMMA OwnedStays ==
    ASSUME DeskInv, NEW u \in Files, NEW p, owner[u] = p, p # None
    PROVE  StaysOf(u, p)
<1>1. u <= lastFile
  BY DEF DeskInv, NumbersUsed
<1>2. ~Awaited(u)
  BY DEF DeskInv, NumbersUsed, Awaited
<1> QED
  BY <1>1, <1>2 DEF StaysOf

\* Whatever a request that scores reads is of the pilots it is for.
LEMMA ReadingKeeps ==
    ASSUME DeskInv, NEW r \in Requests, NEW kind \in {"rescore", "upload"}, NEW write, NEW files,
           Reads(r, kind, write, files),
           lastFile <= lastFile', lastFile' \in 0..MaxFiles,
           DOMAIN files \subseteq Files, \A u \in DOMAIN files : lastFile < u /\ u <= lastFile' /\ files[u] \in Scored,
           DOMAIN write \subseteq Scored,
           \A p \in DOMAIN write :
              /\ IsColumns(write[p]) /\ (input[p] = NoRow => DOMAIN write[p] = {"selected", "status"})
              /\ Written(p, write[p]).selected = 0 \/ Written(p, write[p]).status = None
              /\ kind = "upload" => EmptyChoice(p)
              /\ "selected" \in DOMAIN write[p] /\ write[p]["selected"] # 0 =>
                    LET u == write[p]["selected"]
                    IN (u \in DOMAIN files /\ files[u] = p) \/ StaysOf(u, p)
    PROVE  DeskInv'
<1> DEFINE own == Owners(files)
           base(p) == Basis(p, Sees(p, write), own)
           plan == [p \in {q \in Scored : base(q) # None} |-> base(p)]
           new == {p \in DOMAIN write : input[p] = NoRow}
           j == [step |-> "read", kind |-> kind, write |-> write, files |-> files, new |-> new,
                 doomed |-> {}, plan |-> plan]
<1>1. /\ desk[r] = Free /\ desk' = [desk EXCEPT ![r] = j]
      /\ UNCHANGED <<owner, input, result, rounds, raced>>
  BY DEF Reads
<1>2. RowShape /\ None \notin Statuses \cup Scored \cup Files /\ Statuses \cap (Files \cup {0}) = {}
  BY DeskAssumption DEF DeskInv, DeskCore
<1>3. own \in [Files -> Scored \cup {None}]
  BY <1>2 DEF Owners, RowShape
<1>4. ASSUME NEW p \in DOMAIN write
      PROVE  /\ p \in Scored /\ Written(p, write[p]) \in Selection
             /\ Written(p, write[p])["selected"] = Written(p, write[p]).selected
             /\ Written(p, write[p])["status"] = Written(p, write[p]).status
  <2>1. p \in Scored /\ input[p] \in Selection \cup {NoRow}
    BY <1>2 DEF RowShape
  <2>2. Written(p, write[p]) \in Selection
    BY <2>1, WrittenShape
  <2> QED
    BY <2>1, <2>2, SelectionShape
<1>5. ASSUME NEW p \in Scored, base(p) # None
      PROVE  base(p) \in Files \cup Statuses /\ (base(p) \in Files => IsOf([files |-> files], base(p), p))
  <2>1. Sees(p, write) \in Selection \cup {NoRow}
    BY <1>2, <1>4 DEF Sees, RowShape
  <2> HIDE DEF own
  <2>2. (base(p) \in Files /\ own[base(p)] = p) \/ base(p) \in Statuses
    BY <1>3, <1>5, <2>1, BasisShape
  <2> HIDE DEF base
  <2>3. ASSUME base(p) \in Files PROVE IsOf([files |-> files], base(p), p)
    <3>1. own[base(p)] = p
      BY <1>2, <2>2, <2>3
    <3>2. CASE base(p) \in DOMAIN files
      BY <3>1, <3>2, <2>3 DEF IsOf, own, Owners
    <3>3. CASE base(p) \notin DOMAIN files
      <4>1. owner[base(p)] = p /\ p # None
        BY <3>1, <3>3, <2>3, <1>2 DEF own, Owners
      <4> QED
        BY <4>1, <2>3, OwnedStays DEF IsOf
    <3> QED
      BY <3>2, <3>3
  <2> QED
    BY <2>2, <2>3
<1>6. ReadsAll(j)
  BY DEF ReadsAll
<1> HIDE DEF base, own
<1>7. /\ {"step", "doomed"} \subseteq DOMAIN j
      /\ j.step = "read" /\ j.kind = kind /\ j.write = write /\ j.files = files /\ j.new = new
      /\ j.plan = plan /\ DOMAIN plan = {q \in Scored : base(q) # None}
      /\ \A p \in DOMAIN plan : plan[p] = base(p)
  OBVIOUS
<1> HIDE DEF j, plan
<1>8. IsScoring(j)
  BY <1>4, <1>5, <1>7 DEF IsScoring, IsColumns
<1>9. \A p \in DOMAIN j.plan : j.plan[p] \in Files => IsOf(j, j.plan[p], p)
  BY <1>5, <1>7 DEF IsOf
<1>10. \A p \in DOMAIN j.write : "selected" \in DOMAIN j.write[p] /\ j.write[p]["selected"] # 0
                                    => IsOf(j, j.write[p]["selected"], p)
  BY <1>7 DEF IsOf
<1>11. EitherWritten(j)
  BY <1>4, <1>7 DEF EitherWritten
<1> QED
  BY <1>1, <1>6, <1>7, <1>8, <1>9, <1>10, <1>11, ScoringBegins

\* What selecting an upload, or nothing, or a status for p writes
LEMMA ChoiceWrites ==
    ASSUME DeskInv, NEW p \in Scored, NEW u \in Files \cup {0}, NEW s \in Statuses \cup {None},
           u = 0 \/ s = None
    PROVE  /\ IsColumns(Changes(p, Choice(u, s)))
           /\ input[p] = NoRow => DOMAIN Changes(p, Choice(u, s)) = {"selected", "status"}
           /\ "selected" \in DOMAIN Changes(p, Choice(u, s)) => Changes(p, Choice(u, s))["selected"] = u
           /\ LET w == Written(p, Changes(p, Choice(u, s)))
              IN w \in Selection /\ (w.selected = 0 \/ w.status = None)
<1>1. Choice(u, s) \in Selection /\ Choice(u, s).selected = u /\ Choice(u, s).status = s
  BY DEF Choice, Selection
<1>2. input[p] \in Selection \cup {NoRow}
  BY DEF DeskInv, DeskCore, RowShape
<1> QED
  BY <1>1, <1>2, ChangesShape

LEMMA RescoreKeeps ==
    ASSUME DeskInv, NEW r \in Requests, Rescore(r)
    PROVE  DeskInv'
<1>1. DOMAIN Nothing = {} /\ lastFile' = lastFile /\ lastFile \in 0..MaxFiles /\ lastFile <= lastFile'
  BY DeskAssumption DEF Nothing, Rescore, DeskInv, DeskCore
<1>2. Reads(r, "rescore", Nothing, Nothing)
  BY DEF Rescore
<1> HIDE DEF Nothing
<1> QED
  BY <1>1, <1>2, ReadingKeeps

LEMMA SelectCandidateKeeps ==
    ASSUME DeskInv, NEW r \in Requests, NEW u \in Files, SelectCandidate(r, u)
    PROVE  DeskInv'
<1>1. DOMAIN Nothing = {} /\ lastFile' = lastFile /\ lastFile \in 0..MaxFiles /\ lastFile <= lastFile'
  BY DeskAssumption DEF Nothing, SelectCandidate, DeskInv, DeskCore
<1>2. owner[u] \in Scored /\ owner[u] # None
  BY DEF SelectCandidate, Exists, Present, DeskInv, DeskCore, RowShape
<1>3. StaysOf(u, owner[u])
  BY <1>2, OwnedStays
<1>4. CASE EmptyChoice(owner[u])
  <2> DEFINE p == owner[u]
             w == Selects(p, u)
  <2>1. Reads(r, "rescore", w, Nothing)
    BY <1>4 DEF SelectCandidate
  <2>2. DOMAIN w = {p} /\ w[p] = Changes(p, Choice(u, None))
    BY DEF Selects
  <2>3. /\ IsColumns(w[p]) /\ (input[p] = NoRow => DOMAIN w[p] = {"selected", "status"})
        /\ "selected" \in DOMAIN w[p] => w[p]["selected"] = u
        /\ Written(p, w[p]).selected = 0 \/ Written(p, w[p]).status = None
    BY <1>2, <2>2, ChoiceWrites
  <2> HIDE DEF w, Nothing
  <2> QED
    BY <1>1, <1>2, <1>3, <2>1, <2>2, <2>3, ReadingKeeps
<1>5. CASE ~EmptyChoice(owner[u])
  <2>1. Reads(r, "rescore", Nothing, Nothing)
    BY <1>5 DEF SelectCandidate
  <2> HIDE DEF Nothing
  <2> QED
    BY <1>1, <2>1, ReadingKeeps
<1> QED
  BY <1>4, <1>5

LEMMA ChooseInputKeeps ==
    ASSUME DeskInv, NEW r \in Requests, NEW p \in Scored, NEW u \in 0..MaxFiles, NEW s \in Statuses \cup {None},
           ChooseInput(r, p, u, s)
    PROVE  DeskInv'
<1> DEFINE w == [q \in {p} |-> Changes(p, Choice(u, s))]
           new == {q \in {p} : input[q] = NoRow}
           j == [step |-> "deleted", kind |-> "input", write |-> w, files |-> Nothing, new |-> new,
                 plan |-> Nothing, doomed |-> {}]
<1>1. /\ desk[r] = Free /\ desk' = [desk EXCEPT ![r] = j]
      /\ UNCHANGED <<owner, input, result, rounds, raced>>
      /\ lastFile' = lastFile /\ (u # 0 => Exists(u) /\ owner[u] = p /\ s = None)
  BY DEF ChooseInput
<1>2. u \in Files \cup {0} /\ lastFile \in 0..MaxFiles /\ lastFile <= lastFile' /\ None \notin Scored
  BY <1>1, DeskAssumption DEF Files, DeskInv, DeskCore
<1>3. DOMAIN w = {p} /\ w[p] = Changes(p, Choice(u, s)) /\ DOMAIN Nothing = {}
  BY DEF Nothing
<1>4. /\ IsColumns(w[p]) /\ (input[p] = NoRow => DOMAIN w[p] = {"selected", "status"})
      /\ "selected" \in DOMAIN w[p] => w[p]["selected"] = u
      /\ Written(p, w[p]).selected = 0 \/ Written(p, w[p]).status = None
      /\ Written(p, w[p]) \in Selection
  BY <1>1, <1>2, <1>3, ChoiceWrites
<1>5. u # 0 => StaysOf(u, p)
  BY <1>1, <1>2, OwnedStays
<1> HIDE DEF w, Nothing
<1>6. /\ {"step", "doomed"} \subseteq DOMAIN j
      /\ j.step = "deleted" /\ j.kind = "input" /\ j.write = w /\ j.files = Nothing /\ j.new = new /\ j.plan = Nothing
      /\ new \subseteq {p}
  OBVIOUS
<1> HIDE DEF j, new
<1>7. IsScoring(j)
  BY <1>3, <1>4, <1>6 DEF IsScoring, IsColumns
<1>8. \A q \in DOMAIN j.write : "selected" \in DOMAIN j.write[q] /\ j.write[q]["selected"] # 0
                                    => IsOf(j, j.write[q]["selected"], q)
  BY <1>3, <1>4, <1>5, <1>6 DEF IsOf
<1>9. EitherWritten(j)
  BY <1>3, <1>4, <1>6, SelectionShape DEF EitherWritten
<1> QED
  BY <1>1, <1>2, <1>3, <1>4, <1>6, <1>7, <1>8, <1>9, ScoringBegins

LEMMA StoreSelectedKeeps ==
    ASSUME DeskInv, NEW r \in Requests, NEW p \in Scored, EmptyChoice(p),
           StoreFile(r, p, FALSE)
    PROVE  DeskInv'
<1> DEFINE n == lastFile + 1
           w == [q \in {p} |-> Changes(p, Choice(n, None))]
           files == [u \in {n} |-> p]
<1>1. /\ lastFile' = n /\ Reads(r, "upload", w, files)
      /\ n \in Files /\ lastFile < n /\ n <= n /\ n \in 0..MaxFiles /\ lastFile <= n
  <2>1. lastFile \in 0..MaxFiles /\ MaxFiles \in Nat /\ lastFile < MaxFiles /\ lastFile' = n
    BY DeskAssumption DEF StoreFile, DeskInv, DeskCore
  <2>2. Reads(r, "upload", w, files)
    BY <2>1 DEF StoreFile, Selects
  <2> QED
    BY <2>1, <2>2 DEF Files
<1>2. /\ IsColumns(w[p]) /\ (input[p] = NoRow => DOMAIN w[p] = {"selected", "status"})
      /\ "selected" \in DOMAIN w[p] => w[p]["selected"] = n
      /\ Written(p, w[p]).selected = 0 \/ Written(p, w[p]).status = None
  BY <1>1, ChoiceWrites
<1>3. DOMAIN w = {p} /\ DOMAIN files = {n} /\ files[n] = p
  OBVIOUS
<1> HIDE DEF w, files, n
<1> QED
  BY <1>1, <1>2, <1>3, ReadingKeeps

LEMMA StoreUnselectedKeeps ==
    ASSUME DeskInv, NEW r \in Requests, NEW p \in Scored,
           lastFile < MaxFiles, lastFile' = lastFile + 1, owner' = [owner EXCEPT ![lastFile'] = p],
           UNCHANGED <<input, result, rounds, desk, raced>>
    PROVE  DeskInv'
<1> DEFINE n == lastFile'
<1>1. n \in Files /\ n \in 0..MaxFiles /\ ~(n <= lastFile) /\ \A u \in Files : u <= lastFile => u <= n /\ u # n
  <2>1. lastFile \in 0..MaxFiles /\ MaxFiles \in Nat
    BY DeskAssumption DEF DeskInv, DeskCore
  <2> QED
    BY <2>1 DEF Files
<1>2. /\ RowShape /\ owner' \in [Files -> Scored \cup {None}] /\ owner'[n] = p /\ None \notin Scored
      /\ \A u \in Files \ {n} : owner'[u] = owner[u]
  BY <1>1, DeskAssumption DEF DeskInv, DeskCore, RowShape
<1>3. owner[n] = None /\ n <= n
  BY <1>1 DEF DeskInv, NumbersUsed, Files
<1>4. Scoring' = Scoring /\ Deleting' = Deleting /\ Busy' = Busy
  BY DEF Scoring, Deleting, Busy
<1>5. \A q \in Scoring : n \notin DOMAIN desk[q].files
  BY <1>1 DEF DeskInv, NumbersUsed
<1> HIDE DEF n
<1>6. DeskCore'
  <2>1. JobShape'
    BY <1>4, JobsStay DEF DeskInv, DeskCore
  <2>2. RowShape'
    BY <1>2 DEF RowShape, Selection, Result, Files
  <2> QED
    BY <1>1, <1>4, <2>1, <2>2 DEF DeskInv, DeskCore, n
<1>7. NumbersUsed'
  <2>1. ASSUME NEW q \in Scoring, NEW u \in DOMAIN desk[q].files
        PROVE  u \in Files /\ u <= lastFile' /\ owner'[u] = None
    BY <1>1, <1>2, <1>5 DEF DeskInv, NumbersUsed, DeskCore, JobShape, IsScoring, n
  <2>2. \A u \in Files : owner'[u] # None => u <= lastFile'
    BY <1>1, <1>2, <1>3 DEF DeskInv, NumbersUsed, n
  <2> QED
    BY <1>4, <2>1, <2>2 DEF DeskInv, NumbersUsed, Files
<1>8. ASSUME NEW u, NEW q, StaysOf(u, q) PROVE StaysOf(u, q)' /\ u # n
  BY <1>1, <1>2, <1>4, <1>8 DEF StaysOf, Awaited, Files, n
<1>9. ASSUME NEW o \in Scoring, NEW u, NEW q, IsOf(desk[o], u, q) PROVE IsOf(desk[o], u, q)' /\ u # n
  BY <1>5, <1>8, <1>9 DEF IsOf
<1>10. OwnPlanned'
  BY <1>4, <1>9 DEF DeskInv, OwnPlanned, Files
<1>11. NewIsWhole' /\ BasisStands'
  BY <1>4, <1>8 DEF DeskInv, NewIsWhole, BasisStands, Files
<1>12. /\ OwnFilesOnly'
       /\ \A q \in Scored : input[q] # NoRow => input[q].selected # n
  <2>1. ASSUME NEW u \in Files \cup {0}, NEW q \in Scored, u # 0 => owner[u] = q
        PROVE  u # n /\ (u # 0 => owner'[u] = q)
    BY <1>1, <1>2, <1>3, <2>1 DEF Files
  <2>2. \A q \in Scored : /\ input[q] # NoRow => input[q].selected \in Files \cup {0}
                          /\ result[q] # NoRow => result[q].file \in Files \cup {0}
    BY <1>2, SelectionShape, ResultShape DEF RowShape
  <2> QED
    BY <2>1, <2>2 DEF DeskInv, OwnFilesOnly
<1>13. ASSUME NEW o \in Scoring, NEW q \in Scored
       PROVE  Basis(q, Sees(q, desk[o].write), Owners(desk[o].files))'
                 = Basis(q, Sees(q, desk[o].write), Owners(desk[o].files))
  <2> DEFINE x == Sees(q, desk[o].write)
             own == Owners(desk[o].files)
  <2>1. x' = x
    BY DEF Sees, Written
  <2>2. \A u \in Files \ {n} : own'[u] = own[u]
    BY <1>2 DEF Owners, Files
  <2>3. x \in Selection \cup {NoRow} /\ (x # NoRow => x.selected # n)
    <3>1. CASE q \in DOMAIN desk[o].write
      <4>1. /\ input[q] \in Selection \cup {NoRow} /\ IsColumns(desk[o].write[q])
            /\ input[q] = NoRow => DOMAIN desk[o].write[q] = {"selected", "status"}
        BY <1>2, <3>1 DEF RowShape, DeskInv, DeskCore, JobShape, IsScoring, IsColumns, NewIsWhole
      <4>2. "selected" \in DOMAIN desk[o].write[q] /\ desk[o].write[q]["selected"] # 0
               => desk[o].write[q]["selected"] # n
        BY <1>9, <3>1 DEF DeskInv, OwnPlanned
      <4>3. n # 0
        BY <1>1 DEF Files
      <4>4. /\ x = Written(q, desk[o].write[q]) /\ x \in Selection
            /\ x.selected = IF "selected" \in DOMAIN desk[o].write[q] THEN desk[o].write[q]["selected"]
                            ELSE input[q].selected
        BY <3>1, <4>1, WrittenShape DEF Sees
      <4> QED
        BY <1>12, <4>1, <4>2, <4>3, <4>4
    <3>2. CASE q \notin DOMAIN desk[o].write
      BY <1>2, <1>12, <3>2 DEF Sees, RowShape
    <3> QED
      BY <3>1, <3>2
  <2> HIDE DEF x, own
  <2>4. Basis(q, x, own') = Basis(q, x, own)
    BY <2>2, <2>3, SelectionShape DEF Basis
  <2> QED
    BY <2>1, <2>4 DEF x, own, Basis
<1>14. UncrossedRead'
  <2>1. ASSUME NEW o \in Scoring PROVE /\ ReadsAll(desk[o]) => ReadsAll(desk[o])'
                                       /\ EitherWritten(desk[o]) => EitherWritten(desk[o])'
    BY <1>13 DEF ReadsAll, EitherWritten, Written
  <2> QED
    BY <1>4, <2>1 DEF DeskInv, UncrossedRead, EmptyChoice, RowOf
<1>15. UncrossedDeletes'
  <2>1. \A u \in Files : owner[u] # None => owner'[u] # None
    BY <1>2, <1>3
  <2> QED
    BY <1>4, <2>1 DEF DeskInv, UncrossedDeletes, RowOf, DeskCore, JobShape, IsDeleting
<1> QED
  BY <1>6, <1>7, <1>10, <1>11, <1>12, <1>14, <1>15 DEF DeskInv

-----------------------------------------------------------------------------
(* What the other transactions of the task do to a request under way       *)

LEMMA OthersGoOn ==
    ASSUME DeskInv, JobShape', Scoring' \subseteq Scoring, \A o \in Scoring' : desk'[o] = desk[o],
           lastFile' = lastFile,
           \A u \in Files : owner'[u] = owner[u] \/ owner'[u] = None \/ (Awaited(u) /\ ~Awaited(u)'),
           \A p \in Scored : input'[p] = NoRow => input[p] = NoRow
    PROVE  /\ NumbersUsed' /\ OwnPlanned' /\ NewIsWhole'
           /\ \A u, p : StaysOf(u, p) => StaysOf(u, p)'
<1>1. ASSUME NEW u, NEW p, StaysOf(u, p) PROVE StaysOf(u, p)'
  <2>1. u \in Files /\ u <= lastFile /\ owner[u] \in {p, None} /\ ~Awaited(u)
    BY <1>1 DEF StaysOf
  <2>2. ~Awaited(u)'
    BY <2>1 DEF Awaited
  <2> QED
    BY <2>1, <2>2 DEF StaysOf, Files
<1>2. NumbersUsed'
  <2>1. ASSUME NEW q \in Scoring', NEW u \in DOMAIN desk'[q].files
        PROVE  u \in Files /\ q \in Scoring /\ u \in DOMAIN desk[q].files /\ u <= lastFile' /\ owner'[u] = None
    <3>1. q \in Scoring /\ u \in DOMAIN desk[q].files /\ u \in Files
      BY DEF DeskInv, DeskCore, JobShape, IsScoring
    <3>2. Awaited(u)'
      BY DEF Awaited
    <3> QED
      BY <3>1, <3>2 DEF DeskInv, NumbersUsed
  <2>2. ASSUME NEW u \in Files, owner'[u] # None PROVE u <= lastFile'
    BY <2>2 DEF DeskInv, NumbersUsed, Awaited
  <2>3. \A q \in Scoring', o \in Scoring' : \A u \in DOMAIN desk'[q].files : u \in DOMAIN desk'[o].files => o = q
    BY <2>1 DEF DeskInv, NumbersUsed
  <2> QED
    BY <2>1, <2>2, <2>3 DEF NumbersUsed, Files
<1>3. ASSUME NEW o \in Scoring', NEW u, NEW p, IsOf(desk[o], u, p) PROVE IsOf(desk[o], u, p)'
  BY <1>1, <1>3 DEF IsOf
<1>4. OwnPlanned'
  BY <1>3 DEF DeskInv, OwnPlanned, Files
<1>5. ASSUME NEW o \in Scoring', NEW p \in DOMAIN desk'[o].write, input'[p] = NoRow
      PROVE  DOMAIN desk'[o].write[p] = {"selected", "status"}
  <2>1. o \in Scoring /\ desk'[o] = desk[o] /\ p \in Scored
    BY DEF DeskInv, DeskCore, JobShape, IsScoring
  <2> QED
    BY <1>5, <2>1 DEF DeskInv, NewIsWhole
<1>6. NewIsWhole'
  BY <1>5 DEF NewIsWhole
<1> QED
  BY <1>1, <1>2, <1>4, <1>6

LEMMA DeleteStoredKeeps ==
    ASSUME DeskInv, NEW r \in Requests, NEW us \in SUBSET Files, DeleteStored(r, us)
    PROVE  DeskInv'
<1> DEFINE cleared == {p \in Scored : input[p] # NoRow /\ input[p].selected \in us}
           doomed == RowsOf({p \in Scored : result[p] # NoRow /\ result[p].file \in us})
           j == [step |-> "deleted", kind |-> "delete", files |-> us, cleared |-> cleared, doomed |-> doomed]
<1>1. /\ desk[r] = Free /\ desk' = [desk EXCEPT ![r] = j] /\ (\A u \in us : Exists(u))
      /\ UNCHANGED <<owner, lastFile, input, result, rounds, raced>>
  BY DEF DeleteStored
<1>2. /\ j.step = "deleted" /\ j.kind = "delete" /\ j.files = us /\ j.cleared = cleared /\ j.doomed = doomed
      /\ cleared \subseteq Scored
      /\ \A p \in Scored : result[p] # NoRow /\ result[p].file \in us => RowOf(p) \in doomed
  BY DEF RowsOf
<1> HIDE DEF j, cleared, doomed
<1>3. IsDeleting(j)
  BY <1>2 DEF IsDeleting
<1>4. /\ JobShape' /\ desk'[r] = j /\ (\A o \in Requests \ {r} : desk'[o] = desk[o])
      /\ Busy' = Busy \cup {r} /\ r \notin Busy /\ Scoring' = Scoring /\ Deleting' = Deleting \cup {r}
      /\ Scoring \subseteq Busy /\ Deleting \subseteq Busy /\ Busy \subseteq Requests
  BY <1>1, <1>2, <1>3, JobBegins DEF DeskInv, DeskCore, Scoring, Deleting, Busy
<1>5. \A o \in Scoring \cup Deleting : o # r /\ desk'[o] = desk[o]
  BY <1>4
<1>6. DeskCore'
  BY <1>1, <1>4 DEF DeskInv, DeskCore, RowShape, Selection, Result, Files
<1>7. /\ NumbersUsed' /\ OwnPlanned' /\ NewIsWhole'
      /\ \A u, p : StaysOf(u, p) => StaysOf(u, p)'
  BY <1>1, <1>4, <1>5, OthersGoOn
<1>8. BasisStands' /\ OwnFilesOnly'
  BY <1>1, <1>7 DEF DeskInv, BasisStands, OwnFilesOnly, Files
<1>9. UncrossedRead'
  BY <1>1, <1>4, <1>5, SameRows DEF DeskInv, UncrossedRead
<1>10. UncrossedDeletes'
  BY <1>1, <1>2, <1>4, <1>5 DEF DeskInv, UncrossedDeletes, RowOf, Exists, Present
<1> QED
  BY <1>6, <1>7, <1>8, <1>9, <1>10 DEF DeskInv

LEMMA DeleteResultsKeeps ==
    ASSUME DeskInv, NEW r \in Requests, DeleteResults(r)
    PROVE  DeskInv'
<1> DEFINE doomed == RowsOf({p \in Scored : result[p] # NoRow})
<1>1. /\ desk[r].step = "read" /\ desk' = [desk EXCEPT ![r].step = "deleted", ![r].doomed = doomed]
      /\ UNCHANGED <<owner, lastFile, input, result, rounds, raced>>
  BY DEF DeleteResults
<1>2. r \in Scoring /\ IsScoring(desk[r])
  <2>1. desk[r] # Free
    BY <1>1 DEF Free
  <2>2. r \in Scoring \/ r \in Deleting
    BY <2>1 DEF Scoring, Deleting, Busy
  <2>3. r \notin Deleting
    BY <1>1 DEF DeskInv, DeskCore, JobShape, IsDeleting
  <2> QED
    BY <2>2, <2>3 DEF DeskInv, DeskCore, JobShape
<1>3. \A p \in Scored : result[p] # NoRow => RowOf(p) \in doomed
  BY DEF RowsOf
<1> HIDE DEF doomed
<1>4. /\ \A o \in Requests \ {r} : desk'[o] = desk[o]
      /\ desk'[r].step = "deleted" /\ desk'[r].doomed = doomed /\ desk'[r].kind = desk[r].kind
      /\ desk'[r].write = desk[r].write /\ desk'[r].files = desk[r].files /\ desk'[r].new = desk[r].new
      /\ desk'[r].plan = desk[r].plan /\ {"step", "doomed"} \subseteq DOMAIN desk'[r]
      /\ desk' = [o \in Requests |-> desk'[o]]
  <2>1. desk = [o \in Requests |-> desk[o]]
    BY DEF DeskInv, DeskCore, JobShape
  <2>2. desk'[r] = [desk[r] EXCEPT !.step = "deleted", !.doomed = doomed]
    BY <1>1, <2>1
  <2>3. {"step", "doomed"} \subseteq DOMAIN desk[r]
    BY <1>2 DEF IsScoring
  <2>4. /\ desk'[r].step = "deleted" /\ desk'[r].doomed = doomed /\ desk'[r].kind = desk[r].kind
        /\ desk'[r].write = desk[r].write /\ desk'[r].files = desk[r].files /\ desk'[r].new = desk[r].new
        /\ desk'[r].plan = desk[r].plan /\ {"step", "doomed"} \subseteq DOMAIN desk'[r]
    BY <2>2, <2>3
  <2>5. (\A o \in Requests \ {r} : desk'[o] = desk[o]) /\ desk' = [o \in Requests |-> desk'[o]]
    BY <1>1, <2>1
  <2> QED
    BY <2>4, <2>5
<1>5. IsScoring(desk'[r]) /\ desk'[r] # Free
  BY <1>2, <1>4 DEF IsScoring, Free
<1>6. Busy' = Busy /\ Scoring' = Scoring /\ Deleting' = Deleting /\ r \notin Deleting
  BY <1>2, <1>4, <1>5 DEF Busy, Scoring, Deleting
<1>7. \A o \in Scoring : o # r => desk'[o] = desk[o]
  BY <1>4 DEF Scoring, Busy
<1>8. \A o \in Deleting : desk'[o] = desk[o]
  BY <1>4, <1>6 DEF Deleting, Busy
<1>9. DeskCore'
  <2>1. \A o \in Scoring : IsScoring(desk'[o])
    BY <1>5, <1>7 DEF DeskInv, DeskCore, JobShape
  <2>2. \A o \in Deleting : IsDeleting(desk'[o])
    BY <1>8 DEF DeskInv, DeskCore, JobShape
  <2>3. JobShape'
    BY <1>4, <1>6, <2>1, <2>2 DEF JobShape, IsScoring, IsDeleting
  <2> QED
    BY <1>1, <1>6, <2>3 DEF DeskInv, DeskCore, RowShape, Selection, Result, Files
<1>10. ASSUME NEW o \in Scoring
       PROVE  /\ desk'[o].files = desk[o].files /\ desk'[o].plan = desk[o].plan /\ desk'[o].write = desk[o].write
              /\ desk'[o].kind = desk[o].kind
  BY <1>4, <1>7
<1>11. NumbersUsed' /\ OwnPlanned' /\ NewIsWhole' /\ BasisStands' /\ OwnFilesOnly'
  <2>1. \A u : Awaited(u)' <=> Awaited(u)
    BY <1>6, <1>10 DEF Awaited
  <2>2. \A u, p : StaysOf(u, p)' <=> StaysOf(u, p)
    BY <1>1, <2>1 DEF StaysOf, Files
  <2>3. \A o \in Scoring : \A u, p : IsOf(desk[o], u, p) => IsOf(desk[o], u, p)'
    BY <1>10, <2>2 DEF IsOf
  <2>4. OwnPlanned'
    <3>1. ASSUME NEW o \in Scoring
          PROVE  /\ \A p \in DOMAIN desk'[o].plan : desk'[o].plan[p] \in Files => IsOf(desk[o], desk'[o].plan[p], p)
                 /\ \A p \in DOMAIN desk'[o].write :
                       "selected" \in DOMAIN desk'[o].write[p] /\ desk'[o].write[p]["selected"] # 0
                          => IsOf(desk[o], desk'[o].write[p]["selected"], p)
      BY <1>10 DEF DeskInv, OwnPlanned
    <3> QED
      BY <1>6, <2>3, <3>1 DEF OwnPlanned, Files
  <2>5. NumbersUsed'
    <3>1. ASSUME NEW o \in Scoring, NEW u \in DOMAIN desk'[o].files
          PROVE  /\ u <= lastFile' /\ owner'[u] = None
                 /\ \A q \in Scoring : u \in DOMAIN desk'[q].files => q = o
      BY <1>1, <1>10 DEF DeskInv, NumbersUsed
    <3>2. \A u \in Files : owner'[u] # None => u <= lastFile'
      BY <1>1 DEF DeskInv, NumbersUsed
    <3> QED
      BY <1>6, <3>1, <3>2 DEF NumbersUsed, Files
  <2>6. NewIsWhole'
    <3>1. ASSUME NEW o \in Scoring, NEW p \in DOMAIN desk'[o].write, input'[p] = NoRow
          PROVE  DOMAIN desk'[o].write[p] = {"selected", "status"}
      <4>1. desk'[o].write = desk[o].write /\ input[p] = NoRow
        BY <1>1, <1>10, <3>1
      <4>2. \A q \in DOMAIN desk[o].write : input[q] = NoRow => DOMAIN desk[o].write[q] = {"selected", "status"}
        BY DEF DeskInv, NewIsWhole
      <4> QED
        BY <4>1, <4>2
    <3> QED
      BY <1>6, <3>1 DEF NewIsWhole
  <2>7. BasisStands' /\ OwnFilesOnly'
    BY <1>1, <2>2 DEF DeskInv, BasisStands, OwnFilesOnly, Files
  <2> QED
    BY <2>4, <2>5, <2>6, <2>7
<1>12. UncrossedRead'
  <2>1. ASSUME NEW o \in Scoring
        PROVE  /\ ReadsAll(desk[o]) => ReadsAll(desk[o])'
               /\ EitherWritten(desk[o]) => EitherWritten(desk[o])'
    BY <1>1, <1>10, SameRows
  <2>2. \A p : (EmptyChoice(p)' <=> EmptyChoice(p)) /\ RowOf(p)' = RowOf(p)
    BY <1>1 DEF EmptyChoice, RowOf
  <2>3. ASSUME NEW o \in Scoring', o \notin raced'
        PROVE  /\ desk'[o].kind # "input" => ReadsAll(desk[o])'
               /\ EitherWritten(desk[o])'
               /\ desk'[o].kind = "upload" => \A p \in DOMAIN desk'[o].write : EmptyChoice(p)'
               /\ desk'[o].kind # "input" /\ desk'[o].step = "deleted" =>
                     \A p \in Scored : result'[p] # NoRow => RowOf(p)' \in desk'[o].doomed
    <3>1. o \in Scoring /\ o \notin raced
      BY <1>1, <1>6, <2>3
    <3>2. \A p \in Scored : desk'[o].kind # "input" /\ desk'[o].step = "deleted" /\ result[p] # NoRow
                               => RowOf(p) \in desk'[o].doomed
      <4>1. CASE o = r
        BY <4>1, <1>3, <1>4
      <4>2. CASE o # r
        BY <4>2, <3>1, <1>7 DEF DeskInv, UncrossedRead
      <4> QED
        BY <4>1, <4>2
    <3> QED
      BY <1>1, <1>10, <2>1, <2>2, <3>1, <3>2 DEF DeskInv, UncrossedRead
  <2> QED
    BY <2>3 DEF UncrossedRead
<1>13. UncrossedDeletes'
  BY <1>1, <1>6, <1>8 DEF DeskInv, UncrossedDeletes, RowOf
<1> QED
  BY <1>9, <1>11, <1>12, <1>13 DEF DeskInv

LEMMA DeskFailKeeps ==
    ASSUME DeskInv, NEW r \in Requests, DeskFail(r)
    PROVE  DeskInv'
<1>1. desk' = [desk EXCEPT ![r] = Free] /\ raced' = raced \ {r} /\ UNCHANGED <<owner, lastFile, input, result, rounds>>
  BY DEF DeskFail
<1>2. /\ JobShape' /\ (\A o \in Requests \ {r} : desk'[o] = desk[o])
      /\ Busy' = Busy \ {r} /\ Scoring' = Scoring \ {r} /\ Deleting' = Deleting \ {r}
      /\ Scoring \subseteq Requests /\ Deleting \subseteq Requests
  BY <1>1, JobEnds DEF DeskInv, DeskCore, Scoring, Deleting, Busy
<1>3. \A o \in Scoring' \cup Deleting' : desk'[o] = desk[o] /\ (o \notin raced' => o \notin raced)
  BY <1>1, <1>2
<1>4. DeskCore'
  BY <1>1, <1>2 DEF DeskInv, DeskCore, RowShape, Selection, Result, Files
<1>5. /\ NumbersUsed' /\ OwnPlanned' /\ NewIsWhole'
      /\ \A u, p : StaysOf(u, p) => StaysOf(u, p)'
  BY <1>1, <1>2, <1>3, OthersGoOn
<1>6. BasisStands' /\ OwnFilesOnly'
  BY <1>1, <1>5 DEF DeskInv, BasisStands, OwnFilesOnly, Files
<1>7. UncrossedRead'
  BY <1>1, <1>2, <1>3, SameRows DEF DeskInv, UncrossedRead
<1>8. UncrossedDeletes'
  BY <1>1, <1>2, <1>3 DEF DeskInv, UncrossedDeletes, RowOf
<1> QED
  BY <1>4, <1>5, <1>6, <1>7, <1>8 DEF DeskInv

LEMMA PublishKeeps ==
    ASSUME DeskInv, NEW r \in Requests, NEW ps \in SUBSET Scored, NEW to \in {"provisional", "official"},
           Publish(r, ps, to)
    PROVE  DeskInv'
<1>1. /\ result' = [p \in Scored |-> IF p \in ps THEN [result[p] EXCEPT !.state = to] ELSE result[p]]
      /\ UNCHANGED <<owner, lastFile, input, rounds, desk, raced>> /\ \A p \in ps : result[p] # NoRow
  BY DEF Publish
<1>2. ASSUME NEW p \in Scored
      PROVE  /\ result'[p] \in Result \cup {NoRow} /\ (result'[p] = NoRow <=> result[p] = NoRow)
             /\ result[p] # NoRow => /\ result'[p].file = result[p].file /\ result'[p].basis = result[p].basis
                                     /\ RowOf(p)' = RowOf(p)
  <2>1. result[p] \in Result \cup {NoRow}
    BY DEF DeskInv, DeskCore, RowShape
  <2>2. CASE p \in ps
    <3>1. result[p] \in Result /\ result'[p] = [result[p] EXCEPT !.state = to]
      BY <1>1, <2>1, <2>2
    <3>2. /\ result'[p] \in Result /\ result'[p].file = result[p].file /\ result'[p].basis = result[p].basis
          /\ result'[p].round = result[p].round
      BY <3>1 DEF Result
    <3> QED
      BY <3>1, <3>2, ResultShape DEF RowOf
  <2>3. CASE p \notin ps
    BY <1>1, <2>1, <2>3 DEF RowOf
  <2> QED
    BY <2>2, <2>3
<1>3. Busy' = Busy /\ Scoring' = Scoring /\ Deleting' = Deleting /\ JobShape'
  BY <1>1 DEF Busy, Scoring, Deleting, DeskInv, DeskCore, JobShape, IsScoring, IsDeleting, Files
<1>4. DeskCore'
  <2>1. result' = [p \in Scored |-> result'[p]]
    BY <1>1
  <2>2. RowShape'
    BY <1>1, <1>2, <2>1 DEF DeskInv, DeskCore, RowShape, Selection, Result, Files
  <2> QED
    BY <1>1, <1>3, <2>2 DEF DeskInv, DeskCore
<1>5. /\ NumbersUsed' /\ OwnPlanned' /\ NewIsWhole'
      /\ \A u, p : StaysOf(u, p) => StaysOf(u, p)'
  BY <1>1, <1>3, OthersGoOn
<1>6. BasisStands' /\ OwnFilesOnly'
  BY <1>1, <1>2, <1>5 DEF DeskInv, BasisStands, OwnFilesOnly, Files
<1>7. ASSUME NEW x
      PROVE  (ReadsAll(x) => ReadsAll(x)') /\ (EitherWritten(x) => EitherWritten(x)')
  BY <1>1, SameReading
<1>8. \A p : EmptyChoice(p) => EmptyChoice(p)'
  BY <1>1, SameReading
<1>9. UncrossedRead'
  <2>1. ASSUME NEW o \in Scoring', o \notin raced'
        PROVE  /\ desk'[o].kind # "input" => ReadsAll(desk'[o])
               /\ EitherWritten(desk'[o])
               /\ desk'[o].kind = "upload" => \A p \in DOMAIN desk'[o].write : EmptyChoice(p)
               /\ desk'[o].kind # "input" /\ desk'[o].step = "deleted" =>
                     \A p \in Scored : result'[p] # NoRow => RowOf(p)' \in desk'[o].doomed
    BY <1>1, <1>2, <1>3, <2>1 DEF DeskInv, UncrossedRead
  <2> QED
    BY <2>1, <1>7, <1>8 DEF UncrossedRead
<1>10. UncrossedDeletes'
  <2>1. ASSUME NEW o \in Deleting', o \notin raced'
        PROVE  /\ \A u \in desk'[o].files : owner'[u] # None
               /\ \A p \in Scored : result'[p] # NoRow /\ result'[p].file \in desk'[o].files => RowOf(p)' \in desk'[o].doomed
    <3>1. o \in Deleting /\ o \notin raced /\ desk'[o] = desk[o] /\ owner' = owner
      BY <1>1, <1>3, <2>1
    <3>2. /\ \A u \in desk[o].files : owner[u] # None
          /\ \A p \in Scored : result[p] # NoRow /\ result[p].file \in desk[o].files => RowOf(p) \in desk[o].doomed
      BY <3>1 DEF DeskInv, UncrossedDeletes
    <3> QED
      BY <1>2, <3>1, <3>2
  <2> QED
    BY <2>1 DEF UncrossedDeletes
<1> QED
  BY <1>4, <1>5, <1>6, <1>9, <1>10 DEF DeskInv

\* Once another request has committed every one under way is crossed.
LEMMA AllCrossed ==
    ASSUME NEW r \in Requests, raced' = {o \in Requests \ {r} : desk[o] # Free}, Busy' = Busy \ {r}
    PROVE  raced' = Busy' /\ UncrossedRead' /\ UncrossedDeletes'
<1>1. raced' = Busy'
  BY DEF Busy
<1>2. Scoring' \subseteq Busy' /\ Deleting' \subseteq Busy'
  BY DEF Scoring, Deleting
<1> QED
  BY <1>1, <1>2 DEF UncrossedRead, UncrossedDeletes

LEMMA ClearScoringKeeps ==
    ASSUME DeskInv, NEW r \in Requests, ClearScoring(r)
    PROVE  DeskInv'
<1>1. /\ result' = [p \in Scored |-> NoRow]
      /\ input' = [p \in Scored |-> IF input[p] = NoRow THEN NoRow ELSE Choice(0, None)]
      /\ UNCHANGED <<owner, lastFile, rounds, desk>> /\ desk[r] = Free
      /\ raced' = {o \in Requests \ {r} : desk[o] # Free}
  BY DEF ClearScoring, Raced
<1>2. Choice(0, None) \in Selection /\ Choice(0, None).selected = 0 /\ Choice(0, None) # NoRow
  BY SelectionShape DEF Choice, Selection
<1>3. Busy' = Busy /\ Scoring' = Scoring /\ Deleting' = Deleting /\ JobShape' /\ Busy' = Busy \ {r}
  BY <1>1 DEF Busy, Scoring, Deleting, DeskInv, DeskCore, JobShape, IsScoring, IsDeleting, Files
<1>4. \A p \in Scored : input'[p] = IF input[p] = NoRow THEN NoRow ELSE Choice(0, None)
  BY <1>1
<1>5. input' \in [Scored -> Selection \cup {NoRow}] /\ result' \in [Scored -> Result \cup {NoRow}]
  BY <1>1, <1>2
<1>6. /\ NumbersUsed' /\ OwnPlanned' /\ NewIsWhole'
      /\ \A u, p : StaysOf(u, p) => StaysOf(u, p)'
  BY <1>1, <1>2, <1>3, <1>4, OthersGoOn
<1>7. raced' = Busy' /\ UncrossedRead' /\ UncrossedDeletes'
  BY <1>1, <1>3, AllCrossed
<1>8. DeskCore'
  BY <1>1, <1>3, <1>5, <1>7 DEF DeskInv, DeskCore, RowShape, Selection, Result, Files
<1>9. BasisStands' /\ OwnFilesOnly'
  BY <1>1, <1>2, <1>4 DEF BasisStands, OwnFilesOnly
<1> QED
  BY <1>6, <1>7, <1>8, <1>9 DEF DeskInv

LEMMA SelectionNulled ==
    ASSUME NEW us, NEW row \in Selection
    PROVE  /\ SetNull(row, us, "selected") \in Selection
           /\ SetNull(row, us, "selected").selected = IF row.selected \in us THEN 0 ELSE row.selected
<1>1. row["selected"] = row.selected
  BY SelectionShape
<1>2. CASE row.selected \in us
  <2>1. SetNull(row, us, "selected") = [row EXCEPT !.selected = 0]
    BY <1>1, <1>2 DEF SetNull
  <2> QED
    BY <1>2, <2>1 DEF Selection
<1>3. CASE row.selected \notin us
  BY <1>1, <1>3 DEF SetNull
<1> QED
  BY <1>2, <1>3

LEMMA ResultNulled ==
    ASSUME NEW us, NEW row \in Result
    PROVE  /\ SetNull(row, us, "file") \in Result
           /\ SetNull(row, us, "file").file = IF row.file \in us THEN 0 ELSE row.file
           /\ SetNull(row, us, "file").basis = row.basis
<1>1. row["file"] = row.file
  BY DEF Result
<1>2. CASE row.file \in us
  <2>1. SetNull(row, us, "file") = [row EXCEPT !.file = 0]
    BY <1>1, <1>2 DEF SetNull
  <2> QED
    BY <1>2, <2>1 DEF Result
<1>3. CASE row.file \notin us
  BY <1>1, <1>3 DEF SetNull
<1> QED
  BY <1>2, <1>3

LEMMA CommitDeleteKeeps ==
    ASSUME DeskInv, NEW r \in Requests, CommitDelete(r)
    PROVE  DeskInv'
<1> DEFINE us == desk[r].files
           null(p) == SetNull(input[p], us, "selected")
           kept(p) == SetNull(result[p], us, "file")
<1>1. /\ owner' = [u \in Files |-> IF u \in us THEN None ELSE owner[u]]
      /\ input' = [p \in Scored |-> IF input[p] = NoRow THEN NoRow
                                    ELSE IF p \in desk[r].cleared THEN Choice(0, None) ELSE null(p)]
      /\ result' = [p \in Scored |-> IF Kept(desk[r], p) = NoRow THEN NoRow ELSE kept(p)]
      /\ UNCHANGED <<lastFile, rounds>> /\ desk' = [desk EXCEPT ![r] = Free]
      /\ raced' = {o \in Requests \ {r} : desk[o] # Free}
  BY DEF CommitDelete, Done, Raced
<1>2. /\ JobShape' /\ (\A o \in Requests \ {r} : desk'[o] = desk[o])
      /\ Busy' = Busy \ {r} /\ Scoring' = Scoring \ {r} /\ Scoring \subseteq Requests
  BY <1>1, JobEnds DEF DeskInv, DeskCore, Scoring, Deleting, Busy
<1>3. Choice(0, None) \in Selection /\ Choice(0, None).selected = 0 /\ Choice(0, None) # NoRow
  BY SelectionShape DEF Choice, Selection
<1>4. ASSUME NEW p \in Scored
      PROVE  /\ input'[p] \in Selection \cup {NoRow} /\ (input'[p] = NoRow => input[p] = NoRow)
             /\ input'[p] # NoRow /\ input'[p].selected # 0 =>
                   /\ input[p] # NoRow /\ input'[p].selected = input[p].selected
                   /\ input'[p].selected \in Files /\ input'[p].selected \notin us
  <2>1. input[p] \in Selection \cup {NoRow}
    BY DEF DeskInv, DeskCore, RowShape
  <2>2. CASE input[p] = NoRow
    BY <1>1, <2>2
  <2>3. CASE input[p] # NoRow /\ p \in desk[r].cleared
    BY <1>1, <1>3, <2>3
  <2>4. CASE input[p] # NoRow /\ p \notin desk[r].cleared
    <3>1. input[p] \in Selection /\ input'[p] = null(p)
      BY <1>1, <2>1, <2>4
    <3> HIDE DEF us
    <3>2. /\ SetNull(input[p], us, "selected") \in Selection
          /\ SetNull(input[p], us, "selected").selected = IF input[p].selected \in us THEN 0 ELSE input[p].selected
      BY <3>1, SelectionNulled
    <3> QED
      BY <2>4, <3>1, <3>2, SelectionShape
  <2> QED
    BY <2>2, <2>3, <2>4
<1>5. ASSUME NEW p \in Scored
      PROVE  /\ result'[p] \in Result \cup {NoRow}
             /\ result'[p] # NoRow =>
                   /\ result[p] # NoRow /\ result'[p].basis = result[p].basis
                   /\ result'[p].file = IF result[p].file \in us THEN 0 ELSE result[p].file
  <2>1. result[p] \in Result \cup {NoRow}
    BY DEF DeskInv, DeskCore, RowShape
  <2>2. CASE Kept(desk[r], p) = NoRow
    BY <1>1, <2>2
  <2>3. CASE Kept(desk[r], p) # NoRow
    <3>1. result[p] \in Result /\ result'[p] = kept(p) /\ result[p] # NoRow
      BY <1>1, <2>1, <2>3 DEF Kept
    <3> HIDE DEF us
    <3>2. /\ SetNull(result[p], us, "file") \in Result /\ SetNull(result[p], us, "file").basis = result[p].basis
          /\ SetNull(result[p], us, "file").file = IF result[p].file \in us THEN 0 ELSE result[p].file
      BY <3>1, ResultNulled
    <3> QED
      BY <3>1, <3>2
  <2> QED
    BY <2>2, <2>3
<1>6. \A u \in Files : owner'[u] = IF u \in us THEN None ELSE owner[u]
  BY <1>1
<1>7. /\ owner' = [u \in Files |-> owner'[u]] /\ input' = [p \in Scored |-> input'[p]]
      /\ result' = [p \in Scored |-> result'[p]]
  BY <1>1
<1> HIDE DEF us, null, kept
<1>8. /\ NumbersUsed' /\ OwnPlanned' /\ NewIsWhole'
      /\ \A u, p : StaysOf(u, p) => StaysOf(u, p)'
  BY <1>1, <1>2, <1>4, <1>6, OthersGoOn
<1>9. raced' = Busy' /\ UncrossedRead' /\ UncrossedDeletes'
  BY <1>1, <1>2, AllCrossed
<1>10. RowShape'
  BY <1>4, <1>5, <1>6, <1>7 DEF DeskInv, DeskCore, RowShape, Selection, Result, Files
<1>11. DeskCore'
  BY <1>1, <1>2, <1>9, <1>10 DEF DeskInv, DeskCore
<1>12. OwnFilesOnly'
  <2>1. ASSUME NEW p \in Scored, input'[p] # NoRow, input'[p].selected # 0
        PROVE  owner'[input'[p].selected] = p
    BY <1>4, <1>6, <2>1 DEF DeskInv, OwnFilesOnly
  <2>2. ASSUME NEW p \in Scored, result'[p] # NoRow, result'[p].file # 0
        PROVE  owner'[result'[p].file] = p
    <3>1. result[p] # NoRow /\ result'[p].file = result[p].file /\ result[p].file \notin us /\ result[p].file # 0
      BY <1>5, <2>2
    <3>2. result[p].file \in Files
      BY <3>1, ResultShape DEF DeskInv, DeskCore, RowShape
    <3> QED
      BY <1>6, <3>1, <3>2 DEF DeskInv, OwnFilesOnly
  <2> QED
    BY <2>1, <2>2 DEF OwnFilesOnly
<1>13. ASSUME NEW u \in us \cap Files, NEW p, StaysOf(u, p) PROVE StaysOf(u, None)'
  <2>1. StaysOf(u, p)' /\ owner'[u] = None
    BY <1>6, <1>8, <1>13
  <2> QED
    BY <2>1 DEF StaysOf
<1>14. BasisStands'
  <2>1. ASSUME NEW p \in Scored, result'[p] # NoRow, result'[p].basis \in Files
        PROVE  result'[p].file = result'[p].basis \/ StaysOf(result[p].basis, None)'
    <3>1. /\ result[p] # NoRow /\ result'[p].basis = result[p].basis /\ result[p].basis \in Files
          /\ result'[p].file = IF result[p].file \in us THEN 0 ELSE result[p].file
      BY <1>5, <2>1
    <3>2. CASE StaysOf(result[p].basis, None)
      BY <1>8, <3>1, <3>2
    <3>3. CASE result[p].file = result[p].basis /\ result[p].file \notin us
      BY <3>1, <3>3
    <3>4. CASE result[p].file = result[p].basis /\ result[p].file \in us
      <4>1. result[p].file \in Files /\ result[p].file # 0
        BY <3>1, <3>4, DeskAssumption DEF Files
      <4>2. owner[result[p].file] = p /\ p # None
        BY <3>1, <4>1, DeskAssumption DEF DeskInv, OwnFilesOnly
      <4>3. StaysOf(result[p].basis, p)
        BY <3>4, <4>1, <4>2, OwnedStays
      <4> QED
        BY <1>13, <3>1, <3>4, <4>3
    <3> QED
      BY <3>1, <3>2, <3>3, <3>4 DEF DeskInv, BasisStands
  <2> QED
    BY <2>1 DEF BasisStands, Files
<1> QED
  BY <1>8, <1>9, <1>11, <1>12, <1>14 DEF DeskInv

\* What a scoring that commits writes is of the pilots it writes it for.
LEMMA CommittedOwn ==
    ASSUME DeskInv, NEW r \in Scoring, NEW u \in Files, NEW p \in Scored,
           IsOf(desk[r], u, p), Owners(desk[r].files)[u] # None
    PROVE  Owners(desk[r].files)[u] = p
<1>1. CASE u \in DOMAIN desk[r].files /\ desk[r].files[u] = p
  BY <1>1 DEF Owners
<1>2. CASE StaysOf(u, p)
  <2>1. u \notin DOMAIN desk[r].files
    BY <1>2 DEF StaysOf, Awaited
  <2> QED
    BY <1>2, <2>1 DEF Owners, StaysOf
<1> QED
  BY <1>1, <1>2 DEF IsOf

LEMMA CommitScoresKeeps ==
    ASSUME DeskInv, NEW r \in Requests, CommitScores(r)
    PROVE  DeskInv'
<1> DEFINE job == desk[r]
           own == Owners(job.files)
           scores == job.kind # "input"
<1>1. /\ job.step = "deleted" /\ job.kind \in {"rescore", "upload", "input"}
      /\ (scores => rounds < MaxRounds) /\ KeysHold(job, own) /\ RowsUnique(job)
      /\ owner' = own
      /\ input' = [p \in Scored |-> IF p \in DOMAIN job.write THEN Written(p, job.write[p]) ELSE input[p]]
      /\ result' = IF scores THEN Rescored(job) ELSE result
      /\ rounds' = IF scores THEN rounds + 1 ELSE rounds
      /\ lastFile' = lastFile /\ desk' = [desk EXCEPT ![r] = Free]
      /\ raced' = {o \in Requests \ {r} : desk[o] # Free}
  BY DEF CommitScores, Done, Raced
<1>2. r \in Scoring /\ IsScoring(job)
  <2>1. desk[r] # Free
    BY <1>1 DEF Free
  <2> QED
    BY <1>1, <2>1 DEF Scoring, Busy, DeskInv, DeskCore, JobShape
<1>3. /\ JobShape' /\ (\A o \in Requests \ {r} : desk'[o] = desk[o])
      /\ Busy' = Busy \ {r} /\ Scoring' = Scoring \ {r} /\ Scoring \subseteq Requests
  BY <1>1, JobEnds DEF DeskInv, DeskCore, Scoring, Deleting, Busy
<1>4. /\ None \notin Statuses \cup Scored \cup Files /\ Statuses \cap (Files \cup {0}) = {} /\ RowShape
      /\ 0 \notin Files
  BY DeskAssumption DEF DeskInv, DeskCore, Files
<1>5. \A u \in Files : /\ own[u] = IF u \in DOMAIN job.files THEN job.files[u] ELSE owner[u]
                       /\ u \in DOMAIN job.files => job.files[u] \in Scored /\ owner[u] = None
  BY <1>2 DEF Owners, IsScoring, DeskInv, NumbersUsed
<1>6. own \in [Files -> Scored \cup {None}]
  BY <1>4, <1>5 DEF Owners, RowShape
\* What is stored already keeps its owner.
<1>7. ASSUME NEW u \in Files, NEW p \in Scored, owner[u] = p PROVE own[u] = p
  BY <1>4, <1>5, <1>7
<1> HIDE DEF own
<1>8. ASSUME NEW u \in Files, NEW p \in Scored, IsOf(job, u, p), own[u] # None PROVE own[u] = p
  BY <1>2, <1>8, CommittedOwn DEF own
<1>9. ASSUME NEW p \in Scored
      PROVE  /\ input'[p] \in Selection \cup {NoRow} /\ (input'[p] = NoRow => input[p] = NoRow)
             /\ input'[p] # NoRow /\ input'[p].selected # 0 => own[input'[p].selected] = p
  <2>1. input[p] \in Selection \cup {NoRow}
    BY <1>4 DEF RowShape
  <2>2. CASE p \notin DOMAIN job.write
    <3>1. input'[p] = input[p]
      BY <1>1, <2>2
    <3>2. input[p] # NoRow /\ input[p].selected # 0 => input[p].selected \in Files /\ owner[input[p].selected] = p
      BY <2>1, SelectionShape DEF DeskInv, OwnFilesOnly
    <3> QED
      BY <1>7, <2>1, <3>1, <3>2
  <2>3. CASE p \in DOMAIN job.write
    <3> DEFINE cols == job.write[p]
    <3>1. IsColumns(cols) /\ (input[p] = NoRow => DOMAIN cols = {"selected", "status"})
      BY <1>2, <2>3 DEF IsScoring, IsColumns, DeskInv, NewIsWhole
    <3>2. input'[p] = Written(p, cols)
      BY <1>1, <2>3
    <3>3. "selected" \in DOMAIN cols /\ cols["selected"] # 0
             => /\ cols["selected"] \in Files /\ own[cols["selected"]] # None /\ IsOf(job, cols["selected"], p)
      <4>1. "selected" \in DOMAIN cols => cols["selected"] \in {0} \cup {u \in Files : own[u] # None}
        <5>1. KeysHold(job, own) /\ cols.selected = cols["selected"]
          BY <1>1
        <5> QED
          BY <2>3, <5>1 DEF KeysHold, Present
      <4>2. "selected" \in DOMAIN cols /\ cols["selected"] # 0 => IsOf(job, cols["selected"], p)
        BY <1>2, <2>3 DEF DeskInv, OwnPlanned
      <4> QED
        BY <4>1, <4>2
    <3> HIDE DEF cols
    <3>4. /\ Written(p, cols) \in Selection
          /\ Written(p, cols).selected = IF "selected" \in DOMAIN cols THEN cols["selected"] ELSE input[p].selected
      BY <2>1, <3>1, WrittenShape
    <3>5. Written(p, cols) # NoRow
      BY <3>4, SelectionShape
    <3>6. CASE "selected" \in DOMAIN cols
      BY <1>8, <3>2, <3>3, <3>4, <3>5, <3>6
    <3>7. CASE "selected" \notin DOMAIN cols
      <4>1. input[p] \in Selection /\ input[p] # NoRow
        BY <2>1, <3>1, <3>7
      <4>2. input[p].selected # 0 => input[p].selected \in Files /\ owner[input[p].selected] = p
        BY <4>1, SelectionShape DEF DeskInv, OwnFilesOnly
      <4> QED
        BY <1>7, <3>2, <3>4, <3>5, <3>7, <4>2
    <3> QED
      BY <3>6, <3>7
  <2> QED
    BY <2>2, <2>3
<1>10. ASSUME NEW p \in Scored, result[p] # NoRow
       PROVE  /\ result[p] \in Result /\ (result[p].file # 0 => own[result[p].file] = p)
              /\ result[p].basis \in Files => result[p].file = result[p].basis \/ StaysOf(result[p].basis, None)
  <2>1. result[p] \in Result
    BY <1>4, <1>10 DEF RowShape
  <2>2. result[p].file # 0 => result[p].file \in Files /\ owner[result[p].file] = p
    BY <1>10, <2>1, ResultShape DEF DeskInv, OwnFilesOnly
  <2> QED
    BY <1>7, <1>10, <2>1, <2>2 DEF DeskInv, BasisStands
<1>11. ASSUME NEW p \in Scored, result'[p] # NoRow
       PROVE  /\ result'[p] \in Result /\ (result'[p].file # 0 => own[result'[p].file] = p)
              /\ \/ result'[p].basis \in Statuses
                 \/ result'[p].file = result'[p].basis
                 \/ result'[p] = result[p] /\ result[p] # NoRow /\ StaysOf(result[p].basis, None)
  <2>1. CASE ~scores
    BY <1>1, <1>10, <1>11, <2>1, ResultShape
  <2>2. CASE scores /\ p \notin DOMAIN job.plan
    <3>1. result'[p] = Kept(job, p)
      BY <1>1, <2>2 DEF Rescored
    <3>2. result'[p] = result[p]
      BY <1>11, <3>1 DEF Kept
    <3> QED
      BY <1>10, <1>11, <3>2, ResultShape
  <2>3. CASE scores /\ p \in DOMAIN job.plan
    <3> DEFINE u == job.plan[p]
               f == IF u \in Files THEN u ELSE 0
    <3>1. result'[p] = [file |-> f, basis |-> u, round |-> rounds + 1, state |-> "provisional"]
      BY <1>1, <2>3 DEF Rescored
    <3>2. u \in Files \cup Statuses /\ u \in Statuses \cup {v \in Files : own[v] # None}
      BY <1>1, <1>2, <2>3 DEF IsScoring, KeysHold, Present
    <3>3. u \in Files => IsOf(job, u, p)
      BY <1>2, <2>3 DEF DeskInv, OwnPlanned
    <3>4. rounds + 1 \in 1..MaxRounds
      BY <1>1, <2>3, DeskAssumption DEF DeskInv, DeskCore
    <3> HIDE DEF u
    <3>5. /\ f \in Files \cup {0} /\ (f # 0 => f = u /\ own[u] = p) /\ (u \in Statuses \/ f = u)
      BY <1>4, <1>8, <3>2, <3>3
    <3> HIDE DEF f
    <3>6. result'[p] \in Result /\ result'[p].file = f /\ result'[p].basis = u
      BY <3>1, <3>2, <3>4, <3>5 DEF Result
    <3> QED
      BY <3>5, <3>6
  <2> QED
    BY <2>1, <2>2, <2>3
<1>12. /\ input' = [p \in Scored |-> input'[p]] /\ result' = [p \in Scored |-> result'[p]]
  BY <1>1, <1>4 DEF Rescored, RowShape
<1>13. \A u \in Files : owner'[u] = owner[u] \/ owner'[u] = None \/ (Awaited(u) /\ ~Awaited(u)')
  <2>1. ASSUME NEW u \in Files, u \in DOMAIN job.files PROVE Awaited(u) /\ ~Awaited(u)'
    <3>1. \A q \in Scoring : u \in DOMAIN desk[q].files => q = r
      BY <1>2, <2>1 DEF DeskInv, NumbersUsed
    <3> QED
      BY <1>2, <1>3, <2>1, <3>1 DEF Awaited
  <2> QED
    BY <1>1, <1>5, <2>1
<1>14. /\ NumbersUsed' /\ OwnPlanned' /\ NewIsWhole'
       /\ \A u, p : StaysOf(u, p) => StaysOf(u, p)'
  BY <1>1, <1>3, <1>9, <1>13, OthersGoOn
<1>15. raced' = Busy' /\ UncrossedRead' /\ UncrossedDeletes'
  BY <1>1, <1>3, AllCrossed
<1>16. RowShape'
  BY <1>1, <1>6, <1>9, <1>11, <1>12 DEF RowShape, Selection, Result, Files
<1>17. rounds' \in 0..MaxRounds
  BY <1>1, DeskAssumption DEF DeskInv, DeskCore
<1>18. DeskCore'
  BY <1>1, <1>3, <1>15, <1>16, <1>17 DEF DeskInv, DeskCore
<1>19. OwnFilesOnly'
  BY <1>1, <1>9, <1>11 DEF OwnFilesOnly
<1>20. BasisStands'
  <2>1. ASSUME NEW p \in Scored, result'[p] # NoRow, result'[p].basis \in Files
        PROVE  \/ result'[p].file = result'[p].basis
               \/ result'[p] = result[p] /\ StaysOf(result[p].basis, None)'
    BY <1>4, <1>11, <1>14, <2>1
  <2> QED
    BY <2>1 DEF BasisStands, Files
<1> QED
  BY <1>14, <1>15, <1>18, <1>19, <1>20 DEF DeskInv

-----------------------------------------------------------------------------
(* Every step                                                              *)

LEMMA DeskNextKeeps == DeskInv /\ [DeskNext]_deskvars => DeskInv'
<1> SUFFICES ASSUME DeskInv, [DeskNext]_deskvars PROVE DeskInv'
  OBVIOUS
<1>1. CASE DeskNext
  <2> SUFFICES ASSUME NEW r \in Requests,
                      \/ Rescore(r) \/ ClearScoring(r)
                      \/ \E p \in Scored :
                            \/ \E late \in BOOLEAN : StoreFile(r, p, late)
                            \/ \E u \in 0..MaxFiles, s \in Statuses \cup {None} : ChooseInput(r, p, u, s)
                      \/ \E u \in Files : SelectCandidate(r, u) \/ DeleteStored(r, {u})
                      \/ DeleteStored(r, {u \in Files : Exists(u)})
                      \/ \E ps \in SUBSET Scored, to \in {"provisional", "official"} : Publish(r, ps, to)
                      \/ DeleteResults(r) \/ CommitScores(r) \/ CommitDelete(r) \/ DeskFail(r)
               PROVE  DeskInv'
    BY <1>1 DEF DeskNext
  <2>1. ASSUME NEW p \in Scored, NEW late \in BOOLEAN, StoreFile(r, p, late) PROVE DeskInv'
    <3>1. CASE late \/ ~EmptyChoice(p)
      BY <2>1, <3>1, StoreUnselectedKeeps DEF StoreFile
    <3>2. CASE ~late /\ EmptyChoice(p)
      <4>1. StoreFile(r, p, FALSE)
        BY <2>1, <3>2 DEF StoreFile
      <4> QED
        BY <3>2, <4>1, StoreSelectedKeeps
    <3> QED
      BY <3>1, <3>2
  <2>2. ASSUME NEW us, us \in SUBSET Files, DeleteStored(r, us) PROVE DeskInv'
    BY <2>2, DeleteStoredKeeps
  <2> QED
    BY <2>1, <2>2, RescoreKeeps, ClearScoringKeeps, ChooseInputKeeps, SelectCandidateKeeps, PublishKeeps,
       DeleteResultsKeeps, CommitScoresKeeps, CommitDeleteKeeps, DeskFailKeeps
<1>2. CASE UNCHANGED deskvars
  <2>1. UNCHANGED <<owner, lastFile, input, result, rounds, desk, raced>>
    BY <1>2 DEF deskvars
  <2>2. Busy' = Busy /\ Scoring' = Scoring /\ Deleting' = Deleting
    BY <2>1 DEF Busy, Scoring, Deleting
  <2>3. DeskCore'
    <3>1. JobShape'
      BY <2>1, <2>2, JobsStay DEF DeskInv, DeskCore
    <3>2. RowShape'
      BY <2>1 DEF DeskInv, DeskCore, RowShape, Selection, Result, Files
    <3> QED
      BY <2>1, <2>2, <3>1, <3>2 DEF DeskInv, DeskCore
  <2>4. NumbersUsed' /\ OwnPlanned' /\ NewIsWhole' /\ \A u, p : StaysOf(u, p) => StaysOf(u, p)'
    BY <2>1, <2>2, <2>3, OthersGoOn DEF DeskCore
  <2>5. BasisStands' /\ OwnFilesOnly'
    BY <2>1, <2>4 DEF DeskInv, BasisStands, OwnFilesOnly, Files
  <2>6. UncrossedRead' /\ UncrossedDeletes'
    BY <2>1, <2>2, SameRows DEF DeskInv, UncrossedRead, UncrossedDeletes
  <2> QED
    BY <2>3, <2>4, <2>5, <2>6 DEF DeskInv
<1> QED
  BY <1>1, <1>2

LEMMA DeskInvariant == DeskSpec => []DeskInv
<1>1. DeskInit => DeskInv
  BY DeskInitHolds
<1>2. DeskInv /\ [DeskNext]_deskvars => DeskInv'
  BY DeskNextKeeps
<1> QED
  BY <1>1, <1>2, PTL DEF DeskSpec

LEMMA UnderWay == ASSUME DeskInv, NEW r \in Requests, CommitScores(r) PROVE r \in Scoring /\ IsScoring(desk[r])
<1>1. desk[r].step = "deleted" /\ desk[r].kind \in {"rescore", "upload", "input"}
  BY DEF CommitScores
<1>2. desk[r] # Free
  BY <1>1 DEF Free
<1> QED
  BY <1>1, <1>2 DEF Scoring, Busy, DeskInv, DeskCore, JobShape

LEMMA UncrossedRescore ==
    ASSUME DeskInv, NEW r \in Requests \ raced, Rescores(r), NEW p \in Scored
    PROVE  LET basis == Basis(p, input'[p], owner')
           IN IF basis = None THEN result'[p] = NoRow
              ELSE /\ result'[p] # NoRow
                   /\ result'[p].basis = basis /\ result'[p].round = rounds'
<1> DEFINE job == desk[r]
           own == Owners(job.files)
           seen == Sees(p, job.write)
<1>1. CommitScores(r) /\ rounds' # rounds
  BY DEF Rescores
<1>2. /\ job.step = "deleted" /\ job.kind # "input"
      /\ owner' = own
      /\ input' = [q \in Scored |-> IF q \in DOMAIN job.write THEN Written(q, job.write[q]) ELSE input[q]]
      /\ result' = Rescored(job) /\ rounds' = rounds + 1
  BY <1>1 DEF CommitScores
<1>3. r \in Scoring
  BY <1>1, UnderWay
<1>4. input'[p] = seen
  BY <1>2 DEF Sees
<1>5. /\ p \in DOMAIN job.plan <=> Basis(p, seen, own) # None
      /\ p \in DOMAIN job.plan => job.plan[p] = Basis(p, seen, own)
      /\ result[p] # NoRow => RowOf(p) \in job.doomed
  BY <1>2, <1>3 DEF DeskInv, UncrossedRead, ReadsAll
<1>6. /\ result'[p] = IF p \in DOMAIN job.plan
                      THEN [file |-> IF job.plan[p] \in Files THEN job.plan[p] ELSE 0,
                            basis |-> job.plan[p], round |-> rounds', state |-> "provisional"]
                      ELSE Kept(job, p)
  BY <1>2 DEF Rescored
<1>7. Kept(job, p) = NoRow
  BY <1>5 DEF Kept
<1> HIDE DEF job, own, seen
<1>8. Basis(p, input'[p], owner') = Basis(p, seen, own)
  BY <1>2, <1>4
<1>9. CASE p \in DOMAIN job.plan
  <2> DEFINE f == IF job.plan[p] \in Files THEN job.plan[p] ELSE 0
  <2>1. result'[p] = [file |-> f, basis |-> job.plan[p], round |-> rounds', state |-> "provisional"]
    BY <1>6, <1>9
  <2> HIDE DEF f
  <2>2. result'[p] # NoRow /\ result'[p].basis = job.plan[p] /\ result'[p].round = rounds'
    BY <2>1 DEF NoRow
  <2> QED
    BY <1>5, <1>8, <1>9, <2>2
<1>10. CASE p \notin DOMAIN job.plan
  BY <1>5, <1>6, <1>7, <1>8, <1>10
<1> QED
  BY <1>9, <1>10

LEMMA UncrossedDeletion ==
    ASSUME DeskInv, NEW r \in Requests \ raced, CommitDelete(r), NEW p \in Scored, result'[p] # NoRow
    PROVE  result'[p].basis \notin desk[r].files
<1>1. /\ desk[r].kind = "delete" /\ desk[r].step = "deleted"
      /\ result' = [q \in Scored |-> IF Kept(desk[r], q) = NoRow THEN NoRow
                                    ELSE SetNull(result[q], desk[r].files, "file")]
  BY DEF CommitDelete
<1>2. r \in Deleting
  <2>1. desk[r] # Free
    BY <1>1 DEF Free
  <2> QED
    BY <1>1, <2>1 DEF Deleting, Busy
<1>3. result[p] # NoRow /\ RowOf(p) \notin desk[r].doomed
  BY <1>1 DEF Kept
<1>4. result[p] \in Result
  BY <1>3 DEF DeskInv, DeskCore, RowShape
<1>5. result'[p].basis = result[p].basis
  <2>1. result'[p] = SetNull(result[p], desk[r].files, "file")
    BY <1>1
  <2>2. SetNull(result[p], desk[r].files, "file").basis = result[p].basis
    BY <1>4, ResultNulled
  <2> QED
    BY <2>1, <2>2
<1>6. result[p].file \notin desk[r].files /\ \A u \in desk[r].files : owner[u] # None
  BY <1>2, <1>3 DEF DeskInv, UncrossedDeletes
<1>7. desk[r].files \subseteq Files
  BY <1>2 DEF DeskInv, DeskCore, JobShape, IsDeleting
<1>8. ASSUME result[p].basis \in desk[r].files PROVE FALSE
  <2>1. result[p].file = result[p].basis \/ StaysOf(result[p].basis, None)
    BY <1>3, <1>7, <1>8 DEF DeskInv, BasisStands
  <2> QED
    BY <1>6, <1>8, <2>1 DEF StaysOf
<1> QED
  BY <1>5, <1>8

LEMMA UncrossedUpload ==
    ASSUME DeskInv, NEW r \in Requests \ raced, CommitScores(r), desk[r].kind = "upload",
           NEW p \in Scored, input[p] # NoRow, input[p].selected # 0
    PROVE  input'[p] = input[p]
<1>1. input' = [q \in Scored |-> IF q \in DOMAIN desk[r].write THEN Written(q, desk[r].write[q]) ELSE input[q]]
  BY DEF CommitScores
<1>2. r \in Scoring
  BY UnderWay
<1>3. \A q \in DOMAIN desk[r].write : EmptyChoice(q)
  BY <1>2 DEF DeskInv, UncrossedRead
<1>4. p \notin DOMAIN desk[r].write
  BY <1>3 DEF EmptyChoice
<1> QED
  BY <1>1, <1>4

\* A selection of a file and a status at once takes a scoring that was crossed.
LEMMA BothNeedCrossing ==
    ASSUME DeskInv, [DeskNext]_deskvars, NEW p \in Scored,
           input'[p] # NoRow, input'[p].selected # 0, input'[p].status # None,
           input[p] = NoRow \/ input[p].selected = 0 \/ input[p].status = None
    PROVE  \E r \in raced : CommitScores(r)
<1>1. input' # input
  OBVIOUS
<1>2. PICK r \in Requests : ClearScoring(r) \/ CommitScores(r) \/ CommitDelete(r)
  <2>1. \A r, u : Rescore(r) \/ SelectCandidate(r, u) => input' = input
    BY DEF Rescore, SelectCandidate, Reads
  <2>2. \A r, q, late : StoreFile(r, q, late) => input' = input
    BY DEF StoreFile, Reads
  <2>3. /\ \A r, q, u, s : ChooseInput(r, q, u, s) => input' = input
        /\ \A r, us : DeleteStored(r, us) => input' = input
        /\ \A r, ps, to : Publish(r, ps, to) => input' = input
        /\ \A r : DeleteResults(r) \/ DeskFail(r) => input' = input
    BY DEF ChooseInput, DeleteStored, Publish, DeleteResults, DeskFail
  <2>4. DeskNext
    BY <1>1 DEF deskvars
  <2> QED
    BY <1>1, <2>1, <2>2, <2>3, <2>4 DEF DeskNext
<1>3. Choice(0, None).selected = 0
  BY DEF Choice
<1>4. ~ClearScoring(r)
  <2>1. ASSUME ClearScoring(r) PROVE input'[p] = NoRow \/ input'[p] = Choice(0, None)
    BY <2>1 DEF ClearScoring
  <2> QED
    BY <1>3, <2>1
<1>5. ~CommitDelete(r)
  <2> SUFFICES ASSUME CommitDelete(r) PROVE FALSE
    OBVIOUS
  <2>1. input'[p] = IF input[p] = NoRow THEN NoRow
                    ELSE IF p \in desk[r].cleared THEN Choice(0, None)
                    ELSE SetNull(input[p], desk[r].files, "selected")
    BY DEF CommitDelete
  <2>2. input[p] # NoRow /\ input'[p] = SetNull(input[p], desk[r].files, "selected")
    BY <1>3, <2>1
  <2>3. input[p] \in Selection /\ input[p]["selected"] = input[p].selected
    BY <2>2, SelectionShape DEF DeskInv, DeskCore, RowShape
  <2>4. CASE input[p].selected \in desk[r].files
    <3>1. input'[p].selected = 0
      BY <2>2, <2>3, <2>4, SelectionNulled
    <3> QED
      BY <3>1
  <2>5. CASE input[p].selected \notin desk[r].files
    BY <2>2, <2>3, <2>5 DEF SetNull
  <2> QED
    BY <2>4, <2>5
<1>6. CommitScores(r)
  BY <1>2, <1>4, <1>5
<1>7. ASSUME r \notin raced PROVE FALSE
  <2>1. input'[p] = IF p \in DOMAIN desk[r].write THEN Written(p, desk[r].write[p]) ELSE input[p]
    BY <1>6 DEF CommitScores
  <2>2. p \in DOMAIN desk[r].write
    BY <2>1
  <2>3. EitherWritten(desk[r])
    BY <1>6, <1>7, UnderWay DEF DeskInv, UncrossedRead
  <2>4. Written(p, desk[r].write[p]) \in Selection
    <3>1. /\ input[p] \in Selection \cup {NoRow} /\ IsColumns(desk[r].write[p])
          /\ input[p] = NoRow => DOMAIN desk[r].write[p] = {"selected", "status"}
      BY <1>6, <2>2, UnderWay DEF DeskInv, DeskCore, RowShape, IsScoring, IsColumns, NewIsWhole
    <3> QED
      BY <3>1, WrittenShape
  <2>5. Written(p, desk[r].write[p])["selected"] = 0 \/ Written(p, desk[r].write[p])["status"] = None
    BY <2>2, <2>3 DEF EitherWritten
  <2> QED
    BY <2>1, <2>2, <2>4, <2>5, SelectionShape
<1> QED
  BY <1>6, <1>7

\* Rows are whole, and a result or a selection names a file of its own pilot,
\* however deletions, choices, uploads and rescorings of the task cross.
THEOREM DeskAlwaysHolds == DeskSpec => []DeskHolds
<1>1. DeskInv => DeskHolds
  BY CoreIsTyped DEF DeskInv, DeskHolds
<1> QED
  BY <1>1, DeskInvariant, PTL

\* A rescoring that nothing crossed leaves the results its selections ask for,
\* all of one scoring, and a deletion that nothing crossed no score of its files.
THEOREM AlwaysScoredAsSelected == DeskSpec => ScoredAsSelected
<1>1. ASSUME DeskInv, [DeskNext]_deskvars
      PROVE  [\A r \in Requests \ raced : Rescores(r) =>
                \A p \in Scored :
                   LET basis == Basis(p, input'[p], owner')
                   IN IF basis = None THEN result'[p] = NoRow
                      ELSE /\ result'[p] # NoRow
                           /\ result'[p].basis = basis /\ result'[p].round = rounds']_deskvars
  BY <1>1, UncrossedRescore
<1>2. ASSUME DeskInv, [DeskNext]_deskvars
      PROVE  [\A r \in Requests \ raced : CommitDelete(r) =>
                \A p \in Scored : result'[p] # NoRow => result'[p].basis \notin desk[r].files]_deskvars
  BY <1>2, UncrossedDeletion
<1> QED
  BY <1>1, <1>2, DeskInvariant, PTL DEF DeskSpec, ScoredAsSelected, RescoredAsSelected, DeletedFileUnscored

\* A row gets a file and a status at once only from requests that crossed, and
\* an upload replaces no selection that an operator made before it began.
THEOREM SelectionsAlwaysHold == DeskSpec => SelectionsHold
<1>1. ASSUME DeskInv, [DeskNext]_deskvars
      PROVE  [\A p \in Scored :
                /\ input'[p] # NoRow /\ input'[p].selected # 0 /\ input'[p].status # None
                /\ input[p] = NoRow \/ input[p].selected = 0 \/ input[p].status = None
                => \E r \in raced : CommitScores(r)]_deskvars
  BY <1>1, BothNeedCrossing
<1>2. ASSUME DeskInv, [DeskNext]_deskvars
      PROVE  [\A r \in Requests \ raced : CommitScores(r) /\ desk[r].kind = "upload" =>
                \A p \in Scored : input[p] # NoRow /\ input[p].selected # 0
                                  => input'[p] = input[p]]_deskvars
  BY <1>2, UncrossedUpload
<1> QED
  BY <1>1, <1>2, DeskInvariant, PTL DEF DeskSpec, SelectionsHold, EitherFileOrStatus, SelectionStands

-----------------------------------------------------------------------------
(* Stored files: uploads, flights and the requests that store, attach and  *)
(* delete them.                                                            *)

Steps == {"check", "write", "insert"}
IgcPaths == {"igc"} \X Contents \X (1..MaxUploads)
LogbookPaths == {"logbook"} \X Pilots \X Contents

UploadJob ==
    [step : Steps, kind : {"upload"}, path : IgcPaths, task : Tasks, pilot : Pilots, flight : Nat]
FlightJob ==
    [step : Steps, kind : {"flight"}, path : LogbookPaths, task : {None}, pilot : Pilots, flight : {0}]
AttachJob ==
    [step : Steps, kind : {"attach"}, path : LogbookPaths, task : {None}, pilot : Pilots, flight : Nat,
     previous : Paths \cup {None}]
UnlinkJob == [step : {"unlink"}, paths : SUBSET Paths]
StoreJob == UploadJob \cup FlightJob \cup AttachJob

LinkedHaveFiles == \A f \in flights : f.upload # 0 => f.path # None
FileShape ==
    /\ filing \in [Requests -> StoreJob \cup UnlinkJob \cup {Idle}]
    /\ lastUpload \in Nat /\ lastFlight \in Nat
    /\ \A u, v \in uploads : u.id = v.id => u = v
    /\ LinkedHaveFiles

\* An upload has one flight, of its pilot and with its file.
Followed(u) == \E f \in flights : LinkedTo({u}) = {f} /\ f.pilot = u.pilot /\ f.path = PathOf(u)
AllFollowed == \A u \in uploads : PathOf(u) \notin torn => Followed(u)

\* At most one row or request names a path, and none that is storing it meets
\* one that unlinks it.
NamedOnce(path) ==
    /\ \A f, g \in flights : f.path = path /\ g.path = path => f = g
    /\ \A f \in flights : f.path = path => Storing(path) = {}
    /\ \A r, o \in Storing(path) : r = o
    /\ Storing(path) # {} => Unlinking(path) = {}
AllNamedOnce == \A path \in Paths \ shared : NamedOnce(path)

\* A path that a row names is stored and will not be unlinked; a request that
\* is about to name it has found it or written it.
KeptOn(path) ==
    /\ \A f \in flights : f.path = path => path \in disk /\ Unlinking(path) = {}
    /\ \A r \in Storing(path) : filing[r].step = "insert" => path \in disk
AllKept == \A path \in Paths \ (shared \cup torn) : KeptOn(path)

\* What a request stores for a task, nobody else has stored or is storing.
KeyOf(r) == <<filing[r].task, filing[r].pilot, ContentOf(filing[r].path)>>
Uploading == {r \in Storers : filing[r].kind = "upload"}
StoredOnce ==
    \A r \in Uploading :
       KeyOf(r) \notin overlaps =>
          /\ SameUpload(filing[r].task, filing[r].pilot, ContentOf(filing[r].path)) = {}
          /\ \A o \in Uploading : KeyOf(o) = KeyOf(r) => o = r

FileInv ==
    /\ FileTypeOK /\ FileShape /\ AllFollowed /\ AllNamedOnce /\ AllKept /\ StoredOnce /\ OneUploadPerFile

\* The steps of the requests, by what they change.
Stores(r) ==
    \E t \in tasks, p \in Pilots, c \in Contents, name \in 1..MaxUploads, for \in Nat :
       /\ SameUpload(t, p, c) = {}
       /\ Begin(r, [step |-> "check", kind |-> "upload", path |-> IgcPath(c, name),
                    task |-> t, pilot |-> p, flight |-> for])
       /\ overlaps' = overlaps \cup
             {k \in {<<t, p, c>>} : \E o \in Storers :
                 filing[o].kind = "upload" /\ <<filing[o].task, filing[o].pilot, ContentOf(filing[o].path)>> = k}
       /\ UNCHANGED <<tasks, uploads, flights, lastUpload, lastFlight, disk, torn>>
Resyncs(r) == \E u \in uploads : SyncAgain(r, u) /\ UNCHANGED <<tasks, lastUpload, disk, torn>>
Attaches(r) == \E f \in flights, c \in Contents : AttachFile(r, f, c)
Finishes(r) == \E commits \in BOOLEAN : FinishAttach(r, commits)
DropsUploads(r) == \E us \in SUBSET uploads : DeleteUploads(r, us)
DropsFlight(r) == \E f \in flights : DeleteFlight(r, f)
DropsTask(r) == \E t \in tasks : DeleteTask(r, t)

-----------------------------------------------------------------------------
(* Paths, and what they are made of.                                       *)

LEMMA IgcPathShape ==
    ASSUME NEW c \in Contents, NEW n \in 1..MaxUploads
    PROVE  IgcPath(c, n) \in IgcPaths /\ ContentOf(IgcPath(c, n)) = c /\ IgcPath(c, n)[3] = n
BY DEF IgcPath, IgcPaths, ContentOf

LEMMA LogbookPathShape ==
    ASSUME NEW p \in Pilots, NEW c \in Contents
    PROVE  LogbookPath(p, c) \in LogbookPaths
BY DEF LogbookPath, LogbookPaths

LEMMA PathShape ==
    /\ Paths = IgcPaths \cup LogbookPaths
    /\ \A path \in Paths : path # None /\ ContentOf(path) \in Contents
    /\ \A path \in IgcPaths : path[3] \in 1..MaxUploads /\ path = IgcPath(ContentOf(path), path[3])
<1>1. /\ Paths = IgcPaths \cup LogbookPaths
      /\ \A path \in Paths : path # None
  BY FilesAssumption DEF Paths, IgcPaths, LogbookPaths
<1>2. \A path \in IgcPaths : /\ ContentOf(path) \in Contents /\ path[3] \in 1..MaxUploads
                             /\ path = IgcPath(ContentOf(path), path[3])
  BY DEF IgcPaths, IgcPath, ContentOf
<1>3. \A path \in LogbookPaths : ContentOf(path) \in Contents
  BY DEF LogbookPaths, ContentOf
<1> QED
  BY <1>1, <1>2, <1>3

\* The file of an upload is one that may be stored.
LEMMA UploadPath ==
    ASSUME FileTypeOK, NEW u \in uploads
    PROVE  PathOf(u) \in Paths
BY IgcPathShape, PathShape DEF FileTypeOK, PathOf

-----------------------------------------------------------------------------
(* Requests and their jobs.                                                *)

\* The kinds of jobs are told apart by their fields.
LEMMA FilingJob ==
    ASSUME FileShape, NEW r \in Requests
    PROVE  /\ r \in Storers <=> filing[r] \in StoreJob
           /\ r \in Storers => /\ filing[r].path \in Paths
                               /\ filing[r].kind = "upload" => filing[r] \in UploadJob
                               /\ filing[r].kind = "flight" => filing[r] \in FlightJob
                               /\ filing[r].kind = "attach" => filing[r] \in AttachJob
           /\ filing[r].step = "unlink" => filing[r] \in UnlinkJob
           /\ r \notin Storers /\ filing[r].step # "unlink" => filing[r] = Idle
<1>1. filing[r] \in UploadJob \cup FlightJob \cup AttachJob \cup UnlinkJob \cup {Idle}
  BY DEF FileShape, StoreJob
<1>2. CASE filing[r] \in UploadJob
  BY <1>2, PathShape DEF UploadJob, Steps, Storers, StoreJob
<1>3. CASE filing[r] \in FlightJob
  BY <1>3, PathShape DEF FlightJob, Steps, Storers, StoreJob
<1>4. CASE filing[r] \in AttachJob
  BY <1>4, PathShape DEF AttachJob, Steps, Storers, StoreJob
<1>5. CASE filing[r] \in UnlinkJob
  BY <1>5 DEF UnlinkJob, Steps, Storers, StoreJob, UploadJob, FlightJob, AttachJob
<1>6. CASE filing[r] = Idle
  BY <1>6 DEF Idle, Steps, Storers, StoreJob, UploadJob, FlightJob, AttachJob
<1> QED
  BY <1>1, <1>2, <1>3, <1>4, <1>5, <1>6

\* A job that goes on to its next step stays what it was.
LEMMA Advanced ==
    ASSUME NEW j \in StoreJob, NEW s \in Steps
    PROVE  LET next == [j EXCEPT !.step = s]
           IN /\ next \in StoreJob /\ next.step = s
              /\ next.kind = j.kind /\ next.path = j.path /\ next.task = j.task
              /\ next.pilot = j.pilot /\ next.flight = j.flight
              /\ j.kind = "attach" => next.previous = j.previous
<1>1. CASE j \in UploadJob
  BY <1>1 DEF UploadJob, StoreJob
<1>2. CASE j \in FlightJob
  BY <1>2 DEF FlightJob, StoreJob
<1>3. CASE j \in AttachJob
  BY <1>3 DEF AttachJob, StoreJob
<1> QED
  BY <1>1, <1>2, <1>3 DEF StoreJob

\* Every step is one of a request, or a flight entered by hand.
LEMMA FileSteps ==
    ASSUME FileTypeOK, FileShape, FileNext
    PROVE  \/ \E p \in Pilots : ManualFlight(p)
           \/ \E r \in Requests :
                 \/ Stores(r) \/ Resyncs(r) \/ Attaches(r) \/ Finishes(r)
                 \/ \E p \in Pilots, c \in Contents : StoreFlight(r, p, c)
                 \/ CheckFile(r) \/ WriteFile(r) \/ InsertUpload(r) \/ InsertFlight(r)
                 \/ StoreFails(r) \/ Unlink(r)
                 \/ DropsUploads(r) \/ DropsFlight(r) \/ DropsTask(r)
<1>1. ASSUME NEW r \in Requests, NEW t \in Tasks, NEW p \in Pilots, NEW c \in Contents,
             NEW manual \in BOOLEAN, NEW for \in Nat, StoreUpload(r, t, p, c, manual, for)
      PROVE  Stores(r) \/ Resyncs(r)
  <2>1. CASE \E u \in SameUpload(t, p, c) : SyncAgain(r, u)
    BY <1>1, <2>1 DEF StoreUpload, Resyncs, SameUpload
  <2>2. CASE ~\E u \in SameUpload(t, p, c) : SyncAgain(r, u)
    BY <1>1, <2>2 DEF StoreUpload, Stores
  <2> QED
    BY <2>1, <2>2
<1>2. tasks \subseteq Tasks
  BY DEF FileTypeOK
<1>3. ASSUME NEW r \in Requests, NEW p \in Pilots, NEW c \in Contents, AppUpload(r, p, c)
      PROVE  Stores(r) \/ Resyncs(r) \/ StoreFlight(r, p, c)
  BY <1>1, <1>2, <1>3 DEF AppUpload
<1>4. ASSUME NEW r \in Requests, NEW f \in flights, NEW t \in tasks, SelectFlight(r, t, f)
      PROVE  Stores(r) \/ Resyncs(r)
  <2>1. f.pilot \in Pilots /\ f.id \in Nat /\ f.path \in Paths
    BY <1>4 DEF FileTypeOK, SelectFlight, FileShape
  <2>2. ContentOf(f.path) \in Contents
    BY <2>1, PathShape
  <2> QED
    BY <1>1, <1>2, <1>4, <2>1, <2>2 DEF SelectFlight
<1>5. ASSUME NEW r \in Requests, NEW u \in uploads, DeleteUpload(r, u)
      PROVE  DropsUploads(r)
  BY <1>5 DEF DeleteUpload, DropsUploads
<1>6. ASSUME NEW r \in Requests, NEW t \in tasks, DeleteAllUploads(r, t)
      PROVE  DropsUploads(r)
  BY <1>6 DEF DeleteAllUploads, DropsUploads
<1>7. CASE \E p \in Pilots : ManualFlight(p)
  BY <1>7
<1>8. CASE ~\E p \in Pilots : ManualFlight(p)
  <2>1. PICK r \in Requests :
             \/ \E t \in tasks, p \in Pilots, c \in Contents, manual \in BOOLEAN : Upload(r, t, p, c, manual)
             \/ \E p \in Pilots, c \in Contents : AppUpload(r, p, c) \/ ImportFile(r, p, c)
             \/ \E f \in flights :
                   \/ DeleteFlight(r, f)
                   \/ \E c \in Contents : AttachFile(r, f, c)
                   \/ \E t \in tasks : f.path # None /\ SelectFlight(r, t, f)
             \/ CheckFile(r) \/ WriteFile(r) \/ InsertUpload(r) \/ InsertFlight(r)
             \/ \E commits \in BOOLEAN : FinishAttach(r, commits)
             \/ StoreFails(r) \/ Unlink(r)
             \/ \E u \in uploads : DeleteUpload(r, u)
             \/ \E t \in tasks : DeleteAllUploads(r, t) \/ DeleteTask(r, t)
    BY <1>8 DEF FileNext
  <2>2. CASE \E t \in tasks, p \in Pilots, c \in Contents, manual \in BOOLEAN : Upload(r, t, p, c, manual)
    BY <1>1, <1>2, <2>2 DEF Upload
  <2>3. CASE \E p \in Pilots, c \in Contents : AppUpload(r, p, c) \/ ImportFile(r, p, c)
    BY <1>3, <2>3 DEF ImportFile
  <2>4. CASE \E f \in flights : \E t \in tasks : f.path # None /\ SelectFlight(r, t, f)
    BY <1>4, <2>4
  <2>5. CASE \/ \E u \in uploads : DeleteUpload(r, u)
             \/ \E t \in tasks : DeleteAllUploads(r, t) \/ DeleteTask(r, t)
    BY <1>5, <1>6, <2>5 DEF DropsTask
  <2>6. CASE \E f \in flights : DeleteFlight(r, f) \/ \E c \in Contents : AttachFile(r, f, c)
    BY <2>6 DEF DropsFlight, Attaches
  <2>7. CASE \/ CheckFile(r) \/ WriteFile(r) \/ InsertUpload(r) \/ InsertFlight(r)
             \/ \E commits \in BOOLEAN : FinishAttach(r, commits)
             \/ StoreFails(r) \/ Unlink(r)
    BY <2>7 DEF Finishes
  <2> QED
    BY <2>1, <2>2, <2>3, <2>4, <2>5, <2>6, <2>7
<1> QED
  BY <1>7, <1>8

-----------------------------------------------------------------------------
(* Type correctness.                                                       *)

FilingShape == filing \in [Requests -> StoreJob \cup UnlinkJob \cup {Idle}]
RowsShape ==
    /\ tasks \subseteq Tasks
    /\ uploads \subseteq [id : 1..lastUpload, task : Tasks, pilot : Pilots,
                          content : Contents, name : 1..MaxUploads]
    /\ flights \subseteq [id : 1..lastFlight, pilot : Pilots, upload : 0..lastUpload,
                          path : Paths \cup {None}, points : BOOLEAN]
    /\ \A f, g \in flights : f.id = g.id => f = g
    /\ lastUpload \in Nat /\ lastFlight \in Nat
    /\ \A u, v \in uploads : u.id = v.id => u = v

FlightRows(flight, upload) ==
    [id : 1..flight, pilot : Pilots, upload : 0..upload, path : Paths \cup {None}, points : BOOLEAN]

\* What is kept of the flights of deleted uploads: one row of each, at most.
DetachedFrom(us, kept) ==
    /\ \A g \in kept : \E f \in LinkedTo(us) : \E points \in BOOLEAN :
          g.id = f.id /\ g = [f EXCEPT !.upload = 0, !.points = points]
    /\ \A g, h \in kept : g.id = h.id => g = h

LEMMA RowsGrow ==
    ASSUME NEW a \in Nat, NEW b \in Nat
    PROVE  /\ FlightRows(a, b) \subseteq FlightRows(a + 1, b)
           /\ FlightRows(a, b) \subseteq FlightRows(a + 1, b + 1)
BY DEF FlightRows

LEMMA RowChanged ==
    ASSUME NEW a \in Nat, NEW b \in Nat, NEW f \in FlightRows(a, b),
           NEW path \in Paths \cup {None}, NEW points \in BOOLEAN
    PROVE  /\ LET g == [f EXCEPT !.path = path, !.points = points]
              IN g \in FlightRows(a, b) /\ g.id = f.id /\ g.pilot = f.pilot /\ g.upload = f.upload /\ g.path = path
           /\ LET g == [f EXCEPT !.upload = 0, !.points = points]
              IN g \in FlightRows(a, b) /\ g.id = f.id /\ g.pilot = f.pilot /\ g.upload = 0 /\ g.path = f.path
           /\ [f EXCEPT !.upload = 0] = [f EXCEPT !.upload = 0, !.points = f.points] /\ f.points \in BOOLEAN
<1>1. f \in [id : 1..a, pilot : Pilots, upload : 0..b, path : Paths \cup {None}, points : BOOLEAN]
  BY DEF FlightRows
<1>2. LET g == [f EXCEPT !.path = path, !.points = points]
      IN g \in FlightRows(a, b) /\ g.id = f.id /\ g.pilot = f.pilot /\ g.upload = f.upload /\ g.path = path
  BY <1>1 DEF FlightRows
<1>3. ASSUME NEW upload \in 0..b
      PROVE  LET g == [f EXCEPT !.upload = upload, !.points = points]
             IN /\ g \in FlightRows(a, b) /\ g.id = f.id /\ g.pilot = f.pilot
                /\ g.upload = upload /\ g.path = f.path
  BY <1>1 DEF FlightRows
<1>4. [f EXCEPT !.upload = 0] = [f EXCEPT !.upload = 0, !.points = f.points] /\ f.points \in BOOLEAN
  BY <1>1
<1>5. 0 \in 0..b
  OBVIOUS
<1> QED
  BY <1>2, <1>3, <1>4, <1>5

LEMMA DeletesPaths ==
    ASSUME FileTypeOK, NEW us \in SUBSET uploads, NEW ps \in SUBSET {PathOf(u) : u \in us}
    PROVE  ps \subseteq Paths
BY UploadPath

\* A request begins a typed job, goes on with it, or is idle again.
LEMMA FilingTyped ==
    ASSUME FileTypeOK, FileShape, FileNext
    PROVE  FilingShape'
<1> USE DEF FilingShape, FileShape
<1>1. ASSUME NEW p \in Pilots, ManualFlight(p)
      PROVE  FilingShape'
  BY <1>1 DEF ManualFlight
<1>2. ASSUME NEW r \in Requests, NEW job \in StoreJob \cup UnlinkJob \cup {Idle},
             filing' = [filing EXCEPT ![r] = job]
      PROVE  FilingShape'
  BY <1>2
<1>3. ASSUME NEW r \in Requests, Stores(r)
      PROVE  FilingShape'
  <2>1. PICK t \in tasks, p \in Pilots, c \in Contents, name \in 1..MaxUploads, for \in Nat :
             Begin(r, [step |-> "check", kind |-> "upload", path |-> IgcPath(c, name),
                       task |-> t, pilot |-> p, flight |-> for])
    BY <1>3 DEF Stores
  <2>2. [step |-> "check", kind |-> "upload", path |-> IgcPath(c, name),
         task |-> t, pilot |-> p, flight |-> for] \in UploadJob
    BY IgcPathShape DEF UploadJob, Steps, FileTypeOK
  <2> QED
    BY <1>2, <2>1, <2>2 DEF Begin, StoreJob
<1>4. ASSUME NEW r \in Requests, Resyncs(r)
      PROVE  FilingShape'
  BY <1>4 DEF Resyncs, SyncAgain
<1>5. ASSUME NEW r \in Requests, NEW f \in flights, NEW c \in Contents, AttachFile(r, f, c)
      PROVE  FilingShape'
  <2>1. f.pilot \in Pilots /\ f.id \in Nat /\ f.path \in Paths \cup {None}
    BY DEF FileTypeOK
  <2>2. [step |-> "check", kind |-> "attach", path |-> LogbookPath(f.pilot, c),
         task |-> None, pilot |-> f.pilot, flight |-> f.id, previous |-> f.path] \in AttachJob
    BY <2>1, LogbookPathShape DEF AttachJob, Steps
  <2> QED
    BY <1>2, <1>5, <2>2 DEF AttachFile, Begin, StoreJob
<1>6. ASSUME NEW r \in Requests, NEW p \in Pilots, NEW c \in Contents, StoreFlight(r, p, c)
      PROVE  FilingShape'
  <2>1. [step |-> "check", kind |-> "flight", path |-> LogbookPath(p, c),
         task |-> None, pilot |-> p, flight |-> 0] \in FlightJob
    BY LogbookPathShape DEF FlightJob, Steps
  <2> QED
    BY <1>2, <1>6, <2>1 DEF StoreFlight, Begin, StoreJob
<1>7. ASSUME NEW r \in Requests, NEW s \in Steps, r \in Storers,
             filing' = [filing EXCEPT ![r] = [filing[r] EXCEPT !.step = s]]
      PROVE  FilingShape'
  BY <1>2, <1>7, FilingJob, Advanced
<1>8. ASSUME NEW r \in Requests, CheckFile(r) \/ WriteFile(r)
      PROVE  FilingShape'
  <2>1. r \in Storers
    BY <1>8 DEF CheckFile, WriteFile, Storers
  <2>2. \E s \in Steps : filing' = [filing EXCEPT ![r] = [filing[r] EXCEPT !.step = s]]
    <3>1. CASE filing[r].step = "check"
      <4>1. filing' = [filing EXCEPT ![r].step = IF filing[r].path \in disk THEN "insert" ELSE "write"]
        BY <1>8, <3>1 DEF CheckFile, WriteFile
      <4> QED
        BY <4>1 DEF Steps
    <3>2. CASE filing[r].step = "write"
      <4>1. filing' = [filing EXCEPT ![r].step = "insert"]
        BY <1>8, <3>2 DEF CheckFile, WriteFile
      <4> QED
        BY <4>1 DEF Steps
    <3> QED
      BY <1>8, <3>1, <3>2 DEF CheckFile, WriteFile
  <2> QED
    BY <1>7, <2>1, <2>2
<1>9. ASSUME NEW r \in Requests,
             InsertUpload(r) \/ InsertFlight(r) \/ Finishes(r) \/ StoreFails(r) \/ Unlink(r)
      PROVE  FilingShape'
  BY <1>2, <1>9 DEF InsertUpload, InsertFlight, Finishes, FinishAttach, StoreFails, Unlink
<1>10. ASSUME NEW r \in Requests, NEW paths \in SUBSET Paths, Begin(r, [step |-> "unlink", paths |-> paths])
       PROVE  FilingShape'
  BY <1>2, <1>10 DEF Begin, UnlinkJob
<1>11. ASSUME NEW r \in Requests, NEW us \in SUBSET uploads, NEW kept,
              NEW paths \in SUBSET {PathOf(u) : u \in us}, DeleteRows(r, us, kept, paths)
       PROVE  FilingShape'
  <2>1. paths \subseteq Paths
    BY DeletesPaths
  <2> QED
    BY <1>10, <1>11, <2>1 DEF DeleteRows
<1>12. ASSUME NEW r \in Requests, DropsUploads(r)
       PROVE  FilingShape'
  BY <1>11, <1>12 DEF DropsUploads, DeleteUploads
<1>13. ASSUME NEW r \in Requests, NEW f \in flights, DeleteFlight(r, f)
       PROVE  FilingShape'
  <2> DEFINE us == {u \in uploads : u.id = f.upload}
  <2>1. CASE us # {}
    <3>1. DeleteRows(r, us, {}, {PathOf(u) : u \in us})
      BY <1>13, <2>1 DEF DeleteFlight
    <3> QED
      BY <1>11, <3>1
  <2>2. CASE us = {}
    <3>1. IF f.path = None THEN UNCHANGED filing ELSE Begin(r, [step |-> "unlink", paths |-> {f.path}])
      BY <1>13, <2>2 DEF DeleteFlight
    <3>2. f.path # None => {f.path} \in SUBSET Paths
      BY DEF FileTypeOK
    <3> QED
      BY <1>10, <3>1, <3>2
  <2> QED
    BY <2>1, <2>2
<1>14. ASSUME NEW r \in Requests, DropsTask(r)
       PROVE  FilingShape'
  <2>1. PICK t \in tasks : DeleteTask(r, t)
    BY <1>14 DEF DropsTask
  <2> DEFINE us == {u \in uploads : u.task = t}
  <2>2. DeleteRows(r, us, {[f EXCEPT !.upload = 0] : f \in LinkedTo(us)}, {})
    BY <2>1 DEF DeleteTask
  <2>3. us \in SUBSET uploads /\ {} \in SUBSET {PathOf(u) : u \in us}
    OBVIOUS
  <2> HIDE DEF us
  <2> QED
    BY <1>11, <2>2, <2>3
<1> QED
  BY FileSteps, <1>1, <1>3, <1>4, <1>5, <1>6, <1>8, <1>9, <1>12, <1>13, <1>14 DEF Attaches, DropsFlight

\* Rows stay typed, and an id names one row.
LEMMA RowsTyped ==
    ASSUME FileTypeOK, FileShape, FileNext
    PROVE  RowsShape'
<1>0. /\ flights \subseteq FlightRows(lastFlight, lastUpload)
      /\ \A f, g \in flights : f.id = g.id => f = g
      /\ \A f \in flights : f.id <= lastFlight /\ f.id # lastFlight + 1
      /\ lastUpload \in Nat /\ lastFlight \in Nat /\ lastUpload + 1 \in Nat /\ lastFlight + 1 \in Nat
      /\ FlightRows(lastFlight, lastUpload) \subseteq FlightRows(lastFlight + 1, lastUpload)
      /\ FlightRows(lastFlight, lastUpload) \subseteq FlightRows(lastFlight + 1, lastUpload + 1)
  <2>1. /\ flights \subseteq FlightRows(lastFlight, lastUpload)
        /\ \A f, g \in flights : f.id = g.id => f = g
        /\ \A f \in flights : f.id <= lastFlight /\ f.id # lastFlight + 1
        /\ lastUpload \in Nat /\ lastFlight \in Nat /\ lastUpload + 1 \in Nat /\ lastFlight + 1 \in Nat
    BY DEF FileTypeOK, FileShape, FlightRows
  <2> QED
    BY <2>1, RowsGrow
<1>00. /\ tasks \subseteq Tasks /\ \A u, v \in uploads : u.id = v.id => u = v
       /\ uploads \subseteq [id : 1..lastUpload, task : Tasks, pilot : Pilots,
                             content : Contents, name : 1..MaxUploads]
  BY DEF FileTypeOK, FileShape
<1> USE DEF RowsShape
<1>1. ASSUME NEW p \in Pilots, ManualFlight(p)
      PROVE  RowsShape'
  <2> DEFINE g == [id |-> lastFlight + 1, pilot |-> p, upload |-> 0, path |-> None, points |-> FALSE]
  <2>1. g \in FlightRows(lastFlight + 1, lastUpload) /\ \A f \in flights : f.id # g.id
    BY <1>0 DEF FlightRows
  <2>2. flights' = flights \cup {g} /\ lastFlight' = lastFlight + 1 /\ UNCHANGED <<tasks, uploads, lastUpload>>
    BY <1>1 DEF ManualFlight
  <2> HIDE DEF g
  <2>3. /\ flights' \subseteq FlightRows(lastFlight + 1, lastUpload)
        /\ \A f, h \in flights' : f.id = h.id => f = h
    BY <1>0, <2>1, <2>2
  <2> QED
    BY <1>0, <1>00, <2>2, <2>3 DEF FlightRows
<1>2. ASSUME NEW r \in Requests,
             \/ Stores(r) \/ Attaches(r) \/ StoreFails(r) \/ Unlink(r) \/ CheckFile(r) \/ WriteFile(r)
             \/ \E p \in Pilots, c \in Contents : StoreFlight(r, p, c)
      PROVE  RowsShape'
  BY <1>0, <1>00, <1>2 DEF FlightRows, Stores, Attaches, AttachFile, StoreFails, Unlink, CheckFile, WriteFile, StoreFlight
<1>3. ASSUME NEW r \in Requests, Resyncs(r)
      PROVE  RowsShape'
  <2>1. PICK u \in uploads : SyncAgain(r, u) /\ UNCHANGED <<tasks, lastUpload>>
    BY <1>3 DEF Resyncs
  <2>2. PathOf(u) \in Paths
    BY UploadPath
  <2>3. CASE LinkedTo({u}) = {}
    <3>1. lastFlight' = lastFlight + 1 /\ uploads' = uploads
          /\ flights' = flights \cup {Synced(u, lastFlight + 1)}
      BY <2>1, <2>3 DEF SyncAgain
    <3>2. /\ Synced(u, lastFlight + 1) \in FlightRows(lastFlight + 1, lastUpload)
          /\ \A f \in flights : f.id # Synced(u, lastFlight + 1).id
      BY <1>0, <1>00, <2>2 DEF FlightRows, Synced
    <3>3. /\ flights' \subseteq FlightRows(lastFlight + 1, lastUpload)
          /\ \A f, h \in flights' : f.id = h.id => f = h
      BY <1>0, <3>1, <3>2
    <3> QED
      BY <1>0, <1>00, <2>1, <3>1, <3>3 DEF FlightRows
  <2>4. CASE LinkedTo({u}) # {}
    <3>1. lastFlight' = lastFlight /\ uploads' = uploads
          /\ flights' = (flights \ LinkedTo({u})) \cup
                {[Synced(u, f.id) EXCEPT !.points = f.points] : f \in LinkedTo({u})}
      BY <2>1, <2>4 DEF SyncAgain
    <3> DEFINE after(f) == [Synced(u, f.id) EXCEPT !.points = f.points]
    <3>2. ASSUME NEW f \in flights
          PROVE  after(f) \in FlightRows(lastFlight, lastUpload) /\ after(f).id = f.id
      <4>1. after(f) = [id |-> f.id, pilot |-> u.pilot, upload |-> u.id, path |-> PathOf(u), points |-> f.points]
        BY DEF Synced
      <4>2. f.id \in 1..lastFlight /\ f.points \in BOOLEAN /\ u.pilot \in Pilots /\ u.id \in 0..lastUpload
        BY <1>0, <1>00 DEF FlightRows
      <4> QED
        BY <2>2, <4>1, <4>2 DEF FlightRows
    <3>3. LinkedTo({u}) \subseteq flights
      BY DEF LinkedTo
    <3>4. flights' = (flights \ LinkedTo({u})) \cup {after(f) : f \in LinkedTo({u})}
      BY <3>1
    <3> HIDE DEF after
    <3>5. ASSUME NEW g \in flights'
          PROVE  \E f \in flights :
                    /\ g.id = f.id
                    /\ f \in LinkedTo({u}) => g = after(f)
                    /\ f \notin LinkedTo({u}) => g = f
      BY <3>2, <3>3, <3>4
    <3>6. ASSUME NEW g \in flights', NEW h \in flights', g.id = h.id
          PROVE  g = h
      BY <1>0, <3>5, <3>6
    <3>7. flights' \subseteq FlightRows(lastFlight, lastUpload)
      BY <1>0, <3>2, <3>3, <3>5
    <3> QED
      BY <1>0, <1>00, <2>1, <3>1, <3>6, <3>7 DEF FlightRows
  <2> QED
    BY <2>3, <2>4
<1>4. ASSUME NEW r \in Requests, Finishes(r)
      PROVE  RowsShape'
  <2>1. PICK commits \in BOOLEAN : FinishAttach(r, commits)
    BY <1>4 DEF Finishes
  <2>2. filing[r].path \in Paths
    BY <2>1, FilingJob DEF FinishAttach, Storers
  <2>3. PICK f \in flights, given \in Paths \cup {None} :
             flights' = IF commits THEN (flights \ {f}) \cup {[f EXCEPT !.path = given, !.points = TRUE]}
                                   ELSE flights
    <3>1. PICK f \in flights :
             flights' = IF commits
                THEN (flights \ {f}) \cup
                        {[f EXCEPT !.path = IF filing[r].path = filing[r].previous THEN f.path ELSE filing[r].path,
                                   !.points = TRUE]}
                ELSE flights
      BY <2>1 DEF FinishAttach
    <3>2. f.path \in Paths \cup {None}
      BY <1>0 DEF FlightRows
    <3> QED
      BY <2>2, <3>1, <3>2
  <2>4. UNCHANGED <<tasks, uploads, lastUpload, lastFlight>>
    BY <2>1 DEF FinishAttach
  <2>5. CASE ~commits
    BY <1>0, <1>00, <2>3, <2>4, <2>5 DEF FlightRows
  <2>6. CASE commits
    <3> DEFINE g == [f EXCEPT !.path = given, !.points = TRUE]
    <3>0. f \in FlightRows(lastFlight, lastUpload)
      BY <1>0
    <3>1. flights \ {f} \subseteq FlightRows(lastFlight, lastUpload)
          /\ g \in FlightRows(lastFlight, lastUpload)
      BY <1>0, RowChanged
    <3>2. g.id = f.id
      BY <3>0 DEF FlightRows
    <3>3. \A h \in flights \ {f} : h.id # g.id
      BY <1>0, <3>2
    <3> HIDE DEF g
    <3>4. flights' = (flights \ {f}) \cup {g}
      BY <2>3, <2>6 DEF g
    <3>5. /\ flights' \subseteq FlightRows(lastFlight, lastUpload)
          /\ \A h, k \in flights' : h.id = k.id => h = k
      BY <1>0, <3>1, <3>3, <3>4
    <3> QED
      BY <1>0, <1>00, <2>4, <3>5 DEF FlightRows
  <2> QED
    BY <2>5, <2>6
<1>5. ASSUME NEW r \in Requests, InsertFlight(r)
      PROVE  RowsShape'
  <2>1. filing[r].path \in Paths /\ filing[r].pilot \in Pilots
    BY <1>5, FilingJob DEF InsertFlight, Storers, FlightJob
  <2> DEFINE g == [id |-> lastFlight + 1, pilot |-> filing[r].pilot, upload |-> 0,
                   path |-> filing[r].path, points |-> TRUE]
  <2>2. g \in FlightRows(lastFlight + 1, lastUpload) /\ \A f \in flights : f.id # g.id
    BY <1>0, <2>1 DEF FlightRows
  <2>3. flights' = flights \cup {g} /\ lastFlight' = lastFlight + 1 /\ UNCHANGED <<tasks, uploads, lastUpload>>
    BY <1>5 DEF InsertFlight
  <2> HIDE DEF g
  <2>4. /\ flights' \subseteq FlightRows(lastFlight + 1, lastUpload)
        /\ \A f, h \in flights' : f.id = h.id => f = h
    BY <1>0, <2>2, <2>3
  <2> QED
    BY <1>0, <1>00, <2>3, <2>4 DEF FlightRows
<1>6. ASSUME NEW r \in Requests, InsertUpload(r)
      PROVE  RowsShape'
  <2> DEFINE job == filing[r]
             u == [id |-> lastUpload + 1, task |-> job.task, pilot |-> job.pilot,
                   content |-> ContentOf(job.path), name |-> job.path[3]]
             chosen == {f \in flights : f.id = job.flight}
  <2>1. job \in UploadJob
    BY <1>6, FilingJob DEF InsertUpload, Storers
  <2>2. job.path \in IgcPaths /\ ContentOf(job.path) \in Contents /\ job.path[3] \in 1..MaxUploads
        /\ job.task \in Tasks /\ job.pilot \in Pilots /\ job.flight \in Nat
    BY <2>1, PathShape DEF UploadJob
  <2>3. u \in [id : 1..(lastUpload + 1), task : Tasks, pilot : Pilots,
               content : Contents, name : 1..MaxUploads]
    BY <1>0, <2>2
  <2>4. PathOf(u) \in Paths
    BY <2>2, <2>3, IgcPathShape, PathShape DEF PathOf
  <2>5. /\ uploads' = uploads \cup {u}
        /\ lastUpload' = lastUpload + 1 /\ lastFlight' = lastFlight + 1 /\ tasks' = tasks
        /\ flights' = (flights \ chosen) \cup
             IF chosen = {} THEN {Synced(u, lastFlight + 1)} ELSE {Synced(u, job.flight)}
    BY <1>6 DEF InsertUpload
  <2>6. PICK id \in 1..(lastFlight + 1) :
             /\ flights' = (flights \ chosen) \cup {Synced(u, id)}
             /\ \A f \in flights \ chosen : f.id # id
    <3>1. CASE chosen = {}
      BY <1>0, <2>5, <3>1
    <3>2. CASE chosen # {}
      <4>1. job.flight \in 1..(lastFlight + 1)
        BY <1>0, <3>2 DEF FlightRows
      <4> QED
        BY <1>0, <2>5, <3>2, <4>1
    <3> QED
      BY <3>1, <3>2
  <2>7. Synced(u, id) \in FlightRows(lastFlight + 1, lastUpload + 1)
    BY <1>0, <2>3, <2>4 DEF Synced, FlightRows
  <2>8. Synced(u, id).id = id
    BY DEF Synced
  <2> HIDE DEF u, chosen
  <2>9. /\ flights' \subseteq FlightRows(lastFlight + 1, lastUpload + 1)
        /\ \A f, g \in flights' : f.id = g.id => f = g
    BY <1>0, <2>6, <2>7, <2>8
  <2>10. /\ uploads' \subseteq [id : 1..(lastUpload + 1), task : Tasks, pilot : Pilots,
                                content : Contents, name : 1..MaxUploads]
         /\ \A v, w \in uploads' : v.id = w.id => v = w
    BY <1>0, <1>00, <2>3, <2>5 DEF u
  <2> QED
    BY <1>0, <1>00, <2>5, <2>9, <2>10 DEF FlightRows
<1>7. ASSUME NEW r \in Requests, NEW us \in SUBSET uploads, NEW kept, NEW paths,
             DeleteRows(r, us, kept, paths), tasks' \subseteq tasks,
             DetachedFrom(us, kept)
      PROVE  RowsShape'
  <2>1. /\ uploads' = uploads \ us /\ lastUpload' = lastUpload /\ lastFlight' = lastFlight
        /\ flights' = (flights \ LinkedTo(us)) \cup kept
    BY <1>7 DEF DeleteRows
  <2>2. LinkedTo(us) \subseteq flights
    BY DEF LinkedTo
  <2>3. ASSUME NEW g \in kept
        PROVE  g \in FlightRows(lastFlight, lastUpload)
    <3>1. PICK f \in LinkedTo(us), points \in BOOLEAN : g = [f EXCEPT !.upload = 0, !.points = points]
      BY <1>7 DEF DetachedFrom
    <3>2. f \in FlightRows(lastFlight, lastUpload)
      BY <1>0, <2>2
    <3>3. None \in Paths \cup {None}
      OBVIOUS
    <3> QED
      BY <1>0, <3>1, <3>2, <3>3, RowChanged
  <2>4. flights' \subseteq FlightRows(lastFlight, lastUpload)
    BY <1>0, <2>1, <2>3
  <2>5. \A g, h \in kept : g.id = h.id => g = h
    BY <1>7 DEF DetachedFrom
  <2>6. \A g \in kept, f \in flights \ LinkedTo(us) : g.id # f.id
    BY <1>0, <1>7, <2>2 DEF DetachedFrom
  <2>7. \A g, h \in flights' : g.id = h.id => g = h
    BY <1>0, <2>1, <2>5, <2>6
  <2> QED
    BY <1>0, <1>00, <1>7, <2>1, <2>4, <2>7 DEF FlightRows
<1>8. ASSUME NEW r \in Requests, DropsUploads(r)
      PROVE  RowsShape'
  <2>1. PICK us \in SUBSET uploads : DeleteUploads(r, us)
    BY <1>8 DEF DropsUploads
  <2>2. /\ DeleteRows(r, us, Detached(us), {PathOf(u) : u \in us} \ Preserved(us))
        /\ tasks' = tasks
    BY <2>1 DEF DeleteUploads
  <2>3. DetachedFrom(us, Detached(us))
    <3>1. \A g \in Detached(us) : \E f \in LinkedTo(us) : g = [f EXCEPT !.upload = 0, !.points = TRUE]
      BY DEF Detached
    <3>2. ASSUME NEW f \in LinkedTo(us)
          PROVE  f \in flights /\ [f EXCEPT !.upload = 0, !.points = TRUE].id = f.id
      BY <1>0 DEF LinkedTo, FlightRows
    <3>3. ASSUME NEW g \in Detached(us), NEW h \in Detached(us), g.id = h.id
          PROVE  g = h
      <4>1. PICK e \in LinkedTo(us) : g = [e EXCEPT !.upload = 0, !.points = TRUE]
        BY <3>1
      <4>2. PICK f \in LinkedTo(us) : h = [f EXCEPT !.upload = 0, !.points = TRUE]
        BY <3>1
      <4>3. g.id = e.id /\ h.id = f.id /\ e \in flights /\ f \in flights
        BY <3>2, <4>1, <4>2
      <4>4. e = f
        BY <1>0, <3>3, <4>3
      <4> QED
        BY <4>1, <4>2, <4>4
    <3> QED
      BY <3>1, <3>2, <3>3 DEF DetachedFrom
  <2> QED
    BY <1>7, <2>2, <2>3
<1>9. ASSUME NEW r \in Requests, DropsTask(r)
      PROVE  RowsShape'
  <2>1. PICK t \in tasks : DeleteTask(r, t)
    BY <1>9 DEF DropsTask
  <2> DEFINE us == {u \in uploads : u.task = t}
             kept == {[f EXCEPT !.upload = 0] : f \in LinkedTo(us)}
  <2>2. DeleteRows(r, us, kept, {}) /\ tasks' \subseteq tasks
    BY <2>1 DEF DeleteTask
  <2>3. DetachedFrom(us, kept)
    <3>1. ASSUME NEW f \in LinkedTo(us)
          PROVE
             /\ [f EXCEPT !.upload = 0] = [f EXCEPT !.upload = 0, !.points = f.points]
             /\ [f EXCEPT !.upload = 0].id = f.id /\ f.points \in BOOLEAN /\ f \in flights
      BY <1>0 DEF LinkedTo, FlightRows
    <3> HIDE DEF us
    <3>2. \A g \in kept : \E f \in LinkedTo(us) : g = [f EXCEPT !.upload = 0]
      OBVIOUS
    <3> HIDE DEF kept
    <3>3. ASSUME NEW g \in kept, NEW h \in kept, g.id = h.id
          PROVE  g = h
      <4>1. PICK e \in LinkedTo(us) : g = [e EXCEPT !.upload = 0]
        BY <3>2
      <4>2. PICK f \in LinkedTo(us) : h = [f EXCEPT !.upload = 0]
        BY <3>2
      <4>3. g.id = e.id /\ h.id = f.id /\ e \in flights /\ f \in flights
        BY <3>1, <4>1, <4>2
      <4>4. e = f
        BY <1>0, <3>3, <4>3
      <4> QED
        BY <4>1, <4>2, <4>4
    <3>4. ASSUME NEW g \in kept
          PROVE  \E f \in LinkedTo(us) : \E points \in BOOLEAN :
                    g.id = f.id /\ g = [f EXCEPT !.upload = 0, !.points = points]
      <4>1. PICK f \in LinkedTo(us) : g = [f EXCEPT !.upload = 0]
        BY <3>2
      <4>2. g.id = f.id /\ g = [f EXCEPT !.upload = 0, !.points = f.points] /\ f.points \in BOOLEAN
        BY <3>1, <4>1
      <4> QED
        BY <4>2
    <3> QED
      BY <3>3, <3>4 DEF DetachedFrom
  <2> QED
    BY <1>7, <2>2, <2>3
<1>10. ASSUME NEW r \in Requests, NEW f \in flights, DeleteFlight(r, f)
       PROVE  RowsShape'
  <2> DEFINE us == {u \in uploads : u.id = f.upload}
  <2>1. CASE us # {}
    <3>1. DeleteRows(r, us, {}, {PathOf(u) : u \in us}) /\ tasks' = tasks
      BY <1>10, <2>1 DEF DeleteFlight
    <3>2. DetachedFrom(us, {})
      BY DEF DetachedFrom
    <3> HIDE DEF us
    <3>3. us \in SUBSET uploads
      BY DEF us
    <3> QED
      BY <1>7, <3>1, <3>2, <3>3
  <2>2. CASE us = {}
    <3>1. flights' = flights \ {f} /\ UNCHANGED <<tasks, uploads, lastUpload, lastFlight>>
      BY <1>10, <2>2 DEF DeleteFlight
    <3> QED
      BY <1>0, <1>00, <3>1 DEF FlightRows
  <2> QED
    BY <2>1, <2>2
<1> QED
  BY FileSteps, <1>1, <1>2, <1>3, <1>4, <1>5, <1>6, <1>8, <1>9, <1>10 DEF DropsFlight

\* Only paths of files are stored, shared or torn.
LEMMA PathsTyped ==
    ASSUME FileTypeOK, FileShape, FileNext
    PROVE  (disk \cup shared \cup torn \subseteq Paths)'
<1>1. disk \subseteq Paths /\ shared \subseteq Paths /\ torn \subseteq Paths
  BY DEF FileTypeOK
<1>2. shared' \subseteq Paths
  BY <1>1 DEF FileNext
<1>3. Paths' = Paths
  BY DEF Paths
<1> HIDE DEF Paths
<1>4. ASSUME NEW r \in Requests, Resyncs(r) \/ Stores(r) \/ Attaches(r)
      PROVE  disk' = disk /\ torn' = torn
  BY <1>4 DEF Resyncs, Stores, Attaches, AttachFile
<1>5. ASSUME NEW r \in Requests,
             \/ CheckFile(r) \/ InsertFlight(r) \/ StoreFails(r) \/ Unlink(r)
             \/ \E p \in Pilots, c \in Contents : StoreFlight(r, p, c)
      PROVE  disk' \subseteq disk /\ torn' = torn
  BY <1>5 DEF CheckFile, InsertFlight, StoreFails, Unlink, StoreFlight
<1>6. ASSUME NEW r \in Requests, DropsUploads(r) \/ DropsFlight(r) \/ DropsTask(r)
      PROVE  disk' = disk /\ torn' = torn
  BY <1>6 DEF DropsUploads, DropsFlight, DropsTask, DeleteUploads, DeleteFlight, DeleteTask, DeleteRows
<1>7. ASSUME NEW r \in Requests, WriteFile(r)
      PROVE  disk' \subseteq Paths /\ torn' = torn
  <2>1. filing[r].path \in Paths
    BY <1>7, FilingJob DEF WriteFile, Storers
  <2> QED
    BY <1>1, <1>7, <2>1 DEF WriteFile
<1>8. ASSUME NEW r \in Requests, Finishes(r)
      PROVE  disk' \subseteq Paths /\ torn' \subseteq Paths
  <2>1. PICK commits \in BOOLEAN : FinishAttach(r, commits)
    BY <1>8 DEF Finishes
  <2>2. filing[r] \in AttachJob
    BY <2>1, FilingJob DEF FinishAttach, Storers
  <2>3. Previous(filing[r]) \subseteq Paths
    BY <2>2 DEF AttachJob, Previous
  <2>4. \A f \in flights : f.upload # 0 => f.path \in Paths
    BY DEF FileTypeOK, FileShape, LinkedHaveFiles
  <2> QED
    BY <1>1, <2>1, <2>3, <2>4 DEF FinishAttach
<1>9. ASSUME NEW r \in Requests, InsertUpload(r)
      PROVE  disk' = disk /\ torn' \subseteq Paths
  <2>1. \A f \in flights : f.upload # 0 => f.path \in Paths
    BY DEF FileTypeOK, FileShape, LinkedHaveFiles
  <2> QED
    BY <1>1, <1>9, <2>1 DEF InsertUpload
<1>10. ASSUME NEW p \in Pilots, ManualFlight(p)
       PROVE  disk' = disk /\ torn' = torn
  BY <1>10 DEF ManualFlight
<1> QED
  BY FileSteps, <1>1, <1>2, <1>3, <1>4, <1>5, <1>6, <1>7, <1>8, <1>9, <1>10

\* A flight of an upload has the file it got from it, or another one.
LEMMA LinkedKeepFiles ==
    ASSUME FileTypeOK, FileShape, FileNext
    PROVE  LinkedHaveFiles'
<1>1. \A f \in flights : f.upload # 0 => f.path # None
  BY DEF FileShape, LinkedHaveFiles
<1>2. ASSUME NEW u \in [id : Nat, task : Tasks, pilot : Pilots, content : Contents, name : 1..MaxUploads],
             NEW id, NEW points
      PROVE  Synced(u, id).path # None /\ [Synced(u, id) EXCEPT !.points = points].path # None
  <2>1. PathOf(u) # None
    BY IgcPathShape, PathShape DEF PathOf
  <2> QED
    BY <2>1 DEF Synced
<1>3. \A u \in uploads : u \in [id : Nat, task : Tasks, pilot : Pilots, content : Contents, name : 1..MaxUploads]
  BY DEF FileTypeOK, FileShape
<1>4. ASSUME NEW r \in Requests, Resyncs(r)
      PROVE  LinkedHaveFiles'
  <2>1. PICK u \in uploads : SyncAgain(r, u)
    BY <1>4 DEF Resyncs
  <2>2. \A g \in flights' :
           \/ g \in flights \/ g = Synced(u, lastFlight + 1)
           \/ \E f \in LinkedTo({u}) : g = [Synced(u, f.id) EXCEPT !.points = f.points]
    BY <2>1 DEF SyncAgain
  <2>3. ASSUME NEW g \in flights', g.upload # 0
        PROVE  g.path # None
    <3>1. CASE g \in flights
      BY <1>1, <2>3, <3>1
    <3>2. CASE g = Synced(u, lastFlight + 1)
      BY <1>2, <1>3, <3>2
    <3>3. ASSUME NEW f \in LinkedTo({u}), g = [Synced(u, f.id) EXCEPT !.points = f.points]
          PROVE  g.path # None
      BY <1>2, <1>3, <3>3
    <3> QED
      BY <2>2, <3>1, <3>2, <3>3
  <2> QED
    BY <2>3 DEF LinkedHaveFiles
<1>5. ASSUME NEW r \in Requests, InsertUpload(r)
      PROVE  LinkedHaveFiles'
  <2> DEFINE job == filing[r]
             u == [id |-> lastUpload + 1, task |-> job.task, pilot |-> job.pilot,
                   content |-> ContentOf(job.path), name |-> job.path[3]]
  <2>1. job \in UploadJob
    BY <1>5, FilingJob DEF InsertUpload, Storers
  <2>2. u \in [id : Nat, task : Tasks, pilot : Pilots, content : Contents, name : 1..MaxUploads]
    BY <2>1, PathShape DEF UploadJob, FileShape
  <2>3. \A g \in flights' : g \in flights \/ g = Synced(u, lastFlight + 1) \/ g = Synced(u, job.flight)
    BY <1>5 DEF InsertUpload
  <2> HIDE DEF job, u
  <2> QED
    BY <1>1, <1>2, <2>2, <2>3 DEF LinkedHaveFiles
<1>6. ASSUME NEW r \in Requests, Finishes(r)
      PROVE  LinkedHaveFiles'
  <2>1. PICK commits \in BOOLEAN : FinishAttach(r, commits)
    BY <1>6 DEF Finishes
  <2>2. filing[r].path # None
    BY <2>1, FilingJob, PathShape DEF FinishAttach, Storers
  <2>3. PICK f \in flights :
           \A g \in flights' :
              \/ g \in flights
              \/ g = [f EXCEPT !.path = f.path, !.points = TRUE]
              \/ g = [f EXCEPT !.path = filing[r].path, !.points = TRUE]
    BY <2>1 DEF FinishAttach
  <2>4. f.path \in Paths \cup {None} /\ filing[r].path \in Paths \cup {None}
        /\ f \in FlightRows(lastFlight, lastUpload) /\ lastFlight \in Nat /\ lastUpload \in Nat
    BY <2>1, FilingJob DEF FileTypeOK, FlightRows, FinishAttach, Storers, FileShape
  <2>5. ASSUME NEW path \in {f.path, filing[r].path}
        PROVE  LET g == [f EXCEPT !.path = path, !.points = TRUE] IN g.upload = f.upload /\ g.path = path
    BY <2>4 DEF FlightRows
  <2> QED
    BY <1>1, <2>2, <2>3, <2>5 DEF LinkedHaveFiles
<1>7. ASSUME NEW r \in Requests, DropsUploads(r) \/ DropsFlight(r) \/ DropsTask(r)
      PROVE  LinkedHaveFiles'
  <2>1. \A g \in flights' :
           \/ g \in flights
           \/ \E f \in flights : g = [f EXCEPT !.upload = 0, !.points = TRUE] \/ g = [f EXCEPT !.upload = 0]
    <3>1. CASE DropsUploads(r)
      BY <3>1 DEF DropsUploads, DeleteUploads, DeleteRows, Detached, LinkedTo
    <3>2. CASE DropsFlight(r)
      BY <3>2 DEF DropsFlight, DeleteFlight, DeleteRows
    <3>3. CASE DropsTask(r)
      BY <3>3 DEF DropsTask, DeleteTask, DeleteRows, LinkedTo
    <3> QED
      BY <1>7, <3>1, <3>2, <3>3
  <2>2. ASSUME NEW f \in flights
        PROVE  [f EXCEPT !.upload = 0, !.points = TRUE].upload = 0 /\ [f EXCEPT !.upload = 0].upload = 0
    BY DEF FileTypeOK
  <2> QED
    BY <1>1, <2>1, <2>2 DEF LinkedHaveFiles
<1>8. ASSUME NEW r \in Requests,
             \/ Stores(r) \/ Attaches(r) \/ StoreFails(r) \/ Unlink(r) \/ CheckFile(r) \/ WriteFile(r)
             \/ \E p \in Pilots, c \in Contents : StoreFlight(r, p, c)
      PROVE  LinkedHaveFiles'
  BY <1>1, <1>8 DEF Stores, Attaches, AttachFile, StoreFails, Unlink, CheckFile, WriteFile, StoreFlight, LinkedHaveFiles
<1>9. ASSUME NEW r \in Requests, InsertFlight(r)
      PROVE  LinkedHaveFiles'
  BY <1>1, <1>9 DEF InsertFlight, LinkedHaveFiles
<1>10. ASSUME NEW p \in Pilots, ManualFlight(p)
       PROVE  LinkedHaveFiles'
  BY <1>1, <1>10 DEF ManualFlight, LinkedHaveFiles
<1> QED
  BY FileSteps, <1>4, <1>5, <1>6, <1>7, <1>8, <1>9, <1>10

LEMMA TypesStay ==
    ASSUME FileTypeOK, FileShape, FileNext
    PROVE  FileTypeOK' /\ FileShape'
<1>1. FilingShape' /\ RowsShape' /\ (disk \cup shared \cup torn \subseteq Paths)' /\ LinkedHaveFiles'
  BY FilingTyped, RowsTyped, PathsTyped, LinkedKeepFiles
<1>2. \A r \in Requests : filing'[r].step \in {"idle", "check", "write", "insert", "unlink"}
  BY <1>1 DEF FilingShape, StoreJob, UploadJob, FlightJob, AttachJob, UnlinkJob, Idle, Steps
<1>3. FileShape'
  BY <1>1 DEF FileShape, FilingShape, RowsShape
<1> QED
  BY <1>1, <1>2, <1>3 DEF FileTypeOK, RowsShape

-----------------------------------------------------------------------------
(* Uploads and the flights of the logbook.                                 *)

\* What is shared, torn or stored by two stays so.
LEMMA HistoryGrows ==
    ASSUME FileTypeOK, FileShape, FileNext
    PROVE  shared \subseteq shared' /\ torn \subseteq torn' /\ overlaps \subseteq overlaps'
<1>1. shared \subseteq shared'
  BY DEF FileNext
<1>2. ASSUME NEW r \in Requests, Resyncs(r) \/ Stores(r) \/ Attaches(r)
      PROVE  torn \subseteq torn' /\ overlaps \subseteq overlaps'
  BY <1>2 DEF Resyncs, SyncAgain, Stores, Attaches, AttachFile
<1>3. ASSUME NEW r \in Requests, DropsUploads(r) \/ DropsFlight(r) \/ DropsTask(r)
      PROVE  torn \subseteq torn' /\ overlaps \subseteq overlaps'
  BY <1>3 DEF DropsUploads, DropsFlight, DropsTask, DeleteUploads, DeleteFlight, DeleteTask, DeleteRows
<1>4. ASSUME NEW r \in Requests, InsertUpload(r) \/ Finishes(r)
      PROVE  torn \subseteq torn' /\ overlaps \subseteq overlaps'
  BY <1>4 DEF InsertUpload, Finishes, FinishAttach
<1>5. ASSUME NEW r \in Requests,
             \/ CheckFile(r) \/ WriteFile(r) \/ InsertFlight(r) \/ StoreFails(r) \/ Unlink(r)
             \/ \E p \in Pilots, c \in Contents : StoreFlight(r, p, c)
      PROVE  torn \subseteq torn' /\ overlaps \subseteq overlaps'
  BY <1>5 DEF CheckFile, WriteFile, InsertFlight, StoreFails, Unlink, StoreFlight
<1>6. ASSUME NEW p \in Pilots, ManualFlight(p)
      PROVE  torn \subseteq torn' /\ overlaps \subseteq overlaps'
  BY <1>6 DEF ManualFlight
<1> QED
  BY FileSteps, <1>1, <1>2, <1>3, <1>4, <1>5, <1>6

\* A step that leaves the flights of an upload alone leaves it followed.
LEMMA FollowedStays ==
    ASSUME NEW u, Followed(u),
           \A f : f \in flights' /\ f.upload = u.id <=> f \in flights /\ f.upload = u.id
    PROVE  Followed(u)'
<1>1. LinkedTo({u})' = LinkedTo({u})
  BY DEF LinkedTo
<1>2. PathOf(u)' = PathOf(u)
  BY DEF PathOf, IgcPath
<1>3. PICK f \in flights : LinkedTo({u}) = {f} /\ f.pilot = u.pilot /\ f.path = PathOf(u)
  BY DEF Followed
<1>4. f \in flights'
  BY <1>1, <1>3 DEF LinkedTo
<1> QED
  BY <1>1, <1>2, <1>3, <1>4 DEF Followed

LEMMA SyncedShape ==
    ASSUME NEW u, NEW id, NEW points
    PROVE  LET f == Synced(u, id)
               g == [Synced(u, id) EXCEPT !.points = points]
           IN /\ f.upload = u.id /\ f.pilot = u.pilot /\ f.path = PathOf(u) /\ f.id = id
              /\ g.upload = u.id /\ g.pilot = u.pilot /\ g.path = PathOf(u) /\ g.id = id
BY DEF Synced

\* The flight of an upload stays its own: a request that syncs it again writes
\* the same, an upload that takes a flight of another tears that one's path, and
\* so does a file attached to a flight that has got an upload.
LEMMA FollowedKept ==
    ASSUME FileTypeOK, FileShape, AllFollowed, FileNext
    PROVE  AllFollowed'
<1>1. torn \subseteq torn' /\ \A u : PathOf(u)' = PathOf(u)
  BY HistoryGrows DEF PathOf, IgcPath
<1>2. \A u \in uploads : u.id \in 1..lastUpload /\ u.id # lastUpload + 1 /\ u.id # 0
  BY DEF FileTypeOK, FileShape
<1>3. \A f \in flights : f.upload # lastUpload + 1
  BY DEF FileTypeOK, FileShape
<1>4. \A u \in uploads : PathOf(u) \notin torn' => Followed(u)
  BY <1>1 DEF AllFollowed
<1>5. ASSUME uploads' \subseteq uploads, 
             \A u \in uploads' : PathOf(u) \notin torn' =>
                \A f : f \in flights' /\ f.upload = u.id <=> f \in flights /\ f.upload = u.id
      PROVE  AllFollowed'
  BY <1>1, <1>4, <1>5, FollowedStays DEF AllFollowed
<1>6. ASSUME UNCHANGED <<uploads, flights>>
      PROVE  AllFollowed'
  BY <1>5, <1>6
<1>7. ASSUME NEW p \in Pilots, ManualFlight(p)
      PROVE  AllFollowed'
  <2>1. uploads' = uploads /\ \A f \in flights' : f \in flights \/ f.upload = 0
    BY <1>7 DEF ManualFlight
  <2>2. flights \subseteq flights'
    BY <1>7 DEF ManualFlight
  <2> QED
    BY <1>2, <1>5, <2>1, <2>2
<1>8. ASSUME NEW r \in Requests, InsertFlight(r)
      PROVE  AllFollowed'
  <2>1. uploads' = uploads /\ \A f \in flights' : f \in flights \/ f.upload = 0
    BY <1>8 DEF InsertFlight
  <2>2. flights \subseteq flights'
    BY <1>8 DEF InsertFlight
  <2> QED
    BY <1>2, <1>5, <2>1, <2>2
<1>9. ASSUME NEW r \in Requests,
             \/ Stores(r) \/ Attaches(r) \/ StoreFails(r) \/ Unlink(r) \/ CheckFile(r) \/ WriteFile(r)
             \/ \E p \in Pilots, c \in Contents : StoreFlight(r, p, c)
      PROVE  AllFollowed'
  BY <1>6, <1>9 DEF Stores, Attaches, AttachFile, StoreFails, Unlink, CheckFile, WriteFile, StoreFlight
<1>10. ASSUME NEW r \in Requests, NEW us \in SUBSET uploads, NEW kept, NEW paths,
              DeleteRows(r, us, kept, paths), \A f \in kept : f.upload = 0
       PROVE  AllFollowed'
  <2>1. uploads' = uploads \ us /\ flights' = (flights \ LinkedTo(us)) \cup kept
    BY <1>10 DEF DeleteRows
  <2>2. ASSUME NEW u \in uploads \ us, NEW f \in LinkedTo(us)
        PROVE  f.upload # u.id
    BY DEF LinkedTo, FileShape
  <2> QED
    BY <1>2, <1>5, <1>10, <2>1, <2>2
<1>11. ASSUME NEW f \in flights
       PROVE  [f EXCEPT !.upload = 0, !.points = TRUE].upload = 0 /\ [f EXCEPT !.upload = 0].upload = 0
  BY DEF FileTypeOK
<1>12. ASSUME NEW r \in Requests, DropsUploads(r)
       PROVE  AllFollowed'
  <2>1. PICK us \in SUBSET uploads : DeleteUploads(r, us)
    BY <1>12 DEF DropsUploads
  <2>2. \A f \in Detached(us) : f.upload = 0
    BY <1>11 DEF Detached, LinkedTo
  <2> QED
    BY <1>10, <2>1, <2>2 DEF DeleteUploads
<1>13. ASSUME NEW r \in Requests, DropsTask(r)
       PROVE  AllFollowed'
  <2>1. PICK t \in tasks : DeleteTask(r, t)
    BY <1>13 DEF DropsTask
  <2> DEFINE us == {u \in uploads : u.task = t}
             kept == {[f EXCEPT !.upload = 0] : f \in LinkedTo(us)}
  <2>2. DeleteRows(r, us, kept, {})
    BY <2>1 DEF DeleteTask
  <2>3. \A f \in kept : f.upload = 0
    BY <1>11 DEF LinkedTo
  <2>4. us \in SUBSET uploads
    OBVIOUS
  <2> HIDE DEF us, kept
  <2> QED
    BY <1>10, <2>2, <2>3, <2>4
<1>14. ASSUME NEW r \in Requests, NEW f \in flights, DeleteFlight(r, f)
       PROVE  AllFollowed'
  <2> DEFINE us == {u \in uploads : u.id = f.upload}
  <2>0. us \in SUBSET uploads
    OBVIOUS
  <2>1. CASE us # {}
    <3>1. DeleteRows(r, us, {}, {PathOf(u) : u \in us})
      BY <1>14, <2>1 DEF DeleteFlight
    <3> HIDE DEF us
    <3> QED
      BY <1>10, <2>0, <3>1
  <2>2. CASE us = {}
    <3>1. flights' = flights \ {f} /\ uploads' = uploads
      BY <1>14, <2>2 DEF DeleteFlight
    <3>2. \A u \in uploads : u.id # f.upload
      BY <2>2
    <3> QED
      BY <1>5, <3>1, <3>2
  <2> QED
    BY <2>1, <2>2
<1>15. ASSUME NEW r \in Requests, Finishes(r)
       PROVE  AllFollowed'
  <2>1. PICK commits \in BOOLEAN : FinishAttach(r, commits)
    BY <1>15 DEF Finishes
  <2>2. PICK f, given :
           /\ f \in flights
           /\ flights' = IF commits
                 THEN (flights \ {f}) \cup {[f EXCEPT !.path = given, !.points = TRUE]}
                 ELSE flights
           /\ f.upload # 0 => f.path \in torn'
    BY <2>1 DEF FinishAttach
  <2>3. uploads' = uploads
    BY <2>1 DEF FinishAttach
  <2>4. [f EXCEPT !.path = given, !.points = TRUE].upload = f.upload
    BY DEF FileTypeOK
  <2>5. ASSUME NEW u \in uploads, PathOf(u) \notin torn'
        PROVE  u.id # f.upload
    <3>1. Followed(u)
      BY <1>4, <2>5
    <3>2. CASE u.id = f.upload
      <4>1. f \in LinkedTo({u})
        BY <2>2, <3>2 DEF LinkedTo
      <4>2. f.path = PathOf(u)
        BY <3>1, <4>1 DEF Followed
      <4> QED
        BY <1>2, <2>2, <2>5, <3>2, <4>2
    <3> QED
      BY <3>2
  <2> QED
    BY <1>5, <2>2, <2>3, <2>4, <2>5
<1>16. ASSUME NEW r \in Requests, Resyncs(r)
       PROVE  AllFollowed'
  <2>1. PICK u \in uploads : SyncAgain(r, u)
    BY <1>16 DEF Resyncs
  <2> DEFINE old == LinkedTo({u})
             new == IF old = {} THEN {Synced(u, lastFlight + 1)}
                                ELSE {[Synced(u, f.id) EXCEPT !.points = f.points] : f \in old}
  <2>2. flights' = (flights \ old) \cup new /\ uploads' = uploads
    BY <2>1 DEF SyncAgain
  <2>3. \A f \in old : f \in flights /\ f.upload = u.id
    BY DEF LinkedTo
  <2>4. \A f \in new : f.upload = u.id /\ f.pilot = u.pilot /\ f.path = PathOf(u)
    <3>1. CASE old = {}
      BY <3>1, SyncedShape
    <3>2. CASE old # {}
      <4>1. new = {[Synced(u, f.id) EXCEPT !.points = f.points] : f \in old}
        BY <3>2
      <4> HIDE DEF new, old
      <4>2. ASSUME NEW g \in new
            PROVE  g.upload = u.id /\ g.pilot = u.pilot /\ g.path = PathOf(u)
        <5>1. PICK f \in old : g = [Synced(u, f.id) EXCEPT !.points = f.points]
          BY <4>1
        <5> QED
          BY <5>1, SyncedShape
      <4> QED
        BY <4>2
    <3> QED
      BY <3>1, <3>2
  <2>5. ASSUME NEW v \in uploads, v # u, Followed(v)
        PROVE  Followed(v)'
    <3>1. v.id # u.id
      BY <2>5 DEF FileShape
    <3> HIDE DEF old, new
    <3> QED
      BY <2>2, <2>3, <2>4, <2>5, <3>1, FollowedStays
  <2>6. ASSUME Followed(u)
        PROVE  Followed(u)'
    <3>1. PICK f \in flights : LinkedTo({u}) = {f}
      BY <2>6 DEF Followed
    <3> DEFINE g == [Synced(u, f.id) EXCEPT !.points = f.points]
    <3>2. new = {g}
      BY <3>1
    <3>3. \A h \in flights \ old : h.upload # u.id
      BY DEF LinkedTo
    <3>4. g \in new /\ g.upload = u.id /\ g.pilot = u.pilot /\ g.path = PathOf(u)
      BY <2>4, <3>2
    <3> HIDE DEF old, new, g
    <3>5. LinkedTo({u})' = {g}
      BY <2>2, <3>2, <3>3, <3>4 DEF LinkedTo
    <3> QED
      BY <1>1, <2>2, <3>2, <3>4, <3>5 DEF Followed
  <2> QED
    BY <1>1, <1>4, <2>2, <2>5, <2>6 DEF AllFollowed
<1>17. ASSUME NEW r \in Requests, InsertUpload(r)
       PROVE  AllFollowed'
  <2> DEFINE chosen == {f \in flights : f.id = filing[r].flight}
  <2>1. PICK u, g :
           /\ u.id = lastUpload + 1 /\ uploads' = uploads \cup {u}
           /\ \E id : g = Synced(u, id)
           /\ flights' = (flights \ chosen) \cup {g}
    <3> DEFINE row == [id |-> lastUpload + 1, task |-> filing[r].task, pilot |-> filing[r].pilot,
                       content |-> ContentOf(filing[r].path), name |-> filing[r].path[3]]
    <3>1. row.id = lastUpload + 1
      OBVIOUS
    <3> QED
      BY <1>17, <3>1 DEF InsertUpload
  <2>2. torn' = torn \cup {f.path : f \in {x \in chosen : x.upload # 0}}
    BY <1>17 DEF InsertUpload
  <2>3. u.id = lastUpload + 1
    BY <2>1
  <2>4. g.upload = u.id /\ g.pilot = u.pilot /\ g.path = PathOf(u)
    BY <2>1, SyncedShape
  <2>5. Followed(u)'
    <3>1. LinkedTo({u})' = {g}
      BY <1>3, <2>1, <2>3, <2>4 DEF LinkedTo
    <3> QED
      BY <1>1, <2>1, <2>4, <3>1 DEF Followed
  <2>6. ASSUME NEW v \in uploads, PathOf(v) \notin torn'
        PROVE  Followed(v)'
    <3>1. Followed(v)
      BY <1>4, <2>6
    <3>2. ASSUME NEW f \in chosen, f.upload = v.id
          PROVE  FALSE
      <4>1. f \in LinkedTo({v})
        BY <3>2 DEF LinkedTo
      <4>2. f.path = PathOf(v)
        BY <3>1, <4>1 DEF Followed
      <4> QED
        BY <1>2, <2>2, <2>6, <3>2, <4>2
    <3>3. v.id # g.upload
      BY <1>2, <2>3, <2>4
    <3> HIDE DEF chosen
    <3> QED
      BY <2>1, <3>1, <3>2, <3>3, FollowedStays
  <2> QED
    BY <1>1, <2>1, <2>5, <2>6 DEF AllFollowed
<1> QED
  BY FileSteps, <1>7, <1>8, <1>9, <1>12, <1>13, <1>14, <1>15, <1>16, <1>17 DEF DropsFlight

-----------------------------------------------------------------------------
(* Who names a path.                                                       *)

LEMMA AtMostOne ==
    ASSUME NEW S, IsFiniteSet(S), NEW T, IsFiniteSet(T), ~(Cardinality(S) + Cardinality(T) > 1)
    PROVE  /\ \A x, y \in S : x = y
           /\ \A x, y \in T : x = y
           /\ S = {} \/ T = {}
<1>1. ASSUME NEW R, IsFiniteSet(R), NEW x \in R, NEW y \in R, x # y
      PROVE  Cardinality(R) > 1
  <2>1. IsFiniteSet({x}) /\ Cardinality({x}) = 1
    BY FS_Singleton
  <2>2. Cardinality({x} \cup {y}) = 2
    <3>1. y \notin {x}
      BY <1>1
    <3>2. Cardinality({x} \cup {y}) = IF y \in {x} THEN Cardinality({x}) ELSE Cardinality({x}) + 1
      BY <2>1, FS_AddElement
    <3> QED
      BY <2>1, <3>1, <3>2
  <2>3. {x} \cup {y} \in SUBSET R
    OBVIOUS
  <2>4. Cardinality({x} \cup {y}) <= Cardinality(R) /\ Cardinality(R) \in Nat
    BY <1>1, <2>3, FS_Subset, FS_CardinalityType
  <2> QED
    BY <2>2, <2>4
<1>2. Cardinality(S) \in Nat /\ Cardinality(T) \in Nat
  BY FS_CardinalityType
<1>3. (Cardinality(S) = 0 <=> S = {}) /\ (Cardinality(T) = 0 <=> T = {})
  BY FS_EmptySet
<1>4. ~(Cardinality(S) > 1) /\ ~(Cardinality(T) > 1)
  BY <1>2
<1>5. \A x, y \in S : x = y
  BY <1>1, <1>4
<1>6. \A x, y \in T : x = y
  BY <1>1, <1>4
<1>7. S = {} \/ T = {}
  BY <1>2, <1>3
<1> QED
  BY <1>5, <1>6, <1>7

\* Rows with ids of their own are finitely many.
LEMMA RowsFinite ==
    ASSUME NEW n \in Nat, NEW R, \A f \in R : f.id \in 1..n, \A f, g \in R : f.id = g.id => f = g
    PROVE  IsFiniteSet(R)
<1> DEFINE id == [f \in R |-> f.id]
<1>1. id \in Injection(R, 1..n)
  BY DEF Injection, IsInjective
<1>2. IsFiniteSet(1..n)
  BY FS_Interval
<1> QED
  BY <1>1, <1>2, FS_Injection

\* Whoever names a path while another one does, shares it.
LEMMA NamedOnceStays ==
    ASSUME FileTypeOK, FileShape, FileNext
    PROVE  AllNamedOnce'
<1>1. FileTypeOK' /\ FileShape'
  BY TypesStay
<1>2. ASSUME NEW path \in Paths, path \notin shared'
      PROVE  NamedOnce(path)'
  <2> DEFINE F == {f \in flights' : f.path = path}
             S == Storing(path)'
  <2>1. ~Contested(path)'
    BY <1>2 DEF FileNext
  <2>2. ~(Cardinality(F) + Cardinality(S) > 1) /\ ~(S # {} /\ Unlinking(path)' # {})
    BY <2>1 DEF Contested
  <2>3. IsFiniteSet(flights')
    <3>1. /\ lastFlight' \in Nat
          /\ \A f \in flights' : f.id \in 1..lastFlight'
          /\ \A f, g \in flights' : f.id = g.id => f = g
      BY <1>1 DEF FileTypeOK, FileShape
    <3> QED
      BY <3>1, RowsFinite
  <2>4. IsFiniteSet(F)
    <3>1. F \in SUBSET flights'
      OBVIOUS
    <3> QED
      BY <2>3, <3>1, FS_Subset
  <2>5. IsFiniteSet(S)
    <3>1. S \in SUBSET Requests
      BY DEF Storing, Storers
    <3>2. IsFiniteSet(Requests)
      BY FilesAssumption
    <3> QED
      BY <3>1, <3>2, FS_Subset
  <2> HIDE DEF S
  <2>6. /\ \A x, y \in F : x = y
        /\ \A x, y \in S : x = y
        /\ F = {} \/ S = {}
    BY <2>2, <2>4, <2>5, AtMostOne
  <2>7. \A f \in flights' : f.path = path => f \in F
    OBVIOUS
  <2> HIDE DEF F
  <2> QED
    BY <2>2, <2>6, <2>7 DEF NamedOnce, S
<1>3. Paths' = Paths
  BY DEF Paths
<1> QED
  BY <1>2, <1>3 DEF AllNamedOnce

-----------------------------------------------------------------------------
(* How the jobs of the requests go on.                                     *)

\* A request that is storing a file was storing it, and comes to its last step
\* when the file is there, or has just begun.
GoesOn(o) ==
    /\ o \in Storers
    /\ filing'[o].kind = filing[o].kind /\ filing'[o].path = filing[o].path
    /\ filing'[o].task = filing[o].task /\ filing'[o].pilot = filing[o].pilot
    /\ filing'[o].kind = "attach" => filing'[o].previous = filing[o].previous
    /\ filing'[o].step = "insert" => filing[o].step = "insert" \/ filing[o].path \in disk'
Begun(o) == filing[o] = Idle /\ filing'[o].step = "check" /\ (filing'[o].kind = "upload" => Stores(o))

LEMMA BegunByOwner ==
    ASSUME NEW r, Attaches(r) \/ \E p \in Pilots, c \in Contents : StoreFlight(r, p, c)
    PROVE  \E job : Begin(r, job) /\ job.step = "check" /\ job.kind # "upload"
<1>1. ASSUME NEW f \in flights, NEW c \in Contents, AttachFile(r, f, c)
      PROVE  \E job : Begin(r, job) /\ job.step = "check" /\ job.kind # "upload"
  <2> DEFINE job == [step |-> "check", kind |-> "attach", path |-> LogbookPath(f.pilot, c),
                     task |-> None, pilot |-> f.pilot, flight |-> f.id, previous |-> f.path]
  <2>1. Begin(r, job)
    BY <1>1 DEF AttachFile
  <2>2. job.step = "check" /\ job.kind # "upload"
    OBVIOUS
  <2> QED
    BY <2>1, <2>2
<1>2. ASSUME NEW p \in Pilots, NEW c \in Contents, StoreFlight(r, p, c)
      PROVE  \E job : Begin(r, job) /\ job.step = "check" /\ job.kind # "upload"
  <2> DEFINE job == [step |-> "check", kind |-> "flight", path |-> LogbookPath(p, c),
                     task |-> None, pilot |-> p, flight |-> 0]
  <2>1. Begin(r, job)
    BY <1>2 DEF StoreFlight
  <2>2. job.step = "check" /\ job.kind # "upload"
    OBVIOUS
  <2> QED
    BY <2>1, <2>2
<1> QED
  BY <1>1, <1>2 DEF Attaches

LEMMA JobsGoOn ==
    ASSUME FileTypeOK, FileShape, FileNext, NEW o \in Storers'
    PROVE  GoesOn(o) \/ Begun(o)
<1>1. o \in Requests /\ filing'[o].step \in Steps
  BY DEF Storers, Steps
<1>2. filing \in [Requests -> StoreJob \cup UnlinkJob \cup {Idle}]
  BY DEF FileShape
<1>3. ASSUME filing'[o] = filing[o]
      PROVE  GoesOn(o)
  BY <1>1, <1>3 DEF GoesOn, Storers, Steps
<1>4. ASSUME NEW r \in Requests, NEW job, filing' = [filing EXCEPT ![r] = job], job.step \notin Steps
      PROVE  GoesOn(o)
  <2>1. o # r
    BY <1>1, <1>2, <1>4
  <2> QED
    BY <1>2, <1>3, <1>4, <2>1
<1>5. ASSUME NEW r \in Requests, NEW job, Begin(r, job), job.step = "check", job.kind = "upload" => Stores(r)
      PROVE  GoesOn(o) \/ Begun(o)
  BY <1>1, <1>2, <1>3, <1>5 DEF Begin, Begun
<1>6. Idle.step \notin Steps
  BY DEF Idle, Steps
<1>7. ASSUME NEW r \in Requests, Stores(r)
      PROVE  GoesOn(o) \/ Begun(o)
  <2>1. PICK job : Begin(r, job) /\ job.step = "check"
    BY <1>7 DEF Stores
  <2> QED
    BY <1>5, <1>7, <2>1
<1>8. ASSUME NEW r \in Requests, Attaches(r) \/ \E p \in Pilots, c \in Contents : StoreFlight(r, p, c)
      PROVE  GoesOn(o) \/ Begun(o)
  <2>1. PICK job : Begin(r, job) /\ job.step = "check" /\ job.kind # "upload"
    BY <1>8, BegunByOwner
  <2> QED
    BY <1>5, <2>1
<1>9. ASSUME NEW r \in Requests, NEW s \in Steps, r \in Storers,
             filing' = [filing EXCEPT ![r] = [filing[r] EXCEPT !.step = s]],
             s = "insert" => filing[r].path \in disk'
      PROVE  GoesOn(o)
  <2>1. CASE o = r
    <3>1. filing[r] \in StoreJob
      BY <1>9, FilingJob
    <3>2. filing'[o] = [filing[r] EXCEPT !.step = s]
      BY <1>2, <1>9, <2>1
    <3> QED
      BY <1>9, <2>1, <3>1, <3>2, Advanced DEF GoesOn
  <2>2. CASE o # r
    BY <1>1, <1>2, <1>3, <1>9, <2>2
  <2> QED
    BY <2>1, <2>2
<1>10. ASSUME NEW r \in Requests, CheckFile(r)
       PROVE  GoesOn(o)
  <2> DEFINE s == IF filing[r].path \in disk THEN "insert" ELSE "write"
  <2>1. filing' = [filing EXCEPT ![r] = [filing[r] EXCEPT !.step = s]] /\ r \in Storers /\ disk' = disk
    BY <1>10 DEF CheckFile, Storers
  <2>2. s \in Steps /\ (s = "insert" => filing[r].path \in disk)
    BY DEF Steps
  <2> HIDE DEF s
  <2> QED
    BY <1>9, <2>1, <2>2
<1>11. ASSUME NEW r \in Requests, WriteFile(r)
       PROVE  GoesOn(o)
  <2>1. filing' = [filing EXCEPT ![r] = [filing[r] EXCEPT !.step = "insert"]] /\ r \in Storers
        /\ filing[r].path \in disk'
    BY <1>11 DEF WriteFile, Storers
  <2>2. "insert" \in Steps
    BY DEF Steps
  <2> QED
    BY <1>9, <2>1, <2>2
<1>12. ASSUME NEW r \in Requests,
              InsertUpload(r) \/ InsertFlight(r) \/ Finishes(r) \/ StoreFails(r) \/ Unlink(r)
       PROVE  GoesOn(o)
  BY <1>4, <1>6, <1>12 DEF InsertUpload, InsertFlight, Finishes, FinishAttach, StoreFails, Unlink
<1>13. ASSUME NEW r \in Requests, NEW paths,
              UNCHANGED filing \/ Begin(r, [step |-> "unlink", paths |-> paths])
       PROVE  GoesOn(o)
  <2>1. [step |-> "unlink", paths |-> paths].step \notin Steps
    BY DEF Steps
  <2> QED
    BY <1>3, <1>4, <1>13, <2>1 DEF Begin
<1>14. ASSUME NEW r \in Requests, DropsUploads(r) \/ DropsFlight(r) \/ DropsTask(r)
       PROVE  GoesOn(o)
  <2>1. \E paths : UNCHANGED filing \/ Begin(r, [step |-> "unlink", paths |-> paths])
    BY <1>14 DEF DropsUploads, DropsFlight, DropsTask, DeleteUploads, DeleteFlight, DeleteTask, DeleteRows
  <2> QED
    BY <1>13, <2>1
<1>15. ASSUME NEW r \in Requests, Resyncs(r)
       PROVE  GoesOn(o)
  BY <1>3, <1>15 DEF Resyncs, SyncAgain
<1>16. ASSUME NEW p \in Pilots, ManualFlight(p)
       PROVE  GoesOn(o)
  BY <1>3, <1>16 DEF ManualFlight
<1> QED
  BY FileSteps, <1>7, <1>8, <1>10, <1>11, <1>12, <1>14, <1>15, <1>16

\* A request that names a path and does not begin to, named it before.
LEMMA StoringGoesOn ==
    ASSUME FileTypeOK, FileShape, FileNext, NEW path, NEW o \in Storing(path)'
    PROVE  \/ o \in Storing(path) /\ (filing'[o].step = "insert" => filing[o].step = "insert" \/ path \in disk')
           \/ filing'[o].step = "check"
<1>1. o \in Storers' /\ filing'[o].path = path
      /\ (filing'[o].kind = "attach" => filing'[o].previous # path)
  BY DEF Storing
<1> QED
  BY <1>1, JobsGoOn DEF GoesOn, Begun, Storing

\* A request unlinks what it has deleted.
LEMMA UnlinkingGoesOn ==
    ASSUME FileTypeOK, FileShape, FileNext, NEW path, NEW o \in Unlinking(path)'
    PROVE  \/ o \in Unlinking(path)
           \/ DropsUploads(o) \/ DropsFlight(o)
<1>1. o \in Requests /\ filing'[o].step = "unlink" /\ path \in filing'[o].paths
  BY DEF Unlinking
<1>2. filing \in [Requests -> StoreJob \cup UnlinkJob \cup {Idle}]
  BY DEF FileShape
<1>3. ASSUME filing'[o] = filing[o]
      PROVE  o \in Unlinking(path)
  BY <1>1, <1>3 DEF Unlinking
<1>4. ASSUME NEW r \in Requests, NEW job, filing' = [filing EXCEPT ![r] = job], job.step # "unlink"
      PROVE  o \in Unlinking(path)
  <2>1. o # r
    BY <1>1, <1>2, <1>4
  <2> QED
    BY <1>1, <1>2, <1>3, <1>4, <2>1
<1>5. ASSUME NEW r \in Requests,
             \/ Stores(r) \/ Attaches(r) \/ \E p \in Pilots, c \in Contents : StoreFlight(r, p, c)
      PROVE  o \in Unlinking(path)
  <2>1. PICK job : Begin(r, job) /\ job.step = "check"
    <3>1. CASE Stores(r)
      BY <3>1 DEF Stores
    <3> QED
      BY <1>5, <3>1, BegunByOwner
  <2> QED
    BY <1>4, <2>1 DEF Begin
<1>6. ASSUME NEW r \in Requests,
             InsertUpload(r) \/ InsertFlight(r) \/ Finishes(r) \/ StoreFails(r) \/ Unlink(r)
      PROVE  o \in Unlinking(path)
  <2>1. Idle.step # "unlink"
    BY DEF Idle
  <2> QED
    BY <1>4, <1>6, <2>1 DEF InsertUpload, InsertFlight, Finishes, FinishAttach, StoreFails, Unlink
<1>7. ASSUME NEW r \in Requests, CheckFile(r) \/ WriteFile(r)
      PROVE  o \in Unlinking(path)
  <2>1. r \in Storers
    BY <1>7 DEF CheckFile, WriteFile, Storers
  <2>2. filing[r] \in StoreJob
    BY <2>1, FilingJob
  <2>3. PICK s \in Steps : filing' = [filing EXCEPT ![r] = [filing[r] EXCEPT !.step = s]]
    <3>1. CASE CheckFile(r)
      <4>1. filing' = [filing EXCEPT ![r].step = IF filing[r].path \in disk THEN "insert" ELSE "write"]
        BY <3>1 DEF CheckFile
      <4> QED
        BY <4>1 DEF Steps
    <3>2. CASE WriteFile(r)
      BY <3>2 DEF WriteFile, Steps
    <3> QED
      BY <1>7, <3>1, <3>2
  <2>4. [filing[r] EXCEPT !.step = s].step = s
    BY <2>2, Advanced
  <2>5. s # "unlink"
    BY DEF Steps
  <2> QED
    BY <1>4, <2>3, <2>4, <2>5
<1>8. ASSUME NEW r \in Requests, DropsTask(r)
      PROVE  o \in Unlinking(path)
  <2>1. UNCHANGED filing
    BY <1>8 DEF DropsTask, DeleteTask, DeleteRows
  <2> QED
    BY <1>3, <2>1
<1>9. ASSUME NEW r \in Requests, DropsUploads(r) \/ DropsFlight(r)
      PROVE  o \in Unlinking(path) \/ o = r
  <2>1. \E paths : UNCHANGED filing \/ Begin(r, [step |-> "unlink", paths |-> paths])
    BY <1>9 DEF DropsUploads, DropsFlight, DeleteUploads, DeleteFlight, DeleteRows
  <2> QED
    BY <1>1, <1>2, <1>3, <2>1 DEF Begin
<1>10. ASSUME NEW r \in Requests, Resyncs(r)
       PROVE  o \in Unlinking(path)
  BY <1>3, <1>10 DEF Resyncs, SyncAgain
<1>11. ASSUME NEW p \in Pilots, ManualFlight(p)
       PROVE  o \in Unlinking(path)
  BY <1>3, <1>11 DEF ManualFlight
<1> QED
  BY FileSteps, <1>5, <1>6, <1>7, <1>8, <1>9, <1>10, <1>11

-----------------------------------------------------------------------------
(* The files that are stored.                                              *)

\* What a deletion will unlink, no row names: the path is not torn, so each of
\* its uploads has one flight with it, and not shared, so no other flight has.
LEMMA DroppedUnnamed ==
    ASSUME FileTypeOK, FileShape, AllFollowed,
           NEW path \in Paths \ torn, NamedOnce(path),
           NEW o \in Unlinking(path)', o \notin Unlinking(path), DropsUploads(o) \/ DropsFlight(o)
    PROVE  \A f \in flights' : f.path # path
<1>1. o \in Requests /\ filing'[o].step = "unlink" /\ path \in filing'[o].paths
  BY DEF Unlinking
<1>2. ASSUME UNCHANGED filing
      PROVE  FALSE
  BY <1>1, <1>2 DEF Unlinking
<1>3. ASSUME NEW paths, Begin(o, [step |-> "unlink", paths |-> paths])
      PROVE  path \in paths
  BY <1>1, <1>3 DEF Begin, FileShape
<1>4. ASSUME NEW us \in SUBSET uploads, NEW kept, NEW paths, DeleteRows(o, us, kept, paths)
      PROVE  /\ flights' = (flights \ LinkedTo(us)) \cup kept
             /\ path \in paths
  <2>1. IF paths = {} THEN UNCHANGED filing ELSE Begin(o, [step |-> "unlink", paths |-> paths])
    BY <1>4 DEF DeleteRows
  <2>2. path \in paths
    BY <1>2, <1>3, <2>1
  <2> QED
    BY <1>4, <2>2 DEF DeleteRows
<1>5. CASE DropsUploads(o)
  <2>1. PICK us \in SUBSET uploads : DeleteRows(o, us, Detached(us), {PathOf(u) : u \in us} \ Preserved(us))
    BY <1>5 DEF DropsUploads, DeleteUploads
  <2>2. path \in {PathOf(u) : u \in us} /\ path \notin Preserved(us)
    BY <1>4, <2>1
  <2>3. PICK u \in us : path = PathOf(u)
    BY <2>2
  <2>4. Followed(u)
    BY <2>3 DEF AllFollowed
  <2>5. \E f \in LinkedTo({u}) : f.path = PathOf(u)
    BY <2>4 DEF Followed
  <2> QED
    BY <2>2, <2>3, <2>5 DEF Preserved
<1>6. ASSUME NEW e \in flights, DeleteFlight(o, e)
      PROVE  \A f \in flights' : f.path # path
  <2> DEFINE us == {u \in uploads : u.id = e.upload}
  <2>1. CASE us # {}
    <3>1. DeleteRows(o, us, {}, {PathOf(u) : u \in us})
      BY <1>6, <2>1 DEF DeleteFlight
    <3>2. e \in LinkedTo(us)
      BY <2>1 DEF LinkedTo
    <3>3. us \in SUBSET uploads /\ \A u \in us : u.id = e.upload
      OBVIOUS
    <3> HIDE DEF us
    <3>4. flights' = flights \ LinkedTo(us) /\ path \in {PathOf(u) : u \in us}
      BY <1>4, <3>1, <3>3
    <3>5. PICK u \in us : path = PathOf(u)
      BY <3>4
    <3>6. Followed(u)
      BY <3>3, <3>5 DEF AllFollowed
    <3>7. e \in LinkedTo({u})
      BY <3>3 DEF LinkedTo
    <3>8. e.path = path
      BY <3>5, <3>6, <3>7 DEF Followed
    <3> QED
      BY <3>2, <3>4, <3>8 DEF NamedOnce
  <2>2. CASE us = {}
    <3>1. /\ flights' = flights \ {e}
          /\ IF e.path = None THEN UNCHANGED filing ELSE Begin(o, [step |-> "unlink", paths |-> {e.path}])
      BY <1>6, <2>2 DEF DeleteFlight
    <3>2. path = e.path
      BY <1>2, <1>3, <3>1
    <3> QED
      BY <3>1, <3>2 DEF NamedOnce
  <2> QED
    BY <2>1, <2>2
<1> QED
  BY <1>5, <1>6 DEF DropsFlight

\* A file stays while a row names it: the rows only get a path that a row had
\* or that the request has found or written, and one that is unlinked has none.
LEMMA KeptStays ==
    ASSUME FileTypeOK, FileShape, AllFollowed, AllNamedOnce, AllKept, FileNext
    PROVE  AllKept'
<1> SUFFICES ASSUME NEW path \in Paths \ (shared' \cup torn')
             PROVE  KeptOn(path)'
  BY DEF AllKept, Paths
<1>1. path \notin shared /\ path \notin torn
  BY HistoryGrows
<1>2. NamedOnce(path) /\ KeptOn(path)
  BY <1>1 DEF AllNamedOnce, AllKept
<1>3. path # None
  BY PathShape
<1>4. \A o \in Unlinking(path)' : o \notin Unlinking(path) => \A f \in flights' : f.path # path
  BY <1>1, <1>2, UnlinkingGoesOn, DroppedUnnamed
<1>5. ASSUME \A f \in flights' : f.path = path =>
                \/ \E g \in flights : g.path = path
                \/ \E r \in Storing(path) : filing[r].step = "insert",
             path \in disk => path \in disk'
      PROVE  KeptOn(path)'
  <2>1. ASSUME NEW f \in flights', f.path = path
        PROVE  path \in disk /\ Unlinking(path) = {}
    BY <1>2, <1>5, <2>1 DEF KeptOn, NamedOnce
  <2>2. ASSUME NEW f \in flights', f.path = path
        PROVE  path \in disk' /\ Unlinking(path)' = {}
    BY <1>4, <1>5, <2>1, <2>2
  <2>3. ASSUME NEW o \in Storing(path)', filing'[o].step = "insert"
        PROVE  path \in disk'
    BY <1>2, <1>5, <2>3, StoringGoesOn DEF KeptOn
  <2> QED
    BY <2>2, <2>3 DEF KeptOn
<1>6. ASSUME \A f \in flights' : f.path # path, Storing(path) = {}
      PROVE  KeptOn(path)'
  <2>1. ASSUME NEW o \in Storing(path)', filing'[o].step = "insert"
        PROVE  FALSE
    BY <1>6, <2>1, StoringGoesOn
  <2> QED
    BY <1>6, <2>1 DEF KeptOn
<1>7. ASSUME NEW r \in Requests,
             \/ Stores(r) \/ Attaches(r) \/ StoreFails(r) \/ CheckFile(r) \/ WriteFile(r)
             \/ \E p \in Pilots, c \in Contents : StoreFlight(r, p, c)
      PROVE  KeptOn(path)'
  <2>1. flights' = flights /\ disk \subseteq disk'
    BY <1>7 DEF Stores, Attaches, AttachFile, StoreFails, CheckFile, WriteFile, StoreFlight
  <2> QED
    BY <1>5, <2>1
<1>8. ASSUME NEW p \in Pilots, ManualFlight(p)
      PROVE  KeptOn(path)'
  <2>1. disk' = disk /\ \A f \in flights' : f \in flights \/ f.path = None
    BY <1>8 DEF ManualFlight
  <2> QED
    BY <1>3, <1>5, <2>1
<1>9. ASSUME NEW r \in Requests, NEW u \in uploads, SyncAgain(r, u), disk' = disk
      PROVE  KeptOn(path)'
  <2>1. \A g \in flights' :
           \/ g \in flights \/ g = Synced(u, lastFlight + 1)
           \/ \E f \in LinkedTo({u}) : g = [Synced(u, f.id) EXCEPT !.points = f.points]
    BY <1>9 DEF SyncAgain
  <2>2. ASSUME NEW g \in flights', g \notin flights
        PROVE  g.path = PathOf(u)
    <3>1. CASE g = Synced(u, lastFlight + 1)
      BY <3>1, SyncedShape
    <3>2. ASSUME NEW f \in LinkedTo({u}), g = [Synced(u, f.id) EXCEPT !.points = f.points]
          PROVE  g.path = PathOf(u)
      BY <3>2, SyncedShape
    <3> QED
      BY <2>1, <2>2, <3>1, <3>2
  <2>3. path = PathOf(u) => \E g \in flights : g.path = path
    BY <1>1 DEF AllFollowed, Followed
  <2> QED
    BY <1>5, <1>9, <2>2, <2>3
<1>10. ASSUME NEW r \in Requests, InsertUpload(r)
       PROVE  KeptOn(path)'
  <2> DEFINE job == filing[r]
             row == [id |-> lastUpload + 1, task |-> job.task, pilot |-> job.pilot,
                     content |-> ContentOf(job.path), name |-> job.path[3]]
  <2>1. job \in UploadJob /\ r \in Storers /\ job.step = "insert" /\ job.kind = "upload"
    BY <1>10, FilingJob DEF InsertUpload, Storers
  <2>2. PathOf(row) = job.path
    <3>1. row.content = ContentOf(job.path) /\ row.name = job.path[3] /\ job.path \in IgcPaths
      BY <2>1 DEF UploadJob
    <3> HIDE DEF row
    <3> QED
      BY <3>1, PathShape DEF PathOf
  <2>3. \A g \in flights' : g \in flights \/ g = Synced(row, lastFlight + 1) \/ g = Synced(row, job.flight)
    BY <1>10 DEF InsertUpload
  <2>4. disk' = disk
    BY <1>10 DEF InsertUpload
  <2> HIDE DEF row
  <2>5. \A g \in flights' : g \in flights \/ g.path = job.path
    BY <2>2, <2>3, SyncedShape
  <2>6. r \in Storing(job.path)
    BY <2>1 DEF Storing
  <2> QED
    BY <1>5, <2>1, <2>4, <2>5, <2>6
<1>11. ASSUME NEW r \in Requests, InsertFlight(r)
       PROVE  KeptOn(path)'
  <2>1. r \in Storing(filing[r].path) /\ filing[r].step = "insert"
    BY <1>11 DEF InsertFlight, Storing, Storers
  <2>2. disk' = disk /\ \A g \in flights' : g \in flights \/ g.path = filing[r].path
    BY <1>11 DEF InsertFlight
  <2> QED
    BY <1>5, <2>1, <2>2
<1>12. ASSUME NEW r \in Requests, DropsUploads(r) \/ DropsTask(r) \/ DropsFlight(r)
       PROVE  KeptOn(path)'
  <2>1. disk' = disk
    BY <1>12 DEF DropsUploads, DropsFlight, DropsTask, DeleteUploads, DeleteFlight, DeleteTask, DeleteRows
  <2>2. \A g \in flights' :
           \/ g \in flights
           \/ \E f \in flights : g = [f EXCEPT !.upload = 0, !.points = TRUE] \/ g = [f EXCEPT !.upload = 0]
    <3>1. CASE DropsUploads(r)
      BY <3>1 DEF DropsUploads, DeleteUploads, DeleteRows, Detached, LinkedTo
    <3>2. CASE DropsFlight(r)
      BY <3>2 DEF DropsFlight, DeleteFlight, DeleteRows
    <3>3. CASE DropsTask(r)
      BY <3>3 DEF DropsTask, DeleteTask, DeleteRows, LinkedTo
    <3> QED
      BY <1>12, <3>1, <3>2, <3>3
  <2>3. ASSUME NEW f \in flights
        PROVE  [f EXCEPT !.upload = 0, !.points = TRUE].path = f.path /\ [f EXCEPT !.upload = 0].path = f.path
    BY DEF FileTypeOK
  <2>4. ASSUME NEW g \in flights', g \notin flights
        PROVE  \E f \in flights : g.path = f.path
    <3>1. PICK f \in flights : g = [f EXCEPT !.upload = 0, !.points = TRUE] \/ g = [f EXCEPT !.upload = 0]
      BY <2>2, <2>4
    <3>2. g.path = f.path
      BY <2>3, <3>1
    <3> QED
      BY <3>2
  <2> QED
    BY <1>5, <2>1, <2>4
<1>13. ASSUME NEW r \in Requests, Unlink(r)
       PROVE  KeptOn(path)'
  <2>1. flights' = flights /\ disk' = disk \ filing[r].paths /\ filing[r].step = "unlink"
    BY <1>13 DEF Unlink
  <2>2. CASE path \in filing[r].paths
    <3>1. r \in Unlinking(path)
      BY <2>1, <2>2 DEF Unlinking
    <3>2. Storing(path) = {} /\ \A f \in flights : f.path # path
      BY <1>2, <3>1 DEF KeptOn, NamedOnce
    <3> QED
      BY <1>6, <2>1, <3>2
  <2>3. CASE path \notin filing[r].paths
    BY <1>5, <2>1, <2>3
  <2> QED
    BY <2>2, <2>3
<1>14. ASSUME NEW r \in Requests, Finishes(r)
       PROVE  KeptOn(path)'
  <2> DEFINE job == filing[r]
             given(f) == IF job.path = job.previous THEN f.path ELSE job.path
  <2>1. PICK commits \in BOOLEAN, f \in flights :
           /\ disk' = disk \ Previous(job)
           /\ flights' = IF commits THEN (flights \ {f}) \cup {[f EXCEPT !.path = given(f), !.points = TRUE]}
                                    ELSE flights
           /\ torn' = torn \cup (IF commits /\ f.path = job.previous THEN {} ELSE Previous(job))
                          \cup (IF f.upload = 0 THEN {} ELSE {f.path})
    BY <1>14 DEF Finishes, FinishAttach
  <2>2. r \in Storers /\ job.step = "insert" /\ job.kind = "attach"
    BY <1>14 DEF Finishes, FinishAttach, Storers
  <2>3. [f EXCEPT !.path = given(f), !.points = TRUE].path = given(f)
    BY DEF FileTypeOK
  <2>4. CASE path \in Previous(job)
    <3>1. commits /\ f.path = job.previous
      BY <2>1, <2>4
    <3>2. path = job.previous /\ path # job.path
      BY <2>4 DEF Previous
    <3>3. Storing(path) = {} /\ \A g \in flights \ {f} : g.path # path
      BY <1>2, <3>1, <3>2 DEF NamedOnce
    <3>4. \A g \in flights' : g.path # path
      BY <2>1, <2>3, <3>1, <3>2, <3>3
    <3> QED
      BY <1>6, <3>3, <3>4
  <2>5. CASE path \notin Previous(job)
    <3>1. path \in disk => path \in disk'
      BY <2>1, <2>5
    <3>2. job.path # job.previous => r \in Storing(job.path)
      BY <2>2 DEF Storing
    <3>3. ASSUME NEW g \in flights', g.path = path
          PROVE  \/ \E h \in flights : h.path = path
                 \/ \E o \in Storing(path) : filing[o].step = "insert"
      <4>1. CASE g \in flights
        BY <3>3, <4>1
      <4>2. CASE g \notin flights
        <5>1. g = [f EXCEPT !.path = given(f), !.points = TRUE]
          <6> HIDE DEF given
          <6> QED
            BY <2>1, <3>3, <4>2
        <5>2. path = given(f)
          BY <2>3, <3>3, <5>1
        <5> QED
          BY <2>2, <3>2, <5>2
      <4> QED
        BY <4>1, <4>2
    <3> QED
      BY <1>5, <3>1, <3>3
  <2> QED
    BY <2>4, <2>5
<1> QED
  BY FileSteps, <1>7, <1>8, <1>9, <1>10, <1>11, <1>12, <1>13, <1>14 DEF Resyncs

-----------------------------------------------------------------------------
(* Uploads of one file for one task.                                       *)

LEMMA NewUpload ==
    ASSUME FileTypeOK, FileShape, FileNext, NEW u \in uploads', u \notin uploads
    PROVE  \E r \in Uploading :
              /\ uploads' = uploads \cup {u} /\ <<u.task, u.pilot, u.content>> = KeyOf(r)
              /\ filing'[r] = Idle
<1>1. ASSUME NEW r \in Requests, InsertUpload(r)
      PROVE  /\ r \in Uploading /\ filing'[r] = Idle
             /\ uploads' = uploads \cup {u} /\ <<u.task, u.pilot, u.content>> = KeyOf(r)
  <2> DEFINE job == filing[r]
             row == [id |-> lastUpload + 1, task |-> job.task, pilot |-> job.pilot,
                     content |-> ContentOf(job.path), name |-> job.path[3]]
  <2>1. uploads' = uploads \cup {row} /\ r \in Uploading
    BY <1>1 DEF InsertUpload, Uploading, Storers
  <2>2. filing'[r] = Idle
    BY <1>1 DEF InsertUpload, FileShape
  <2>3. <<row.task, row.pilot, row.content>> = KeyOf(r)
    BY DEF KeyOf
  <2>4. u = row
    BY <2>1
  <2> QED
    BY <2>1, <2>2, <2>3, <2>4
<1>2. ASSUME NEW r \in Requests,
             \/ Stores(r) \/ Resyncs(r) \/ Attaches(r) \/ Finishes(r)
             \/ \E p \in Pilots, c \in Contents : StoreFlight(r, p, c)
             \/ CheckFile(r) \/ WriteFile(r) \/ InsertFlight(r) \/ StoreFails(r) \/ Unlink(r)
      PROVE  uploads' = uploads
  BY <1>2 DEF Stores, Resyncs, SyncAgain, Attaches, AttachFile, Finishes, FinishAttach, StoreFlight,
              CheckFile, WriteFile, InsertFlight, StoreFails, Unlink
<1>3. ASSUME NEW r \in Requests, DropsUploads(r) \/ DropsFlight(r) \/ DropsTask(r)
      PROVE  uploads' \subseteq uploads
  BY <1>3 DEF DropsUploads, DropsFlight, DropsTask, DeleteUploads, DeleteFlight, DeleteTask, DeleteRows
<1>4. ASSUME NEW p \in Pilots, ManualFlight(p)
      PROVE  uploads' = uploads
  BY <1>4 DEF ManualFlight
<1> QED
  BY FileSteps, <1>1, <1>2, <1>3, <1>4

\* What a request begins to store while another one stores it, overlaps.
LEMMA StoredOnceStays ==
    ASSUME FileTypeOK, FileShape, StoredOnce, FileNext
    PROVE  StoredOnce'
<1> DEFINE same(o) == SameUpload(filing[o].task, filing[o].pilot, ContentOf(filing[o].path))
<1> SUFFICES ASSUME NEW o \in Uploading', KeyOf(o)' \notin overlaps'
             PROVE  same(o)' = {} /\ \A q \in Uploading' : KeyOf(q)' = KeyOf(o)' => q = o
  BY DEF StoredOnce
<1>1. overlaps \subseteq overlaps'
  BY HistoryGrows
<1>2. ASSUME NEW q \in Uploading'
      PROVE  \/ q \in Uploading /\ KeyOf(q)' = KeyOf(q)
             \/ Stores(q)
  <2>1. q \in Storers' /\ filing'[q].kind = "upload"
    BY <1>2 DEF Uploading
  <2>2. GoesOn(q) \/ Stores(q)
    BY <2>1, JobsGoOn DEF Begun
  <2>3. ASSUME GoesOn(q)
        PROVE  q \in Uploading /\ KeyOf(q)' = KeyOf(q)
    BY <2>1, <2>3 DEF GoesOn, Uploading, KeyOf, ContentOf
  <2> QED
    BY <2>2, <2>3
<1>3. ASSUME NEW r \in Requests, Stores(r)
      PROVE  /\ same(r)' = {}
             /\ \A q \in Uploading' : q # r => q \in Uploading /\ KeyOf(q)' = KeyOf(q)
             /\ \A q \in Uploading : KeyOf(q) = KeyOf(r)' => KeyOf(r)' \in overlaps'
  <2>1. PICK t \in tasks, p \in Pilots, c \in Contents, name \in 1..MaxUploads, for \in Nat :
             /\ SameUpload(t, p, c) = {}
             /\ Begin(r, [step |-> "check", kind |-> "upload", path |-> IgcPath(c, name),
                          task |-> t, pilot |-> p, flight |-> for])
             /\ overlaps' = overlaps \cup
                   {k \in {<<t, p, c>>} : \E x \in Storers :
                       filing[x].kind = "upload" /\ <<filing[x].task, filing[x].pilot, ContentOf(filing[x].path)>> = k}
             /\ UNCHANGED uploads
    BY <1>3 DEF Stores
  <2>2. filing' = [filing EXCEPT ![r] = [step |-> "check", kind |-> "upload", path |-> IgcPath(c, name),
                                         task |-> t, pilot |-> p, flight |-> for]]
        /\ filing \in [Requests -> StoreJob \cup UnlinkJob \cup {Idle}]
    BY <2>1 DEF Begin, FileShape
  <2>3. filing'[r].task = t /\ filing'[r].pilot = p /\ filing'[r].path = IgcPath(c, name)
    BY <2>2
  <2>4. ContentOf(filing'[r].path) = c
    BY <2>3, IgcPathShape
  <2>5. same(r)' = {}
    BY <2>1, <2>3, <2>4 DEF SameUpload, ContentOf
  <2>6. KeyOf(r)' = <<t, p, c>>
    BY <2>3, <2>4 DEF KeyOf, ContentOf
  <2>7. ASSUME NEW q \in Uploading', q # r
        PROVE  q \in Uploading /\ KeyOf(q)' = KeyOf(q)
    <3>1. filing'[q] = filing[q]
      BY <2>2, <2>7 DEF Uploading, Storers
    <3> QED
      BY <2>7, <3>1 DEF Uploading, Storers, KeyOf, ContentOf
  <2>8. ASSUME NEW q \in Uploading, KeyOf(q) = KeyOf(r)'
        PROVE  KeyOf(r)' \in overlaps'
    <3>1. q \in Storers /\ filing[q].kind = "upload"
          /\ <<filing[q].task, filing[q].pilot, ContentOf(filing[q].path)>> = <<t, p, c>>
      BY <2>6, <2>8 DEF Uploading, KeyOf
    <3> QED
      BY <2>1, <2>6, <3>1
  <2> QED
    BY <2>5, <2>7, <2>8
<1>4. o \in Requests
  BY DEF Uploading, Storers
<1>5. CASE Stores(o)
  BY <1>3, <1>4, <1>5
<1>6. CASE o \in Uploading /\ KeyOf(o)' = KeyOf(o)
  <2>1. KeyOf(o) \notin overlaps
    BY <1>1, <1>6
  <2>2. same(o) = {} /\ \A q \in Uploading : KeyOf(q) = KeyOf(o) => q = o
    BY <1>6, <2>1 DEF StoredOnce
  <2>3. ASSUME NEW q \in Uploading', KeyOf(q)' = KeyOf(o)'
        PROVE  q = o
    <3>1. q \in Requests
      BY DEF Uploading, Storers
    <3> QED
      BY <1>2, <1>3, <1>6, <2>2, <2>3, <3>1
  <2>4. ASSUME NEW v \in same(o)'
        PROVE  FALSE
    <3>1. v \in uploads' /\ <<v.task, v.pilot, v.content>> = KeyOf(o)
      BY <1>6, <2>4 DEF SameUpload, KeyOf, ContentOf
    <3>2. CASE v \in uploads
      <4>1. v \in same(o)
        BY <3>1, <3>2 DEF SameUpload, KeyOf
      <4> QED
        BY <2>2, <4>1
    <3>3. CASE v \notin uploads
      <4>1. PICK r \in Uploading : <<v.task, v.pilot, v.content>> = KeyOf(r) /\ filing'[r] = Idle
        BY <3>1, <3>3, NewUpload
      <4>2. r = o
        BY <2>2, <3>1, <4>1
      <4>3. filing'[o].step \in {"check", "write", "insert"}
        BY DEF Uploading, Storers
      <4> QED
        BY <4>1, <4>2, <4>3 DEF Idle
    <3> QED
      BY <3>2, <3>3
  <2> QED
    BY <2>3, <2>4
<1> QED
  BY <1>2, <1>5, <1>6

LEMMA OneUploadStays ==
    ASSUME FileTypeOK, FileShape, StoredOnce, OneUploadPerFile, FileNext
    PROVE  OneUploadPerFile'
<1>1. overlaps \subseteq overlaps'
  BY HistoryGrows
<1>2. ASSUME NEW u \in uploads', NEW v \in uploads', u \notin uploads,
             u # v, u.task = v.task, u.pilot = v.pilot, u.content = v.content
      PROVE  <<u.task, u.pilot, u.content>> \in overlaps'
  <2>1. PICK r \in Uploading : uploads' = uploads \cup {u} /\ <<u.task, u.pilot, u.content>> = KeyOf(r)
    BY <1>2, NewUpload
  <2>2. v \in SameUpload(filing[r].task, filing[r].pilot, ContentOf(filing[r].path))
    BY <1>2, <2>1 DEF SameUpload, KeyOf
  <2> QED
    BY <1>1, <2>1, <2>2 DEF StoredOnce
<1> QED
  BY <1>1, <1>2 DEF OneUploadPerFile

-----------------------------------------------------------------------------
LEMMA FileInvHolds ==
    ASSUME FileInv
    PROVE  FilesHold
<1> USE DEF FileInv
<1>1. FilesKept
  <2>1. ASSUME NEW path \in {PathOf(u) : u \in uploads} \cup ({f.path : f \in flights} \ {None}),
               path \notin torn
        PROVE  \E f \in flights : f.path = path
    BY <2>1 DEF AllFollowed, Followed
  <2>2. ASSUME NEW f \in flights, f.path # None, f.path \notin shared \cup torn
        PROVE  f.path \in disk
    <3>1. f.path \in Paths
      BY <2>2 DEF FileTypeOK
    <3> QED
      BY <2>2, <3>1 DEF AllKept, KeptOn
  <2>3. \A u \in uploads : PathOf(u) # None
    BY UploadPath, PathShape
  <2> QED
    BY <2>1, <2>2, <2>3 DEF FilesKept
<1>2. LogbookFollows
  <2>1. ASSUME NEW u \in uploads, PathOf(u) \notin torn
        PROVE  /\ Cardinality(LinkedTo({u})) = 1
               /\ \A f \in LinkedTo({u}) : f.pilot = u.pilot /\ f.path = PathOf(u)
    <3>1. PICK f \in flights : LinkedTo({u}) = {f} /\ f.pilot = u.pilot /\ f.path = PathOf(u)
      BY <2>1 DEF AllFollowed, Followed
    <3> QED
      BY <3>1, FS_Singleton
  <2> QED
    BY <2>1 DEF LogbookFollows
<1> QED
  BY <1>1, <1>2 DEF FilesHold

LEMMA FileInvBegins ==
    ASSUME FileInit
    PROVE  FileInv
<1> USE DEF FileInit
<1>1. filing \in [Requests -> {Idle}] /\ \A r \in Requests : filing[r].step = "idle"
  BY DEF Idle
<1>2. FileTypeOK
  BY <1>1 DEF FileTypeOK
<1>3. FileShape
  BY <1>1 DEF FileShape, LinkedHaveFiles
<1>4. Storers = {} /\ Uploading = {}
  BY <1>1 DEF Storers, Uploading
<1>5. AllFollowed /\ OneUploadPerFile
  BY DEF AllFollowed, OneUploadPerFile
<1>6. AllNamedOnce /\ AllKept
  BY <1>4 DEF AllNamedOnce, NamedOnce, AllKept, KeptOn, Storing
<1>7. StoredOnce
  BY <1>4 DEF StoredOnce
<1> QED
  BY <1>2, <1>3, <1>5, <1>6, <1>7 DEF FileInv

\* While none of the variables changes, neither does the invariant.
LEMMA FileInvStutters ==
    ASSUME FileInv, UNCHANGED filevars
    PROVE  FileInv'
BY DEF FileInv, filevars, FileTypeOK, Paths, FileShape, LinkedHaveFiles, AllFollowed, Followed, LinkedTo, PathOf,
       IgcPath, AllNamedOnce, NamedOnce, Storing, Storers, Unlinking, AllKept, KeptOn, StoredOnce, Uploading, KeyOf,
       SameUpload, ContentOf, OneUploadPerFile

LEMMA FileInvariant == FileSpec => []FileInv
<1>1. FileInit => FileInv
  BY FileInvBegins
<1>2. FileInv /\ [FileNext]_filevars => FileInv'
  <2>1. ASSUME FileInv, FileNext
        PROVE  FileInv'
    BY <2>1, TypesStay, FollowedKept, NamedOnceStays, KeptStays, StoredOnceStays, OneUploadStays DEF FileInv
  <2> QED
    BY <2>1, FileInvStutters
<1> QED
  BY <1>1, <1>2, PTL DEF FileSpec

\* Files, uploads and the logbook belong together, however uploads, attachments
\* and deletions cross: a file that a row names is stored, an upload has its one
\* flight with its file, and a pilot one upload of a file for a task, unless two
\* named the path or stored the upload at once or an attachment tore it.
THEOREM FilesAlwaysHold == FileSpec => []FilesHold
<1>1. FileInv => FilesHold
  BY FileInvHolds
<1> QED
  BY <1>1, FileInvariant, PTL

-----------------------------------------------------------------------------
(* The pages of the results.                                               *)

LEMMA LeastNumber ==
  ASSUME NEW T, T \subseteq Nat, T # {}
  PROVE  \E x \in T : \A y \in T : x <= y
<1>1. IsWellFoundedOn(OpToRel(<, Nat), Nat)
  BY NatLessThanWellFounded
<1>2. PICK x \in T : \A y \in T : <<y, x>> \notin OpToRel(<, Nat)
  BY <1>1, WFMin, Zenon
<1>3. \A y \in T : x <= y
  <2> TAKE y \in T
  <2>1. <<y, x>> \in Nat \X Nat /\ <<y, x>>[1] = y /\ <<y, x>>[2] = x
    OBVIOUS
  <2>2. <<y, x>> \in OpToRel(<, Nat) <=> <<y, x>>[1] < <<y, x>>[2]
    BY <2>1, Zenon DEF OpToRel
  <2>3. ~(y < x)
    BY <1>2, <2>1, <2>2, Zenon
  <2> QED BY <2>3
<1> QED BY <1>3, Zenon

\* The states of a loop that takes n steps, from s.
IsRun(f, n, S, s, G) ==
    f \in [0..n -> S] /\ f[0] = s /\ \A k \in 1..n : f[k] = G[k][f[k - 1]]

LEMMA UpTo ==
  ASSUME NEW n \in Nat, NEW T, 0 \in T, \A k \in 1..n : k - 1 \in T => k \in T
  PROVE  0..n \subseteq T
<1> DEFINE B == {k \in 0..n : k \notin T}
<1>1. B = {}
  <2> SUFFICES ASSUME B # {} PROVE FALSE
    OBVIOUS
  <2>1. B \subseteq Nat
    OBVIOUS
  <2>2. PICK x \in B : \A y \in B : x <= y
    BY <2>1, LeastNumber
  <2>3. x \in 1..n
    BY <2>2
  <2>4. x - 1 \notin B
    BY <2>2, <2>3
  <2> QED BY <2>2, <2>3, <2>4
<1> QED BY <1>1

LEMMA RunExists ==
  ASSUME NEW n \in Nat, NEW S, NEW s \in S, NEW G \in [1..n -> [S -> S]]
  PROVE  \E f : IsRun(f, n, S, s, G)
<1> DEFINE T == {m \in 0..n : \E f : IsRun(f, m, S, s, G)}
<1>1. 0 \in T
  <2>1. PICK f : f = [k \in 0..0 |-> s]
    OBVIOUS
  <2>2. IsRun(f, 0, S, s, G)
    BY <2>1 DEF IsRun
  <2> QED BY <2>2
<1>2. ASSUME NEW k \in 1..n, k - 1 \in T PROVE k \in T
  <2>1. PICK f : IsRun(f, k - 1, S, s, G)
    BY <1>2
  <2> DEFINE h == [j \in 0..k |-> IF j = k THEN G[k][f[k - 1]] ELSE f[j]]
  <2>2. f[k - 1] \in S
    BY <2>1 DEF IsRun
  <2>3. G[k][f[k - 1]] \in S
    BY <2>2
  <2>4. \A j \in 0..k : j # k => j \in 0..k - 1
    OBVIOUS
  <2>5. \A j \in 0..k : h[j] = IF j = k THEN G[k][f[k - 1]] ELSE f[j]
    OBVIOUS
  <2>6. h \in [0..k -> S]
    BY <2>1, <2>3, <2>4 DEF IsRun
  <2> HIDE DEF h
  <2>7. h[0] = s
    BY <2>1, <2>5 DEF IsRun
  <2>8. ASSUME NEW j \in 1..k PROVE h[j] = G[j][h[j - 1]]
    <3>1. h[j - 1] = f[j - 1]
      BY <2>5
    <3>2. CASE j = k
      BY <2>5, <3>1, <3>2
    <3>3. CASE j # k
      <4>1. j \in 1..k - 1
        BY <3>3
      <4> QED BY <2>1, <2>5, <3>1, <3>3, <4>1 DEF IsRun
    <3> QED BY <3>2, <3>3
  <2>9. IsRun(h, k, S, s, G)
    BY <2>6, <2>7, <2>8 DEF IsRun
  <2> QED BY <2>9
<1>3. 0..n \subseteq T
  <2> HIDE DEF T
  <2> QED BY <1>1, <1>2, UpTo
<1> QED BY <1>3

LEMMA RunStays ==
  ASSUME NEW n \in Nat, NEW S, NEW s \in S, NEW G \in [1..n -> [S -> S]],
         NEW h, h = [k \in 0..n |-> h[k]], h[0] = s, \A k \in 1..n : h[k - 1] \in S => h[k] = G[k][h[k - 1]]
  PROVE  IsRun(h, n, S, s, G)
<1> DEFINE T == {k \in 0..n : h[k] \in S}
<1>1. 0 \in T
  OBVIOUS
<1>2. ASSUME NEW k \in 1..n, k - 1 \in T PROVE k \in T
  <2>1. h[k - 1] \in S /\ h[k] = G[k][h[k - 1]]
    BY <1>2
  <2> QED BY <2>1
<1>3. 0..n \subseteq T
  <2> HIDE DEF T
  <2> QED BY <1>1, <1>2, UpTo
<1>4. \A k \in 0..n : h[k] \in S
  BY <1>3
<1>5. \A k \in 1..n : k - 1 \in 0..n
  OBVIOUS
<1>6. h \in [0..n -> S]
  BY <1>4
<1> QED BY <1>4, <1>5, <1>6 DEF IsRun

\* Of some subsets of a finite set there is one that leaves them with any of
\* its elements.
LEMMA SmallestSubset ==
  ASSUME NEW S, IsFiniteSet(S), NEW B, B \subseteq SUBSET S, B # {}
  PROVE  \E R \in B : \A x \in R : R \ {x} \notin B
<1> DEFINE T == {Cardinality(R) : R \in B}
<1>1. \A R \in B : IsFiniteSet(R) /\ Cardinality(R) \in Nat
  BY FS_Subset, FS_CardinalityType
<1>2. T \subseteq Nat /\ T # {}
  BY <1>1
<1>3. PICK n \in T : \A m \in T : n <= m
  <2> HIDE DEF T
  <2> QED BY <1>2, LeastNumber, Zenon
<1>4. PICK R \in B : n = Cardinality(R)
  BY <1>3
<1>5. ASSUME NEW x \in R, R \ {x} \in B PROVE FALSE
  <2>1. Cardinality(R \ {x}) = Cardinality(R) - 1
    BY <1>1, <1>4, FS_RemoveElement
  <2>2. Cardinality(R \ {x}) \in T
    BY <1>5
  <2>3. Cardinality(R) <= Cardinality(R \ {x})
    BY <1>3, <1>4, <2>2
  <2>4. Cardinality(R) \in Nat
    BY <1>1, <1>4
  <2> HIDE DEF T
  <2> QED BY <2>1, <2>3, <2>4
<1> QED BY <1>5

-----------------------------------------------------------------------------
(* Folds of numbers over a finite set.                                     *)

Pick(s) == CHOOSE x \in s : TRUE

LEMMA PickIs == ASSUME NEW s, s # {} PROVE Pick(s) \in s
BY DEF Pick

IsFold(g, h, b, S) ==
    /\ g \in [SUBSET S -> Nat]
    /\ \A s \in SUBSET S : g[s] = IF s = {} THEN b ELSE h[Pick(s)][g[s \ {Pick(s)}]]

LEMMA FoldExists ==
  ASSUME NEW S, IsFiniteSet(S), NEW b \in Nat, NEW h \in [S -> [Nat -> Nat]]
  PROVE  \E g : IsFold(g, h, b, S)
<1> DEFINE Small(n) == {s \in SUBSET S : Cardinality(s) <= n}
           Holds(n, g) ==
              /\ g \in [Small(n) -> Nat]
              /\ \A s \in Small(n) : g[s] = IF s = {} THEN b ELSE h[Pick(s)][g[s \ {Pick(s)}]]
           T == {n \in Nat : ~\E g : Holds(n, g)}
<1>1. \A s \in SUBSET S : IsFiniteSet(s) /\ Cardinality(s) \in Nat
  BY FS_Subset, FS_CardinalityType
<1>2. ASSUME NEW s \in SUBSET S, s # {}
      PROVE  /\ Pick(s) \in S /\ s \ {Pick(s)} \in SUBSET S
             /\ Cardinality(s \ {Pick(s)}) = Cardinality(s) - 1
  BY <1>1, <1>2, PickIs, FS_RemoveElement
<1>3. T = {}
  <2> SUFFICES ASSUME T # {} PROVE FALSE
    OBVIOUS
  <2>1. T \subseteq Nat
    OBVIOUS
  <2>2. PICK n \in T : \A m \in T : n <= m
    <3> HIDE DEF T
    <3> QED BY <2>1, LeastNumber, Zenon
  <2>3. CASE n = 0
    <3>1. \A s \in Small(0) : s = {}
      BY <1>1, FS_EmptySet
    <3> DEFINE g == [s \in Small(0) |-> b]
    <3>2. Holds(0, g)
      BY <3>1
    <3> QED BY <2>2, <2>3, <3>2
  <2>4. CASE n # 0
    <3> n \in Nat
      BY <2>1, <2>2
    <3>1. n - 1 \in Nat /\ n - 1 \notin T
      <4> HIDE DEF T
      <4> QED BY <2>2, <2>4
    <3>2. PICK g : Holds(n - 1, g)
      BY <3>1
    <3> DEFINE k == [s \in Small(n) |-> IF s = {} THEN b ELSE h[Pick(s)][g[s \ {Pick(s)}]]]
    <3>3. ASSUME NEW s \in Small(n), s # {}
          PROVE  s \ {Pick(s)} \in Small(n - 1) /\ Pick(s) \in S
      <4>1. Cardinality(s) \in Nat /\ Cardinality(s) <= n
        BY <1>1
      <4>2. Cardinality(s \ {Pick(s)}) <= n - 1
        BY <1>2, <3>3, <4>1
      <4> QED BY <1>2, <3>3, <4>2
    <3>4. k \in [Small(n) -> Nat]
      <4>1. ASSUME NEW s \in Small(n), s # {}
            PROVE  h[Pick(s)][g[s \ {Pick(s)}]] \in Nat
        <5>1. g[s \ {Pick(s)}] \in Nat
          BY <3>2, <3>3, <4>1
        <5> QED BY <3>3, <4>1, <5>1
      <4> QED BY <4>1
    <3>5. \A s \in Small(n - 1) : s \in Small(n) /\ k[s] = g[s]
      <4>1. \A s \in Small(n - 1) : s \in Small(n)
        BY <1>1, <2>2
      <4>2. \A s \in Small(n - 1) : g[s] = IF s = {} THEN b ELSE h[Pick(s)][g[s \ {Pick(s)}]]
        BY <3>2
      <4> QED BY <4>1, <4>2
    <3>6. Holds(n, k)
      <4>1. ASSUME NEW s \in Small(n), s # {}
            PROVE  k[s] = h[Pick(s)][k[s \ {Pick(s)}]]
        <5>1. k[s \ {Pick(s)}] = g[s \ {Pick(s)}]
          BY <3>3, <3>5, <4>1
        <5> QED BY <4>1, <5>1
      <4>2. \A s \in Small(n) : s = {} => k[s] = b
        OBVIOUS
      <4> HIDE DEF k
      <4> QED BY <3>4, <4>1, <4>2
    <3> QED BY <2>2, <3>6
  <2> QED BY <2>3, <2>4
<1>4. Cardinality(S) \in Nat /\ Small(Cardinality(S)) = SUBSET S
  <2>1. \A s \in SUBSET S : Cardinality(s) <= Cardinality(S)
    BY FS_Subset
  <2> QED BY <1>1, <2>1
<1>5. PICK g : Holds(Cardinality(S), g)
  BY <1>3, <1>4
<1> QED BY <1>4, <1>5 DEF IsFold

IsSum(g, f, S) ==
    /\ g \in [SUBSET S -> Nat]
    /\ \A s \in SUBSET S : g[s] = IF s = {} THEN 0 ELSE f[Pick(s)] + g[s \ {Pick(s)}]

LEMMA SumIs ==
  ASSUME NEW S, IsFiniteSet(S), NEW f, \A x \in S : f[x] \in Nat
  PROVE  \E g : IsSum(g, f, S) /\ SumFunctionOnSet(f, S) = g[S]
<1> DEFINE Body(g) == [s \in SUBSET S |-> IF s = {} THEN 0 ELSE f[Pick(s)] + g[s \ {Pick(s)}]]
<1>1. \E g : IsSum(g, f, S)
  <2> DEFINE h == [x \in S |-> [a \in Nat |-> f[x] + a]]
  <2>1. h \in [S -> [Nat -> Nat]]
    OBVIOUS
  <2>2. \A x \in S, a \in Nat : h[x][a] = f[x] + a
    OBVIOUS
  <2> HIDE DEF h
  <2>3. PICK g : IsFold(g, h, 0, S)
    BY <2>1, FoldExists
  <2>4. ASSUME NEW s \in SUBSET S, s # {} PROVE g[s] = f[Pick(s)] + g[s \ {Pick(s)}]
    <3>1. Pick(s) \in S /\ g[s \ {Pick(s)}] \in Nat
      BY <2>3, <2>4, PickIs DEF IsFold
    <3> QED BY <2>2, <2>3, <2>4, <3>1 DEF IsFold
  <2>5. \A s \in SUBSET S : s = {} => g[s] = 0
    BY <2>3 DEF IsFold
  <2> QED BY <2>3, <2>4, <2>5 DEF IsFold, IsSum
<1>2. \E g : g = Body(g)
  BY <1>1 DEF IsSum
<1>3. SumFunctionOnSet(f, S) = (CHOOSE g : g = Body(g))[S]
  BY Zenon DEF SumFunctionOnSet, FoldFunctionOnSet, MapThenFoldSet, Pick
<1> DEFINE k == CHOOSE g : g = Body(g)
<1>4. k = Body(k)
  BY <1>2
<1>5. PICK g : IsSum(g, f, S)
  BY <1>1
<1>6. \A s \in SUBSET S : k[s] = IF s = {} THEN 0 ELSE f[Pick(s)] + k[s \ {Pick(s)}]
  <2> HIDE DEF k
  <2> QED BY <1>4
<1>7. \A s \in SUBSET S : k[s] = g[s]
  <2> HIDE DEF k
  <2> DEFINE B == {s \in SUBSET S : k[s] # g[s]}
  <2> SUFFICES ASSUME B # {} PROVE FALSE
    OBVIOUS
  <2>1. PICK R \in B : \A x \in R : R \ {x} \notin B
    <3>1. B \subseteq SUBSET S
      OBVIOUS
    <3> HIDE DEF B
    <3> QED BY <3>1, SmallestSubset
  <2>2. CASE R = {}
    BY <1>5, <1>6, <2>1, <2>2 DEF IsSum
  <2>3. CASE R # {}
    <3>1. Pick(R) \in R
      BY <2>3, PickIs
    <3>2. k[R \ {Pick(R)}] = g[R \ {Pick(R)}]
      BY <2>1, <3>1
    <3> QED BY <1>5, <1>6, <2>1, <2>3, <3>2 DEF IsSum
  <2> QED BY <2>2, <2>3
<1>8. S \in SUBSET S
  OBVIOUS
<1> HIDE DEF k
<1>9. k[S] = g[S]
  BY <1>7, <1>8
<1> QED BY <1>3, <1>5, <1>9 DEF k

LEMMA SumsAgree ==
  ASSUME NEW S, NEW T, IsFiniteSet(S), NEW f, NEW g, NEW h, IsSum(g, f, S), IsSum(h, f, T), NEW R, R \subseteq S, R \subseteq T
  PROVE  g[R] = h[R]
<1> DEFINE B == {s \in SUBSET S : s \subseteq T /\ g[s] # h[s]}
<1> SUFFICES ASSUME B # {} PROVE FALSE
  OBVIOUS
<1>1. PICK Q \in B : \A x \in Q : Q \ {x} \notin B
  <2>1. B \subseteq SUBSET S
    OBVIOUS
  <2> HIDE DEF B
  <2> QED BY <2>1, SmallestSubset
<1>2. CASE Q = {}
  BY <1>1, <1>2 DEF IsSum
<1>3. CASE Q # {}
  <2>1. Pick(Q) \in Q
    BY <1>3, PickIs
  <2>2. g[Q \ {Pick(Q)}] = h[Q \ {Pick(Q)}]
    BY <1>1, <2>1
  <2> QED BY <1>1, <1>3, <2>2 DEF IsSum
<1> QED BY <1>2, <1>3

\* It does not matter which element is added first.
LEMMA SumRemoves ==
  ASSUME NEW S, IsFiniteSet(S), NEW f, \A x \in S : f[x] \in Nat, NEW g, IsSum(g, f, S),
         NEW R \in SUBSET S, NEW x \in R
  PROVE  g[R] = f[x] + g[R \ {x}]
<1> DEFINE Bad(Q, y) == y \in Q /\ g[Q] # f[y] + g[Q \ {y}]
           B == {Q \in SUBSET S : \E y \in S : Bad(Q, y)}
<1> SUFFICES ASSUME B # {} PROVE FALSE
  OBVIOUS
<1>1. PICK Q \in B : \A y \in Q : Q \ {y} \notin B
  <2>1. B \subseteq SUBSET S
    OBVIOUS
  <2> HIDE DEF B
  <2> QED BY <2>1, SmallestSubset
<1>2. PICK y \in S : Bad(Q, y)
  BY <1>1
<1> DEFINE c == Pick(Q)
<1>3. c \in Q /\ Q \in SUBSET S /\ y \in Q
  BY <1>1, <1>2, PickIs
<1>4. g[Q] = f[c] + g[Q \ {c}]
  BY <1>3 DEF IsSum
<1> HIDE DEF c
<1>5. c # y
  BY <1>2, <1>4
<1>6. ~Bad(Q \ {c}, y) /\ ~Bad(Q \ {y}, c)
  BY <1>1, <1>3
<1>7. g[Q \ {c}] = f[y] + g[(Q \ {c}) \ {y}] /\ g[Q \ {y}] = f[c] + g[(Q \ {y}) \ {c}]
  BY <1>3, <1>5, <1>6
<1>8. (Q \ {c}) \ {y} = (Q \ {y}) \ {c}
  OBVIOUS
<1>9. f[c] \in Nat /\ f[y] \in Nat /\ g[(Q \ {c}) \ {y}] \in Nat
  BY <1>3 DEF IsSum
<1> DEFINE rest == g[(Q \ {c}) \ {y}]
<1>10. g[Q \ {c}] = f[y] + rest /\ g[Q \ {y}] = f[c] + rest /\ rest \in Nat
  BY <1>7, <1>8, <1>9
<1> HIDE DEF rest
<1>11. g[Q] = f[y] + g[Q \ {y}]
  BY <1>4, <1>9, <1>10
<1> QED BY <1>2, <1>11

-----------------------------------------------------------------------------
LEMMA SumIsNumber ==
  ASSUME NEW S, IsFiniteSet(S), NEW f, \A x \in S : f[x] \in Nat
  PROVE  SumFunctionOnSet(f, S) \in Nat
<1>1. PICK g : IsSum(g, f, S) /\ SumFunctionOnSet(f, S) = g[S]
  BY SumIs
<1>2. S \in SUBSET S /\ g \in [SUBSET S -> Nat]
  BY <1>1 DEF IsSum
<1> QED BY <1>1, <1>2

\* More of everything is no less in all.
LEMMA SumOfLess ==
  ASSUME NEW S, IsFiniteSet(S), NEW f, NEW e, \A x \in S : f[x] \in Nat /\ e[x] \in Nat /\ f[x] <= e[x]
  PROVE  SumFunctionOnSet(f, S) <= SumFunctionOnSet(e, S)
<1>1. PICK g : IsSum(g, f, S) /\ SumFunctionOnSet(f, S) = g[S]
  BY SumIs
<1>2. PICK h : IsSum(h, e, S) /\ SumFunctionOnSet(e, S) = h[S]
  BY SumIs
<1> DEFINE B == {s \in SUBSET S : ~(g[s] <= h[s])}
<1>3. B = {}
  <2> SUFFICES ASSUME B # {} PROVE FALSE
    OBVIOUS
  <2>1. PICK Q \in B : \A x \in Q : Q \ {x} \notin B
    <3>1. B \subseteq SUBSET S
      OBVIOUS
    <3> HIDE DEF B
    <3> QED BY <3>1, SmallestSubset
  <2>2. CASE Q = {}
    <3>1. g[Q] = 0 /\ h[Q] = 0
      BY <1>1, <1>2, <2>1, <2>2 DEF IsSum
    <3> QED BY <2>1, <3>1
  <2>3. CASE Q # {}
    <3>1. Pick(Q) \in Q
      BY <2>3, PickIs
    <3>2. g[Q \ {Pick(Q)}] <= h[Q \ {Pick(Q)}]
      BY <2>1, <3>1
    <3>3. g[Q] = f[Pick(Q)] + g[Q \ {Pick(Q)}] /\ h[Q] = e[Pick(Q)] + h[Q \ {Pick(Q)}]
      BY <1>1, <1>2, <2>1, <2>3 DEF IsSum
    <3>4. g[Q \ {Pick(Q)}] \in Nat /\ h[Q \ {Pick(Q)}] \in Nat /\ Pick(Q) \in S
      BY <1>1, <1>2, <2>1, <3>1 DEF IsSum
    <3> QED BY <2>1, <3>2, <3>3, <3>4
  <2> QED BY <2>2, <2>3
<1>4. S \in SUBSET S /\ S \notin B
  BY <1>3
<1> QED BY <1>1, <1>2, <1>4

\* What is nothing may be left out.
LEMMA SumOfRest ==
  ASSUME NEW S, IsFiniteSet(S), NEW f, \A x \in S : f[x] \in Nat, NEW R \in SUBSET S, \A x \in S \ R : f[x] = 0
  PROVE  SumFunctionOnSet(f, S) = SumFunctionOnSet(f, R)
<1>1. PICK g : IsSum(g, f, S) /\ SumFunctionOnSet(f, S) = g[S]
  BY SumIs
<1>2. IsFiniteSet(R)
  BY FS_Subset
<1>3. PICK h : IsSum(h, f, R) /\ SumFunctionOnSet(f, R) = h[R]
  BY <1>2, SumIs
<1>4. g[R] = h[R]
  BY <1>1, <1>3, SumsAgree
<1> DEFINE B == {s \in SUBSET S : R \subseteq s /\ g[s] # g[R]}
<1>5. B = {}
  <2> SUFFICES ASSUME B # {} PROVE FALSE
    OBVIOUS
  <2>1. PICK Q \in B : \A x \in Q : Q \ {x} \notin B
    <3>1. B \subseteq SUBSET S
      OBVIOUS
    <3> HIDE DEF B
    <3> QED BY <3>1, SmallestSubset
  <2>2. PICK x \in Q : x \notin R
    <3>1. R \subseteq Q /\ Q # R
      BY <2>1
    <3> QED BY <3>1
  <2>3. g[Q] = f[x] + g[Q \ {x}]
    BY <1>1, <2>1, SumRemoves
  <2>4. g[Q \ {x}] = g[R]
    BY <2>1, <2>2
  <2>5. f[x] = 0 /\ g[R] \in Nat
    BY <1>1, <2>1, <2>2 DEF IsSum
  <2> QED BY <2>1, <2>3, <2>4, <2>5
<1> QED BY <1>1, <1>3, <1>4, <1>5

LEMMA ProductIsNumber ==
  ASSUME NEW S, IsFiniteSet(S), NEW f, \A x \in S : f[x] \in Nat
  PROVE  Product(f, S) \in Nat
<1> DEFINE Body(g) == [s \in SUBSET S |-> IF s = {} THEN 1 ELSE f[Pick(s)] * g[s \ {Pick(s)}]]
           k == CHOOSE g : g = Body(g)
<1>1. \E g : g = Body(g)
  <2> DEFINE h == [x \in S |-> [a \in Nat |-> f[x] * a]]
  <2>1. h \in [S -> [Nat -> Nat]]
    OBVIOUS
  <2>2. \A x \in S, a \in Nat : h[x][a] = f[x] * a
    OBVIOUS
  <2> HIDE DEF h
  <2>3. PICK g : IsFold(g, h, 1, S)
    BY <2>1, FoldExists
  <2>4. ASSUME NEW s \in SUBSET S, s # {} PROVE g[s] = f[Pick(s)] * g[s \ {Pick(s)}]
    <3>1. Pick(s) \in S /\ g[s \ {Pick(s)}] \in Nat
      BY <2>3, <2>4, PickIs DEF IsFold
    <3> QED BY <2>2, <2>3, <2>4, <3>1 DEF IsFold
  <2>5. \A s \in SUBSET S : s = {} => g[s] = 1
    BY <2>3 DEF IsFold
  <2>6. g = [s \in SUBSET S |-> g[s]]
    BY <2>3 DEF IsFold
  <2>7. \A s \in SUBSET S : g[s] = IF s = {} THEN 1 ELSE f[Pick(s)] * g[s \ {Pick(s)}]
    BY <2>4, <2>5
  <2> QED BY <2>6, <2>7
<1>2. Product(f, S) = k[S]
  BY Zenon DEF Product, FoldFunctionOnSet, MapThenFoldSet, Pick, Times
<1>3. k = Body(k)
  BY <1>1
<1>4. \A s \in SUBSET S : k[s] = IF s = {} THEN 1 ELSE f[Pick(s)] * k[s \ {Pick(s)}]
  <2> HIDE DEF k
  <2> QED BY <1>3
<1> HIDE DEF k
<1> DEFINE B == {s \in SUBSET S : k[s] \notin Nat}
<1>5. B = {}
  <2> SUFFICES ASSUME B # {} PROVE FALSE
    OBVIOUS
  <2>1. PICK Q \in B : \A x \in Q : Q \ {x} \notin B
    <3>1. B \subseteq SUBSET S
      OBVIOUS
    <3> HIDE DEF B
    <3> QED BY <3>1, SmallestSubset
  <2>2. CASE Q = {}
    <3>1. k[Q] = 1
      BY <1>4, <2>1, <2>2
    <3> QED BY <2>1, <3>1
  <2>3. CASE Q # {}
    <3>1. Pick(Q) \in Q
      BY <2>3, PickIs
    <3>2. k[Q \ {Pick(Q)}] \in Nat /\ f[Pick(Q)] \in Nat
      BY <2>1, <3>1
    <3>3. k[Q] = f[Pick(Q)] * k[Q \ {Pick(Q)}]
      BY <1>4, <2>1, <2>3
    <3> QED BY <2>1, <3>2, <3>3
  <2> QED BY <2>2, <2>3
<1> QED BY <1>2, <1>5

\* A finite set of numbers has a greatest one.
LEMMA MaxIsNumber ==
  ASSUME NEW S, S \subseteq Nat, S # {}, IsFiniteSet(S)
  PROVE  Max(S) \in S /\ \A y \in S : y <= Max(S)
<1> DEFINE B == {R \in SUBSET S : R # {} /\ ~\E m \in R : \A y \in R : y <= m}
<1>1. B = {}
  <2> SUFFICES ASSUME B # {} PROVE FALSE
    OBVIOUS
  <2>1. PICK R \in B : \A x \in R : R \ {x} \notin B
    <3>1. B \subseteq SUBSET S
      OBVIOUS
    <3> HIDE DEF B
    <3> QED BY <3>1, SmallestSubset
  <2>2. PICK x \in R : TRUE
    BY <2>1
  <2>3. x \in Nat /\ \A y \in R : y = x \/ y \in R \ {x}
    BY <2>1
  <2>4. CASE R \ {x} = {}
    BY <2>1, <2>3, <2>4
  <2>5. CASE R \ {x} # {}
    <3>1. PICK m \in R \ {x} : \A y \in R \ {x} : y <= m
      BY <2>1, <2>2, <2>5
    <3>2. m \in Nat /\ m \in R
      BY <2>1, <3>1
    <3>3. CASE m <= x
      <4>1. \A y \in R : y <= x
        <5> TAKE y \in R
        <5>1. y \in Nat
          BY <2>1
        <5> QED BY <2>3, <3>1, <3>2, <3>3, <5>1
      <4> QED BY <2>1, <2>2, <4>1
    <3>4. CASE x <= m
      <4>1. \A y \in R : y <= m
        BY <2>3, <3>1, <3>2, <3>4
      <4> QED BY <2>1, <3>2, <4>1
    <3> QED BY <2>3, <3>2, <3>3, <3>4
  <2> QED BY <2>4, <2>5
<1>2. S \in SUBSET S /\ S \notin B
  BY <1>1
<1>3. \E m \in S : \A y \in S : y <= m
  BY <1>2
<1>4. PICK m \in S : \A y \in S : m >= y
  <2>1. PICK m \in S : \A y \in S : y <= m
    BY <1>3
  <2> QED BY <2>1
<1>5. Max(S) \in S /\ \A y \in S : Max(S) >= y
  <2> HIDE DEF B
  <2> QED BY <1>4, Zenon DEF Max
<1> QED BY <1>5

-----------------------------------------------------------------------------
(* Lexicographic orders.                                                   *)

LEMMA LessPair ==
  ASSUME NEW k, NEW l, DOMAIN k = 1..2
  PROVE  Less(k, l) <=> k[1] < l[1] \/ (k[1] = l[1] /\ k[2] < l[2])
<1>1. 1..2 = {1, 2} /\ 1..(1 - 1) = {} /\ 1..(2 - 1) = {1}
  OBVIOUS
<1> QED BY <1>1 DEF Less

LEMMA LessTriple ==
  ASSUME NEW k, NEW l, DOMAIN k = 1..3
  PROVE  Less(k, l) <=> \/ k[1] < l[1]
                        \/ k[1] = l[1] /\ (k[2] < l[2] \/ (k[2] = l[2] /\ k[3] < l[3]))
<1>1. 1..3 = {1, 2, 3} /\ 1..(1 - 1) = {} /\ 1..(2 - 1) = {1} /\ 1..(3 - 1) = {1, 2}
  OBVIOUS
<1>2. Less(k, l) <=> \E i \in {1, 2, 3} : k[i] < l[i] /\ \A j \in 1..(i - 1) : k[j] = l[j]
  BY <1>1 DEF Less
<1> DEFINE Same(i) == \A j \in 1..(i - 1) : k[j] = l[j]
<1>3. Same(1) /\ (Same(2) <=> k[1] = l[1]) /\ (Same(3) <=> k[1] = l[1] /\ k[2] = l[2])
  BY <1>1
<1> HIDE DEF Same
<1>4. Less(k, l) <=> (k[1] < l[1] /\ Same(1)) \/ (k[2] < l[2] /\ Same(2)) \/ (k[3] < l[3] /\ Same(3))
  BY <1>2 DEF Same
<1> QED BY <1>3, <1>4

LEMMA LessFour ==
  ASSUME NEW k, NEW l, DOMAIN k = 1..4
  PROVE  Less(k, l)
            <=> \/ k[1] < l[1]
                \/ /\ k[1] = l[1]
                   /\ \/ k[2] < l[2]
                      \/ k[2] = l[2] /\ (k[3] < l[3] \/ (k[3] = l[3] /\ k[4] < l[4]))
<1>1. 1..4 = {1, 2, 3, 4} /\ 1..(1 - 1) = {} /\ 1..(2 - 1) = {1} /\ 1..(3 - 1) = {1, 2} /\ 1..(4 - 1) = {1, 2, 3}
  OBVIOUS
<1>2. Less(k, l) <=> \E i \in {1, 2, 3, 4} : k[i] < l[i] /\ \A j \in 1..(i - 1) : k[j] = l[j]
  BY <1>1 DEF Less
<1> DEFINE Same(i) == \A j \in 1..(i - 1) : k[j] = l[j]
<1>3. /\ Same(1) /\ (Same(2) <=> k[1] = l[1]) /\ (Same(3) <=> k[1] = l[1] /\ k[2] = l[2])
      /\ Same(4) <=> k[1] = l[1] /\ k[2] = l[2] /\ k[3] = l[3]
  BY <1>1
<1> HIDE DEF Same
<1>4. Less(k, l) <=> \/ (k[1] < l[1] /\ Same(1)) \/ (k[2] < l[2] /\ Same(2))
                     \/ (k[3] < l[3] /\ Same(3)) \/ (k[4] < l[4] /\ Same(4))
  BY <1>2 DEF Same
<1> QED BY <1>3, <1>4

-----------------------------------------------------------------------------
(* Ranks.                                                                  *)

LEMMA Rows ==
  /\ IsFiniteSet(Competitors) /\ Competitors \subseteq Nat /\ Unranked \in Nat
  /\ Cardinality(Competitors) \in Nat /\ (Competitors # {} => Cardinality(Competitors) < Unranked)
<1>1. IsFiniteSet(1..(Unranked - 1)) /\ Cardinality(1..(Unranked - 1)) = IF 1 > Unranked - 1 THEN 0 ELSE (Unranked - 1) - 1 + 1
  BY PagesAssumption, FS_Interval
<1>2. IsFiniteSet(Competitors) /\ Cardinality(Competitors) <= Cardinality(1..(Unranked - 1))
  BY <1>1, PagesAssumption, FS_Subset
<1>3. Cardinality(Competitors) \in Nat
  BY <1>2, FS_CardinalityType
<1>4. Competitors \subseteq Nat /\ Unranked \in Nat
  BY PagesAssumption
<1>5. ASSUME Competitors # {} PROVE Cardinality(Competitors) < Unranked
  <2>1. 1 <= Unranked - 1
    <3>1. PICK n \in Competitors : TRUE
      BY <1>5
    <3>2. n \in 1..(Unranked - 1)
      BY <3>1, PagesAssumption
    <3> QED BY <1>4, <3>2
  <2>2. Cardinality(1..(Unranked - 1)) = Unranked - 1
    BY <1>1, <1>4, <2>1
  <2> QED BY <1>2, <1>3, <1>4, <2>2
<1> QED BY <1>2, <1>3, <1>4, <1>5

LEMMA RankIs ==
  ASSUME NEW t \in Sheets, NEW F \in SUBSET Competitors, NEW got \in [F -> Outcomes[t]]
  PROVE  /\ \A p \in F : RankOf(got, p) \in 1..Unranked /\ (RankOf(got, p) = Unranked <=> ~got[p].competes)
         /\ \A p, q \in F : got[p].competes /\ got[q].competes /\ RankOf(got, p) <= RankOf(got, q)
               => RankedBy(got[p]) >= RankedBy(got[q])
<1> DEFINE Before(p) == {q \in DOMAIN got : got[q].competes /\ ~Less(RankKey(got, p), RankKey(got, q))}
           Ahead(p, q) == \/ -RankedBy(got[p]) < -RankedBy(got[q])
                          \/ /\ -RankedBy(got[p]) = -RankedBy(got[q])
                             /\ \/ got[p].tie < got[q].tie
                                \/ got[p].tie = got[q].tie /\ PilotId[p] < PilotId[q]
<1>1. DOMAIN got = F /\ \A p \in F : /\ -RankedBy(got[p]) \in Int /\ got[p].tie \in Int /\ PilotId[p] \in Int
                                     /\ RankedBy(got[p]) \in Nat /\ got[p].competes \in BOOLEAN
  <2>1. \A p \in F : got[p] \in Scorings /\ p \in Competitors
    BY PagesAssumption
  <2>2. \A p \in F : /\ got[p].raw \in Nat /\ got[p].points \in Nat /\ got[p].tie \in Nat
                     /\ got[p].handicap \in BOOLEAN /\ got[p].competes \in BOOLEAN
    BY <2>1 DEF Scorings
  <2>3. \A p \in F : PilotId[p] \in Nat
    BY <2>1, PagesAssumption
  <2> QED BY <2>2, <2>3 DEF RankedBy
<1>2. ASSUME NEW p \in F, NEW q \in F
      PROVE  Less(RankKey(got, p), RankKey(got, q)) <=> Ahead(p, q)
  <2>1. Less(<<-RankedBy(got[p]), got[p].tie, PilotId[p]>>, <<-RankedBy(got[q]), got[q].tie, PilotId[q]>>) <=> Ahead(p, q)
    BY <1>1, LessTriple
  <2> QED BY <2>1 DEF RankKey
<1>3. \A p \in F : Before(p) = {q \in F : got[q].competes /\ ~Ahead(p, q)}
  BY <1>1, <1>2
<1>4. ASSUME NEW p \in F
      PROVE  /\ IsFiniteSet(Before(p)) /\ Cardinality(Before(p)) \in Nat
             /\ Cardinality(Before(p)) < Unranked
             /\ got[p].competes => Cardinality(Before(p)) >= 1
  <2>1. Before(p) \subseteq Competitors /\ Competitors # {}
    BY <1>1
  <2>2. IsFiniteSet(Before(p)) /\ Cardinality(Before(p)) <= Cardinality(Competitors)
    BY <2>1, Rows, FS_Subset
  <2>3. Cardinality(Before(p)) \in Nat
    BY <2>2, FS_CardinalityType
  <2>4. ASSUME got[p].competes PROVE Cardinality(Before(p)) >= 1
    <3>1. p \in Before(p)
      BY <1>1, <1>3, <2>4
    <3>2. Cardinality(Before(p)) # 0
      BY <2>2, <3>1, FS_EmptySet
    <3> QED BY <2>3, <3>2
  <2> HIDE DEF Before
  <2> QED BY <2>1, <2>2, <2>3, <2>4, Rows
<1>5. \A p \in F : RankOf(got, p) = IF ~got[p].competes THEN Unranked ELSE Cardinality(Before(p))
  BY DEF RankOf
<1>6. ASSUME NEW p \in F, NEW q \in F, got[p].competes, got[q].competes, RankedBy(got[p]) < RankedBy(got[q])
      PROVE  Cardinality(Before(q)) < Cardinality(Before(p))
  <2>1. Ahead(q, p) /\ ~Ahead(p, q)
    BY <1>1, <1>6
  <2>2. Before(q) \subseteq Before(p)
    <3> SUFFICES ASSUME NEW x \in Before(q) PROVE x \in Before(p)
      OBVIOUS
    <3>1. x \in F /\ got[x].competes /\ ~Ahead(q, x)
      BY <1>3
    <3>2. ~Ahead(p, x)
      BY <1>1, <2>1, <3>1
    <3> QED BY <1>3, <3>1, <3>2
  <2>3. p \in Before(p) /\ p \notin Before(q)
    BY <1>1, <1>3, <1>6, <2>1
  <2>4. Before(q) # Before(p)
    BY <2>3
  <2>5. IsFiniteSet(Before(p))
    BY <1>4
  <2>6. Cardinality(Before(p)) \in Nat /\ Cardinality(Before(q)) \in Nat
    BY <1>4
  <2> HIDE DEF Before
  <2>7. Cardinality(Before(q)) <= Cardinality(Before(p)) /\ Cardinality(Before(q)) # Cardinality(Before(p))
    BY <2>2, <2>4, <2>5, FS_Subset
  <2> QED BY <2>6, <2>7
<1> HIDE DEF Before, Ahead
<1>7. \A p \in F : RankOf(got, p) \in 1..Unranked /\ (RankOf(got, p) = Unranked <=> ~got[p].competes)
  BY <1>1, <1>4, <1>5, Rows
<1>8. ASSUME NEW p \in F, NEW q \in F, got[p].competes, got[q].competes, RankOf(got, p) <= RankOf(got, q)
      PROVE  RankedBy(got[p]) >= RankedBy(got[q])
  BY <1>1, <1>4, <1>5, <1>6, <1>8
<1> QED BY <1>7, <1>8

-----------------------------------------------------------------------------
(* The rows of a task: of one scoring unless rescorings crossed.           *)

\* A row of a task, as a scoring makes it and as it stays but for its state.
IsRow(t, r) ==
    /\ r \in ResultOf(t)
    /\ r.rank = Unranked <=> ~r.outcome.competes

AreRows(t, rows) ==
    /\ rows \in [Competitors -> ResultOf(t) \cup {NoResult}]
    /\ \A p \in Competitors : rows[p] # NoResult => IsRow(t, rows[p])

\* Rows of one scoring, ranked as they were scored
OfOneScoring(rows) ==
    /\ \A p \in Competitors : rows[p] # NoResult => rows[p].latest
    /\ \A p, q \in Competitors :
          /\ rows[p] # NoResult /\ rows[q] # NoResult
          /\ rows[p].rank # Unranked /\ rows[q].rank # Unranked /\ rows[p].rank <= rows[q].rank
          => RankedBy(rows[p].outcome) >= RankedBy(rows[q].outcome)

Listings == [Sheets -> [status : {"draft", "published"}, practice : BOOLEAN]]

Typed ==
    /\ listing \in Listings
    /\ results = [t \in Sheets |-> results[t]]
    /\ \A t \in Sheets : AreRows(t, results[t])
    /\ roster \subseteq Competitors
    /\ meet \in Settings
    /\ rescoring \in [Requests -> Rescorings \cup {None}]
    /\ mixed \subseteq Sheets

\* Where no rescoring was crossed the rows are of one scoring; and after its
\* DELETE, until another one commits, a rescoring has seen all rows.
PagesInv ==
    /\ Typed
    /\ \A t \in Sheets \ mixed : OfOneScoring(results[t])
    /\ \A r \in Requests, t \in Sheets :
          Rescoring(r, t, "deleted") /\ ~rescoring[r].crossed => WithResult(t) \subseteq rescoring[r].doomed

NoRows == [p \in Competitors |-> NoResult]

LEMMA NothingIsRows == ASSUME NEW t \in Sheets PROVE AreRows(t, NoRows) /\ OfOneScoring(NoRows)
BY DEF AreRows, NoRows, OfOneScoring

\* Rows of a rescoring, and those it did not delete.
LEMMA ReplacedAre ==
  ASSUME Typed, NEW r, NEW t \in Sheets, NEW F \in SUBSET Competitors, NEW got \in [F -> Outcomes[t]]
  PROVE  /\ AreRows(t, Replaced(r, t, got))
         /\ Survivors(r, t) = {} => OfOneScoring(Replaced(r, t, got))
<1> DEFINE rows == Replaced(r, t, got)
           S == Survivors(r, t)
           Old(p) == [results[t][p] EXCEPT !.latest = FALSE]
<1>1. DOMAIN got = F
  OBVIOUS
<1>2. \A p \in Competitors : rows[p] = IF p \in F THEN Fresh(got, p) ELSE IF p \in S THEN Old(p) ELSE NoResult
  BY <1>1 DEF Replaced
<1>3. ASSUME NEW p \in F
      PROVE  /\ Fresh(got, p) \in ResultOf(t) /\ IsRow(t, Fresh(got, p)) /\ Fresh(got, p).latest
             /\ Fresh(got, p).rank = RankOf(got, p) /\ Fresh(got, p).outcome = got[p]
  BY RankIs DEF Fresh, ResultOf, IsRow
<1>4. \A p \in F : RankOf(got, p) # Unranked => got[p].competes
  BY RankIs
<1>5. ASSUME NEW p \in S PROVE Old(p) \in ResultOf(t) /\ IsRow(t, Old(p))
  <2>1. p \in Competitors /\ results[t][p] # NoResult /\ AreRows(t, results[t])
    BY DEF Survivors, WithResult, Has, Typed
  <2>2. IsRow(t, results[t][p])
    BY <2>1 DEF AreRows
  <2> QED BY <2>2 DEF IsRow, ResultOf
<1>6. NoResult \notin ResultOf(t)
  BY PagesAssumption
<1>7. rows = [p \in Competitors |-> rows[p]]
  BY DEF Replaced
<1> HIDE DEF rows, S, Old
<1>8. \A p \in Competitors : rows[p] \in ResultOf(t) \cup {NoResult} /\ (rows[p] # NoResult => IsRow(t, rows[p]))
  BY <1>2, <1>3, <1>5
<1>9. AreRows(t, rows)
  BY <1>7, <1>8 DEF AreRows
<1>10. ASSUME S = {} PROVE OfOneScoring(rows)
  <2>1. \A p \in Competitors : rows[p] # NoResult => p \in F /\ rows[p] = Fresh(got, p)
    BY <1>2, <1>10
  <2>2. ASSUME NEW p \in Competitors, NEW q \in Competitors, rows[p] # NoResult, rows[q] # NoResult,
               rows[p].rank # Unranked, rows[q].rank # Unranked, rows[p].rank <= rows[q].rank
        PROVE  RankedBy(rows[p].outcome) >= RankedBy(rows[q].outcome)
    <3>1. p \in F /\ q \in F /\ rows[p].rank = RankOf(got, p) /\ rows[q].rank = RankOf(got, q)
          /\ rows[p].outcome = got[p] /\ rows[q].outcome = got[q]
      BY <1>3, <2>1, <2>2
    <3>2. got[p].competes /\ got[q].competes
      BY <1>4, <2>2, <3>1
    <3> QED BY <2>2, <3>1, <3>2, RankIs
  <2>3. \A p \in Competitors : rows[p] # NoResult => rows[p].latest
    BY <1>3, <2>1
  <2> QED BY <2>2, <2>3 DEF OfOneScoring
<1> QED BY <1>9, <1>10 DEF rows, S

WithState(row, s) == [row EXCEPT !.state = s]

\* Rows whose states alone differ from those of a task.
OnlyStates(rows, new) ==
    /\ new = [p \in Competitors |-> new[p]]
    /\ \A p \in Competitors :
          /\ rows[p] = NoResult => new[p] = NoResult
          /\ rows[p] # NoResult => \E s \in {"provisional", "official"} : new[p] = WithState(rows[p], s)

LEMMA StatesChange ==
  ASSUME NEW t \in Sheets, NEW rows, NEW new, AreRows(t, rows), OnlyStates(rows, new)
  PROVE  /\ AreRows(t, new) /\ (OfOneScoring(rows) => OfOneScoring(new))
         /\ \A p \in Competitors : new[p] # NoResult <=> rows[p] # NoResult
<1>1. ASSUME NEW p \in Competitors, rows[p] # NoResult
      PROVE  /\ new[p] \in ResultOf(t) /\ IsRow(t, new[p]) /\ new[p].latest = rows[p].latest
             /\ new[p].rank = rows[p].rank /\ new[p].outcome = rows[p].outcome
  <2>1. rows[p] \in ResultOf(t) /\ IsRow(t, rows[p])
    BY <1>1 DEF AreRows, IsRow
  <2>2. PICK s \in {"provisional", "official"} : new[p] = WithState(rows[p], s)
    BY <1>1 DEF OnlyStates
  <2> QED BY <2>1, <2>2 DEF ResultOf, IsRow, WithState
<1>2. \A p \in Competitors : rows[p] = NoResult => new[p] = NoResult
  BY DEF OnlyStates
<1>3. \A p \in Competitors : new[p] \in ResultOf(t) \cup {NoResult}
  BY <1>1, <1>2
<1>4. new \in [Competitors -> ResultOf(t) \cup {NoResult}]
  BY <1>3 DEF OnlyStates
<1>5. NoResult \notin ResultOf(t)
  BY PagesAssumption
<1>6. \A p \in Competitors : new[p] # NoResult <=> rows[p] # NoResult
  BY <1>1, <1>2, <1>5
<1>7. AreRows(t, new)
  BY <1>1, <1>4, <1>6 DEF AreRows
<1>8. ASSUME OfOneScoring(rows) PROVE OfOneScoring(new)
  <2>1. ASSUME NEW p \in Competitors, NEW q \in Competitors, new[p] # NoResult, new[q] # NoResult,
               new[p].rank # Unranked, new[q].rank # Unranked, new[p].rank <= new[q].rank
        PROVE  RankedBy(new[p].outcome) >= RankedBy(new[q].outcome)
    <3>1. rows[p] # NoResult /\ rows[q] # NoResult /\ new[p].rank = rows[p].rank /\ new[q].rank = rows[q].rank
          /\ new[p].outcome = rows[p].outcome /\ new[q].outcome = rows[q].outcome
      BY <1>1, <1>6, <2>1
    <3> QED BY <1>8, <2>1, <3>1 DEF OfOneScoring
  <2>2. \A p \in Competitors : new[p] # NoResult => new[p].latest
    BY <1>1, <1>6, <1>8 DEF OfOneScoring
  <2> QED BY <2>1, <2>2 DEF OfOneScoring
<1> QED BY <1>6, <1>7, <1>8

\* The results of one task change.
LEMMA OneChanged ==
  ASSUME Typed, NEW t \in Sheets, NEW rows, results' = [results EXCEPT ![t] = rows]
  PROVE  /\ results' = [u \in Sheets |-> results'[u]]
         /\ results'[t] = rows /\ \A u \in Sheets : u # t => results'[u] = results[u]
         /\ \A u \in Sheets : u # t => WithResult(u)' = WithResult(u)
         /\ WithResult(t)' = {p \in Competitors : rows[p] # NoResult}
<1>1. results' = [u \in Sheets |-> IF u = t THEN rows ELSE results[u]]
  BY DEF Typed
<1>2. \A u \in Sheets : results'[u] = IF u = t THEN rows ELSE results[u]
  BY <1>1
<1> QED BY <1>1, <1>2 DEF WithResult, Has

LEMMA PagesInitHolds == PagesInit => PagesInv
<1> SUFFICES ASSUME PagesInit PROVE PagesInv
  OBVIOUS
<1>1. \A t \in Sheets : results[t] = NoRows
  BY DEF PagesInit, NoRows
<1>2. Typed
  BY <1>1, NothingIsRows DEF PagesInit, Typed, Listings
<1>3. \A r \in Requests, t \in Sheets : ~Rescoring(r, t, "deleted")
  BY DEF PagesInit, Rescoring
<1> QED BY <1>1, <1>2, <1>3, NothingIsRows DEF PagesInv

\* States of results change, and nothing else.
LEMMA StatesKeep ==
  ASSUME PagesInv, NEW t \in Sheets, NEW new, OnlyStates(results[t], new), results' = [results EXCEPT ![t] = new],
         UNCHANGED <<listing, roster, meet, rescoring, mixed>>
  PROVE  PagesInv'
<1>1. Typed /\ AreRows(t, results[t])
  BY DEF PagesInv, Typed
<1>2. /\ results' = [u \in Sheets |-> results'[u]]
      /\ results'[t] = new /\ \A u \in Sheets : u # t => results'[u] = results[u]
      /\ \A u \in Sheets : u # t => WithResult(u)' = WithResult(u)
      /\ WithResult(t)' = {p \in Competitors : new[p] # NoResult}
  BY <1>1, OneChanged
<1>3. /\ AreRows(t, new) /\ (OfOneScoring(results[t]) => OfOneScoring(new))
      /\ \A p \in Competitors : new[p] # NoResult <=> results[t][p] # NoResult
  BY <1>1, StatesChange
<1>4. Typed'
  BY <1>1, <1>2, <1>3 DEF Typed
<1>5. ASSUME NEW u \in Sheets \ mixed' PROVE OfOneScoring(results'[u])
  BY <1>2, <1>3 DEF PagesInv
<1>6. \A u \in Sheets : WithResult(u)' = WithResult(u)
  BY <1>2, <1>3 DEF WithResult, Has
<1>7. ASSUME NEW r \in Requests, NEW u \in Sheets, Rescoring(r, u, "deleted")', ~rescoring'[r].crossed
      PROVE  WithResult(u)' \subseteq rescoring'[r].doomed
  BY <1>6, <1>7 DEF PagesInv, Rescoring
<1> QED BY <1>4, <1>5, <1>7 DEF PagesInv

LEMMA ClearKeeps ==
  ASSUME PagesInv, NEW t \in Sheets, Clear(t), UNCHANGED <<roster, meet>>, listing' \in Listings
  PROVE  PagesInv'
<1>1. Typed
  BY DEF PagesInv
<1>2. results' = [results EXCEPT ![t] = NoRows]
  BY DEF Clear, NoRows
<1>3. /\ results' = [u \in Sheets |-> results'[u]]
      /\ results'[t] = NoRows /\ \A u \in Sheets : u # t => results'[u] = results[u]
      /\ \A u \in Sheets : u # t => WithResult(u)' = WithResult(u)
      /\ WithResult(t)' = {p \in Competitors : NoRows[p] # NoResult}
  BY <1>1, <1>2, OneChanged
<1>4. WithResult(t)' = {}
  BY <1>3 DEF NoRows
<1>5. ASSUME NEW r \in Requests
      PROVE  rescoring'[r] = IF Rescoring(r, t, "deleted") THEN [rescoring[r] EXCEPT !.doomed = {}] ELSE rescoring[r]
  BY DEF Clear
<1>6. rescoring' \in [Requests -> Rescorings \cup {None}]
  <2>1. \A r \in Requests : rescoring'[r] \in Rescorings \cup {None}
    <3> TAKE r \in Requests
    <3>1. CASE Rescoring(r, t, "deleted")
      <4>1. rescoring[r] \in Rescorings
        BY <1>1, <3>1 DEF Rescoring, Typed
      <4> QED BY <1>5, <3>1, <4>1 DEF Rescorings
    <3>2. CASE ~Rescoring(r, t, "deleted")
      BY <1>1, <1>5, <3>2 DEF Typed
    <3> QED BY <3>1, <3>2
  <2> QED BY <2>1 DEF Clear
<1>7. mixed' = mixed \ {t}
  BY DEF Clear
<1>8. Typed'
  BY <1>1, <1>3, <1>6, <1>7, NothingIsRows DEF Typed
<1>9. ASSUME NEW u \in Sheets \ mixed' PROVE OfOneScoring(results'[u])
  BY <1>3, <1>7, <1>9, NothingIsRows DEF PagesInv
<1>10. ASSUME NEW r \in Requests, NEW u \in Sheets, Rescoring(r, u, "deleted")', ~rescoring'[r].crossed
       PROVE  WithResult(u)' \subseteq rescoring'[r].doomed
  <2>1. CASE u = t
    BY <1>4, <2>1
  <2>2. CASE u # t
    <3>1. rescoring'[r] = rescoring[r]
      <4>1. CASE Rescoring(r, t, "deleted")
        <5>1. rescoring[r] \in Rescorings /\ rescoring'[r] = [rescoring[r] EXCEPT !.doomed = {}]
          BY <1>1, <1>5, <4>1 DEF Rescoring, Typed
        <5>2. rescoring'[r].task = t
          BY <4>1, <5>1 DEF Rescoring, Rescorings
        <5> QED BY <1>10, <2>2, <5>2 DEF Rescoring
      <4>2. CASE ~Rescoring(r, t, "deleted")
        BY <1>5, <4>2
      <4> QED BY <4>1, <4>2
    <3> QED BY <1>3, <1>10, <2>2, <3>1 DEF PagesInv, Rescoring
  <2> QED BY <2>1, <2>2
<1> QED BY <1>8, <1>9, <1>10 DEF PagesInv

LEMMA InsertKeeps ==
  ASSUME PagesInv, NEW r \in Requests, NEW t \in Sheets, InsertScores(r, t)
  PROVE  PagesInv'
<1>1. Typed /\ Rescoring(r, t, "deleted") /\ rescoring[r] \in Rescorings
  BY DEF PagesInv, Typed, InsertScores, Rescoring
<1>2. PICK flown \in SUBSET (rescoring[r].entered \ Survivors(r, t)) :
         \E got \in [flown -> Outcomes[t]] : results' = [results EXCEPT ![t] = Replaced(r, t, got)]
  BY DEF InsertScores
<1>3. PICK got \in [flown -> Outcomes[t]] : results' = [results EXCEPT ![t] = Replaced(r, t, got)]
  BY <1>2
<1>4. flown \in SUBSET Competitors
  BY <1>1, <1>2 DEF Rescorings
<1> DEFINE rows == Replaced(r, t, got)
<1>5. AreRows(t, rows) /\ (Survivors(r, t) = {} => OfOneScoring(rows))
  BY <1>1, <1>4, ReplacedAre
<1> HIDE DEF rows
<1>6. /\ results' = [u \in Sheets |-> results'[u]]
      /\ results'[t] = rows /\ \A u \in Sheets : u # t => results'[u] = results[u]
      /\ \A u \in Sheets : u # t => WithResult(u)' = WithResult(u)
  BY <1>1, <1>3, OneChanged DEF rows
<1>7. mixed' = IF rescoring[r].crossed THEN mixed \cup {t} ELSE mixed \ {t}
  BY DEF InsertScores
<1>8. ASSUME NEW o \in Requests
      PROVE  rescoring'[o] = IF o = r THEN None
                ELSE IF Rescoring(o, t, "deleted")
                     THEN [rescoring[o] EXCEPT !.doomed = rescoring[o].doomed \ rescoring[r].doomed, !.crossed = TRUE]
                ELSE rescoring[o]
  BY DEF InsertScores, Crossed
<1>9. rescoring' \in [Requests -> Rescorings \cup {None}]
  <2>1. \A o \in Requests : rescoring'[o] \in Rescorings \cup {None}
    <3> TAKE o \in Requests
    <3>1. CASE Rescoring(o, t, "deleted")
      <4>1. rescoring[o] \in Rescorings
        BY <1>1, <3>1 DEF Rescoring, Typed
      <4>2. rescoring[o].doomed \ rescoring[r].doomed \in SUBSET Competitors
        BY <4>1 DEF Rescorings
      <4>3. [rescoring[o] EXCEPT !.doomed = rescoring[o].doomed \ rescoring[r].doomed, !.crossed = TRUE] \in Rescorings
        BY <4>1, <4>2 DEF Rescorings
      <4> QED BY <1>8, <3>1, <4>3
    <3>2. CASE ~Rescoring(o, t, "deleted")
      BY <1>1, <1>8, <3>2 DEF Typed
    <3> QED BY <3>1, <3>2
  <2> QED BY <2>1 DEF InsertScores, Crossed
<1>10. Typed'
  <2>1. \A u \in Sheets : AreRows(u, results'[u])
    BY <1>1, <1>5, <1>6 DEF Typed
  <2> QED BY <1>1, <1>6, <1>7, <1>9, <2>1 DEF Typed, InsertScores
<1>11. ASSUME NEW u \in Sheets \ mixed' PROVE OfOneScoring(results'[u])
  <2>1. CASE u = t
    <3>1. ~rescoring[r].crossed
      BY <1>7, <1>11, <2>1
    <3>2. Survivors(r, t) = {}
      BY <1>1, <3>1 DEF PagesInv, Survivors
    <3> QED BY <1>5, <1>6, <2>1, <3>2
  <2>2. CASE u # t
    <3>1. u \notin mixed
      BY <1>7, <1>11, <2>2
    <3> QED BY <1>6, <2>2, <3>1 DEF PagesInv
  <2> QED BY <2>1, <2>2
<1>12. ASSUME NEW o \in Requests, NEW u \in Sheets, Rescoring(o, u, "deleted")', ~rescoring'[o].crossed
       PROVE  WithResult(u)' \subseteq rescoring'[o].doomed
  <2>1. o # r
    BY <1>8, <1>12 DEF Rescoring
  <2>2. ~Rescoring(o, t, "deleted")
    <3> SUFFICES ASSUME Rescoring(o, t, "deleted") PROVE FALSE
      OBVIOUS
    <3>1. rescoring[o] \in Rescorings
      BY <1>1 DEF Rescoring, Typed
    <3>2. rescoring'[o].crossed
      BY <1>8, <2>1, <3>1 DEF Rescorings
    <3> QED BY <1>12, <3>2
  <2>3. rescoring'[o] = rescoring[o]
    BY <1>8, <2>1, <2>2
  <2>4. Rescoring(o, u, "deleted") /\ ~rescoring[o].crossed
    BY <1>12, <2>3 DEF Rescoring
  <2>5. u # t
    BY <2>2, <2>4
  <2> QED BY <1>6, <2>3, <2>4, <2>5 DEF PagesInv
<1> QED BY <1>10, <1>11, <1>12 DEF PagesInv

\* One rescoring takes a step that changes no results.
LEMMA StepKeeps ==
  ASSUME PagesInv, NEW r \in Requests, NEW new \in Rescorings \cup {None}, rescoring' = [rescoring EXCEPT ![r] = new],
         new # None /\ new.step = "deleted" => WithResult(new.task) \subseteq new.doomed,
         UNCHANGED <<listing, results, roster, meet, mixed>>
  PROVE  PagesInv'
<1>1. \A o \in Requests : rescoring'[o] = IF o = r THEN new ELSE rescoring[o]
  BY DEF PagesInv, Typed
<1>2. Typed'
  BY DEF PagesInv, Typed
<1>3. \A u \in Sheets : WithResult(u)' = WithResult(u)
  BY DEF WithResult, Has
<1>4. ASSUME NEW o \in Requests, NEW u \in Sheets, Rescoring(o, u, "deleted")', ~rescoring'[o].crossed
      PROVE  WithResult(u)' \subseteq rescoring'[o].doomed
  <2>1. CASE o = r
    BY <1>1, <1>3, <1>4, <2>1 DEF Rescoring
  <2>2. CASE o # r
    BY <1>1, <1>3, <1>4, <2>2 DEF Rescoring, PagesInv
  <2> QED BY <2>1, <2>2
<1> QED BY <1>2, <1>4 DEF PagesInv

\* Neither results nor rescorings change.
LEMMA OthersKeep ==
  ASSUME PagesInv, UNCHANGED <<results, rescoring, mixed>>, listing' \in Listings,
         roster' \subseteq Competitors, meet' \in Settings
  PROVE  PagesInv'
<1>1. Typed'
  BY DEF PagesInv, Typed
<1>2. \A r \in Requests, u \in Sheets :
         WithResult(u)' = WithResult(u) /\ (Rescoring(r, u, "deleted")' <=> Rescoring(r, u, "deleted"))
  BY DEF WithResult, Has, Rescoring
<1> QED BY <1>1, <1>2 DEF PagesInv

LEMMA PagesNextKeeps == PagesInv /\ [PagesNext]_pagevars => PagesInv'
<1> SUFFICES ASSUME PagesInv, [PagesNext]_pagevars PROVE PagesInv'
  OBVIOUS
<1>0. /\ listing \in Listings /\ roster \subseteq Competitors /\ meet \in Settings
      /\ rescoring \in [Requests -> Rescorings \cup {None}] /\ \A t \in Sheets : AreRows(t, results[t])
  BY DEF PagesInv, Typed
<1>1. ASSUME NEW r \in Requests, NEW t \in Sheets, RescoreTask(r, t) PROVE PagesInv'
  <2> DEFINE new == [task |-> t, step |-> "read", entered |-> roster, doomed |-> {}, crossed |-> FALSE]
  <2>1. new \in Rescorings /\ new.step # "deleted"
    BY <1>0 DEF Rescorings
  <2>2. rescoring' = [rescoring EXCEPT ![r] = new] /\ UNCHANGED <<listing, results, roster, meet, mixed>>
    BY <1>1 DEF RescoreTask
  <2> HIDE DEF new
  <2> QED BY <2>1, <2>2, StepKeeps
<1>2. ASSUME NEW r \in Requests, NEW t \in Sheets, DeleteScores(r, t) PROVE PagesInv'
  <2> DEFINE new == [rescoring[r] EXCEPT !.step = "deleted", !.doomed = WithResult(t)]
  <2>1. rescoring[r] \in Rescorings /\ rescoring[r].task = t
    BY <1>0, <1>2 DEF DeleteScores, Rescoring
  <2>2. new \in Rescorings /\ new.task = t /\ new.doomed = WithResult(t)
    BY <2>1 DEF Rescorings, WithResult
  <2>3. rescoring' = [rescoring EXCEPT ![r] = new] /\ UNCHANGED <<listing, results, roster, meet, mixed>>
    BY <1>2 DEF DeleteScores
  <2> HIDE DEF new
  <2> QED BY <2>2, <2>3, StepKeeps
<1>3. ASSUME NEW r \in Requests, RescoreFails(r) PROVE PagesInv'
  BY <1>3, StepKeeps DEF RescoreFails
<1>4. ASSUME NEW t \in Sheets, NEW p \in Competitors, PromoteResult(t, p) PROVE PagesInv'
  <2> DEFINE rows == [q \in Competitors |-> IF q = p THEN [results[t][p] EXCEPT !.state = "official"] ELSE results[t][q]]
  <2>1. results[t] = [q \in Competitors |-> results[t][q]] /\ results = [u \in Sheets |-> results[u]]
    BY DEF PagesInv, Typed, AreRows
  <2>2. results' = [results EXCEPT ![t] = rows]
    BY <1>4, <2>1 DEF PromoteResult
  <2>3. ASSUME NEW q \in Competitors, results[t][q] # NoResult
        PROVE  \E s \in {"provisional", "official"} : rows[q] = WithState(results[t][q], s)
    <3>1. results[t][q] \in ResultOf(t)
      BY <1>0, <2>3 DEF AreRows
    <3>2. results[t][q].state \in {"provisional", "official"} /\ results[t][q] = [results[t][q] EXCEPT !.state = results[t][q].state]
      BY <3>1 DEF ResultOf
    <3>3. CASE q = p
      BY <3>3 DEF WithState
    <3>4. CASE q # p
      BY <3>2, <3>4 DEF WithState
    <3> QED BY <3>3, <3>4
  <2>4. \A q \in Competitors : results[t][q] = NoResult => rows[q] = NoResult
    BY <1>4 DEF PromoteResult, Has
  <2>5. rows = [q \in Competitors |-> rows[q]]
    OBVIOUS
  <2> HIDE DEF rows
  <2>6. OnlyStates(results[t], rows)
    BY <2>3, <2>4, <2>5 DEF OnlyStates
  <2> QED BY <1>4, <2>2, <2>6, StatesKeep DEF PromoteResult
<1>5. ASSUME NEW t \in Sheets, NEW state \in {"provisional", "official"}, StateAll(t, state) PROVE PagesInv'
  <2> DEFINE rows == [p \in Competitors |-> IF Has(t, p) THEN [results[t][p] EXCEPT !.state = state] ELSE NoResult]
  <2>1. results' = [results EXCEPT ![t] = rows]
    BY <1>5 DEF StateAll
  <2>2. \A p \in Competitors : rows[p] = IF results[t][p] # NoResult THEN WithState(results[t][p], state) ELSE NoResult
    BY DEF Has, WithState
  <2>3. rows = [p \in Competitors |-> rows[p]]
    OBVIOUS
  <2> HIDE DEF rows
  <2>4. OnlyStates(results[t], rows)
    BY <2>2, <2>3 DEF OnlyStates
  <2> QED BY <1>5, <2>1, <2>4, StatesKeep DEF StateAll
<1>6. ASSUME NEW t \in Sheets, DeleteTaskResults(t) \/ UnpublishTask(t) PROVE PagesInv'
  <2>1. Clear(t) /\ UNCHANGED <<roster, meet>>
    BY <1>6 DEF DeleteTaskResults, UnpublishTask
  <2>2. listing' \in Listings
    BY <1>0, <1>6 DEF DeleteTaskResults, UnpublishTask, Listings
  <2> QED BY <2>1, <2>2, ClearKeeps
<1>7. ASSUME NEW t \in Sheets, PublishTask(t) \/ UpdateTask(t) PROVE PagesInv'
  <2>1. listing' \in Listings
    <3> DEFINE L == [status : {"draft", "published"}, practice : BOOLEAN]
    <3>1. listing \in [Sheets -> L]
      BY <1>0 DEF Listings
    <3>2. CASE PublishTask(t)
      <4>1. [listing[t] EXCEPT !.status = "published"] \in L
        BY <3>1
      <4> QED BY <3>1, <3>2, <4>1 DEF PublishTask, Listings
    <3>3. CASE UpdateTask(t)
      <4>1. PICK status \in {"draft", "published"}, practice \in BOOLEAN :
               listing' = [listing EXCEPT ![t] = [status |-> status, practice |-> practice]]
        BY <3>3 DEF UpdateTask
      <4>2. [status |-> status, practice |-> practice] \in L
        OBVIOUS
      <4> HIDE DEF L
      <4>3. listing' \in [Sheets -> L]
        BY <3>1, <4>1, <4>2
      <4> QED BY <4>3 DEF L, Listings
    <3> QED BY <1>7, <3>2, <3>3
  <2> QED BY <1>0, <1>7, <2>1, OthersKeep DEF PublishTask, UpdateTask
<1>8. ASSUME NEW p \in Removable, EnterOrRemove(p) PROVE PagesInv'
  <2>1. roster' \subseteq Competitors /\ UNCHANGED <<listing, results, meet, rescoring, mixed>>
    BY <1>0, <1>8, PagesAssumption DEF EnterOrRemove
  <2> QED BY <1>0, <2>1, OthersKeep
<1>9. CASE UpdateEvent
  BY <1>0, <1>9, OthersKeep DEF UpdateEvent
<1>10. CASE UNCHANGED pagevars
  BY <1>0, <1>10, OthersKeep DEF pagevars
<1> QED BY <1>1, <1>2, <1>3, <1>4, <1>5, <1>6, <1>7, <1>8, <1>9, <1>10, InsertKeeps DEF PagesNext

LEMMA PagesInvHolds == PagesSpec => []PagesInv
<1> QED BY PagesInitHolds, PagesNextKeeps, PTL DEF PagesSpec

-----------------------------------------------------------------------------
(* What the pages say.                                                     *)

LEMMA RowHas ==
  ASSUME PagesInv, NEW t \in Sheets, NEW p \in Competitors, Has(t, p)
  PROVE  /\ results[t][p].rank \in 1..Unranked
         /\ results[t][p].outcome \in Scorings
         /\ results[t][p].rank = Unranked <=> ~results[t][p].outcome.competes
         /\ PointsOf(t, p) \in Nat /\ results[t][p].outcome.raw \in Nat
         /\ results[t][p].outcome.handicap \/ PointsOf(t, p) <= results[t][p].outcome.raw
<1>1. IsRow(t, results[t][p])
  BY DEF PagesInv, Typed, AreRows, Has
<1>2. results[t][p].outcome \in Scorings
  BY <1>1, PagesAssumption DEF ResultOf, IsRow
<1> QED BY <1>1, <1>2 DEF ResultOf, IsRow, Scorings, PointsOf

LEMMA ListedAre ==
  ASSUME PagesInv, NEW t \in Sheets, NEW v \in Audiences
  PROVE  Selected(v, t) \subseteq WithResult(t) /\ Listed(v, t) \subseteq Selected(v, t) /\ WithResult(t) \subseteq Competitors
         /\ \A p \in WithResult(t) : Has(t, p)
<1>1. Selected(v, t) \subseteq WithResult(t)
  BY DEF Selected, Audiences
<1> QED BY <1>1 DEF Listed, WithResult

LEMMA ShownIsNumber ==
  ASSUME PagesInv, NEW t \in Sheets, NEW v \in Audiences, NEW p
  PROVE  PointsShown(v, t, p) \in Nat
BY ListedAre, RowHas DEF PointsShown

LEMMA BestIsNumber ==
  ASSUME PagesInv, NEW t \in Sheets, NEW v \in Audiences
  PROVE  BestOf(v, t) \in Nat
<1> DEFINE S == {0} \cup {PointsOf(t, p) : p \in Listed(v, t)}
<1>1. S \subseteq Nat /\ S # {}
  <2>1. \A p \in Listed(v, t) : PointsOf(t, p) \in Nat
    BY ListedAre, RowHas
  <2> QED BY <2>1
<1>2. IsFiniteSet(Listed(v, t))
  BY ListedAre, Rows, FS_Subset
<1>3. IsFiniteSet({PointsOf(t, p) : p \in Listed(v, t)})
  <2> DEFINE f == [p \in Listed(v, t) |-> PointsOf(t, p)]
             T == {PointsOf(t, p) : p \in Listed(v, t)}
  <2>1. f \in Surjection(Listed(v, t), T)
    BY DEF Surjection
  <2> HIDE DEF f, T
  <2>2. IsFiniteSet(T)
    BY <1>2, <2>1, FS_Surjection
  <2> QED BY <2>2 DEF T
<1>4. IsFiniteSet(S)
  BY <1>3, FS_AddElement
<1> HIDE DEF S
<1>5. Max(S) \in S
  BY <1>1, <1>4, MaxIsNumber
<1>6. BestOf(v, t) = Max(S)
  BY DEF BestOf, S
<1> QED BY <1>1, <1>5, <1>6

\* The first of some rows by rank, points and name.
LEMMA FirstRowIs ==
  ASSUME PagesInv, NEW t \in Sheets, NEW v \in Audiences, Selected(v, t) # {}
  PROVE  FirstRow(v, t) \in Selected(v, t)
<1> DEFINE key(p) == <<results[t][p].rank, -PointsOf(t, p), p>>
           Before(p, q) == \/ results[t][p].rank < results[t][q].rank
                           \/ /\ results[t][p].rank = results[t][q].rank
                              /\ \/ -PointsOf(t, p) < -PointsOf(t, q)
                                 \/ -PointsOf(t, p) = -PointsOf(t, q) /\ p < q
           S == Selected(v, t)
           B == {R \in SUBSET S : R # {} /\ \A p \in R : \E q \in R \ {p} : Before(q, p)}
<1>1. S \subseteq Competitors /\ IsFiniteSet(S)
  BY ListedAre, Rows, FS_Subset
<1>2. \A p \in S : results[t][p].rank \in Int /\ -PointsOf(t, p) \in Int /\ p \in Int
  <2> TAKE p \in S
  <2>1. Has(t, p) /\ p \in Competitors
    BY ListedAre
  <2>2. results[t][p].rank \in 1..Unranked /\ PointsOf(t, p) \in Nat
    BY <2>1, RowHas
  <2> QED BY <1>1, <2>1, <2>2, Rows
<1> HIDE DEF S
<1>3. ASSUME NEW p \in S, NEW q \in S PROVE Less(key(p), key(q)) <=> Before(p, q)
  <2>1. DOMAIN key(p) = 1..3
    OBVIOUS
  <2> DEFINE k == key(p)
             l == key(q)
  <2>2. Less(k, l) <=> \/ k[1] < l[1]
                       \/ k[1] = l[1] /\ (k[2] < l[2] \/ (k[2] = l[2] /\ k[3] < l[3]))
    <3> HIDE DEF k, l
    <3> QED BY <2>1, LessTriple DEF k
  <2>3. /\ k[1] = results[t][p].rank /\ k[2] = -PointsOf(t, p) /\ k[3] = p
        /\ l[1] = results[t][q].rank /\ l[2] = -PointsOf(t, q) /\ l[3] = q
    OBVIOUS
  <2>4. Less(k, l) <=> Before(p, q)
    <3> HIDE DEF k, l
    <3> QED BY <1>2, <2>2, <2>3
  <2> QED BY <2>4
<1>4. B = {}
  <2> SUFFICES ASSUME B # {} PROVE FALSE
    OBVIOUS
  <2>1. PICK R \in B : \A x \in R : R \ {x} \notin B
    <3>1. B \subseteq SUBSET S
      OBVIOUS
    <3> HIDE DEF B
    <3> QED BY <1>1, <3>1, SmallestSubset
  <2>2. PICK x \in R : TRUE
    BY <2>1
  <2>3. R \ {x} # {}
    BY <2>1, <2>2
  <2>4. PICK m \in R \ {x} : \A q \in (R \ {x}) \ {m} : ~Before(q, m)
    BY <2>1, <2>2, <2>3
  <2>5. Before(x, m)
    BY <2>1, <2>4
  <2>6. ASSUME NEW q \in R \ {x}, Before(q, x) PROVE FALSE
    <3>1. q \in S /\ x \in S /\ m \in S
      BY <2>1, <2>2, <2>4
    <3>2. Before(q, m)
      BY <1>2, <2>5, <2>6, <3>1
    <3>3. q # m
      BY <1>2, <2>5, <2>6, <3>1
    <3> QED BY <2>4, <2>6, <3>2, <3>3
  <2> QED BY <2>1, <2>2, <2>6
<1>5. PICK p \in S : \A q \in S \ {p} : ~Before(q, p)
  <2>1. S \in SUBSET S /\ S # {}
    BY DEF S
  <2> QED BY <1>4, <2>1
<1>6. \A q \in S \ {p} : ~Less(key(q), key(p))
  BY <1>3, <1>5
<1> QED BY <1>5, <1>6, Zenon DEF FirstRow, S

LEMMA OneScoring == PagesInv => OneScoringShown
<1> SUFFICES ASSUME PagesInv, NEW v \in Audiences, NEW t \in Sheets \ mixed, NEW p \in Listed(v, t)
             PROVE  results[t][p].latest = SummaryIsLatest(v, t)
  BY DEF OneScoringShown
<1>1. p \in Selected(v, t) /\ p \in Competitors /\ Has(t, p)
  BY ListedAre
<1>2. FirstRow(v, t) \in Selected(v, t)
  BY <1>1, FirstRowIs
<1>3. FirstRow(v, t) \in Competitors /\ Has(t, FirstRow(v, t))
  BY <1>2, ListedAre
<1>4. ASSUME NEW q \in Competitors, Has(t, q) PROVE results[t][q].latest = TRUE
  <2>1. results[t][q] \in ResultOf(t) /\ results[t][q].latest
    BY <1>4 DEF PagesInv, Typed, AreRows, IsRow, OfOneScoring, Has
  <2> QED BY <2>1 DEF ResultOf
<1> QED BY <1>1, <1>3, <1>4 DEF SummaryIsLatest

LEMMA DaysAre ==
  ASSUME NEW v
  PROVE  /\ Competition(v) \subseteq Sheets /\ IsFiniteSet(Competition(v))
         /\ Days(v) \subseteq Sheets /\ IsFiniteSet(Days(v))
         /\ Shared(v) \subseteq Sheets /\ IsFiniteSet(Shared(v))
         /\ \A t \in Competition(v) \cup Shared(v) : ~listing[t].practice
<1>1. Competition(v) \subseteq Sheets /\ Days(v) \subseteq Sheets /\ Shared(v) \subseteq Sheets
  BY DEF Competition, Days, Shared, CountedAll
<1>2. \A t \in Competition(v) \cup Shared(v) : ~listing[t].practice
  BY DEF Competition, Shared
<1> QED BY <1>1, <1>2, PagesAssumption, FS_Subset

\* Who is shown the same rows is shown the same totals.
LEMMA SameShown ==
  ASSUME NEW v, NEW w, \A t \in Sheets : Listed(v, t) = Listed(w, t), NEW p
  PROVE  /\ ScoresShown(v, p) = ScoresShown(w, p) /\ BestScores(v) = BestScores(w)
         /\ \A t \in Sheets : PointsShown(v, t, p) = PointsShown(w, t, p) /\ BestOf(v, t) = BestOf(w, t)
<1>1. \A t \in Sheets : PointsShown(v, t, p) = PointsShown(w, t, p)
  BY DEF PointsShown
<1>2. \A t \in Sheets : BestOf(v, t) = BestOf(w, t)
  BY DEF BestOf
<1> QED BY <1>1, <1>2 DEF ScoresShown, BestScores

LEMMA PilotsAgree ==
  ASSUME \A t \in Sheets : Listed("pilot", t) = Listed("organiser", t), NEW p
  PROVE  TotalOf("pilot", p) = TotalOf("organiser", p)
<1> DEFINE a == "pilot"
           b == "organiser"
<1>1. /\ ScoresShown(a, p) = ScoresShown(b, p) /\ BestScores(a) = BestScores(b)
      /\ \A t \in Sheets : PointsShown(a, t, p) = PointsShown(b, t, p) /\ BestOf(a, t) = BestOf(b, t)
  BY SameShown
<1>2. CountedAll(a) = Sheets /\ CountedAll(b) = Sheets
  BY DEF CountedAll
<1>3. Competition(a) = Competition(b) /\ Shared(a) = Shared(b) /\ Days(a) = Days(b)
  BY <1>1, <1>2 DEF Competition, Shared, Days
<1>4. FtvShare(a, p) = FtvShare(b, p)
  <2>1. \A t \in Sheets : Shared(a) \ {t} = Shared(b) \ {t}
    BY <1>3
  <2>2. \A t \in Sheets : PointsShown(a, t, p) * Product(BestScores(a), Shared(a) \ {t})
                           = PointsShown(b, t, p) * Product(BestScores(b), Shared(b) \ {t})
    BY <1>1, <2>1
  <2> QED BY <2>2 DEF FtvShare
<1>5. FtvTotal(a, p) = FtvTotal(b, p) /\ PlainTotal(a, p) = PlainTotal(b, p)
  BY <1>1, <1>3, <1>4 DEF FtvTotal, PlainTotal
<1>6. UsesFtv(a) = UsesFtv(b)
  BY DEF UsesFtv
<1> QED BY <1>3, <1>5, <1>6 DEF TotalOf

LEMMA PublicAgrees ==
  ASSUME PagesInv, ~meet.ftv, \A t \in Sheets : WithResult(t) # {} => OnPublicPages(t), NEW p
  PROVE  TotalOf("public", p) = TotalOf("organiser", p)
<1> DEFINE a == "public"
           b == "organiser"
<1>1. \A t \in Sheets : Selected(a, t) = Selected(b, t)
  BY DEF Selected
<1>2. \A t \in Sheets : Listed(a, t) = Listed(b, t)
  BY <1>1 DEF Listed
<1>3. ScoresShown(a, p) = ScoresShown(b, p)
  BY <1>2, SameShown
<1>4. Competition(a) \in SUBSET Competition(b)
  BY DEF Competition, CountedAll
<1>5. ASSUME NEW t \in Competition(b) \ Competition(a) PROVE t \in Sheets /\ ScoresShown(b, p)[t] = 0
  <2>1. t \in Sheets /\ listing[t].status # "published"
    BY <1>5 DEF Competition, CountedAll
  <2>2. WithResult(t) = {}
    BY <2>1 DEF OnPublicPages
  <2>3. PointsShown(b, t, p) = 0
    BY <2>1, <2>2, ListedAre DEF PointsShown, Audiences
  <2> QED BY <2>1, <2>3 DEF ScoresShown
<1>6. \A t \in Competition(b) : ScoresShown(b, p)[t] \in Nat
  BY DaysAre, ShownIsNumber DEF ScoresShown, Audiences
<1>7. SumFunctionOnSet(ScoresShown(b, p), Competition(b)) = SumFunctionOnSet(ScoresShown(b, p), Competition(a))
  <2>1. IsFiniteSet(Competition(b))
    BY DaysAre
  <2> QED BY <1>4, <1>5, <1>6, <2>1, SumOfRest
<1>8. TotalOf(a, p) = PlainTotal(a, p) /\ TotalOf(b, p) = PlainTotal(b, p)
  BY DEF TotalOf, UsesFtv
<1> QED BY <1>3, <1>7, <1>8 DEF PlainTotal

LEMMA TotalsDo == PagesInv => TotalsAgree
<1> SUFFICES ASSUME PagesInv, NEW p \in roster
             PROVE  /\ (\A t \in Sheets : Selected("pilot", t) \cap roster = Listed("organiser", t))
                          => TotalOf("pilot", p) = TotalOf("organiser", p)
                    /\ (~meet.ftv /\ \A t \in Sheets : WithResult(t) # {} => OnPublicPages(t))
                          => TotalOf("public", p) = TotalOf("organiser", p)
  BY DEF TotalsAgree
<1>1. ASSUME \A t \in Sheets : Selected("pilot", t) \cap roster = Listed("organiser", t)
      PROVE  TotalOf("pilot", p) = TotalOf("organiser", p)
  BY <1>1, PilotsAgree DEF Listed
<1> QED BY <1>1, PublicAgrees

LEMMA TimesGrows ==
  ASSUME NEW a \in Nat, NEW b \in Nat, NEW c \in Nat, a <= b
  PROVE  a * c <= b * c /\ a * c \in Nat
<1>1. PICK d \in Nat : b = a + d
  <2>1. b - a \in Nat /\ b = a + (b - a)
    OBVIOUS
  <2> QED BY <2>1
<1>2. b * c = a * c + d * c
  BY <1>1
<1>3. d * c \in Nat /\ a * c \in Nat
  BY <1>1
<1> QED BY <1>2, <1>3

LEMMA BetterDays ==
  ASSUME PagesInv, NEW v \in Audiences, NEW p, NEW q,
         \A t \in Sheets : ~listing[t].practice => PointsShown(v, t, q) <= PointsShown(v, t, p)
  PROVE  TotalOf(v, q) <= TotalOf(v, p)
<1>1. \A t \in Sheets : PointsShown(v, t, p) \in Nat /\ PointsShown(v, t, q) \in Nat /\ BestOf(v, t) \in Nat
  BY ShownIsNumber, BestIsNumber
<1>2. PlainTotal(v, q) <= PlainTotal(v, p)
  <2>1. \A t \in Competition(v) : /\ ScoresShown(v, q)[t] \in Nat /\ ScoresShown(v, p)[t] \in Nat
                                  /\ ScoresShown(v, q)[t] <= ScoresShown(v, p)[t]
    BY <1>1, DaysAre DEF ScoresShown
  <2>2. IsFiniteSet(Competition(v))
    BY DaysAre
  <2> QED BY <2>1, <2>2, SumOfLess DEF PlainTotal
<1>3. FtvTotal(v, q) <= FtvTotal(v, p)
  <2>1. IsFiniteSet(Shared(v)) /\ Shared(v) \subseteq Sheets /\ IsFiniteSet(Days(v)) /\ Days(v) \subseteq Sheets
    BY DaysAre
  <2>2. \A t \in Sheets : BestScores(v)[t] \in Nat
    BY <1>1 DEF BestScores
  <2>3. \A t \in Shared(v) : Product(BestScores(v), Shared(v) \ {t}) \in Nat
    <3> TAKE t \in Shared(v)
    <3>1. IsFiniteSet(Shared(v) \ {t}) /\ \A u \in Shared(v) \ {t} : BestScores(v)[u] \in Nat
      BY <2>1, <2>2, FS_Subset
    <3> QED BY <3>1, ProductIsNumber
  <2>4. ASSUME NEW t \in Shared(v)
        PROVE  /\ FtvShare(v, q)[t] \in Nat /\ FtvShare(v, p)[t] \in Nat
               /\ FtvShare(v, q)[t] <= FtvShare(v, p)[t]
    <3> DEFINE c == Product(BestScores(v), Shared(v) \ {t})
               x == PointsShown(v, t, q)
               y == PointsShown(v, t, p)
    <3>1. t \in Sheets /\ FtvShare(v, q)[t] = x * c /\ FtvShare(v, p)[t] = y * c
      BY <2>1 DEF FtvShare
    <3>2. x \in Nat /\ y \in Nat /\ c \in Nat /\ x <= y
      BY <1>1, <2>1, <2>3, DaysAre
    <3> HIDE DEF c, x, y
    <3>3. x * c <= y * c /\ x * c \in Nat /\ y * c \in Nat
      BY <3>2, TimesGrows
    <3> QED BY <3>1, <3>3
  <2> DEFINE d == SumFunctionOnSet(BestScores(v), Days(v))
             a == SumFunctionOnSet(FtvShare(v, q), Shared(v))
             b == SumFunctionOnSet(FtvShare(v, p), Shared(v))
  <2>5. d \in Nat
    BY <2>1, <2>2, SumIsNumber
  <2>6. a <= b
    BY <2>1, <2>4, SumOfLess
  <2>7. a \in Nat /\ b \in Nat
    BY <2>1, <2>4, SumIsNumber
  <2>8. FtvTotal(v, q) = a * d /\ FtvTotal(v, p) = b * d
    BY DEF FtvTotal
  <2> HIDE DEF a, b, d
  <2> QED BY <2>5, <2>6, <2>7, <2>8, TimesGrows
<1> QED BY <1>2, <1>3 DEF TotalOf

LEMMA BetterDo == PagesInv => BetterEveryDayNotBehind
<1> SUFFICES ASSUME PagesInv, NEW v \in Audiences, NEW p \in roster, NEW q \in roster,
                    \A t \in Sheets : ~listing[t].practice => PointsShown(v, t, p) >= PointsShown(v, t, q)
             PROVE  TotalOf(v, p) >= TotalOf(v, q)
  BY DEF BetterEveryDayNotBehind
<1>1. \A t \in Sheets : ~listing[t].practice => PointsShown(v, t, q) <= PointsShown(v, t, p)
  OBVIOUS
<1>2. TotalOf(v, q) <= TotalOf(v, p)
  BY <1>1, BetterDays
<1> QED BY <1>2

LEMMA ReplayDoes == PagesInv => ReplayMatchesTable
<1> SUFFICES ASSUME PagesInv, NEW t \in Sheets, NEW p \in Competitors
             PROVE  /\ p \in Listed("public", t) /\ results[t][p].outcome.file => TrackServed(t, p)
                    /\ TrackServed(t, p) => p \in Listed("public", t) \/ p \notin roster
  BY DEF ReplayMatchesTable
<1> QED BY DEF Listed, Selected, TrackServed, WithResult, Has

LEMMA OrdersDo == PagesInv => OrdersAgree
<1> SUFFICES ASSUME PagesInv PROVE OrdersAgree
  OBVIOUS
<1> SUFFICES ASSUME NEW v \in Audiences, NEW t \in Sheets \ mixed, NEW p \in Listed(v, t), NEW q \in Listed(v, t),
                    AboveOnDesk(t, p, q), results[t][p].outcome.handicap \/ PointsOf(t, p) >= results[t][p].outcome.raw,
                    StatusOf(t, q) \notin {"minimum_distance", "uploaded"}
             PROVE  AboveInTable(v, t, p, q)
  <2>1. ASSUME NEW v \in Audiences, NEW t \in Sheets, NEW p \in Listed(v, t)
        PROVE  results[t][p].outcome.raw \in Int /\ PointsOf(t, p) \in Int
    <3>1. p \in Competitors /\ Has(t, p)
      BY ListedAre
    <3>2. PointsOf(t, p) \in Nat /\ results[t][p].outcome.raw \in Nat
      BY <3>1, RowHas
    <3> QED BY <3>2
  <2>2. \A v \in Audiences, t \in Sheets \ mixed : \A p \in Listed(v, t) :
           ~(PointsOf(t, p) < results[t][p].outcome.raw) => PointsOf(t, p) >= results[t][p].outcome.raw
    BY <2>1
  <2> QED BY <2>2 DEF OrdersAgree
<1> DEFINE o(n) == results[t][n].outcome
           rank(n) == results[t][n].rank
           bucket(n) == CASE o(n).status = "did_not_fly" -> 1
                          [] o(n).status = "absent" -> 2
                          [] OTHER -> 0
           minus(n) == IF bucket(n) = 0 THEN -PointsOf(t, n) ELSE 0
<1>1. \A n \in {p, q} : Has(t, n) /\ n \in Selected(v, t) /\ n \in Competitors
  BY ListedAre
<1>2. \A n \in {p, q} :
         /\ rank(n) \in 1..Unranked /\ o(n) \in Scorings
         /\ rank(n) = Unranked <=> ~o(n).competes
         /\ PointsOf(t, n) \in Nat /\ o(n).raw \in Nat /\ (o(n).handicap \/ PointsOf(t, n) <= o(n).raw)
  BY <1>1, RowHas
<1>3. \A n \in {p, q} :
         /\ o(n).status \in CompetitiveStatuses \cup StatusOnlyValues \cup {"uploaded"} /\ o(n).competes \in BOOLEAN
         /\ o(n).competes <=> o(n).status \in CompetitiveStatuses
  BY <1>2 DEF Scorings
<1>4. p \in Nat /\ q \in Nat /\ Unranked \in Nat
  BY <1>1, Rows
<1>5. \A n \in {p, q} : DeskClass(t, n) = IF o(n).competes THEN 0 ELSE
         [minimum_distance |-> 1, did_not_fly |-> 2, absent |-> 3, uploaded |-> 4][o(n).status]
  BY <1>1, <1>2, <1>3 DEF DeskClass, StatusOf
<1>6. \A n \in {p, q} : DeskClass(t, n) \in Int
  BY <1>3, <1>5 DEF CompetitiveStatuses, StatusOnlyValues
<1>7. \/ DeskClass(t, p) < DeskClass(t, q)
      \/ DeskClass(t, p) = DeskClass(t, q) /\ (rank(p) < rank(q) \/ (rank(p) = rank(q) /\ p < q))
  <2>1. rank(p) \in Int /\ rank(q) \in Int
    BY <1>2, <1>4
  <2>2. Less(<<DeskClass(t, p), rank(p), p>>, <<DeskClass(t, q), rank(q), q>>)
    BY <1>1 DEF AboveOnDesk
  <2> QED BY <1>4, <1>6, <2>1, <2>2, LessTriple
<1>8. \A n \in {p, q} : LineKey(v, t, n) = <<bucket(n), minus(n), rank(n), n>>
  BY <1>1 DEF LineKey, StatusOf
<1>9. \A n \in {p, q} : bucket(n) \in Int /\ minus(n) \in Int /\ rank(n) \in Int /\ n \in Int
  BY <1>2, <1>4
<1>10. p # q
  BY <1>2, <1>4, <1>6, <1>7
<1>11. rank(p) <= rank(q) /\ o(p).competes /\ o(q).competes => PointsOf(t, p) >= PointsOf(t, q)
  <2> HAVE rank(p) <= rank(q) /\ o(p).competes /\ o(q).competes
  <2>1. OfOneScoring(results[t])
    BY DEF PagesInv
  <2>2. RankedBy(o(p)) >= RankedBy(o(q))
    BY <1>1, <1>2, <2>1 DEF OfOneScoring, Has
  <2>3. \A n \in {p, q} : RankedBy(o(n)) = IF o(n).handicap THEN PointsOf(t, n) ELSE o(n).raw
    BY DEF RankedBy, PointsOf
  <2> HIDE DEF o, rank
  <2>4. PointsOf(t, p) >= RankedBy(o(p)) /\ RankedBy(o(q)) >= PointsOf(t, q)
    BY <1>2, <2>3 DEF o
  <2> QED BY <1>2, <2>2, <2>3, <2>4
<1> SUFFICES \/ bucket(p) < bucket(q)
             \/ /\ bucket(p) = bucket(q)
                /\ \/ minus(p) < minus(q)
                   \/ minus(p) = minus(q) /\ (rank(p) < rank(q) \/ (rank(p) = rank(q) /\ p < q))
  <2>1. /\ LineKey(v, t, p) = <<bucket(p), minus(p), rank(p), p>>
        /\ LineKey(v, t, q) = <<bucket(q), minus(q), rank(q), q>>
    BY <1>8
  <2>2. /\ p \in Int /\ bucket(p) \in Int /\ minus(p) \in Int /\ rank(p) \in Int
        /\ q \in Int /\ bucket(q) \in Int /\ minus(q) \in Int /\ rank(q) \in Int
    BY <1>9
  <2> HIDE DEF bucket, minus, rank, o
  <2>3. Less(<<bucket(p), minus(p), rank(p), p>>, <<bucket(q), minus(q), rank(q), q>>)
           <=> bucket(p) < bucket(q) \/ (bucket(p) = bucket(q) /\ (minus(p) < minus(q)
                  \/ (minus(p) = minus(q) /\ (rank(p) < rank(q) \/ (rank(p) = rank(q) /\ p < q)))))
    BY LessFour
  <2> QED BY <2>1, <2>3, Zenon DEF AboveInTable
<1>12. CASE o(q).competes
  <2>1. o(p).competes /\ DeskClass(t, q) = 0 /\ DeskClass(t, p) = 0
    BY <1>3, <1>5, <1>6, <1>7, <1>12 DEF CompetitiveStatuses, StatusOnlyValues
  <2>2. rank(p) < rank(q) \/ (rank(p) = rank(q) /\ p < q)
    BY <1>7, <2>1
  <2>3. rank(p) <= rank(q)
    BY <1>9, <2>2
  <2>5. bucket(p) = 0 /\ bucket(q) = 0
    BY <1>3, <1>12, <2>1 DEF CompetitiveStatuses
  <2>6. PointsOf(t, p) > PointsOf(t, q) \/ PointsOf(t, p) = PointsOf(t, q)
    BY <1>2, <1>11, <1>12, <2>1, <2>3
  <2> QED BY <1>2, <2>2, <2>5, <2>6
<1>13. CASE ~o(q).competes
  <2>1. o(q).status \in {"did_not_fly", "absent"}
    BY <1>3, <1>13 DEF StatusOnlyValues, StatusOf
  <2>2. rank(q) = Unranked
    BY <1>2, <1>13
  <2>3. CASE o(p).competes \/ o(p).status = "minimum_distance"
    BY <1>3, <2>1, <2>3 DEF CompetitiveStatuses
  <2>4. CASE ~o(p).competes /\ o(p).status # "minimum_distance"
    <3>1. o(p).status \in {"did_not_fly", "absent"}
      BY <1>3, <1>5, <1>7, <1>13, <2>1, <2>4 DEF StatusOnlyValues
    <3>2. rank(p) = Unranked
      BY <1>2, <2>4
    <3>3. bucket(p) = DeskClass(t, p) - 1 /\ bucket(q) = DeskClass(t, q) - 1
      BY <1>5, <1>13, <2>1, <2>4, <3>1
    <3>4. minus(p) = 0 /\ minus(q) = 0
      BY <2>1, <3>1
    <3> QED BY <1>4, <1>6, <1>7, <2>2, <3>2, <3>3, <3>4
  <2> QED BY <2>3, <2>4
<1> QED BY <1>12, <1>13

LEMMA PagesTyped == PagesInv => PagesTypeOK
<1> SUFFICES ASSUME PagesInv PROVE PagesTypeOK
  OBVIOUS
<1>1. \A t \in Sheets : results[t] \in [Competitors -> ResultOf(t) \cup {NoResult}]
  BY DEF PagesInv, Typed, AreRows
<1>2. ASSUME NEW t \in Sheets, NEW p \in Competitors, results[t][p] # NoResult
      PROVE  results[t][p].rank = Unranked <=> ~results[t][p].outcome.competes
  BY <1>2, RowHas DEF Has
<1> QED BY <1>1, <1>2 DEF PagesInv, Typed, Listings, PagesTypeOK

\* Whatever is rescored, published, withdrawn, edited or removed, in any order
\* and by any number of requests that cross, for every number of tasks and
\* pilots, with handicaps and without: what the organisers, the pilots and the
\* public read of a task is of one scoring, unless another rescoring committed
\* between the DELETE and the commit of its last one; their totals agree once
\* everything is out, no pilot stands behind one who did no better on any day, a
\* track is replayed exactly if its line is public, and the desk and the tables
\* order the pilots of a task of one scoring alike, but for the named
\* exceptions: penalties without handicaps and points for the minimum distance
\* (routers/results.py, routers/public.py, services/scoring.py).
THEOREM PagesAlwaysAgree == PagesSpec => []PagesAgree
<1>1. PagesInv => PagesAgree
  BY PagesTyped, OneScoring, TotalsDo, BetterDo, ReplayDoes, OrdersDo DEF PagesAgree
<1> QED BY <1>1, PagesInvHolds, PTL

-----------------------------------------------------------------------------
(* The evaluation of a track.                                              *)

\* A finite set of numbers has a least and a greatest one.
LEMMA EndsOf ==
  ASSUME NEW S, S # {}, NEW a \in Nat, NEW b \in Nat, S \subseteq a..b
  PROVE  /\ Min(S) \in S /\ \A y \in S : Min(S) <= y
         /\ Max(S) \in S /\ \A y \in S : y <= Max(S)
<1>1. S \subseteq Nat
  OBVIOUS
<1>2. IsFiniteSet(S)
  <2>1. IsFiniteSet(a..b)
    BY FS_Interval
  <2> QED BY <2>1, FS_Subset
<1>3. PICK x \in S : \A y \in S : x <= y
  BY <1>1, LeastNumber
<1>4. Min(S) \in S /\ \A y \in S : Min(S) <= y
  BY <1>3, Zenon DEF Min
<1> QED BY <1>1, <1>2, <1>4, MaxIsNumber

-----------------------------------------------------------------------------
(* Crossings.                                                              *)

\* What a scan may find of a point, from a cursor on
IsHit(p, trk, cursor, h) ==
    h = NoHit \/ \E i \in cursor..Len(trk) : Crosses(p, trk, i) /\ h = HitAt(p, i)

Starts == Nat \ {0}

LEMMA ShownIs ==
  ASSUME NEW p, NEW trk, NEW i \in Starts, Crosses(p, trk, i)
  PROVE  /\ Shown(p, i) \in Starts /\ Shown(p, i) <= i /\ i <= Shown(p, i) + 1
         /\ HitAt(p, i) # NoHit /\ HitAt(p, i).shown = Shown(p, i) /\ HitAt(p, i).after = i
         /\ ~p.exit /\ ~IsStart(p) => Shown(p, i) = i
<1>1. p.exit => i > 1
  BY DEF Crosses, Leaves
<1>2. Shown(p, i) \in Starts /\ Shown(p, i) <= i /\ i <= Shown(p, i) + 1 /\ (~p.exit /\ ~IsStart(p) => Shown(p, i) = i)
  BY <1>1 DEF Shown, Starts
<1> QED BY <1>2 DEF HitAt, NoHit, Starts

LEMMA FirstAndLast ==
  ASSUME NEW p, NEW trk \in Seq(Int), NEW cursor \in Starts, NEW latest
  PROVE  /\ Crossings(p, trk, cursor, latest) = {} =>
               FirstHit(p, trk, cursor, latest) = NoHit /\ LastHit(p, trk, cursor, latest) = NoHit
         /\ Crossings(p, trk, cursor, latest) # {} =>
               /\ \E i \in Crossings(p, trk, cursor, latest) :
                     /\ \A j \in Crossings(p, trk, cursor, latest) : i <= j
                     /\ FirstHit(p, trk, cursor, latest) = HitAt(p, i)
               /\ \E i \in Crossings(p, trk, cursor, latest) :
                     /\ \A j \in Crossings(p, trk, cursor, latest) : j <= i
                     /\ LastHit(p, trk, cursor, latest) = HitAt(p, i)
<1> DEFINE is == Crossings(p, trk, cursor, latest)
<1>1. is \subseteq cursor..Len(trk) /\ cursor \in Nat /\ Len(trk) \in Nat
  BY DEF Crossings, Starts
<1>2. /\ FirstHit(p, trk, cursor, latest) = IF is = {} THEN NoHit ELSE HitAt(p, Min(is))
      /\ LastHit(p, trk, cursor, latest) = IF is = {} THEN NoHit ELSE HitAt(p, Max(is))
  BY DEF FirstHit, LastHit
<1> HIDE DEF is
<1>3. is # {} => /\ Min(is) \in is /\ \A y \in is : Min(is) <= y
                 /\ Max(is) \in is /\ \A y \in is : y <= Max(is)
  BY <1>1, EndsOf
<1> QED BY <1>2, <1>3 DEF is

LEMMA FoundAreHits ==
  ASSUME NEW p, NEW trk \in Seq(Int), NEW cursor \in Starts, NEW latest
  PROVE  IsHit(p, trk, cursor, FirstHit(p, trk, cursor, latest)) /\ IsHit(p, trk, cursor, LastHit(p, trk, cursor, latest))
<1>1. \A i \in Crossings(p, trk, cursor, latest) : i \in cursor..Len(trk) /\ Crosses(p, trk, i)
  BY DEF Crossings
<1> QED BY <1>1, FirstAndLast DEF IsHit

-----------------------------------------------------------------------------
(* The walk over the points.                                               *)

HitRecords == [shown : Nat, after : Nat]

WalkStates(t, trk) ==
    [hits : [Dom(t) -> HitRecords], cursor : 1..(Len(trk) + 1), missed : 0..Len(t.points), ignored : SUBSET Dom(t)]

LEMMA HitIsRecord ==
  ASSUME NEW p, NEW trk \in Seq(Int), NEW cursor \in Starts, NEW h, IsHit(p, trk, cursor, h)
  PROVE  h \in HitRecords /\ Beyond(h) \in 1..(Len(trk) + 1)
<1>1. NoHit \in HitRecords /\ Beyond(NoHit) \in 1..(Len(trk) + 1)
  BY DEF NoHit, HitRecords, Beyond, Starts
<1>2. ASSUME NEW i \in cursor..Len(trk), Crosses(p, trk, i), h = HitAt(p, i)
      PROVE  h \in HitRecords /\ Beyond(h) \in 1..(Len(trk) + 1)
  <2>1. i \in Starts
    BY DEF Starts
  <2> QED BY <1>2, <2>1, ShownIs DEF HitAt, HitRecords, Starts, Beyond
<1> QED BY <1>1, <1>2 DEF IsHit

LEMMA TaskIs ==
  ASSUME NEW t \in TaskRecords
  PROVE  /\ t.points \in Seq(PointRecords) /\ Len(t.points) \in Nat \ {0} /\ Dom(t) = 1..Len(t.points)
         /\ \A w \in Dom(t) : /\ t.points[w] \in PointRecords /\ t.points[w].at \in Int
                              /\ t.points[w].exit \in BOOLEAN
<1>1. t.points \in Seq(PointRecords) /\ t.points # <<>>
  BY DEF TaskRecords
<1>2. Len(t.points) \in Nat \ {0} /\ Dom(t) = 1..Len(t.points)
  BY <1>1 DEF Dom
<1>3. \A w \in Dom(t) : t.points[w] \in PointRecords
  BY <1>1, <1>2
<1>4. \A p \in PointRecords : p.at \in Int /\ p.exit \in BOOLEAN
  BY DEF PointRecords
<1> QED BY <1>1, <1>2, <1>3, <1>4

LEMMA UnvisitedIs ==
  ASSUME NEW t \in TaskRecords, NEW trk \in Seq(Int)
  PROVE  Unvisited(t) \in WalkStates(t, trk)
BY TaskIs DEF Unvisited, WalkStates, HitRecords, NoHit, Starts

LEMMA VisitedIs ==
  ASSUME NEW t \in TaskRecords, NEW trk \in Seq(Int), NEW w \in Dom(t), NEW s \in WalkStates(t, trk),
         NEW h \in HitRecords, Beyond(h) \in 1..(Len(trk) + 1)
  PROVE  Visited(t, s, w, h) \in WalkStates(t, trk)
<1>1. Dom(t) = 1..Len(t.points) /\ Len(t.points) \in Nat
  BY TaskIs
<1>2. [s EXCEPT !.hits[w] = h, !.cursor = Beyond(h)] \in WalkStates(t, trk)
  BY DEF WalkStates
<1>3. [s EXCEPT !.ignored = @ \cup {w}, !.cursor = Beyond(h)] \in WalkStates(t, trk)
  BY DEF WalkStates
<1>4. [s EXCEPT !.missed = w] \in WalkStates(t, trk)
  <2>1. w \in 0..Len(t.points)
    BY <1>1
  <2> QED BY <2>1 DEF WalkStates
<1> QED BY <1>2, <1>3, <1>4 DEF Visited

LEMMA WalkHitIs ==
  ASSUME NEW t, NEW trk \in Seq(Int), NEW s, s.cursor \in Starts, NEW w
  PROVE  IsHit(t.points[w], trk, s.cursor, WalkHit(t, trk, s, w))
BY FoundAreHits DEF WalkHit, StartHit

\* The states of a walk that found these hits.
IsWalk(f, t, trk, found) ==
    /\ f \in [0..Len(t.points) -> WalkStates(t, trk)] /\ f[0] = Unvisited(t)
    /\ \A w \in Dom(t) : /\ IsHit(t.points[w], trk, f[w - 1].cursor, found[w])
                         /\ f[w] = Visited(t, f[w - 1], w, found[w])

LEMMA WalkIs ==
  ASSUME NEW t \in TaskRecords, NEW trk \in Seq(Int)
  PROVE  \E f, found : /\ IsWalk(f, t, trk, found) /\ Walk(t, trk) = f[Len(t.points)]
                      /\ \A w \in Dom(t) : found[w] = WalkHit(t, trk, f[w - 1], w)
<1> DEFINE n == Len(t.points)
           S == WalkStates(t, trk)
           Step(w, s) == Visited(t, s, w, WalkHit(t, trk, s, w))
           G == [w \in 1..n |-> [s \in S |-> Step(w, s)]]
           All(f) == f = [w \in 0..n |-> IF w = 0 THEN Unvisited(t) ELSE Step(w, f[w - 1])]
           h == CHOOSE x : All(x)
<1>1. n \in Nat /\ Dom(t) = 1..n /\ Unvisited(t) \in S
  BY TaskIs, UnvisitedIs
<1>2. ASSUME NEW w \in 1..n, NEW s \in S
      PROVE  IsHit(t.points[w], trk, s.cursor, WalkHit(t, trk, s, w)) /\ Step(w, s) \in S
  <2>1. s.cursor \in Starts
    BY DEF WalkStates, Starts
  <2>2. IsHit(t.points[w], trk, s.cursor, WalkHit(t, trk, s, w))
    BY <2>1, WalkHitIs
  <2> QED BY <1>1, <2>1, <2>2, HitIsRecord, VisitedIs
<1>3. Walk(t, trk) = h[n]
  BY DEF Walk
<1> HIDE DEF Step, S, n, h
<1>4. G \in [1..n -> [S -> S]]
  BY <1>2
<1>5. \A w \in 1..n : w - 1 \in 0..n
  BY <1>1
<1>6. All(h)
  <2>1. PICK f : IsRun(f, n, S, Unvisited(t), G)
    <3> HIDE DEF G
    <3> QED BY <1>1, <1>4, RunExists
  <2>2. /\ f \in [0..n -> S] /\ f[0] = Unvisited(t)
        /\ \A w \in 1..n : f[w - 1] \in S /\ f[w] = Step(w, f[w - 1])
    BY <1>5, <2>1 DEF IsRun
  <2>3. All(f)
    BY <1>1, <2>2
  <2> QED BY <2>3, Zenon DEF h
<1>7. /\ h = [k \in 0..n |-> h[k]] /\ h[0] = Unvisited(t)
      /\ \A k \in 1..n : h[k] = Step(k, h[k - 1])
  <2>1. \A k \in 0..n : h[k] = IF k = 0 THEN Unvisited(t) ELSE Step(k, h[k - 1])
    BY <1>6
  <2>2. h = [k \in 0..n |-> h[k]]
    BY <1>6, <2>1
  <2>3. 0 \in 0..n /\ \A k \in 1..n : k \in 0..n /\ k # 0
    BY <1>1
  <2> QED BY <2>1, <2>2, <2>3
<1>8. IsRun(h, n, S, Unvisited(t), G)
  <2>1. \A k \in 1..n : h[k - 1] \in S => h[k] = G[k][h[k - 1]]
    BY <1>7
  <2> HIDE DEF G
  <2> QED BY <1>1, <1>4, <1>7, <2>1, RunStays
<1>9. h \in [0..n -> S] /\ \A k \in 1..n : h[k - 1] \in S
  BY <1>5, <1>8 DEF IsRun
<1> DEFINE found == [w \in 1..n |-> WalkHit(t, trk, h[w - 1], w)]
<1>10. \A w \in 1..n : found[w] = WalkHit(t, trk, h[w - 1], w)
  OBVIOUS
<1> HIDE DEF found
<1>11. IsWalk(h, t, trk, found)
  <2>1. \A w \in 1..n : IsHit(t.points[w], trk, h[w - 1].cursor, found[w])
    BY <1>2, <1>9, <1>10
  <2>2. \A w \in 1..n : h[w] = Visited(t, h[w - 1], w, found[w])
    BY <1>7, <1>10 DEF Step
  <2> QED BY <1>1, <1>7, <1>9, <2>1, <2>2 DEF IsWalk, S, n
<1> QED BY <1>1, <1>3, <1>10, <1>11 DEF n

-----------------------------------------------------------------------------
(* The scans of scoring.py find what those of verify.py find.              *)

\* What is found of crossings: the first of them, or the last.
IsFound(p, C, last, h) ==
    IF C = {} THEN h = NoHit
    ELSE \E j \in C : (\A k \in C : IF last THEN k <= j ELSE j <= k) /\ h = HitAt(p, j)

LEMMA FoundGrows ==
  ASSUME NEW p, NEW C \in SUBSET Nat, NEW last \in BOOLEAN, NEW h, IsFound(p, C, last, h), NEW i \in Nat, \A k \in C : k < i
  PROVE  /\ last \/ C = {} => IsFound(p, C \cup {i}, last, HitAt(p, i))
         /\ ~last /\ C # {} => IsFound(p, C \cup {i}, last, h)
<1>1. ASSUME last \/ C = {} PROVE IsFound(p, C \cup {i}, last, HitAt(p, i))
  <2>1. \A k \in C \cup {i} : IF last THEN k <= i ELSE i <= k
    BY <1>1
  <2> QED BY <2>1 DEF IsFound
<1>2. ASSUME ~last, C # {} PROVE IsFound(p, C \cup {i}, last, h)
  <2>1. PICK j \in C : (\A k \in C : j <= k) /\ h = HitAt(p, j)
    BY <1>2 DEF IsFound
  <2>2. \A k \in C \cup {i} : j <= k
    BY <2>1
  <2> QED BY <1>2, <2>1, <2>2 DEF IsFound
<1> QED BY <1>1, <1>2

LEMMA FoundIsHit ==
  ASSUME NEW p, NEW trk \in Seq(Int), NEW cursor \in Starts, NEW latest
  PROVE  /\ \A h : IsFound(p, Crossings(p, trk, cursor, latest), FALSE, h) => h = FirstHit(p, trk, cursor, latest)
         /\ \A h : IsFound(p, Crossings(p, trk, cursor, latest), TRUE, h) => h = LastHit(p, trk, cursor, latest)
<1> DEFINE C == Crossings(p, trk, cursor, latest)
<1>1. C \subseteq Nat
  BY DEF Crossings, Starts
<1>2. CASE C = {}
  BY <1>2, FirstAndLast DEF IsFound
<1>3. CASE C # {}
  <2>1. /\ \E i \in C : (\A j \in C : i <= j) /\ FirstHit(p, trk, cursor, latest) = HitAt(p, i)
        /\ \E i \in C : (\A j \in C : j <= i) /\ LastHit(p, trk, cursor, latest) = HitAt(p, i)
    BY <1>3, FirstAndLast
  <2> HIDE DEF C
  <2>2. ASSUME NEW h, IsFound(p, C, FALSE, h) PROVE h = FirstHit(p, trk, cursor, latest)
    <3>1. PICK i \in C : (\A j \in C : i <= j) /\ FirstHit(p, trk, cursor, latest) = HitAt(p, i)
      BY <2>1
    <3>2. PICK j \in C : (\A k \in C : j <= k) /\ h = HitAt(p, j)
      BY <1>3, <2>2 DEF IsFound
    <3>3. i <= j /\ j <= i /\ i \in Nat /\ j \in Nat
      BY <1>1, <3>1, <3>2
    <3>4. i = j
      BY <3>3
    <3> QED BY <3>1, <3>2, <3>4
  <2>3. ASSUME NEW h, IsFound(p, C, TRUE, h) PROVE h = LastHit(p, trk, cursor, latest)
    <3>1. PICK i \in C : (\A j \in C : j <= i) /\ LastHit(p, trk, cursor, latest) = HitAt(p, i)
      BY <2>1
    <3>2. PICK j \in C : (\A k \in C : k <= j) /\ h = HitAt(p, j)
      BY <1>3, <2>3 DEF IsFound
    <3>3. i <= j /\ j <= i /\ i \in Nat /\ j \in Nat
      BY <1>1, <3>1, <3>2
    <3>4. i = j
      BY <3>3
    <3> QED BY <3>1, <3>2, <3>4
  <2> QED BY <2>2, <2>3 DEF C
<1> QED BY <1>2, <1>3

\* The crossings among the fixes that a scan has looked at
Looked(p, trk, cursor, latest, i) == {j \in cursor..i : At(j) <= latest /\ Crosses(p, trk, j)}

LEMMA LookedAre ==
  ASSUME NEW p, NEW trk \in Seq(Int), NEW cursor \in Starts, NEW latest \in Nat, NEW i \in 1..Len(trk)
  PROVE  /\ Looked(p, trk, cursor, latest, i) =
               IF i >= cursor /\ At(i) <= latest /\ Crosses(p, trk, i)
               THEN Looked(p, trk, cursor, latest, i - 1) \cup {i} ELSE Looked(p, trk, cursor, latest, i - 1)
         /\ Looked(p, trk, cursor, latest, i - 1) \in SUBSET Nat
         /\ \A k \in Looked(p, trk, cursor, latest, i - 1) : k < i /\ k \in Starts
         /\ Looked(p, trk, cursor, latest, 0) = {}
         /\ Looked(p, trk, cursor, latest, Len(trk)) = Crossings(p, trk, cursor, latest)
         /\ i < cursor => Looked(p, trk, cursor, latest, i) = {}
<1>1. cursor \in Nat /\ cursor >= 1 /\ Len(trk) \in Nat /\ i \in Nat
  BY DEF Starts
<1>2. \A k : k \in cursor..i <=> (k \in cursor..(i - 1) \/ (i >= cursor /\ k = i))
  BY <1>1
<1>3. \A k \in cursor..(i - 1) : k < i /\ k \in Starts /\ k \in Nat
  BY <1>1 DEF Starts
<1>4. cursor..0 = {} /\ (i < cursor => cursor..i = {})
  BY <1>1
<1>5. Looked(p, trk, cursor, latest, i) = IF i >= cursor /\ At(i) <= latest /\ Crosses(p, trk, i)
                                          THEN Looked(p, trk, cursor, latest, i - 1) \cup {i}
                                          ELSE Looked(p, trk, cursor, latest, i - 1)
  BY <1>2 DEF Looked
<1>6. Looked(p, trk, cursor, latest, i - 1) \subseteq cursor..(i - 1)
  BY DEF Looked
<1>7. Looked(p, trk, cursor, latest, 0) = {} /\ (i < cursor => Looked(p, trk, cursor, latest, i) = {})
  BY <1>4 DEF Looked
<1>8. Looked(p, trk, cursor, latest, Len(trk)) = Crossings(p, trk, cursor, latest)
  BY DEF Looked, Crossings
<1> QED BY <1>3, <1>5, <1>6, <1>7, <1>8

\* A scan over the fixes that looks at those from the cursor to the latest time:
\* F relates a fix to the states of a scan that has looked at it.
IsScan(p, trk, cursor, latest, last, S, s, look, F, f) ==
    /\ s \in S /\ s.hit = NoHit /\ look \in [1..Len(trk) -> [S -> S]] /\ <<cursor - 1, s>> \in F
    /\ \A i \in cursor..Len(trk), r \in S : <<i - 1, r>> \in F =>
             /\ <<i, look[i][r]>> \in F
             /\ look[i][r].hit = IF Crosses(p, trk, i) THEN HitAt(p, i) ELSE r.hit
    /\ f \in [0..Len(trk) -> S] /\ f[0] = s
    /\ \A i \in 1..Len(trk) :
           f[i] = IF Skips(f[i - 1], i, cursor, latest, last) THEN f[i - 1] ELSE look[i][f[i - 1]]

LEMMA ScanFinds ==
  ASSUME NEW p, NEW trk \in Seq(Int), NEW cursor \in 1..(Len(trk) + 1), NEW latest \in Nat, NEW last \in BOOLEAN,
         NEW S, NEW s, NEW look, NEW F, NEW f, IsScan(p, trk, cursor, latest, last, S, s, look, F, f)
  PROVE  f[Len(trk)].hit = IF last THEN LastHit(p, trk, cursor, latest) ELSE FirstHit(p, trk, cursor, latest)
<1>0. /\ s \in S /\ s.hit = NoHit /\ look \in [1..Len(trk) -> [S -> S]] /\ <<cursor - 1, s>> \in F
      /\ \A i \in cursor..Len(trk), r \in S : <<i - 1, r>> \in F =>
             /\ <<i, look[i][r]>> \in F
             /\ look[i][r].hit = IF Crosses(p, trk, i) THEN HitAt(p, i) ELSE r.hit
      /\ f \in [0..Len(trk) -> S] /\ f[0] = s
      /\ \A i \in 1..Len(trk) :
             f[i] = IF Skips(f[i - 1], i, cursor, latest, last) THEN f[i - 1] ELSE look[i][f[i - 1]]
  BY DEF IsScan
<1> DEFINE n == Len(trk)
           C(i) == Looked(p, trk, cursor, latest, i)
           Settled(i) == IF i < cursor THEN f[i] = s ELSE <<i, f[i]>> \in F
           Good(i) == /\ IsFound(p, C(i), last, f[i].hit)
                      /\ (last \/ C(i) = {}) /\ (i >= cursor => At(i) <= latest) => Settled(i)
           T == {i \in 0..n : Good(i)}
<1>1. n \in Nat /\ cursor \in Nat /\ cursor \in Starts /\ n \in 0..n
  BY DEF Starts
<1>2. ASSUME NEW i \in 1..n
      PROVE  /\ C(i) = IF i >= cursor /\ At(i) <= latest /\ Crosses(p, trk, i) THEN C(i - 1) \cup {i} ELSE C(i - 1)
             /\ C(i - 1) \in SUBSET Nat /\ \A k \in C(i - 1) : k < i /\ k \in Starts
             /\ C(0) = {} /\ (i < cursor => C(i) = {})
  BY <1>1, LookedAre
<1>3. C(0) = {} /\ C(n) = Crossings(p, trk, cursor, latest)
  <2>1. cursor..0 = {}
    BY <1>1
  <2> QED BY <2>1 DEF Looked, Crossings
<1>4. 0 \in T
  BY <1>0, <1>1, <1>3 DEF IsFound
<1>5. ASSUME NEW i \in 1..n, i - 1 \in T PROVE i \in T
  <2> DEFINE r == f[i - 1]
  <2>1. i \in Nat /\ i - 1 \in 0..n /\ i \in 0..n
    BY <1>1
  <2>11. r \in S
    BY <1>0, <2>1
  <2>12. C(i - 1) \in SUBSET Nat /\ \A k \in C(i - 1) : k < i
    BY <1>2
  <2>2. f[i] = IF Skips(r, i, cursor, latest, last) THEN r ELSE look[i][r]
    BY <1>0
  <2>3. Good(i - 1)
    BY <1>5
  <2>4. r.hit # NoHit <=> C(i - 1) # {}
    <3>1. \A j \in C(i - 1) : HitAt(p, j) # NoHit
      <4>1. \A j \in C(i - 1) : j \in Starts /\ Crosses(p, trk, j)
        BY <1>2 DEF Looked
      <4> QED BY <4>1, ShownIs
    <3> QED BY <2>3, <3>1 DEF IsFound
  <2> HIDE DEF r, C
  <2>5. CASE i < cursor
    <3>1. f[i] = r /\ C(i) = {} /\ C(i - 1) = {}
      BY <1>2, <2>2, <2>5 DEF Skips
    <3>2. i - 1 < cursor
      BY <2>5, <2>1, <1>1
    <3>3. ~(i - 1 >= cursor)
      BY <2>5, <2>1, <1>1
    <3>4. IsFound(p, C(i), last, f[i].hit)
      BY <2>3, <3>1 DEF r
    <3>5. f[i] = s
      BY <2>3, <3>1, <3>2, <3>3 DEF r
    <3> QED BY <2>1, <2>5, <3>4, <3>5
  <2>6. CASE i >= cursor /\ At(i) > latest
    <3>1. f[i] = r /\ C(i) = C(i - 1)
      BY <1>1, <1>2, <2>2, <2>6 DEF Skips, At
    <3>2. ~(At(i) <= latest)
      BY <1>1, <2>6 DEF At
    <3> QED BY <2>1, <2>3, <2>6, <3>1, <3>2 DEF r
  <2>7. CASE i >= cursor /\ At(i) <= latest /\ C(i - 1) # {} /\ ~last
    <3>1. f[i] = r
      BY <2>2, <2>4, <2>7 DEF Skips
    <3>2. C(i) # {}
      BY <1>2, <2>7
    <3>3. IsFound(p, C(i), last, r.hit)
      <4>1. IsFound(p, C(i - 1), last, r.hit)
        BY <2>3 DEF r
      <4>2. IsFound(p, C(i - 1) \cup {i}, last, r.hit)
        BY <2>1, <2>7, <2>12, <4>1, FoundGrows
      <4> QED BY <1>2, <4>1, <4>2
    <3> QED BY <2>1, <2>7, <3>1, <3>2, <3>3
  <2>8. CASE i >= cursor /\ At(i) <= latest /\ (C(i - 1) = {} \/ last)
    <3>1. f[i] = look[i][r]
      BY <2>2, <2>4, <2>8, <1>1 DEF Skips, At
    <3>2. At(i - 1) <= latest
      BY <2>8, <2>1 DEF At
    <3>3. <<i - 1, r>> \in F
      <4>1. Settled(i - 1)
        BY <2>3, <2>8, <3>2
      <4>2. CASE i - 1 < cursor
        <5>1. i - 1 = cursor - 1
          BY <4>2, <2>8, <1>1, <2>1
        <5>2. r = s
          BY <4>1, <4>2 DEF r
        <5> QED BY <1>0, <5>1, <5>2
      <4>3. CASE ~(i - 1 < cursor)
        BY <4>1, <4>3 DEF r
      <4> QED BY <4>2, <4>3
    <3>4. <<i, f[i]>> \in F /\ f[i].hit = IF Crosses(p, trk, i) THEN HitAt(p, i) ELSE r.hit
      <4>1. i \in cursor..Len(trk)
        BY <2>8, <1>1
      <4> QED BY <1>0, <2>11, <3>1, <3>3, <4>1
    <3>5. IsFound(p, C(i), last, f[i].hit)
      <4>1. IsFound(p, C(i - 1), last, r.hit)
        BY <2>3 DEF r
      <4>2. IsFound(p, C(i - 1) \cup {i}, last, HitAt(p, i))
        BY <2>1, <2>8, <2>12, <4>1, FoundGrows
      <4> QED BY <1>2, <2>8, <3>4, <4>1, <4>2
    <3>6. Settled(i)
      BY <2>8, <3>4, <1>1
    <3> QED BY <2>1, <3>5, <3>6
  <2>9. At(i) > latest \/ At(i) <= latest
    BY <2>1 DEF At
  <2>10. i < cursor \/ i >= cursor
    BY <2>1, <1>1
  <2> QED BY <2>5, <2>6, <2>7, <2>8, <2>9, <2>10
<1>6. n \in T
  <2>1. 0..n \subseteq T
    <3> HIDE DEF T
    <3> QED BY <1>1, <1>4, <1>5, UpTo
  <2> QED BY <1>1, <2>1
<1>7. IsFound(p, Crossings(p, trk, cursor, latest), last, f[n].hit)
  BY <1>3, <1>6
<1>8. CASE last = TRUE
  <2>1. IsFound(p, Crossings(p, trk, cursor, latest), TRUE, f[n].hit)
    BY <1>7, <1>8
  <2>2. \A h : IsFound(p, Crossings(p, trk, cursor, latest), TRUE, h) => h = LastHit(p, trk, cursor, latest)
    BY <1>1, FoundIsHit
  <2> QED BY <1>8, <2>1, <2>2
<1>9. CASE last = FALSE
  <2>1. IsFound(p, Crossings(p, trk, cursor, latest), FALSE, f[n].hit)
    BY <1>7, <1>9
  <2>2. \A h : IsFound(p, Crossings(p, trk, cursor, latest), FALSE, h) => h = FirstHit(p, trk, cursor, latest)
    BY <1>1, FoundIsHit
  <2> QED BY <1>9, <2>1, <2>2
<1> QED BY <1>8, <1>9

LEMMA EntryScanIs ==
  ASSUME NEW p \in PointRecords, ~p.exit, NEW trk \in Seq(Int), NEW cursor \in 1..(Len(trk) + 1), NEW latest \in Nat,
         NEW last \in BOOLEAN
  PROVE  EntryScan(p, trk, cursor, latest, last) =
             IF last THEN LastHit(p, trk, cursor, latest) ELSE FirstHit(p, trk, cursor, latest)
<1> DEFINE n == Len(trk)
           S == [hit : HitRecords, inside : BOOLEAN, outside : Nat]
           before == cursor > 1 /\ Within(p, trk[cursor - 1])
           start == [hit |-> NoHit, inside |-> before, outside |-> IF before THEN 0 ELSE cursor - 1]
           look == [i \in 1..n |-> [r \in S |-> EntryLook(p, trk, r, i)]]
           Step(i, r) == IF Skips(r, i, cursor, latest, last) THEN r ELSE EntryLook(p, trk, r, i)
           G == [i \in 1..n |-> [r \in S |-> Step(i, r)]]
           All(f) == f = [i \in 0..n |-> IF i = 0 THEN start ELSE Step(i, f[i - 1])]
           h == CHOOSE x : All(x)
           F == {e \in Nat \X S : /\ e[2].inside <=> (e[1] >= 1 /\ Within(p, trk[e[1]]))
                                  /\ ~e[2].inside => e[2].outside = e[1]}
<1>1. n \in Nat /\ cursor \in Nat /\ cursor >= 1 /\ \A i \in 1..n : trk[i] \in Int /\ i \in Nat
  OBVIOUS
<1>2. p.at \in Int /\ p.exit \in BOOLEAN
  BY DEF PointRecords
<1>3. \A x \in Int : Within(p, x) \in BOOLEAN
  BY <1>2 DEF Within, Apart
<1>4. start \in S /\ start.hit = NoHit /\ <<cursor - 1, start>> \in F
  <2>1. before \in BOOLEAN
    OBVIOUS
  <2>2. cursor - 1 \in Nat
    BY <1>1
  <2>3. start \in S
    <3> HIDE DEF before
    <3> QED BY <2>1, <2>2 DEF NoHit, HitRecords
  <2>4. start.hit = NoHit /\ start.inside = before /\ (~before => start.outside = cursor - 1)
    OBVIOUS
  <2>5. cursor - 1 >= 1 <=> cursor > 1
    BY <1>1
  <2> HIDE DEF start
  <2> QED BY <2>1, <2>2, <2>3, <2>4, <2>5
<1>5. ASSUME NEW i \in 1..n, NEW r \in S
      PROVE  /\ EntryLook(p, trk, r, i) \in S
             /\ <<i - 1, r>> \in F =>
                   /\ <<i, EntryLook(p, trk, r, i)>> \in F
                   /\ EntryLook(p, trk, r, i).hit = IF Crosses(p, trk, i) THEN HitAt(p, i) ELSE r.hit
  <2> DEFINE e == EntryLook(p, trk, r, i)
  <2>1. trk[i] \in Int /\ i \in Nat /\ i >= 1 /\ Within(p, trk[i]) \in BOOLEAN /\ r.hit \in HitRecords
        /\ r.inside \in BOOLEAN /\ r.outside \in Nat
    BY <1>1, <1>3
  <2>2. /\ e.inside = Within(p, trk[i]) /\ e.outside = IF Within(p, trk[i]) THEN r.outside ELSE i
        /\ e.hit = IF ~Within(p, trk[i]) \/ r.inside THEN r.hit
                   ELSE [shown |-> IF IsStart(p) /\ r.outside # 0 THEN r.outside ELSE i, after |-> i]
        /\ e = [hit |-> e.hit, inside |-> e.inside, outside |-> e.outside]
    BY DEF EntryLook
  <2>3. e.hit \in HitRecords
    BY <2>1, <2>2 DEF HitRecords
  <2>4. e \in S
    <3> HIDE DEF e
    <3> QED BY <2>1, <2>2, <2>3
  <2>5. ASSUME <<i - 1, r>> \in F
        PROVE  <<i, e>> \in F /\ e.hit = IF Crosses(p, trk, i) THEN HitAt(p, i) ELSE r.hit
    <3>1. (r.inside <=> (i - 1 >= 1 /\ Within(p, trk[i - 1]))) /\ (~r.inside => r.outside = i - 1)
      BY <2>5
    <3>2. <<i, e>> \in F
      <4> HIDE DEF e
      <4> QED BY <2>1, <2>2, <2>4
    <3>3. Crosses(p, trk, i) <=> Within(p, trk[i]) /\ ~r.inside
      BY <2>1, <3>1 DEF Crosses, Enters
    <3>4. Shown(p, i) = IF IsStart(p) /\ i > 1 THEN i - 1 ELSE i
      BY DEF Shown
    <3>5. ~r.inside => (r.outside # 0 <=> i > 1)
      BY <2>1, <3>1
    <3> HIDE DEF e, F
    <3> QED BY <2>1, <2>2, <3>1, <3>2, <3>3, <3>4, <3>5 DEF HitAt
  <2> HIDE DEF F
  <2> QED BY <2>4, <2>5
<1>6. EntryScan(p, trk, cursor, latest, last) = h[n].hit
  BY DEF EntryScan
<1> HIDE DEF F, start, h, S
<1>7. look \in [1..n -> [S -> S]] /\ G \in [1..n -> [S -> S]]
  <2>1. \A i \in 1..n, r \in S : EntryLook(p, trk, r, i) \in S /\ Step(i, r) \in S
    BY <1>5
  <2> HIDE DEF Step
  <2> QED BY <2>1
<1>8. \A i \in 1..n : i - 1 \in 0..n /\ i \in 0..n /\ i # 0
  BY <1>1
<1> HIDE DEF n
<1>9. All(h)
  <2>1. PICK f : IsRun(f, n, S, start, G)
    <3> HIDE DEF G
    <3> QED BY <1>1, <1>4, <1>7, RunExists
  <2>2. /\ f \in [0..n -> S] /\ f[0] = start
        /\ \A i \in 1..n : f[i - 1] \in S /\ f[i] = Step(i, f[i - 1])
    <3> HIDE DEF Step
    <3> QED BY <1>8, <2>1 DEF IsRun
  <2>3. All(f)
    <3> HIDE DEF Step
    <3> QED BY <1>1, <2>2
  <2> QED BY <2>3, Zenon DEF h
<1>10. /\ h = [i \in 0..n |-> h[i]] /\ h[0] = start
       /\ \A i \in 1..n : h[i] = Step(i, h[i - 1])
  <2> HIDE DEF Step
  <2>1. \A i \in 0..n : h[i] = IF i = 0 THEN start ELSE Step(i, h[i - 1])
    BY <1>9
  <2>2. h = [i \in 0..n |-> h[i]]
    BY <1>9, <2>1
  <2>3. 0 \in 0..n
    BY <1>1
  <2> QED BY <1>8, <2>1, <2>2, <2>3
<1>11. h \in [0..n -> S] /\ \A i \in 1..n : h[i - 1] \in S
  <2>1. \A i \in 1..n : h[i - 1] \in S => h[i] = G[i][h[i - 1]]
    <3> HIDE DEF Step
    <3> QED BY <1>10
  <2>2. IsRun(h, n, S, start, G)
    <3> HIDE DEF G
    <3> QED BY <1>1, <1>4, <1>7, <1>10, <2>1, RunStays
  <2> QED BY <1>8, <2>2 DEF IsRun
<1>12. \A i \in 1..n : h[i] = IF Skips(h[i - 1], i, cursor, latest, last) THEN h[i - 1] ELSE look[i][h[i - 1]]
  BY <1>10, <1>11
<1>13. \A i \in cursor..n, r \in S : <<i - 1, r>> \in F =>
             /\ <<i, look[i][r]>> \in F
             /\ look[i][r].hit = IF Crosses(p, trk, i) THEN HitAt(p, i) ELSE r.hit
  <2>1. \A i \in cursor..n : i \in 1..n
    BY <1>1
  <2>2. \A i \in 1..n, r \in S : look[i][r] = EntryLook(p, trk, r, i)
    OBVIOUS
  <2> HIDE DEF look
  <2> QED BY <1>5, <2>1, <2>2
<1> HIDE DEF look
<1>14. start \in S /\ start.hit = NoHit /\ <<cursor - 1, start>> \in F /\ h[0] = start
  BY <1>4, <1>10
<1>15. h \in [0..Len(trk) -> S] /\ look \in [1..Len(trk) -> [S -> S]]
  BY <1>7, <1>11 DEF n
<1>16. IsScan(p, trk, cursor, latest, last, S, start, look, F, h)
  <2> HIDE DEF Step, G, before
  <2> QED BY <1>12, <1>13, <1>14, <1>15 DEF n, IsScan
<1>17. h[Len(trk)].hit = IF last THEN LastHit(p, trk, cursor, latest) ELSE FirstHit(p, trk, cursor, latest)
  <2> HIDE DEF Step, G, before
  <2> QED BY <1>16, ScanFinds
<1> QED BY <1>6, <1>17 DEF n

LEMMA ArmIs ==
  ASSUME NEW p \in PointRecords, NEW trk \in Seq(Int), NEW i \in 1..Len(trk),
         NEW r \in [hit : HitRecords, armed : Nat, nominal : Nat]
  PROVE  /\ Arm(p, trk, r, i) \in [hit : HitRecords, armed : Nat, nominal : Nat]
         /\ Arm(p, trk, r, i).hit = r.hit
         /\ Arm(p, trk, r, i).armed = IF Within(p, trk[i]) THEN i ELSE 0
         /\ (r.nominal = 0 \/ Nominal(p, trk[i])) /\ Arm(p, trk, r, i).nominal # 0 =>
               Arm(p, trk, r, i).nominal = i /\ Within(p, trk[i])
<1>1. i \in Nat /\ trk[i] \in Int /\ p.at \in Int /\ p.margin \in Nat
  BY DEF PointRecords
<1>2. Nominal(p, trk[i]) => Within(p, trk[i])
  BY <1>1 DEF Nominal, Within, Apart
<1>3. CASE Nominal(p, trk[i])
  BY <1>1, <1>2, <1>3 DEF Arm
<1>4. CASE ~Within(p, trk[i])
  BY <1>1, <1>2, <1>4 DEF Arm
<1>5. CASE ~Nominal(p, trk[i]) /\ Within(p, trk[i])
  BY <1>1, <1>5 DEF Arm
<1> QED BY <1>3, <1>4, <1>5

LEMMA ExitScanIs ==
  ASSUME NEW p \in PointRecords, p.exit, NEW trk \in Seq(Int), NEW cursor \in 1..(Len(trk) + 1), NEW latest \in Nat,
         NEW last \in BOOLEAN
  PROVE  ExitScan(p, trk, cursor, latest, last) =
             IF last THEN LastHit(p, trk, cursor, latest) ELSE FirstHit(p, trk, cursor, latest)
<1> DEFINE n == Len(trk)
           S == [hit : HitRecords, armed : Nat, nominal : Nat]
           none == [hit |-> NoHit, armed |-> 0, nominal |-> 0]
           start == IF cursor = 1 THEN none ELSE Arm(p, trk, none, cursor - 1)
           look == [i \in 1..n |-> [r \in S |-> ExitLook(p, trk, r, i)]]
           Step(i, r) == IF Skips(r, i, cursor, latest, last) THEN r ELSE ExitLook(p, trk, r, i)
           G == [i \in 1..n |-> [r \in S |-> Step(i, r)]]
           All(f) == f = [i \in 0..n |-> IF i = 0 THEN start ELSE Step(i, f[i - 1])]
           h == CHOOSE x : All(x)
           F == {e \in Nat \X S : /\ e[2].armed = IF e[1] >= 1 /\ Within(p, trk[e[1]]) THEN e[1] ELSE 0
                                  /\ e[2].nominal # 0 => e[2].nominal = e[2].armed}
<1>1. n \in Nat /\ cursor \in Nat /\ cursor >= 1 /\ \A i \in 1..n : trk[i] \in Int /\ i \in Nat
  OBVIOUS
<1>2. p.at \in Int /\ p.exit \in BOOLEAN
  BY DEF PointRecords
<1>4. start \in S /\ start.hit = NoHit /\ <<cursor - 1, start>> \in F
  <2>1. none \in S /\ none.hit = NoHit /\ none.armed = 0 /\ none.nominal = 0
    BY DEF NoHit, HitRecords
  <2> HIDE DEF none
  <2>2. CASE cursor = 1
    BY <2>1, <2>2
  <2>3. CASE cursor # 1
    <3>1. cursor - 1 \in 1..n /\ cursor - 1 >= 1 /\ cursor - 1 \in Nat
      BY <1>1, <2>3
    <3> DEFINE e == Arm(p, trk, none, cursor - 1)
    <3>2. /\ e \in S /\ e.hit = NoHit /\ e.armed = IF Within(p, trk[cursor - 1]) THEN cursor - 1 ELSE 0
          /\ e.nominal # 0 => e.nominal = cursor - 1 /\ Within(p, trk[cursor - 1])
      BY <2>1, <3>1, ArmIs
    <3>3. start = e
      BY <2>3
    <3> HIDE DEF start, e
    <3> QED BY <3>1, <3>2, <3>3
  <2> QED BY <2>2, <2>3
<1>5. ASSUME NEW i \in 1..n, NEW r \in S
      PROVE  /\ ExitLook(p, trk, r, i) \in S
             /\ <<i - 1, r>> \in F =>
                   /\ <<i, ExitLook(p, trk, r, i)>> \in F
                   /\ ExitLook(p, trk, r, i).hit = IF Crosses(p, trk, i) THEN HitAt(p, i) ELSE r.hit
  <2> DEFINE e == ExitLook(p, trk, r, i)
             g == [hit |-> [shown |-> IF r.nominal # 0 THEN r.nominal ELSE r.armed, after |-> i], armed |-> 0, nominal |-> 0]
  <2>1. trk[i] \in Int /\ i \in Nat /\ i >= 1 /\ r.hit \in HitRecords /\ r.armed \in Nat /\ r.nominal \in Nat
    BY <1>1
  <2>2. e = IF r.armed = 0 \/ Nominal(p, trk[i]) THEN Arm(p, trk, r, i) ELSE Arm(p, trk, g, i)
    BY DEF ExitLook
  <2>3. g \in S /\ g.nominal = 0 /\ g.hit = [shown |-> IF r.nominal # 0 THEN r.nominal ELSE r.armed, after |-> i]
    BY <2>1 DEF HitRecords
  <2> HIDE DEF e, g
  <2>4. /\ Arm(p, trk, r, i) \in S /\ Arm(p, trk, r, i).hit = r.hit
        /\ Arm(p, trk, r, i).armed = IF Within(p, trk[i]) THEN i ELSE 0
        /\ (r.nominal = 0 \/ Nominal(p, trk[i])) /\ Arm(p, trk, r, i).nominal # 0 =>
              Arm(p, trk, r, i).nominal = i /\ Within(p, trk[i])
    BY ArmIs
  <2>5. /\ Arm(p, trk, g, i) \in S /\ Arm(p, trk, g, i).hit = g.hit
        /\ Arm(p, trk, g, i).armed = IF Within(p, trk[i]) THEN i ELSE 0
        /\ Arm(p, trk, g, i).nominal # 0 => Arm(p, trk, g, i).nominal = i /\ Within(p, trk[i])
    BY <2>3, ArmIs
  <2>6. e \in S
    BY <2>2, <2>4, <2>5
  <2>7. ASSUME <<i - 1, r>> \in F
        PROVE  <<i, e>> \in F /\ e.hit = IF Crosses(p, trk, i) THEN HitAt(p, i) ELSE r.hit
    <3>1. /\ r.armed = IF i - 1 >= 1 /\ Within(p, trk[i - 1]) THEN i - 1 ELSE 0
          /\ r.nominal # 0 => r.nominal = r.armed
      BY <2>7
    <3> HIDE DEF S
    <3>2. e.armed = (IF Within(p, trk[i]) THEN i ELSE 0) /\ (e.nominal # 0 => e.nominal = e.armed)
      <4>1. CASE r.armed = 0 \/ Nominal(p, trk[i])
        <5>1. r.nominal = 0 \/ Nominal(p, trk[i])
          BY <3>1, <4>1
        <5> QED BY <2>2, <2>4, <4>1, <5>1
      <4>2. CASE ~(r.armed = 0 \/ Nominal(p, trk[i]))
        BY <2>2, <2>5, <4>2
      <4> QED BY <4>1, <4>2
    <3>3. <<i, e>> \in F
      BY <2>1, <2>6, <3>2
    <3>4. Crosses(p, trk, i) <=> ~(r.armed = 0 \/ Nominal(p, trk[i]))
      <4>1. r.armed # 0 <=> i > 1 /\ Within(p, trk[i - 1])
        BY <2>1, <3>1
      <4> QED BY <4>1 DEF Crosses, Leaves
    <3>5. Shown(p, i) = i - 1
      BY DEF Shown
    <3>6. r.armed # 0 => r.armed = i - 1
      BY <3>1
    <3> HIDE DEF F
    <3>7. ~(r.armed = 0 \/ Nominal(p, trk[i])) => e.hit = [shown |-> i - 1, after |-> i]
      BY <2>2, <2>3, <2>5, <3>1, <3>6
    <3>8. r.armed = 0 \/ Nominal(p, trk[i]) => e.hit = r.hit
      BY <2>2, <2>4
    <3> QED BY <3>3, <3>4, <3>5, <3>7, <3>8 DEF HitAt
  <2> HIDE DEF F
  <2> QED BY <2>6, <2>7 DEF e
<1>6. ExitScan(p, trk, cursor, latest, last) = h[n].hit
  BY DEF ExitScan
<1> HIDE DEF F, start, h, S
<1>7. look \in [1..n -> [S -> S]] /\ G \in [1..n -> [S -> S]]
  <2>1. \A i \in 1..n, r \in S : ExitLook(p, trk, r, i) \in S /\ Step(i, r) \in S
    BY <1>5
  <2> HIDE DEF Step
  <2> QED BY <2>1
<1>8. \A i \in 1..n : i - 1 \in 0..n /\ i \in 0..n /\ i # 0
  BY <1>1
<1> HIDE DEF n
<1>9. All(h)
  <2>1. PICK f : IsRun(f, n, S, start, G)
    <3> HIDE DEF G
    <3> QED BY <1>1, <1>4, <1>7, RunExists
  <2>2. /\ f \in [0..n -> S] /\ f[0] = start
        /\ \A i \in 1..n : f[i - 1] \in S /\ f[i] = Step(i, f[i - 1])
    <3> HIDE DEF Step
    <3> QED BY <1>8, <2>1 DEF IsRun
  <2>3. All(f)
    <3> HIDE DEF Step
    <3> QED BY <1>1, <2>2
  <2> QED BY <2>3, Zenon DEF h
<1>10. /\ h = [i \in 0..n |-> h[i]] /\ h[0] = start
       /\ \A i \in 1..n : h[i] = Step(i, h[i - 1])
  <2> HIDE DEF Step
  <2>1. \A i \in 0..n : h[i] = IF i = 0 THEN start ELSE Step(i, h[i - 1])
    BY <1>9
  <2>2. h = [i \in 0..n |-> h[i]]
    BY <1>9, <2>1
  <2>3. 0 \in 0..n
    BY <1>1
  <2> QED BY <1>8, <2>1, <2>2, <2>3
<1>11. h \in [0..n -> S] /\ \A i \in 1..n : h[i - 1] \in S
  <2>1. \A i \in 1..n : h[i - 1] \in S => h[i] = G[i][h[i - 1]]
    <3> HIDE DEF Step
    <3> QED BY <1>10
  <2>2. IsRun(h, n, S, start, G)
    <3> HIDE DEF G
    <3> QED BY <1>1, <1>4, <1>7, <1>10, <2>1, RunStays
  <2> QED BY <1>8, <2>2 DEF IsRun
<1>12. \A i \in 1..n : h[i] = IF Skips(h[i - 1], i, cursor, latest, last) THEN h[i - 1] ELSE look[i][h[i - 1]]
  BY <1>10, <1>11
<1>13. \A i \in cursor..n, r \in S : <<i - 1, r>> \in F =>
             /\ <<i, look[i][r]>> \in F
             /\ look[i][r].hit = IF Crosses(p, trk, i) THEN HitAt(p, i) ELSE r.hit
  <2>1. \A i \in cursor..n : i \in 1..n
    BY <1>1
  <2>2. \A i \in 1..n, r \in S : look[i][r] = ExitLook(p, trk, r, i)
    OBVIOUS
  <2> HIDE DEF look
  <2> QED BY <1>5, <2>1, <2>2
<1> HIDE DEF look
<1>14. start \in S /\ start.hit = NoHit /\ <<cursor - 1, start>> \in F /\ h[0] = start
  BY <1>4, <1>10
<1>15. h \in [0..Len(trk) -> S] /\ look \in [1..Len(trk) -> [S -> S]]
  BY <1>7, <1>11 DEF n
<1>16. IsScan(p, trk, cursor, latest, last, S, start, look, F, h)
  <2> HIDE DEF Step, G, none
  <2> QED BY <1>12, <1>13, <1>14, <1>15 DEF n, IsScan
<1>17. h[Len(trk)].hit = IF last THEN LastHit(p, trk, cursor, latest) ELSE FirstHit(p, trk, cursor, latest)
  <2> HIDE DEF Step, G, none
  <2> QED BY <1>16, ScanFinds
<1> QED BY <1>6, <1>17 DEF n

LEMMA PointHitIs ==
  ASSUME NEW p \in PointRecords, NEW trk \in Seq(Int), NEW cursor \in 1..(Len(trk) + 1), NEW latest \in Nat,
         NEW last \in BOOLEAN
  PROVE  /\ PointHit(p, trk, cursor, latest, last) =
               IF last THEN LastHit(p, trk, cursor, latest) ELSE FirstHit(p, trk, cursor, latest)
         /\ IsHit(p, trk, cursor, PointHit(p, trk, cursor, latest, last))
<1>1. PointHit(p, trk, cursor, latest, last) =
          IF last THEN LastHit(p, trk, cursor, latest) ELSE FirstHit(p, trk, cursor, latest)
  <2>1. CASE p.exit
    BY <2>1, ExitScanIs DEF PointHit
  <2>2. CASE ~p.exit
    BY <2>2, EntryScanIs DEF PointHit
  <2> QED BY <2>1, <2>2
<1>2. cursor \in Starts
  BY DEF Starts
<1> QED BY <1>1, <1>2, FoundAreHits

\* The copies agree on every track, for every task.
LEMMA ScansAgreeHere ==
  ASSUME task \in TaskRecords, track \in Seq(Int), MaxFixes \in Nat
  PROVE  ScansAgree
<1> SUFFICES ASSUME NEW w \in Dom(task), NEW cursor \in 1..Len(track), NEW latest \in {task.close, End}
             PROVE  /\ PointHit(task.points[w], track, cursor, latest, FALSE) = FirstHit(task.points[w], track, cursor, latest)
                    /\ PointHit(task.points[w], track, cursor, latest, TRUE) = LastHit(task.points[w], track, cursor, latest)
  BY DEF ScansAgree
<1>1. latest \in Nat
  <2>1. task.close \in Nat
    BY DEF TaskRecords
  <2>2. End \in Nat
    BY DEF End, At
  <2> QED BY <2>1, <2>2
<1>2. task.points[w] \in PointRecords
  BY TaskIs
<1>3. cursor \in 1..(Len(track) + 1)
  OBVIOUS
<1> QED BY <1>1, <1>2, <1>3, PointHitIs

LEMMA OpenHitIs ==
  ASSUME NEW t \in TaskRecords, MaxFixes \in Nat, NEW trk \in Seq(Int), NEW s, s.cursor \in 1..(Len(trk) + 1),
         s.missed \in Nat, NEW w \in Dom(t)
  PROVE  IsHit(t.points[w], trk, s.cursor, OpenHit(t, trk, s, w))
<1> DEFINE starting == IsStart(t.points[w]) /\ s.missed = 0
           latest == IF starting THEN Upto(StartClose(t)) ELSE End
<1>1. t.points[w] \in PointRecords
  BY TaskIs
<1>2. starting \in BOOLEAN
  BY DEF IsStart
<1>3. latest \in Nat
  <2>1. t.close \in Nat /\ t.finish \in Nat
    BY DEF TaskRecords
  <2> QED BY <2>1 DEF End, At, Upto, StartClose
<1>4. OpenHit(t, trk, s, w) = PointHit(t.points[w], trk, s.cursor, latest, starting)
  BY DEF OpenHit
<1> HIDE DEF starting, latest
<1> QED BY <1>1, <1>2, <1>3, <1>4, PointHitIs

LEMMA OpenWalkIs ==
  ASSUME NEW t \in TaskRecords, MaxFixes \in Nat, NEW trk \in Seq(Int)
  PROVE  \E f, found : /\ IsWalk(f, t, trk, found) /\ OpenWalk(t, trk) = f[Len(t.points)]
                      /\ \A w \in Dom(t) : found[w] = OpenHit(t, trk, f[w - 1], w)
<1> DEFINE n == Len(t.points)
           S == WalkStates(t, trk)
           Step(w, s) == Visited(t, s, w, OpenHit(t, trk, s, w))
           G == [w \in 1..n |-> [s \in S |-> Step(w, s)]]
           All(f) == f = [w \in 0..n |-> IF w = 0 THEN Unvisited(t) ELSE Step(w, f[w - 1])]
           h == CHOOSE x : All(x)
<1>1. n \in Nat /\ Dom(t) = 1..n /\ Unvisited(t) \in S
  BY TaskIs, UnvisitedIs
<1>2. ASSUME NEW w \in 1..n, NEW s \in S
      PROVE  IsHit(t.points[w], trk, s.cursor, OpenHit(t, trk, s, w)) /\ Step(w, s) \in S
  <2>1. s.cursor \in 1..(Len(trk) + 1) /\ s.missed \in Nat /\ s.cursor \in Starts
    BY <1>1 DEF WalkStates, Starts
  <2>2. IsHit(t.points[w], trk, s.cursor, OpenHit(t, trk, s, w))
    BY <1>1, <2>1, OpenHitIs
  <2> QED BY <1>1, <2>1, <2>2, HitIsRecord, VisitedIs
<1>3. OpenWalk(t, trk) = h[n]
  BY DEF OpenWalk
<1> HIDE DEF Step, S, n, h
<1>4. G \in [1..n -> [S -> S]]
  BY <1>2
<1>5. \A w \in 1..n : w - 1 \in 0..n
  BY <1>1
<1>6. All(h)
  <2>1. PICK f : IsRun(f, n, S, Unvisited(t), G)
    <3> HIDE DEF G
    <3> QED BY <1>1, <1>4, RunExists
  <2>2. /\ f \in [0..n -> S] /\ f[0] = Unvisited(t)
        /\ \A w \in 1..n : f[w - 1] \in S /\ f[w] = Step(w, f[w - 1])
    BY <1>5, <2>1 DEF IsRun
  <2>3. All(f)
    BY <1>1, <2>2
  <2> QED BY <2>3, Zenon DEF h
<1>7. /\ h = [k \in 0..n |-> h[k]] /\ h[0] = Unvisited(t)
      /\ \A k \in 1..n : h[k] = Step(k, h[k - 1])
  <2>1. \A k \in 0..n : h[k] = IF k = 0 THEN Unvisited(t) ELSE Step(k, h[k - 1])
    BY <1>6
  <2>2. h = [k \in 0..n |-> h[k]]
    BY <1>6, <2>1
  <2>3. 0 \in 0..n /\ \A k \in 1..n : k \in 0..n /\ k # 0
    BY <1>1
  <2> QED BY <2>1, <2>2, <2>3
<1>8. IsRun(h, n, S, Unvisited(t), G)
  <2>1. \A k \in 1..n : h[k - 1] \in S => h[k] = G[k][h[k - 1]]
    BY <1>7
  <2> HIDE DEF G
  <2> QED BY <1>1, <1>4, <1>7, <2>1, RunStays
<1>9. h \in [0..n -> S] /\ \A k \in 1..n : h[k - 1] \in S
  BY <1>5, <1>8 DEF IsRun
<1> DEFINE found == [w \in 1..n |-> OpenHit(t, trk, h[w - 1], w)]
<1>10. \A w \in 1..n : found[w] = OpenHit(t, trk, h[w - 1], w)
  OBVIOUS
<1> HIDE DEF found
<1>11. IsWalk(h, t, trk, found)
  <2>1. \A w \in 1..n : IsHit(t.points[w], trk, h[w - 1].cursor, found[w])
    BY <1>2, <1>9, <1>10
  <2>2. \A w \in 1..n : h[w] = Visited(t, h[w - 1], w, found[w])
    BY <1>7, <1>10 DEF Step
  <2> QED BY <1>1, <1>7, <1>9, <2>1, <2>2 DEF IsWalk, S, n
<1> QED BY <1>1, <1>3, <1>10, <1>11 DEF n

\* Whatever the task, the hits are those of a walk.
LEMMA HitsAreWalked ==
  ASSUME NEW t \in TaskRecords, MaxFixes \in Nat, NEW trk \in Seq(Int)
  PROVE  \E f, found : IsWalk(f, t, trk, found) /\ Hits(t, trk) = f[Len(t.points)]
BY WalkIs, OpenWalkIs DEF Hits

\* What holds of a walk that has visited the first k points.
Walked(t, trk, s, k) ==
    /\ s.missed \in 0..k /\ (s.missed # 0 => Required(t.points[s.missed]))
    /\ \A v \in Dom(t) : v > k => s.hits[v] = NoHit
    /\ \A v \in Dom(t) : v <= k /\ Required(t.points[v]) => (s.hits[v] # NoHit <=> (s.missed = 0 \/ v < s.missed))
    /\ \A v \in Dom(t) : s.hits[v] # NoHit => s.hits[v].shown < s.cursor /\ IsHit(t.points[v], trk, 1, s.hits[v])
    /\ \A v, u \in Dom(t) : v < u /\ s.hits[v] # NoHit /\ s.hits[u] # NoHit
                            /\ ~t.points[u].exit /\ ~IsStart(t.points[u]) => s.hits[v].shown < s.hits[u].shown

LEMMA HitIsLater ==
  ASSUME NEW p \in PointRecords, NEW trk \in Seq(Int), NEW cursor \in Starts, NEW h, IsHit(p, trk, cursor, h), h # NoHit
  PROVE  /\ Beyond(h) >= cursor /\ h.shown \in Nat /\ h.shown < Beyond(h) /\ IsHit(p, trk, 1, h)
         /\ ~p.exit /\ ~IsStart(p) => cursor <= h.shown
         /\ h.shown \in 1..Len(trk) /\ h.after \in cursor..Len(trk) /\ h.shown <= h.after /\ h.after <= h.shown + 1
         /\ Crosses(p, trk, h.after) /\ h = HitAt(p, h.after)
<1>1. PICK i \in cursor..Len(trk) : Crosses(p, trk, i) /\ h = HitAt(p, i)
  BY DEF IsHit
<1>2. i \in Starts /\ i \in 1..Len(trk) /\ cursor \in Nat /\ cursor >= 1 /\ cursor <= i /\ i \in Nat
  BY DEF Starts
<1>3. /\ h.shown \in Starts /\ h.shown <= i /\ i <= h.shown + 1 /\ h.after = i
      /\ ~p.exit /\ ~IsStart(p) => h.shown = i
  BY <1>1, <1>2, ShownIs
<1>4. IsHit(p, trk, 1, h)
  BY <1>1, <1>2 DEF IsHit
<1> QED BY <1>1, <1>2, <1>3, <1>4 DEF Beyond, Starts

LEMMA WalkKeeps ==
  ASSUME NEW t \in TaskRecords, NEW trk \in Seq(Int), NEW f, NEW found, IsWalk(f, t, trk, found)
  PROVE  \A k \in 0..Len(t.points) : Walked(t, trk, f[k], k) /\ f[k] \in WalkStates(t, trk)
<1> DEFINE n == Len(t.points)
           T == {k \in 0..n : Walked(t, trk, f[k], k)}
<1>1. n \in Nat /\ Dom(t) = 1..n /\ f \in [0..n -> WalkStates(t, trk)] /\ f[0] = Unvisited(t)
  BY TaskIs DEF IsWalk
<1>2. 0 \in T
  <2>1. f[0].missed = 0 /\ \A v \in Dom(t) : f[0].hits[v] = NoHit
    BY <1>1 DEF Unvisited
  <2> QED BY <1>1, <2>1 DEF Walked
<1>3. ASSUME NEW k \in 1..n, k - 1 \in T PROVE k \in T
  <2> DEFINE s == f[k - 1]
             h == found[k]
             p == t.points[k]
  <2>1. k \in Dom(t) /\ k \in Nat /\ k - 1 \in 0..n /\ k \in 0..n /\ s \in WalkStates(t, trk) /\ p \in PointRecords
    <3>1. k \in Dom(t) /\ k \in Nat /\ k - 1 \in 0..n /\ k \in 0..n
      BY <1>1
    <3>2. p \in PointRecords
      BY <3>1, TaskIs
    <3>3. s \in WalkStates(t, trk)
      BY <1>1, <3>1
    <3> QED BY <3>1, <3>2, <3>3
  <2>2. IsHit(p, trk, s.cursor, h) /\ f[k] = Visited(t, s, k, h)
    BY <2>1 DEF IsWalk
  <2>3. Walked(t, trk, s, k - 1)
    BY <1>3
  <2>4. /\ s.cursor \in Starts /\ s.missed \in Nat /\ s.hits \in [Dom(t) -> HitRecords]
        /\ s = [hits |-> s.hits, cursor |-> s.cursor, missed |-> s.missed, ignored |-> s.ignored]
    BY <2>1 DEF WalkStates, Starts
  <2>5. h # NoHit => /\ Beyond(h) >= s.cursor /\ h.shown \in Nat /\ h.shown < Beyond(h) /\ IsHit(p, trk, 1, h)
                     /\ ~p.exit /\ ~IsStart(p) => s.cursor <= h.shown
                     /\ Beyond(h) \in Nat
    <3> SUFFICES ASSUME h # NoHit
                 PROVE  /\ Beyond(h) >= s.cursor /\ h.shown \in Nat /\ h.shown < Beyond(h) /\ IsHit(p, trk, 1, h)
                        /\ ~p.exit /\ ~IsStart(p) => s.cursor <= h.shown
                        /\ Beyond(h) \in Nat
      OBVIOUS
    <3> HIDE DEF s, h, p
    <3>1. p \in PointRecords /\ s.cursor \in Starts /\ IsHit(p, trk, s.cursor, h)
      BY <2>1, <2>2, <2>4
    <3>2. /\ Beyond(h) >= s.cursor /\ h.shown \in Nat /\ h.shown < Beyond(h) /\ IsHit(p, trk, 1, h)
          /\ ~p.exit /\ ~IsStart(p) => s.cursor <= h.shown
      BY <3>1, HitIsLater
    <3>3. Beyond(h) \in Nat
      BY <3>2 DEF Beyond
    <3> QED BY <3>2, <3>3
  <2>6. \A v \in Dom(t) : s.hits[v].shown \in Nat /\ s.hits[v] \in HitRecords
    BY <2>4 DEF HitRecords
  <2>7. s.hits[k] = NoHit
    BY <2>1, <2>3 DEF Walked
  <2> HIDE DEF s, h, p
  <2>8. CASE f[k] = s /\ ((s.missed # 0) \/ ~Required(p))
    <3>1. \A v \in Dom(t) : v <= k => v <= k - 1 \/ v = k
      BY <2>1, <1>1
    <3>2. s.missed \in 0..k /\ (s.missed # 0 => Required(t.points[s.missed]))
      BY <2>1, <2>3 DEF Walked
    <3>3. \A v \in Dom(t) : v > k => s.hits[v] = NoHit
      BY <2>1, <2>3, <1>1 DEF Walked
    <3>4. Required(p) => ~(s.missed = 0 \/ k < s.missed)
      BY <2>1, <2>3, <2>8 DEF Walked
    <3>5. \A v \in Dom(t) : v <= k /\ Required(t.points[v]) => (s.hits[v] # NoHit <=> (s.missed = 0 \/ v < s.missed))
      BY <2>3, <2>7, <3>1, <3>4 DEF Walked, p
    <3> QED BY <2>1, <2>3, <2>8, <3>2, <3>3, <3>5 DEF Walked
  <2>9. CASE h # NoHit /\ s.missed = 0
    <3>1. f[k] = [s EXCEPT !.hits[k] = h, !.cursor = Beyond(h)]
      BY <2>2, <2>9 DEF Visited
    <3>2. /\ f[k].missed = 0 /\ f[k].cursor = Beyond(h) /\ f[k].hits[k] = h
          /\ \A v \in Dom(t) : v # k => f[k].hits[v] = s.hits[v]
      BY <2>1, <2>4, <2>9, <3>1
    <3>3. \A v \in Dom(t) : v > k => f[k].hits[v] = NoHit
      <4>1. \A v \in Dom(t) : v > k => v > k - 1 /\ v # k
        BY <2>1, <1>1
      <4> QED BY <2>3, <3>2, <4>1 DEF Walked
    <3>4. \A v \in Dom(t) : v <= k /\ Required(t.points[v]) => f[k].hits[v] # NoHit
      <4>1. \A v \in Dom(t) : v <= k /\ v # k => v <= k - 1
        BY <2>1, <1>1
      <4> QED BY <2>3, <2>9, <3>2, <4>1 DEF Walked
    <3>5. \A v \in Dom(t) : f[k].hits[v] # NoHit => f[k].hits[v].shown < Beyond(h) /\ IsHit(t.points[v], trk, 1, f[k].hits[v])
      <4> SUFFICES ASSUME NEW v \in Dom(t), f[k].hits[v] # NoHit
                   PROVE  f[k].hits[v].shown < Beyond(h) /\ IsHit(t.points[v], trk, 1, f[k].hits[v])
        OBVIOUS
      <4>1. CASE v = k
        BY <2>5, <2>9, <3>2, <4>1 DEF p
      <4>2. CASE v # k
        <5>1. f[k].hits[v] = s.hits[v] /\ s.hits[v].shown < s.cursor /\ IsHit(t.points[v], trk, 1, s.hits[v])
          BY <2>3, <3>2, <4>2 DEF Walked
        <5> QED BY <2>4, <2>5, <2>6, <2>9, <5>1 DEF Starts
      <4> QED BY <4>1, <4>2
    <3>6. ASSUME NEW v \in Dom(t), NEW u \in Dom(t), v < u, f[k].hits[v] # NoHit, f[k].hits[u] # NoHit,
                 ~t.points[u].exit, ~IsStart(t.points[u])
          PROVE  f[k].hits[v].shown < f[k].hits[u].shown
      <4>1. u <= k
        BY <3>3, <3>6, <2>1, <1>1
      <4>2. v # k /\ f[k].hits[v] = s.hits[v] /\ s.hits[v] # NoHit
        BY <3>2, <3>6, <4>1, <2>1, <1>1
      <4>3. CASE u = k
        <5>1. s.hits[v].shown < s.cursor /\ s.cursor <= h.shown
          BY <2>3, <2>5, <2>9, <3>6, <4>2, <4>3 DEF Walked, p
        <5> QED BY <2>4, <2>5, <2>6, <2>9, <3>2, <4>2, <4>3, <5>1 DEF Starts
      <4>4. CASE u # k
        BY <2>3, <3>2, <3>6, <4>2, <4>4 DEF Walked
      <4> QED BY <4>3, <4>4
    <3>7. f[k].missed \in 0..k
      BY <2>1, <3>2
    <3> QED BY <2>1, <3>2, <3>3, <3>4, <3>5, <3>6, <3>7 DEF Walked
  <2>10. CASE h # NoHit /\ s.missed # 0 /\ Required(p)
    <3>1. f[k] = [s EXCEPT !.ignored = @ \cup {k}, !.cursor = Beyond(h)]
      BY <2>2, <2>10 DEF Visited, p
    <3>2. f[k].missed = s.missed /\ f[k].cursor = Beyond(h) /\ f[k].hits = s.hits
      BY <2>4, <3>1
    <3>3. \A v \in Dom(t) : s.hits[v] # NoHit => s.hits[v].shown < Beyond(h)
      <4>1. \A v \in Dom(t) : s.hits[v] # NoHit => s.hits[v].shown < s.cursor
        BY <2>3 DEF Walked
      <4>2. s.cursor \in Nat /\ Beyond(h) \in Nat /\ Beyond(h) >= s.cursor
        BY <2>4, <2>5, <2>10 DEF Starts
      <4> QED BY <2>6, <4>1, <4>2
    <3>4. \A v \in Dom(t) : v <= k => v <= k - 1 \/ v = k
      BY <2>1, <1>1
    <3>5. s.missed \in 0..k
      BY <2>1, <2>3 DEF Walked
    <3>6. \A v \in Dom(t) : v > k => s.hits[v] = NoHit
      BY <2>1, <2>3, <1>1 DEF Walked
    <3>7. ~(s.missed = 0 \/ k < s.missed)
      BY <2>1, <2>3, <2>10 DEF Walked
    <3>8. \A v \in Dom(t) : v <= k /\ Required(t.points[v]) => (s.hits[v] # NoHit <=> (s.missed = 0 \/ v < s.missed))
      BY <2>3, <2>7, <3>4, <3>7 DEF Walked
    <3> QED BY <2>1, <2>3, <3>2, <3>3, <3>5, <3>6, <3>8 DEF Walked
  <2>11. CASE h = NoHit /\ s.missed = 0 /\ Required(p)
    <3>1. f[k] = [s EXCEPT !.missed = k]
      BY <2>2, <2>11 DEF Visited, p
    <3>2. f[k].missed = k /\ f[k].cursor = s.cursor /\ f[k].hits = s.hits
      BY <2>4, <3>1
    <3>3. \A v \in Dom(t) : v <= k => v <= k - 1 \/ v = k
      BY <2>1, <1>1
    <3>4. \A v \in Dom(t) : v > k => s.hits[v] = NoHit
      BY <2>1, <2>3, <1>1 DEF Walked
    <3>5. \A v \in Dom(t) : v <= k /\ Required(t.points[v]) => (s.hits[v] # NoHit <=> v < k)
      <4>1. \A v \in Dom(t) : v <= k - 1 /\ Required(t.points[v]) => s.hits[v] # NoHit
        BY <2>3, <2>11 DEF Walked
      <4>2. \A v \in Dom(t) : v <= k - 1 => v < k
        BY <2>1, <1>1
      <4>3. ~(k < k)
        BY <2>1
      <4> QED BY <2>7, <3>3, <4>1, <4>2, <4>3
    <3>6. f[k].missed \in 0..k /\ f[k].missed # 0 /\ Required(t.points[f[k].missed])
      BY <2>1, <2>11, <3>2 DEF p
    <3> QED BY <2>1, <2>3, <3>2, <3>4, <3>5, <3>6 DEF Walked
  <2>12. \/ f[k] = s /\ ((s.missed # 0) \/ ~Required(p))
         \/ h # NoHit /\ s.missed = 0
         \/ h # NoHit /\ s.missed # 0 /\ Required(p)
         \/ h = NoHit /\ s.missed = 0 /\ Required(p)
    <3>1. CASE s.missed # 0 /\ ~Required(p)
      BY <2>2, <3>1 DEF Visited, p
    <3>2. CASE h = NoHit /\ ((s.missed # 0) \/ ~Required(p))
      BY <2>2, <3>2 DEF Visited, p
    <3> QED BY <3>1, <3>2
  <2> QED BY <2>8, <2>9, <2>10, <2>11, <2>12
<1>4. 0..n \subseteq T
  <2> HIDE DEF T
  <2> QED BY <1>1, <1>2, <1>3, UpTo
<1> QED BY <1>1, <1>4

-----------------------------------------------------------------------------
(* Distances and the start.                                                *)

LEMMA ApartIs ==
  ASSUME NEW x \in Int, NEW y \in Int
  PROVE  Apart(x, y) \in Nat
BY DEF Apart

\* The legs up to a point are never fewer for a later one.
LEMMA LegsAre ==
  ASSUME NEW t \in TaskRecords
  PROVE  /\ \A w \in 0..Len(t.points) : LegsTo(t, w) \in Nat
         /\ \A v, w \in 0..Len(t.points) : v <= w => LegsTo(t, v) <= LegsTo(t, w)
<1> DEFINE n == Len(t.points)
           Step(w, x) == IF w <= 1 THEN 0 ELSE x + Apart(t.points[w - 1].at, t.points[w].at)
           G == [w \in 1..n |-> [x \in Nat |-> Step(w, x)]]
           All(f) == f = [w \in 0..n |-> IF w <= 1 THEN 0
                                         ELSE f[w - 1] + Apart(t.points[w - 1].at, t.points[w].at)]
           h == CHOOSE x : All(x)
<1>1. n \in Nat /\ Dom(t) = 1..n /\ \A w \in 1..n : t.points[w].at \in Int
  BY TaskIs
<1>2. \A w : LegsTo(t, w) = h[w]
  BY DEF LegsTo
<1>3. \A w \in 1..n : w > 1 => Apart(t.points[w - 1].at, t.points[w].at) \in Nat
  <2> SUFFICES ASSUME NEW w \in 1..n, w > 1 PROVE Apart(t.points[w - 1].at, t.points[w].at) \in Nat
    OBVIOUS
  <2>1. w - 1 \in 1..n
    BY <1>1
  <2> QED BY <1>1, <2>1, ApartIs
<1> HIDE DEF h
<1>4. \A w \in 1..n, x \in Nat : Step(w, x) \in Nat
  BY <1>1, <1>3
<1>5. G \in [1..n -> [Nat -> Nat]]
  <2> HIDE DEF Step
  <2> QED BY <1>4
<1> HIDE DEF n
<1>6. \A w \in 1..n : w - 1 \in 0..n /\ w \in 0..n /\ w # 0
  BY <1>1
<1>7. All(h)
  <2>1. PICK f : IsRun(f, n, Nat, 0, G)
    <3> HIDE DEF G
    <3> QED BY <1>1, <1>5, RunExists
  <2>2. /\ f \in [0..n -> Nat] /\ f[0] = 0
        /\ \A w \in 1..n : f[w - 1] \in Nat /\ f[w] = Step(w, f[w - 1])
    <3> HIDE DEF Step
    <3> QED BY <1>6, <2>1 DEF IsRun
  <2>3. \A w \in 0..n : f[w] = IF w <= 1 THEN 0 ELSE f[w - 1] + Apart(t.points[w - 1].at, t.points[w].at)
    BY <1>1, <2>2
  <2>4. All(f)
    BY <2>2, <2>3
  <2> QED BY <2>4, Zenon DEF h
<1>8. \A w \in 0..n : h[w] = IF w <= 1 THEN 0 ELSE h[w - 1] + Apart(t.points[w - 1].at, t.points[w].at)
  BY <1>7
<1>9. 0..n \subseteq {w \in 0..n : h[w] \in Nat /\ \A v \in 0..w : h[v] \in Nat /\ h[v] <= h[w]}
  <2> DEFINE T == {w \in 0..n : h[w] \in Nat /\ \A v \in 0..w : h[v] \in Nat /\ h[v] <= h[w]}
  <2>1. 0 \in T
    BY <1>1, <1>8
  <2>2. ASSUME NEW k \in 1..n, k - 1 \in T PROVE k \in T
    <3>1. k \in Nat /\ k - 1 \in 0..n /\ k \in 0..n /\ h[k - 1] \in Nat
          /\ \A v \in 0..(k - 1) : h[v] \in Nat /\ h[v] <= h[k - 1]
      BY <1>1, <2>2
    <3>2. CASE k <= 1
      <4>1. h[k] = 0 /\ k = 1
        BY <1>8, <3>1, <3>2
      <4>2. h[0] = 0
        BY <1>1, <1>8
      <4>3. \A v \in 0..k : h[v] = 0
        BY <4>1, <4>2
      <4> QED BY <3>1, <4>1, <4>3
    <3>3. CASE k > 1
      <4>1. h[k] = h[k - 1] + Apart(t.points[k - 1].at, t.points[k].at) /\ Apart(t.points[k - 1].at, t.points[k].at) \in Nat
        BY <1>3, <1>8, <3>1, <3>3
      <4>2. h[k] \in Nat /\ h[k - 1] <= h[k]
        BY <3>1, <4>1
      <4>3. \A v \in 0..k : v \in 0..(k - 1) \/ v = k
        BY <3>1
      <4> QED BY <3>1, <4>2, <4>3
    <3> QED BY <3>1, <3>2, <3>3
  <2> HIDE DEF T
  <2>3. 0..n \subseteq T
    BY <1>1, <2>1, <2>2, UpTo
  <2> QED BY <2>3 DEF T
<1>10. \A v, w \in 0..n : v <= w => v \in 0..w
  BY <1>1
<1>11. \A w \in 0..n : h[w] \in Nat /\ \A v \in 0..w : h[v] <= h[w]
  BY <1>9
<1> QED BY <1>2, <1>10, <1>11 DEF n

LEMMA HitsAreKept ==
  ASSUME NEW t \in TaskRecords, MaxFixes \in Nat, NEW trk \in Seq(Int)
  PROVE  Walked(t, trk, Hits(t, trk), Len(t.points)) /\ Hits(t, trk) \in WalkStates(t, trk)
<1>1. PICK f, found : IsWalk(f, t, trk, found) /\ Hits(t, trk) = f[Len(t.points)]
  BY HitsAreWalked
<1>2. Len(t.points) \in 0..Len(t.points)
  BY TaskIs
<1> QED BY <1>1, <1>2, WalkKeeps

LEMMA ProgressIs ==
  ASSUME NEW t \in TaskRecords, NEW trk \in Seq(Int), NEW s \in WalkStates(t, trk), Walked(t, trk, s, Len(t.points))
  PROVE  Progress(t, trk, s) \in 0..Total(t) /\ (s.missed # 0 => Progress(t, trk, s) <= LegsTo(t, s.missed))
<1> DEFINE n == Len(t.points)
           made == MadeIn(t, s)
<1>1. n \in Nat /\ Dom(t) = 1..n /\ s.missed \in 0..n /\ \A w \in 1..n : t.points[w].at \in Int
  BY TaskIs DEF Walked
<1>2. \A w \in 0..n : LegsTo(t, w) \in Nat /\ LegsTo(t, w) <= LegsTo(t, n)
  BY <1>1, LegsAre
<1>3. made \subseteq 1..n /\ (s.missed # 0 => \A w \in made : w < s.missed)
  BY <1>1 DEF MadeIn, Walked
<1>4. made # {} => Max(made) \in made
  <2> HIDE DEF made
  <2>1. 1 \in Nat
    OBVIOUS
  <2> QED BY <1>1, <1>3, <2>1, EndsOf
<1>5. Base(t, s) = IF made = {} THEN 0 ELSE LegsTo(t, Max(made))
  BY DEF Base
<1>6. Base(t, s) \in Nat /\ Base(t, s) <= Total(t) /\ (s.missed # 0 => Base(t, s) <= LegsTo(t, s.missed))
  <2>1. CASE made = {}
    BY <1>1, <1>2, <1>5, <2>1 DEF Total
  <2>2. CASE made # {}
    <3>1. Max(made) \in 1..n /\ Max(made) \in 0..n /\ (s.missed # 0 => Max(made) < s.missed)
      BY <1>3, <1>4, <2>2
    <3>2. s.missed # 0 => LegsTo(t, Max(made)) <= LegsTo(t, s.missed)
      <4> HIDE DEF made
      <4> QED BY <1>1, <3>1, LegsAre
    <3> HIDE DEF made
    <3> QED BY <1>2, <1>5, <2>2, <3>1, <3>2 DEF Total
  <2> QED BY <2>1, <2>2
<1>7. CASE s.missed = 0 \/ made = {}
  BY <1>6, <1>7 DEF Progress, Total
<1>8. CASE s.missed # 0 /\ made # {}
  <2> DEFINE after == Beyond(s.hits[Max(made)])
             reached == {Smaller(Flown(t, s.missed, trk[i]), LegsTo(t, s.missed)) : i \in after..Len(trk)}
             all == reached \cup {Base(t, s)}
  <2>1. Progress(t, trk, s) = Max(all)
    BY <1>8 DEF Progress
  <2>2. s.missed \in 1..n /\ LegsTo(t, s.missed) \in Nat /\ LegsTo(t, s.missed) <= Total(t) /\ Total(t) \in Nat
    BY <1>1, <1>2, <1>8 DEF Total
  <2>3. after \in 1..(Len(trk) + 1)
    <3>1. s.hits[Max(made)] # NoHit /\ Max(made) \in Dom(t)
      BY <1>4, <1>8 DEF MadeIn
    <3>2. IsHit(t.points[Max(made)], trk, 1, s.hits[Max(made)]) /\ t.points[Max(made)] \in PointRecords
      BY <3>1, TaskIs DEF Walked
    <3>3. 1 \in Starts
      BY DEF Starts
    <3> QED BY <3>2, <3>3, HitIsRecord
  <2>4. \A i \in after..Len(trk) : Smaller(Flown(t, s.missed, trk[i]), LegsTo(t, s.missed)) \in 0..LegsTo(t, s.missed)
    <3> HIDE DEF after
    <3> SUFFICES ASSUME NEW i \in after..Len(trk)
                 PROVE  Smaller(Flown(t, s.missed, trk[i]), LegsTo(t, s.missed)) \in 0..LegsTo(t, s.missed)
      OBVIOUS
    <3>1. trk[i] \in Int
      BY <2>3
    <3>2. Apart(t.points[s.missed].at, trk[i]) \in Nat
      BY <1>1, <2>2, <3>1, ApartIs
    <3> QED BY <2>2, <3>2 DEF Flown, Smaller, Larger
  <2>5. all # {} /\ all \subseteq 0..LegsTo(t, s.missed)
    BY <1>6, <1>8, <2>2, <2>4
  <2>6. Max(all) \in all
    <3> HIDE DEF all
    <3>1. 0 \in Nat
      OBVIOUS
    <3> QED BY <2>2, <2>5, <3>1, EndsOf
  <2>7. Max(all) \in 0..LegsTo(t, s.missed)
    BY <2>5, <2>6
  <2> HIDE DEF all
  <2> QED BY <1>8, <2>1, <2>2, <2>7
<1> QED BY <1>7, <1>8

LEMMA PointOfIs ==
  ASSUME NEW t \in TaskRecords, NEW kinds
  PROVE  /\ PointOf(t, kinds) \in 0..Len(t.points)
         /\ PointOf(t, kinds) # 0 => PointOf(t, kinds) \in Dom(t) /\ t.points[PointOf(t, kinds)].kind \in kinds
<1> DEFINE ws == {w \in Dom(t) : t.points[w].kind \in kinds}
<1>1. Len(t.points) \in Nat /\ ws \subseteq 1..Len(t.points) /\ \A w \in ws : w \in Dom(t) /\ t.points[w].kind \in kinds
  BY TaskIs
<1>2. ws # {} => Max(ws) \in ws
  <2> HIDE DEF ws
  <2>1. 1 \in Nat
    OBVIOUS
  <2> QED BY <1>1, <2>1, EndsOf
<1>3. PointOf(t, kinds) = IF ws = {} THEN 0 ELSE Max(ws)
  BY DEF PointOf
<1> HIDE DEF ws
<1>4. CASE ws = {}
  BY <1>1, <1>3, <1>4
<1>5. CASE ws # {}
  <2>1. Max(ws) \in 1..Len(t.points) /\ Max(ws) \in Dom(t) /\ t.points[Max(ws)].kind \in kinds
    BY <1>1, <1>2, <1>5
  <2>2. PointOf(t, kinds) = Max(ws)
    BY <1>3, <1>5
  <2>3. 1..Len(t.points) \subseteq 0..Len(t.points)
    BY <1>1
  <2> QED BY <2>1, <2>2, <2>3
<1> QED BY <1>4, <1>5

LEMMA PointsAre ==
  ASSUME NEW t \in TaskRecords
  PROVE  /\ StartOf(t) \in 0..Len(t.points) /\ GoalOf(t) \in 0..Len(t.points) /\ EssOf(t) \in 0..Len(t.points)
<1>1. Len(t.points) \in Nat /\ Len(t.points) >= 1
  BY TaskIs
<1>2. \A kinds : PointOf(t, kinds) \in 0..Len(t.points)
  BY PointOfIs
<1>3. StartOf(t) \in 0..Len(t.points)
  BY <1>2 DEF StartOf
<1>4. GoalOf(t) \in 0..Len(t.points)
  BY <1>1, <1>2 DEF GoalOf
<1>5. EssOf(t) \in 0..Len(t.points)
  BY <1>2, <1>4 DEF EssOf
<1> QED BY <1>3, <1>4, <1>5

\* What an evaluation says of the hits it rests on.
LEMMA JudgedIs ==
  ASSUME NEW t, NEW trk, NEW s, NEW goal \in BOOLEAN, NEW total, NEW progress
  PROVE  LET e == Judged(t, trk, s, goal, total, progress) IN
         /\ e.hits = s.hits /\ e.missed = s.missed /\ e.start = ScoredStart(t, HitOf(s, StartOf(t)))
         /\ e.distance = IF goal THEN total ELSE Larger(progress, IF trk = <<>> THEN 0 ELSE MinDist)
         /\ e.status = "goal" => goal
         /\ e.elapsed = LET ended == HitOf(s, IF t.type = "open" /\ goal THEN GoalOf(t) ELSE EssOf(t)) IN
                        IF e.start.time > 0 /\ ended # NoHit THEN Larger(At(ended.shown) - e.start.time, 0) ELSE 0
BY DEF Judged, Summary

\* A task as an evaluation sees it when another one shortened its lists
Resembles(u, t) ==
    /\ u \in TaskRecords /\ Len(u.points) = Len(t.points) /\ StartOf(u) = StartOf(t)
    /\ u.type = t.type /\ u.open = t.open /\ u.close = t.close /\ u.gates = t.gates /\ u.interval = t.interval
    /\ \A w \in Dom(t) : /\ u.points[w].exit = t.points[w].exit
                          /\ (IsStart(u.points[w]) <=> IsStart(t.points[w]))
                          /\ (Required(u.points[w]) <=> Required(t.points[w]))

\* What is scored, seen as u, with what was read of the distances.
IsScored(u, total, progress) ==
    /\ Resembles(u, task) /\ total \in Nat /\ progress \in Nat
    /\ scored = Judged(u, track, Hits(u, track), InGoalBy(u, Hits(u, track)), total, progress)
    /\ overlap \in {"none", "reading", "preparing"}
    /\ overlap # "preparing" => u = task /\ total = Total(task)
    /\ overlap = "none" => progress = Progress(task, track, Hits(task, track))

LEMMA EvaluationTyped ==
  ASSUME task \in TaskRecords, track \in Seq(Int), MaxFixes \in Nat, MinDist \in Nat,
         NEW u, NEW total, NEW progress, IsScored(u, total, progress)
  PROVE  EvalTypeOK /\ EnteredAfter
<1> DEFINE s == Hits(u, track)
           n == Len(task.points)
           goal == InGoalBy(u, s)
           e == Judged(u, track, s, goal, total, progress)
<1>1. /\ u \in TaskRecords /\ Len(u.points) = n /\ total \in Nat /\ progress \in Nat
      /\ \A w \in Dom(task) : /\ u.points[w].exit = task.points[w].exit
                               /\ (IsStart(u.points[w]) <=> IsStart(task.points[w]))
                               /\ (Required(u.points[w]) <=> Required(task.points[w]))
  BY DEF IsScored, Resembles
<1>2. Walked(u, track, s, n) /\ s \in WalkStates(u, track)
  BY <1>1, HitsAreKept
<1>3. scored = e /\ goal \in BOOLEAN
  BY DEF IsScored, InGoalBy
<1>4. goal => s.missed = 0
  BY DEF InGoalBy
<1>14. overlap = "none" => u = task /\ total = Total(task) /\ progress = Progress(task, track, s)
  BY DEF IsScored
<1> HIDE DEF goal, s
<1>5. /\ e.hits = s.hits /\ e.missed = s.missed /\ (e.status = "goal" => goal)
      /\ e.distance = IF goal THEN total ELSE Larger(progress, IF track = <<>> THEN 0 ELSE MinDist)
  BY <1>3, JudgedIs
<1>6. Dom(task) = 1..n /\ Dom(u) = 1..n /\ n \in Nat
  BY <1>1, TaskIs
<1>7. Total(task) \in Nat /\ \A w \in 0..n : LegsTo(task, w) \in Nat
  BY <1>6, LegsAre DEF Total
<1>8. overlap = "none" => progress \in 0..Total(task) /\ (s.missed # 0 => progress <= LegsTo(task, s.missed))
  BY <1>2, <1>14, ProgressIs
<1> HIDE DEF e
<1>9. e.missed \in 0..n
  BY <1>2, <1>5 DEF Walked
<1>10. e.distance \in Nat
  BY <1>1, <1>5 DEF Larger
<1>11. overlap = "none" => /\ e.distance <= Larger(Total(task), MinDist)
                           /\ e.missed # 0 => e.distance <= Larger(LegsTo(task, e.missed), MinDist)
  <2> SUFFICES ASSUME overlap = "none"
               PROVE  /\ e.distance <= Larger(Total(task), MinDist)
                      /\ e.missed # 0 => e.distance <= Larger(LegsTo(task, e.missed), MinDist)
    OBVIOUS
  <2> QED BY <1>4, <1>5, <1>7, <1>8, <1>9, <1>14 DEF Larger
<1>12. e.status = "goal" => e.missed = 0 /\ (overlap # "preparing" => e.distance = Total(task))
  <2>1. overlap # "preparing" => total = Total(task)
    BY DEF IsScored
  <2> QED BY <1>4, <1>5, <2>1
<1>13. \A w \in Dom(task) : Required(task.points[w]) => (e.hits[w] # NoHit <=> (e.missed = 0 \/ w < e.missed))
  <2> SUFFICES ASSUME NEW w \in Dom(task), Required(task.points[w])
               PROVE  e.hits[w] # NoHit <=> (e.missed = 0 \/ w < e.missed)
    OBVIOUS
  <2>1. w \in Dom(u) /\ w <= n /\ Required(u.points[w])
    BY <1>1, <1>6
  <2> QED BY <1>2, <1>5, <2>1 DEF Walked
<1>15. EnteredAfter
  <2> SUFFICES ASSUME NEW v \in Dom(task), NEW w \in Dom(task), v < w, e.hits[v] # NoHit, e.hits[w] # NoHit,
                      ~task.points[w].exit, ~IsStart(task.points[w])
               PROVE  e.hits[v].shown < e.hits[w].shown
    BY <1>3 DEF EnteredAfter
  <2>1. v \in Dom(u) /\ w \in Dom(u) /\ ~u.points[w].exit /\ ~IsStart(u.points[w])
    BY <1>1, <1>6
  <2> QED BY <1>2, <1>5, <2>1 DEF Walked
<1>16. overlap \in {"none", "reading", "preparing"}
  BY DEF IsScored
<1> QED BY <1>3, <1>9, <1>10, <1>11, <1>12, <1>13, <1>15, <1>16 DEF EvalTypeOK, n

-----------------------------------------------------------------------------
LEMMA Scaled ==
  ASSUME NEW a \in Nat, NEW b \in Nat, NEW c \in Nat, a <= b
  PROVE  a * c <= b * c
<1>1. PICK d \in Nat : b = a + d
  <2>1. b - a \in Nat /\ b = a + (b - a)
    OBVIOUS
  <2> QED BY <2>1
<1>2. b * c = a * c + d * c
  BY <1>1
<1>3. d * c \in Nat /\ a * c \in Nat
  OBVIOUS
<1> HIDE <1>1
<1> QED BY <1>2, <1>3

LEMMA GatesAre ==
  ASSUME NEW t \in TaskRecords, Gates(t) # <<>>
  PROVE  /\ t.gates \in Nat /\ t.gates >= 1 /\ DOMAIN Gates(t) = 1..t.gates
         /\ \A g \in 1..t.gates : Gates(t)[g] \in Nat
         /\ \A g, k \in 1..t.gates : g <= k => Gates(t)[g] <= Gates(t)[k]
<1>1. t.open \in Nat /\ t.gates \in Nat /\ t.interval \in Nat
  BY DEF TaskRecords
<1>2. Gates(t) = [g \in 1..t.gates |-> t.open + (g - 1) * t.interval]
  BY DEF Gates
<1>3. t.gates >= 1
  <2> SUFFICES ASSUME t.gates = 0 PROVE FALSE
    BY <1>1
  <2>1. 1..0 = {} /\ 1..t.gates = {}
    OBVIOUS
  <2>2. Gates(t) = <<>>
    BY <1>2, <2>1
  <2> QED BY <2>2
<1>4. \A g \in 1..t.gates : g - 1 \in Nat /\ (g - 1) * t.interval \in Nat
  BY <1>1
<1>5. \A g, k \in 1..t.gates : g <= k => (g - 1) * t.interval <= (k - 1) * t.interval
  <2> SUFFICES ASSUME NEW g \in 1..t.gates, NEW k \in 1..t.gates, g <= k
               PROVE  (g - 1) * t.interval <= (k - 1) * t.interval
    OBVIOUS
  <2>1. g - 1 \in Nat /\ k - 1 \in Nat /\ g - 1 <= k - 1
    BY <1>1
  <2> QED BY <1>1, <2>1, Scaled
<1> DEFINE x(g) == (g - 1) * t.interval
<1>6. \A g \in 1..t.gates : x(g) \in Nat /\ Gates(t)[g] = t.open + x(g)
  BY <1>2, <1>4
<1>7. \A g, k \in 1..t.gates : g <= k => x(g) <= x(k)
  BY <1>5
<1>8. DOMAIN Gates(t) = 1..t.gates
  BY <1>2
<1> HIDE DEF x
<1> QED BY <1>1, <1>3, <1>6, <1>7, <1>8

LEMMA RaceStartIs ==
  ASSUME NEW t \in TaskRecords, NEW actual \in Nat, NEW after \in Nat, actual <= after
  PROVE  LET r == RaceStart(t, actual, after) IN
         /\ r.time \in Nat /\ r.jump \in Nat /\ r.time - r.jump <= after
         /\ Gates(t) # <<>> =>
               /\ r.time <= after \/ (r.gate = 1 /\ r.jump > 0)
               /\ \A g \in DOMAIN Gates(t) : Gates(t)[g] <= actual => Gates(t)[g] <= r.time
<1> DEFINE r == RaceStart(t, actual, after)
           gates == Gates(t)
<1>1. CASE gates = <<>>
  <2>1. r = [time |-> actual, gate |-> 0, jump |-> 0]
    BY <1>1 DEF RaceStart
  <2> HIDE DEF r
  <2>2. r.time = actual /\ r.jump = 0
    BY <2>1
  <2> QED BY <1>1, <2>2 DEF r
<1>2. CASE gates # <<>>
  <2>1. /\ t.gates \in Nat /\ t.gates >= 1 /\ DOMAIN gates = 1..t.gates
        /\ \A g \in 1..t.gates : gates[g] \in Nat
        /\ \A g, k \in 1..t.gates : g <= k => gates[g] <= gates[k]
    BY <1>2, GatesAre
  <2>2. 1 \in 1..t.gates
    BY <2>1
  <2>3. CASE actual < gates[1]
    <3>1. r = [time |-> gates[1], gate |-> 1, jump |-> IF after < gates[1] THEN gates[1] - actual ELSE 0]
      BY <1>2, <2>3 DEF RaceStart
    <3> HIDE DEF r, gates
    <3>2. gates[1] \in Nat
      BY <2>1, <2>2
    <3>3. gates[1] - actual \in Nat /\ gates[1] - actual > 0
      BY <2>3, <3>2
    <3>4. r.time = gates[1] /\ r.gate = 1 /\ r.jump = IF after < gates[1] THEN gates[1] - actual ELSE 0
      BY <3>1
    <3>5. r.time \in Nat /\ r.jump \in Nat /\ r.time - r.jump <= after
      BY <3>2, <3>3, <3>4
    <3>6. r.time <= after \/ (r.gate = 1 /\ r.jump > 0)
      BY <3>2, <3>3, <3>4
    <3>7. \A g \in DOMAIN gates : gates[g] <= actual => gates[g] <= r.time
      BY <2>1, <2>3, <3>2, <3>4
    <3> QED BY <3>5, <3>6, <3>7 DEF r, gates
  <2>4. CASE ~(actual < gates[1])
    <3> DEFINE g == GateFor(gates, actual, after)
               between == {k \in DOMAIN gates : actual <= gates[k] /\ gates[k] <= after}
               passed == {k \in DOMAIN gates : gates[k] <= actual}
    <3>1. r = [time |-> gates[g], gate |-> g, jump |-> 0]
      BY <1>2, <2>4 DEF RaceStart
    <3>2. g = IF between # {} THEN Min(between) ELSE Max(passed)
      BY DEF GateFor
    <3> HIDE DEF g, r
    <3>3. between \subseteq 1..t.gates /\ passed \subseteq 1..t.gates
      BY <2>1
    <3>4. 1 \in passed
      BY <2>1, <2>2, <2>4
    <3>5. between # {} => Min(between) \in between
      <4> HIDE DEF between
      <4>1. 1 \in Nat
        OBVIOUS
      <4> QED BY <2>1, <3>3, <4>1, EndsOf
    <3>6. Max(passed) \in passed /\ \A k \in passed : k <= Max(passed)
      <4> HIDE DEF passed
      <4>1. 1 \in Nat
        OBVIOUS
      <4> QED BY <2>1, <3>3, <3>4, <4>1, EndsOf
    <3>7. g \in 1..t.gates /\ gates[g] <= after /\ \A k \in 1..t.gates : gates[k] <= actual => gates[k] <= gates[g]
      <4>1. CASE between # {}
        <5>1. g \in between
          BY <3>2, <3>5, <4>1
        <5> HIDE DEF gates
        <5>2. g \in 1..t.gates /\ actual <= gates[g] /\ gates[g] <= after
          BY <2>1, <5>1
        <5> QED BY <2>1, <5>2
      <4>2. CASE between = {}
        <5>1. g \in passed /\ \A k \in passed : k <= g
          BY <3>2, <3>6, <4>2
        <5> HIDE DEF gates
        <5>2. g \in 1..t.gates /\ gates[g] <= actual
          BY <2>1, <5>1
        <5>3. \A k \in 1..t.gates : gates[k] <= actual => k <= g
          BY <2>1, <5>1
        <5> QED BY <2>1, <5>2, <5>3
      <4> QED BY <4>1, <4>2
    <3>8. r.time = gates[g] /\ r.jump = 0 /\ gates[g] \in Nat
      BY <2>1, <3>1, <3>7
    <3> HIDE DEF gates
    <3>9. r.time \in Nat /\ r.jump \in Nat /\ r.time - r.jump <= after /\ r.time <= after
      BY <3>7, <3>8
    <3>10. \A k \in DOMAIN gates : gates[k] <= actual => gates[k] <= r.time
      BY <2>1, <3>7, <3>8
    <3> QED BY <3>9, <3>10 DEF r, gates
  <2> QED BY <2>3, <2>4
<1> QED BY <1>1, <1>2

LEMMA ElapsedStartIs ==
  ASSUME NEW t \in TaskRecords, NEW actual \in Nat
  PROVE  LET r == ElapsedStart(t, actual) IN r.time \in Nat /\ r.jump \in Nat /\ r.time - r.jump <= actual
<1>1. t.open \in Nat /\ t.close \in Nat
  BY DEF TaskRecords
<1>2. CASE actual < t.open
  BY <1>1, <1>2 DEF ElapsedStart
<1>3. CASE ~(actual < t.open) /\ t.close # 0 /\ actual > t.close
  BY <1>1, <1>3 DEF ElapsedStart
<1>4. CASE ~(actual < t.open) /\ ~(t.close # 0 /\ actual > t.close)
  BY <1>1, <1>4 DEF ElapsedStart
<1> QED BY <1>2, <1>3, <1>4

LEMMA EvaluationStarts ==
  ASSUME task \in TaskRecords, track \in Seq(Int), MaxFixes \in Nat,
         NEW u, NEW total, NEW progress, IsScored(u, total, progress)
  PROVE  StartFits
<1> DEFINE s == Hits(u, track)
           n == Len(task.points)
           goal == InGoalBy(u, s)
           e == Judged(u, track, s, goal, total, progress)
           hit == HitOf(s, StartOf(task))
           ess == HitOf(s, EssOf(task))
<1>0. /\ u \in TaskRecords /\ Len(u.points) = n /\ StartOf(u) = StartOf(task) /\ u.type = task.type
      /\ Gates(u) = Gates(task)
  BY DEF IsScored, Resembles, Gates
<1>1. Walked(u, track, s, n) /\ s \in WalkStates(u, track)
  BY <1>0, HitsAreKept
<1>2. scored = e /\ goal \in BOOLEAN
  BY DEF IsScored, InGoalBy
<1>9. overlap # "preparing" => EssOf(u) = EssOf(task)
  BY DEF IsScored
<1> HIDE DEF goal, s
<1>3. /\ e.hits = s.hits /\ e.start = ScoredStart(u, hit)
      /\ task.type # "open" /\ overlap # "preparing" =>
            e.elapsed = IF e.start.time > 0 /\ ess # NoHit THEN Larger(At(ess.shown) - e.start.time, 0) ELSE 0
  BY <1>0, <1>2, <1>9, JudgedIs
<1>4. Dom(task) = 1..n /\ Dom(u) = 1..n /\ n \in Nat /\ StartOf(task) \in 0..n /\ EssOf(task) \in 0..n
  BY <1>0, TaskIs, PointsAre
<1>5. ASSUME NEW w \in 0..n, HitOf(s, w) # NoHit
      PROVE  /\ w # 0 /\ HitOf(s, w) = s.hits[w] /\ s.hits[w].shown \in Nat /\ s.hits[w].after \in Nat
             /\ s.hits[w].shown <= s.hits[w].after
  <2>1. w # 0 /\ HitOf(s, w) = s.hits[w] /\ w \in Dom(u)
    BY <1>4, <1>5 DEF HitOf
  <2>2. IsHit(u.points[w], track, 1, s.hits[w]) /\ u.points[w] \in PointRecords /\ s.hits[w] # NoHit
    BY <1>0, <1>1, <1>5, <2>1, TaskIs DEF Walked
  <2>3. 1 \in Starts
    BY DEF Starts
  <2>4. s.hits[w].shown \in 1..Len(track) /\ s.hits[w].after \in 1..Len(track) /\ s.hits[w].shown <= s.hits[w].after
    BY <2>2, <2>3, HitIsLater
  <2> QED BY <2>1, <2>4
<1> HIDE DEF e
<1> SUFFICES ASSUME hit # NoHit
             PROVE  /\ task.type # "elapsed" /\ Gates(task) # <<>> =>
                         /\ e.start.time <= At(hit.after) \/ (e.start.gate = 1 /\ e.start.jump > 0)
                         /\ \A g \in DOMAIN Gates(task) : Gates(task)[g] <= At(hit.shown) => Gates(task)[g] <= e.start.time
                    /\ e.elapsed > 0 /\ task.type # "open" /\ overlap # "preparing" =>
                         e.elapsed + e.start.jump >= At(e.hits[EssOf(task)].shown) - At(hit.after)
  <2>1. HitOf(e, StartOf(task)) = hit
    BY <1>3 DEF HitOf
  <2> QED BY <1>2, <2>1 DEF StartFits
<1>6. At(hit.shown) \in Nat /\ At(hit.after) \in Nat /\ At(hit.shown) <= At(hit.after)
  <2>1. hit.shown \in Nat /\ hit.after \in Nat /\ hit.shown <= hit.after
    BY <1>4, <1>5
  <2> QED BY <2>1 DEF At
<1>7. /\ e.start.time \in Nat /\ e.start.jump \in Nat /\ e.start.time - e.start.jump <= At(hit.after)
      /\ task.type # "elapsed" /\ Gates(task) # <<>> =>
            /\ e.start.time <= At(hit.after) \/ (e.start.gate = 1 /\ e.start.jump > 0)
            /\ \A g \in DOMAIN Gates(task) : Gates(task)[g] <= At(hit.shown) => Gates(task)[g] <= e.start.time
  <2>1. CASE task.type = "elapsed"
    <3>1. e.start = ElapsedStart(u, At(hit.shown))
      BY <1>0, <1>3, <2>1 DEF ScoredStart
    <3>2. e.start.time \in Nat /\ e.start.jump \in Nat /\ e.start.time - e.start.jump <= At(hit.shown)
      BY <1>0, <1>6, <3>1, ElapsedStartIs
    <3> HIDE DEF hit
    <3> QED BY <1>6, <2>1, <3>2
  <2>2. CASE task.type # "elapsed"
    <3>1. e.start = RaceStart(u, At(hit.shown), At(hit.after))
      BY <1>0, <1>3, <2>2 DEF ScoredStart
    <3> QED BY <1>0, <1>6, <3>1, RaceStartIs
  <2> QED BY <2>1, <2>2
<1>8. ASSUME e.elapsed > 0, task.type # "open", overlap # "preparing"
      PROVE  e.elapsed + e.start.jump >= At(e.hits[EssOf(task)].shown) - At(hit.after)
  <2>1. ess # NoHit /\ e.elapsed = Larger(At(ess.shown) - e.start.time, 0)
    BY <1>3, <1>8
  <2>2. ess = e.hits[EssOf(task)] /\ ess.shown \in Nat
    BY <1>3, <1>4, <1>5, <2>1
  <2>3. At(ess.shown) \in Nat
    BY <2>2 DEF At
  <2> HIDE DEF ess, hit
  <2>4. e.elapsed = At(ess.shown) - e.start.time
    BY <1>7, <1>8, <2>1, <2>3 DEF Larger
  <2> QED BY <1>6, <1>7, <2>2, <2>3, <2>4
<1> QED BY <1>7, <1>8

-----------------------------------------------------------------------------
(* What was flown is made.                                                 *)

LEMMA ShownGrows ==
  ASSUME NEW p, NEW i \in Starts, NEW j \in Starts, i <= j
  PROVE  /\ Shown(p, i) \in Int /\ Shown(p, j) \in Int /\ Shown(p, i) <= Shown(p, j)
         /\ Shown(p, j) <= j /\ j <= Shown(p, j) + 1 /\ (Shown(p, j) = j => ~p.exit)
         /\ IsStart(p) /\ j > 1 => Shown(p, j) = j - 1
         /\ ~IsStart(p) /\ ~p.exit => Shown(p, j) = j
BY DEF Shown, Starts

\* What is found among crossings of which one is known
LEMMA FoundOf ==
  ASSUME NEW p, NEW trk \in Seq(Int), NEW cursor \in Starts, NEW latest, NEW k \in Crossings(p, trk, cursor, latest)
  PROVE  /\ \E i \in Crossings(p, trk, cursor, latest) :
               i <= k /\ i \in Starts /\ Crosses(p, trk, i) /\ At(i) <= latest /\ cursor <= i
               /\ FirstHit(p, trk, cursor, latest) = HitAt(p, i)
         /\ \E i \in Crossings(p, trk, cursor, latest) :
               k <= i /\ i \in Starts /\ Crosses(p, trk, i) /\ At(i) <= latest /\ cursor <= i
               /\ LastHit(p, trk, cursor, latest) = HitAt(p, i)
<1> DEFINE C == Crossings(p, trk, cursor, latest)
<1>1. \A i \in C : i \in Starts /\ Crosses(p, trk, i) /\ At(i) <= latest /\ cursor <= i
  BY DEF Crossings, Starts
<1>2. /\ \E i \in C : (\A j \in C : i <= j) /\ FirstHit(p, trk, cursor, latest) = HitAt(p, i)
      /\ \E i \in C : (\A j \in C : j <= i) /\ LastHit(p, trk, cursor, latest) = HitAt(p, i)
  <2>1. C # {}
    OBVIOUS
  <2> QED BY <2>1, FirstAndLast
<1> HIDE DEF C
<1> QED BY <1>1, <1>2 DEF C

LEMMA StartIsTimely ==
  ASSUME NEW t \in TaskRecords, MaxFixes \in Nat, NEW trk \in Seq(Int), Len(trk) <= MaxFixes, NEW cursor \in Starts,
         NEW w \in Dom(t), IsStart(t.points[w]), EnteredNext(t, w),
         NEW F, NEW from \in Starts,
         \A v \in Dom(t) : Required(t.points[v]) =>
            F[v] \in Crossings(t.points[v], trk, from, LatestFor(t, t.points[v])),
         \A v, u \in Dom(t) : Required(t.points[v]) /\ Required(t.points[u]) /\ v < u => Shown(t.points[v], F[v]) < F[u],
         cursor <= F[w]
  PROVE  /\ StartHit(t, w, trk, cursor) # NoHit
         /\ \A v \in Dom(t) : Required(t.points[v]) /\ v > w => StartHit(t, w, trk, cursor).shown < F[v]
<1> DEFINE n == Len(t.points)
           p == t.points[w]
           latest == LatestFor(t, p)
           first == FirstHit(p, trk, cursor, latest)
           N == NextRequired(t, w)
           q == t.points[Min(N)]
           next == IF first = NoHit \/ N = {} THEN NoHit ELSE FirstHit(q, trk, first.after, latest)
           limit == IF next = NoHit THEN latest ELSE Smaller(latest, At(next.shown))
<1>1. n \in Nat /\ Dom(t) = 1..n /\ w \in Nat /\ w + 1 \in Nat /\ cursor \in Nat
  BY TaskIs DEF Starts
<1>2. Required(p)
  BY DEF Required, IsStart
<1>3. \A v \in Dom(t) : Required(t.points[v]) =>
         F[v] \in Starts /\ F[v] \in 1..Len(trk) /\ Crosses(t.points[v], trk, F[v]) /\ At(F[v]) <= LatestFor(t, t.points[v])
  BY DEF Crossings, Starts
<1>4. latest \in Nat
  <2>1. t.close \in Nat /\ t.finish \in Nat
    BY DEF TaskRecords
  <2> QED BY <2>1 DEF LatestFor, Upto, Finish, End, At
<1>5. F[w] \in Crossings(p, trk, cursor, latest)
  BY <1>1, <1>2, <1>3 DEF Crossings, Starts
<1>6. PICK i \in Starts : i <= F[w] /\ Crosses(p, trk, i) /\ At(i) <= latest /\ cursor <= i /\ first = HitAt(p, i)
  BY <1>5, FoundOf
<1>7. i \in Crossings(p, trk, cursor, latest) /\ i <= Len(trk) /\ i \in Nat /\ At(i) \in Nat
  <2>1. F[w] \in 1..Len(trk)
    BY <1>2, <1>3
  <2>2. i \in Nat /\ i <= Len(trk) /\ At(i) \in Nat
    BY <1>6, <2>1 DEF Starts, At
  <2> QED BY <1>1, <1>6, <2>2 DEF Crossings
<1>8. first # NoHit /\ first.after = i
  BY <1>6, ShownIs
<1>9. StartHit(t, w, trk, cursor) = LastHit(p, trk, cursor, limit)
  BY DEF StartHit
<1> HIDE DEF limit, first, latest, p, next
<1>10. CASE N = {}
  <2>1. limit = latest
    BY <1>10 DEF limit, next
  <2>2. PICK k \in Starts : Crosses(p, trk, k) /\ LastHit(p, trk, cursor, latest) = HitAt(p, k)
    BY <1>5, FoundOf
  <2>3. StartHit(t, w, trk, cursor) # NoHit
    BY <1>9, <2>1, <2>2, ShownIs
  <2>4. ASSUME NEW v \in Dom(t), Required(t.points[v]), v > w PROVE FALSE
    <3>1. v \in (w + 1)..n
      BY <1>1, <2>4
    <3>2. v \in N
      BY <2>4, <3>1 DEF NextRequired
    <3> QED BY <1>10, <3>2
  <2> QED BY <2>3, <2>4
<1>11. CASE N # {}
  <2> DEFINE m == Min(N)
             g == F[m]
  <2>1. m \in N /\ \A v \in N : m <= v
    <3>1. N \subseteq (w + 1)..n
      BY DEF NextRequired
    <3> QED BY <1>1, <1>11, <3>1, EndsOf
  <2>2. m \in Dom(t) /\ m \in Nat /\ w < m /\ Required(q) /\ q \in PointRecords
    <3>1. m \in (w + 1)..n /\ Required(q)
      BY <2>1 DEF NextRequired
    <3>2. m \in Dom(t) /\ m \in Nat /\ w < m
      BY <1>1, <3>1
    <3> QED BY <3>1, <3>2, TaskIs
  <2>3. ~q.exit /\ ~IsStart(q)
    BY <1>11 DEF EnteredNext
  <2>4. g \in Starts /\ g \in 1..Len(trk) /\ Crosses(q, trk, g) /\ At(g) <= LatestFor(t, q) /\ Shown(p, F[w]) < g
    BY <1>2, <1>3, <2>2 DEF p
  <2> HIDE DEF m, g
  <2>5. g \in Nat /\ i <= g /\ At(g) <= latest
    <3>1. F[w] \in Starts
      BY <1>2, <1>3 DEF p
    <3>2. Shown(p, F[w]) \in Int /\ F[w] <= Shown(p, F[w]) + 1
      BY <3>1, ShownGrows
    <3>3. g \in Nat /\ i <= g
      BY <1>6, <1>7, <2>4, <3>1, <3>2 DEF Starts
    <3>4. At(g) <= End
      BY <2>4, <3>3 DEF At, End
    <3>5. LatestFor(t, q) = Upto(Finish(t)) /\ (latest = Upto(Finish(t)) \/ latest = End)
      BY <2>3 DEF LatestFor, latest
    <3> QED BY <2>4, <3>3, <3>4, <3>5
  <2>6. g \in Crossings(q, trk, i, latest)
    BY <1>7, <2>4, <2>5 DEF Crossings
  <2>7. PICK j \in Starts : j <= g /\ Crosses(q, trk, j) /\ At(j) <= latest /\ i <= j
                            /\ FirstHit(q, trk, i, latest) = HitAt(q, j)
    BY <2>6, FoundOf
  <2>8. next = HitAt(q, j)
    BY <1>8, <1>11, <2>7 DEF next
  <2>9. next # NoHit /\ next.shown = j /\ j \in Nat
    BY <2>3, <2>7, <2>8, ShownIs DEF Starts
  <2>10. limit = At(j)
    <3>1. At(j) \in Nat
      BY <2>9 DEF At
    <3> QED BY <1>4, <2>7, <2>9, <3>1 DEF limit, Smaller
  <2>11. i \in Crossings(p, trk, cursor, limit)
    <3>1. At(i) <= At(j)
      BY <1>7, <2>7, <2>9 DEF At
    <3> QED BY <1>7, <2>10, <3>1 DEF Crossings
  <2>12. PICK k \in Starts : i <= k /\ Crosses(p, trk, k) /\ At(k) <= limit /\ LastHit(p, trk, cursor, limit) = HitAt(p, k)
    BY <2>11, FoundOf
  <2>13. StartHit(t, w, trk, cursor) # NoHit /\ StartHit(t, w, trk, cursor).shown = Shown(p, k)
    BY <1>9, <2>12, ShownIs
  <2>14. Shown(p, k) < g /\ Shown(p, k) \in Int
    <3>1. k \in Nat /\ k >= 1 /\ k <= j
      BY <2>9, <2>10, <2>12 DEF Starts, At
    <3>2. IsStart(p)
      BY DEF p
    <3>3. Shown(p, k) \in Int /\ (k > 1 => Shown(p, k) = k - 1) /\ Shown(p, k) <= k
      BY <2>12, <3>2, ShownGrows
    <3>4. CASE k > 1
      BY <2>5, <2>7, <2>9, <3>1, <3>3, <3>4
    <3>5. CASE k = 1
      <4>1. F[w] \in Starts /\ k <= F[w]
        BY <1>2, <1>3, <3>5 DEF p, Starts
      <4>2. Shown(p, k) <= Shown(p, F[w]) /\ Shown(p, F[w]) \in Int
        BY <4>1, <2>12, ShownGrows
      <4> QED BY <2>4, <2>5, <3>3, <4>2
    <3> QED BY <3>1, <3>4, <3>5
  <2>15. ASSUME NEW v \in Dom(t), Required(t.points[v]), v > w PROVE Shown(p, k) < F[v]
    <3>1. v \in N
      BY <1>1, <2>15 DEF NextRequired
    <3>2. CASE v = m
      BY <2>14, <3>2 DEF g
    <3>3. CASE v # m
      <4>1. m < v
        BY <1>1, <2>1, <2>2, <2>15, <3>1, <3>3
      <4>2. Shown(q, g) < F[v]
        BY <2>2, <2>15, <4>1 DEF g, m
      <4>3. Shown(q, g) = g
        BY <2>3, <2>4, ShownGrows
      <4>4. F[v] \in Nat
        BY <1>3, <2>15 DEF Starts
      <4> QED BY <2>5, <2>14, <4>2, <4>3, <4>4
    <3> QED BY <3>2, <3>3
  <2> QED BY <2>13, <2>15
<1> QED BY <1>10, <1>11

LEMMA EvaluationMade ==
  ASSUME task \in TaskRecords, track \in Seq(Int), MaxFixes \in Nat, Len(track) <= MaxFixes,
         overlap # "preparing" => scored.missed = Hits(task, track).missed
  PROVE  MadeIfFlown
<1> DEFINE ps == task.points
           n == Len(ps)
           required == {w \in Dom(task) : Required(ps[w])}
           from == IF required = Dom(task) THEN 1 ELSE 2
<1> SUFFICES ASSUME task.type # "open", overlap # "preparing", LaunchFirst, \A w \in required : IsStart(ps[w]) => EnteredNext(task, w),
                    NEW F \in [required -> 1..Len(track)],
                    \A w \in required :
                       /\ F[w] \in Crossings(ps[w], track, from, LatestFor(task, ps[w]))
                       /\ \A v \in required : v < w => Shown(ps[v], F[v]) < F[w]
             PROVE  scored.missed = 0
  BY DEF MadeIfFlown
<1>1. n \in Nat /\ Dom(task) = 1..n /\ \A w \in 1..n : ps[w] \in PointRecords
  BY TaskIs
<1>2. from \in Starts /\ from \in Nat /\ (required # Dom(task) => from = 2)
  BY DEF Starts
<1>3. PICK f, found : /\ IsWalk(f, task, track, found) /\ Walk(task, track) = f[n]
                      /\ \A w \in Dom(task) : found[w] = WalkHit(task, track, f[w - 1], w)
  BY WalkIs
<1>4. Hits(task, track) = f[n]
  BY <1>3 DEF Hits
<1>5. \A w \in required : /\ F[w] \in Starts /\ F[w] \in 1..Len(track) /\ Crosses(ps[w], track, F[w])
                          /\ At(F[w]) <= LatestFor(task, ps[w]) /\ from <= F[w]
  BY <1>2 DEF Crossings, Starts
<1> DEFINE T == {k \in 0..n : f[k].missed = 0 /\ \A w \in required : w > k => f[k].cursor <= F[w]}
<1> HIDE DEF from
<1>6. 0 \in T
  <2>1. f[0].missed = 0 /\ f[0].cursor = 1
    BY <1>3 DEF IsWalk, Unvisited
  <2>2. \A w \in required : 1 <= F[w]
    BY <1>5
  <2> HIDE DEF required
  <2> QED BY <1>1, <2>1, <2>2
<1>7. ASSUME NEW k \in 1..n, k - 1 \in T PROVE k \in T
  <2> DEFINE s == f[k - 1]
             p == ps[k]
             h == found[k]
             cursor == s.cursor
  <2>1. k \in Dom(task) /\ k \in Nat /\ k - 1 \in 0..n /\ k \in 0..n
    BY <1>1
  <2>2. /\ s \in WalkStates(task, track) /\ IsHit(p, track, s.cursor, h) /\ f[k] = Visited(task, s, k, h)
        /\ h = WalkHit(task, track, s, k) /\ p \in PointRecords
    BY <1>1, <1>3, <2>1 DEF IsWalk
  <2>3. cursor \in Starts /\ s.missed = 0 /\ \A w \in required : w > k - 1 => cursor <= F[w]
    BY <1>7, <2>2 DEF WalkStates, Starts
  <2>4. /\ s = [hits |-> s.hits, cursor |-> s.cursor, missed |-> s.missed, ignored |-> s.ignored]
        /\ s.hits \in [Dom(task) -> HitRecords]
    BY <2>2 DEF WalkStates
  <2>5. h # NoHit => f[k].missed = 0 /\ f[k].cursor = Beyond(h)
    <3>1. h # NoHit => f[k] = [s EXCEPT !.hits[k] = h, !.cursor = Beyond(h)]
      BY <2>2, <2>3 DEF Visited
    <3> HIDE DEF s, h
    <3> QED BY <2>3, <2>4, <3>1
  <2>6. ~Required(p) /\ h = NoHit => f[k] = s
    BY <2>2, <2>3 DEF Visited
  <2>7. h # NoHit => h.shown \in Nat
    <3>1. IsHit(p, track, cursor, h) /\ p \in PointRecords
      BY <2>2
    <3> HIDE DEF h, p, cursor
    <3> QED BY <2>3, <3>1, HitIsLater
  <2> HIDE DEF s, p, h
  <2>8. CASE ~Required(p)
    <3>1. k = 1 /\ ~p.exit /\ (track = <<>> \/ Within(p, track[1]))
      BY <2>1, <2>8 DEF LaunchFirst, p
    <3>2. required # Dom(task) /\ from = 2
      BY <1>2, <2>1, <2>8 DEF p
    <3>3. \A w \in required : 2 <= F[w]
      BY <1>5, <3>2
    <3>4. CASE h = NoHit
      <4>1. \A w \in required : w > k => w > k - 1
        BY <1>1, <2>1
      <4> HIDE DEF required
      <4> QED BY <2>1, <2>3, <2>6, <2>8, <3>4, <4>1 DEF s
    <3>5. CASE h # NoHit
      <4>1. h.shown <= 1
        <5>1. IsHit(p, track, cursor, h)
          BY <2>2 DEF p, h, s
        <5>2. h = FirstHit(p, track, cursor, End)
          BY <2>2, <2>3, <2>8 DEF WalkHit, p, h, s
        <5>3. track # <<>> /\ 1 \in 1..Len(track) /\ cursor = 1
          <6>1. f[0].cursor = 1
            BY <1>3 DEF IsWalk, Unvisited
          <6>2. cursor = 1
            BY <3>1, <6>1 DEF s
          <6>3. \E i \in cursor..Len(track) : TRUE
            BY <3>5, <5>1 DEF IsHit
          <6> QED BY <6>2, <6>3
        <5>4. Within(p, track[1])
          BY <3>1, <5>3
        <5>5. Crosses(p, track, 1) /\ At(1) <= End
          BY <3>1, <5>4 DEF Crosses, Enters, At, End
        <5>6. 1 \in Crossings(p, track, 1, End)
          BY <5>3, <5>5 DEF Crossings
        <5>7. 1 \in Starts
          BY DEF Starts
        <5>8. PICK i \in Starts : i <= 1 /\ Crosses(p, track, i) /\ FirstHit(p, track, 1, End) = HitAt(p, i)
          BY <5>6, <5>7, FoundOf
        <5>9. i = 1
          BY <5>8 DEF Starts
        <5> QED BY <5>2, <5>3, <5>7, <5>8, <5>9, ShownIs
      <4>2. Beyond(h) <= 2 /\ Beyond(h) \in Nat
        BY <2>7, <3>5, <4>1 DEF Beyond
      <4>3. \A w \in required : Beyond(h) <= F[w]
        <5>1. \A w \in required : F[w] \in Nat
          BY <1>5 DEF Starts
        <5> HIDE DEF required
        <5> QED BY <3>3, <4>2, <5>1
      <4>4. f[k].missed = 0 /\ f[k].cursor = Beyond(h)
        BY <2>5, <3>5
      <4>5. \A w \in required : w > k => f[k].cursor <= F[w]
        BY <4>3, <4>4
      <4> HIDE DEF required
      <4> QED BY <2>1, <4>4, <4>5
    <3> QED BY <3>4, <3>5
  <2>9. CASE Required(p)
    <3>1. k \in required /\ cursor <= F[k]
      <4>1. k \in required
        BY <2>1, <2>9 DEF p
      <4>2. k > k - 1
        BY <2>1
      <4> QED BY <2>3, <4>1, <4>2
    <3>2. h # NoHit /\ \A v \in required : v > k => h.shown < F[v]
      <4>1. CASE IsStart(p)
        <5>1. h = StartHit(task, k, track, cursor)
          BY <2>2, <2>3, <2>9, <4>1 DEF WalkHit, p, h, s
        <5>2. EnteredNext(task, k) /\ IsStart(task.points[k])
          BY <3>1, <4>1 DEF p
        <5>3. \A v \in Dom(task) : Required(task.points[v]) =>
                 F[v] \in Crossings(task.points[v], track, from, LatestFor(task, task.points[v]))
          OBVIOUS
        <5>4. \A v, u \in Dom(task) : Required(task.points[v]) /\ Required(task.points[u]) /\ v < u =>
                 Shown(task.points[v], F[v]) < F[u]
          OBVIOUS
        <5>5. /\ StartHit(task, k, track, cursor) # NoHit
              /\ \A v \in Dom(task) : Required(task.points[v]) /\ v > k => StartHit(task, k, track, cursor).shown < F[v]
          <6> HIDE DEF required, cursor
          <6> QED BY <1>2, <2>1, <2>3, <3>1, <5>2, <5>3, <5>4, StartIsTimely
        <5> QED BY <5>1, <5>5
      <4>2. CASE ~IsStart(p)
        <5> DEFINE latest == LatestFor(task, p)
        <5>1. h = FirstHit(p, track, cursor, latest)
          BY <2>2, <2>3, <2>9, <4>2 DEF WalkHit, p, h, s
        <5> HIDE DEF latest, cursor
        <5>2. F[k] \in Starts /\ F[k] \in 1..Len(track) /\ Crosses(p, track, F[k]) /\ At(F[k]) <= latest
          BY <1>5, <3>1 DEF p, latest
        <5>3. F[k] \in Crossings(p, track, cursor, latest)
          <6>1. F[k] \in cursor..Len(track)
            BY <2>3, <3>1, <5>2 DEF Starts
          <6> QED BY <5>2, <6>1 DEF Crossings
        <5>4. PICK i \in Starts : i <= F[k] /\ Crosses(p, track, i) /\ FirstHit(p, track, cursor, latest) = HitAt(p, i)
          BY <2>3, <5>3, FoundOf
        <5>5. h # NoHit /\ h.shown = Shown(p, i)
          BY <5>1, <5>4, ShownIs
        <5>6. Shown(p, i) \in Int /\ Shown(p, F[k]) \in Int /\ Shown(p, i) <= Shown(p, F[k])
          BY <5>2, <5>4, ShownGrows
        <5>7. \A v \in required : v > k => Shown(p, F[k]) < F[v] /\ F[v] \in Int
          <6> SUFFICES ASSUME NEW v \in required, v > k PROVE Shown(p, F[k]) < F[v] /\ F[v] \in Int
            OBVIOUS
          <6>1. k < v /\ F[v] \in Int
            BY <1>1, <1>5, <2>1 DEF Starts
          <6> QED BY <3>1, <6>1 DEF p
        <5> HIDE DEF required
        <5> QED BY <5>5, <5>6, <5>7
      <4> QED BY <4>1, <4>2
    <3>3. f[k].missed = 0 /\ f[k].cursor = h.shown + 1
      BY <2>5, <3>2 DEF Beyond
    <3>4. \A v \in required : v > k => f[k].cursor <= F[v]
      <4>1. \A v \in required : F[v] \in Nat
        BY <1>5 DEF Starts
      <4> HIDE DEF required
      <4> QED BY <2>7, <3>2, <3>3, <4>1
    <3> HIDE DEF required
    <3> QED BY <2>1, <3>3, <3>4
  <2> QED BY <2>8, <2>9
<1>8. f[n].missed = 0
  <2>1. 0..n \subseteq T
    <3> HIDE DEF T
    <3> QED BY <1>1, <1>6, <1>7, UpTo
  <2>2. n \in 0..n
    BY <1>1
  <2> QED BY <2>1, <2>2
<1>9. scored.missed = Hits(task, track).missed
  OBVIOUS
<1> QED BY <1>4, <1>8, <1>9

-----------------------------------------------------------------------------
(* The area under the gains.                                               *)

AreNumbers(f, S) == \A d \in S : f[d] \in Nat

\* g sums f up from B to M, and f is level, at c, from a to b.
IsLevel(g, f, B, M, a, b, c) ==
    /\ B \in Nat /\ M \in Nat /\ a \in Nat /\ b \in Nat /\ c \in Nat /\ B <= a /\ a <= b /\ b <= M
    /\ AreNumbers(f, (B + 1)..M) /\ IsSum(g, f, (B + 1)..M) /\ \A d \in (a + 1)..b : f[d] = c

LEMMA SumTakes ==
  ASSUME NEW S, NEW f, NEW g, IsFiniteSet(S), AreNumbers(f, S), IsSum(g, f, S), NEW R \in SUBSET S, NEW x \in R
  PROVE  g[R] = f[x] + g[R \ {x}]
<1>1. \A y \in S : f[y] \in Nat
  BY DEF AreNumbers
<1> QED BY <1>1, SumRemoves

\* A stretch on which a sum adds the same.
LEMMA StretchAdds ==
  ASSUME NEW B, NEW M, NEW f, NEW g, NEW a, NEW b, NEW c, IsLevel(g, f, B, M, a, b, c)
  PROVE  g[(B + 1)..b] = g[(B + 1)..a] + c * (b - a)
<1>a. /\ B \in Nat /\ M \in Nat /\ a \in Nat /\ b \in Nat /\ c \in Nat /\ B <= a /\ a <= b /\ b <= M
       /\ AreNumbers(f, (B + 1)..M) /\ IsSum(g, f, (B + 1)..M) /\ \A d \in (a + 1)..b : f[d] = c
  BY DEF IsLevel
<1> USE <1>a
<1> DEFINE D == (B + 1)..M
           m == b - a
           T == {k \in 0..m : g[(B + 1)..(a + k)] = g[(B + 1)..a] + c * k}
<1>1. m \in Nat /\ a + m = b
  OBVIOUS
<1>0. IsFiniteSet(D) /\ AreNumbers(f, D) /\ IsSum(g, f, D)
  BY FS_Interval
<1>2. g[(B + 1)..a] \in Nat
  <2>1. (B + 1)..a \in SUBSET D
    OBVIOUS
  <2> QED BY <2>1 DEF IsSum
<1>3. 0 \in T
  <2>1. c * 0 = 0 /\ a + 0 = a
    OBVIOUS
  <2> QED BY <1>1, <1>2, <2>1
<1>4. ASSUME NEW k \in 1..m, k - 1 \in T PROVE k \in T
  <2> DEFINE x == a + k
             R == (B + 1)..x
  <2>1. k \in Nat /\ k \in 0..m /\ k - 1 \in Nat /\ x \in Nat
    BY <1>1
  <2>2. x \in R /\ R \in SUBSET D /\ x \in (a + 1)..b /\ x \in D
    BY <1>1, <2>1
  <2>3. R \ {x} = (B + 1)..(a + (k - 1))
    BY <1>1, <2>1
  <2> HIDE DEF x, R
  <2>4. g[R] = f[x] + g[R \ {x}]
    <3> HIDE DEF D
    <3> HIDE <1>a
    <3>1. \A Q \in SUBSET D, y \in D : y \in Q => g[Q] = f[y] + g[Q \ {y}]
      BY <1>0, SumTakes
    <3>2. R \in SUBSET D /\ x \in R /\ x \in D
      BY <2>2
    <3> QED BY <3>1, <3>2
  <2>5. f[x] = c
    BY <2>2
  <2>6. g[(B + 1)..(a + (k - 1))] = g[(B + 1)..a] + c * (k - 1)
    BY <1>4
  <2>7. c * k = c * (k - 1) + c /\ c * (k - 1) \in Nat
    BY <2>1
  <2>8. g[R] = g[(B + 1)..a] + c * k
    <3> DEFINE y == c * k
               z == c * (k - 1)
    <3>1. y = z + c /\ z \in Nat /\ g[R] = c + (g[(B + 1)..a] + z)
      BY <2>3, <2>4, <2>5, <2>6, <2>7
    <3> HIDE DEF y, z
    <3>2. g[R] = g[(B + 1)..a] + y
      BY <1>2, <3>1
    <3> QED BY <3>2 DEF y
  <2> QED BY <2>1, <2>8 DEF R, x
<1>5. m \in T
  <2>1. 0..m \subseteq T
    <3> HIDE DEF T, m
    <3> QED BY <1>1, <1>3, <1>4, UpTo
  <2> HIDE DEF T, m
  <2> QED BY <1>1, <2>1
<1>6. g[(B + 1)..(a + m)] = g[(B + 1)..a] + c * m
  BY <1>5
<1> QED BY <1>1, <1>6

\* The steps of the gains: X are the fixes that count, G what they gain, W what
\* a unit gained at them weighs.
IsGains(h, n, X, G, W, B) ==
    /\ X \subseteq 1..n /\ G \in [1..n -> Nat] /\ W \in [1..n -> Nat]
    /\ h \in [0..n -> [most : Nat, area : Nat]] /\ h[0] = [most |-> B, area |-> 0]
    /\ \A i \in 1..n : h[i] = IF i \notin X \/ G[i] <= h[i - 1].most THEN h[i - 1]
                              ELSE [most |-> G[i], area |-> h[i - 1].area + W[i] * (G[i] - h[i - 1].most)]

IsMost(M, X, G, B) == M \in Nat /\ B <= M /\ (\A i \in X : G[i] <= M) /\ (M = B \/ \E i \in X : G[i] = M)

\* What f gives a unit is what the first fix that gains it weighs.
Weighs(f, M, X, G, W, B) ==
    \A d \in (B + 1)..M : \E i \in X : G[i] >= d /\ (\A j \in X : j < i => G[j] < d) /\ f[d] = W[i]

LEMMA AreaIs ==
  ASSUME NEW n \in Nat, NEW X, NEW G, NEW W, NEW B \in Nat, NEW h, IsGains(h, n, X, G, W, B),
         NEW M, IsMost(M, X, G, B), NEW f, Weighs(f, M, X, G, W, B)
  PROVE  h[n].most = M /\ h[n].area = SumFunctionOnSet(f, (B + 1)..M)
<1>0. /\ M \in Nat /\ B <= M /\ (\A i \in X : G[i] <= M) /\ (M = B \/ \E i \in X : G[i] = M)
      /\ \A d \in (B + 1)..M : \E i \in X : G[i] >= d /\ (\A j \in X : j < i => G[j] < d) /\ f[d] = W[i]
  BY DEF IsMost, Weighs
<1> USE <1>0
<1> DEFINE D == (B + 1)..M
           Good(k) == /\ B <= h[k].most /\ h[k].most <= M /\ \A i \in X : i <= k => G[i] <= h[k].most
           T(g) == {k \in 0..n : Good(k) /\ h[k].area = g[(B + 1)..(h[k].most)]}
<1>1. /\ X \subseteq 1..n /\ \A i \in 1..n : G[i] \in Nat /\ W[i] \in Nat
      /\ \A k \in 0..n : h[k] \in [most : Nat, area : Nat] /\ h[k].most \in Nat /\ h[k].area \in Nat
      /\ h[0].most = B /\ h[0].area = 0
      /\ \A i \in 1..n : h[i] = IF i \notin X \/ G[i] <= h[i - 1].most THEN h[i - 1]
                                ELSE [most |-> G[i], area |-> h[i - 1].area + W[i] * (G[i] - h[i - 1].most)]
  <2> HIDE <1>0
  <2>1. /\ X \subseteq 1..n /\ G \in [1..n -> Nat] /\ W \in [1..n -> Nat]
        /\ h \in [0..n -> [most : Nat, area : Nat]] /\ h[0] = [most |-> B, area |-> 0]
        /\ \A i \in 1..n : h[i] = IF i \notin X \/ G[i] <= h[i - 1].most THEN h[i - 1]
                                  ELSE [most |-> G[i], area |-> h[i - 1].area + W[i] * (G[i] - h[i - 1].most)]
    BY Zenon DEF IsGains
  <2>2. \A i \in 1..n : G[i] \in Nat /\ W[i] \in Nat
    BY <2>1, Zenon
  <2>3. \A k \in 0..n : h[k] \in [most : Nat, area : Nat]
    BY <2>1, Zenon
  <2>4. \A k \in 0..n : h[k].most \in Nat /\ h[k].area \in Nat
    BY <2>3
  <2>5. h[0].most = B /\ h[0].area = 0
    <3>1. h[0] = [most |-> B, area |-> 0]
      BY <2>1, Zenon
    <3> QED BY <3>1
  <2> QED BY <2>1, <2>2, <2>3, <2>4, <2>5, Zenon
<1>2. \A d \in D : f[d] \in Nat
  BY <1>1
<1>3. PICK g : IsSum(g, f, D) /\ SumFunctionOnSet(f, D) = g[D]
  <2>1. IsFiniteSet(D)
    <3>1. B + 1 \in Int /\ M \in Int
      OBVIOUS
    <3> QED BY <3>1, FS_Interval
  <2> HIDE DEF D
  <2> QED BY <1>2, <2>1, SumIs
<1>4. 0 \in T(g)
  <2>1. g[{}] = 0
    <3>1. {} \in SUBSET D
      OBVIOUS
    <3> HIDE DEF D
    <3> QED BY <1>3, <3>1 DEF IsSum
  <2>2. ASSUME NEW i \in X PROVE ~(i <= 0)
    <3>1. i \in 1..n
      BY <1>1
    <3> QED BY <3>1
  <2>3. (B + 1)..B = {}
    OBVIOUS
  <2> QED BY <1>1, <2>1, <2>2, <2>3
<1>5. ASSUME NEW k \in 1..n, k - 1 \in T(g) PROVE k \in T(g)
  <2> DEFINE m == h[k - 1].most
  <2>1. k \in Nat /\ k \in 0..n /\ k - 1 \in 0..n /\ m \in Nat
    BY <1>1
  <2>2. /\ B <= m /\ m <= M /\ \A i \in X : i <= k - 1 => G[i] <= m
        /\ h[k - 1].area = g[(B + 1)..m]
    BY <1>5
  <2>3. \A i \in X : i \in Nat /\ (i <= k => i <= k - 1 \/ i = k) /\ (i < k => i <= k - 1)
    BY <1>1, <2>1
  <2> HIDE DEF m
  <2>4. CASE k \notin X \/ G[k] <= m
    <3>1. h[k] = h[k - 1]
      BY <1>1, <2>4 DEF m
    <3>2. \A i \in X : i <= k => G[i] <= m
      BY <2>2, <2>3, <2>4
    <3> QED BY <2>1, <2>2, <3>1, <3>2 DEF m
  <2>5. CASE k \in X /\ ~(G[k] <= m)
    <3>1. h[k] = [most |-> G[k], area |-> h[k - 1].area + W[k] * (G[k] - m)]
      BY <1>1, <2>5 DEF m
    <3>2. G[k] \in Nat /\ W[k] \in Nat /\ m < G[k] /\ G[k] <= M
      BY <1>1, <2>1, <2>5
    <3>3. \A d \in (m + 1)..G[k] : f[d] = W[k]
      <4> SUFFICES ASSUME NEW d \in (m + 1)..G[k] PROVE f[d] = W[k]
        OBVIOUS
      <4>1. d \in (B + 1)..M /\ d \in Nat /\ m < d /\ d <= G[k]
        BY <2>1, <2>2, <3>2
      <4>2. PICK i \in X : G[i] >= d /\ (\A j \in X : j < i => G[j] < d) /\ f[d] = W[i]
        BY <4>1
      <4>3. G[i] \in Nat /\ i \in Nat
        BY <1>1, <2>3
      <4>4. ~(i < k)
        BY <2>1, <2>2, <2>3, <4>1, <4>2, <4>3
      <4>5. ~(k < i)
        BY <2>5, <3>2, <4>1, <4>2
      <4>6. i = k
        BY <2>1, <4>3, <4>4, <4>5
      <4> QED BY <4>2, <4>6
    <3>4. g[(B + 1)..G[k]] = g[(B + 1)..m] + W[k] * (G[k] - m)
      <4>1. AreNumbers(f, (B + 1)..M) /\ IsSum(g, f, (B + 1)..M)
        BY <1>2, <1>3 DEF AreNumbers
      <4>2. m \in Nat /\ G[k] \in Nat /\ W[k] \in Nat /\ B <= m /\ m <= G[k] /\ G[k] <= M
        BY <2>1, <2>2, <3>2
      <4>3. IsLevel(g, f, B, M, m, G[k], W[k])
        BY <3>3, <4>1, <4>2 DEF IsLevel
      <4> QED BY <4>3, StretchAdds
    <3>5. h[k].most = G[k] /\ h[k].area = g[(B + 1)..G[k]]
      BY <2>2, <3>1, <3>4
    <3>6. \A i \in X : i <= k => G[i] <= G[k]
      <4> SUFFICES ASSUME NEW i \in X, i <= k PROVE G[i] <= G[k]
        OBVIOUS
      <4>1. CASE i = k
        BY <3>2, <4>1
      <4>2. CASE i # k
        <5>1. G[i] <= m /\ i \in 1..n
          BY <1>1, <2>2, <2>3, <4>2
        <5>2. G[i] \in Nat
          BY <1>1, <5>1
        <5> QED BY <2>1, <3>2, <5>1, <5>2
      <4> QED BY <4>1, <4>2
    <3>7. B <= G[k]
      BY <2>1, <2>2, <3>2
    <3> QED BY <2>1, <3>2, <3>5, <3>6, <3>7
  <2> QED BY <2>4, <2>5
<1>6. n \in T(g)
  <2>1. 0..n \subseteq T(g)
    <3> HIDE DEF T
    <3> QED BY <1>4, <1>5, UpTo
  <2> QED BY <2>1
<1>7. h[n].most = M
  <2>1. n \in 0..n /\ h[n].most \in Nat
    BY <1>1
  <2>2. B <= h[n].most /\ h[n].most <= M /\ \A i \in X : i <= n => G[i] <= h[n].most
    BY <1>6
  <2>3. \A i \in X : i <= n
    BY <1>1
  <2> QED BY <2>1, <2>2, <2>3
<1> QED BY <1>3, <1>6, <1>7

\* What an evaluation is made of, as far as its gains go.
IsJudged(t, e) ==
    /\ e.hits \in [Dom(t) -> HitRecords] /\ e.distance \in Nat /\ e.start.time \in Nat
    /\ \E w \in Dom(t) : Required(t.points[w])

LEMMA GainedIs ==
  ASSUME NEW t \in TaskRecords, NEW trk \in Seq(Int), NEW e, IsJudged(t, e), NEW i \in 1..Len(trk)
  PROVE  Gained(t, trk, e, i) \in Nat
<1> DEFINE n == Len(t.points)
           required == {w \in Dom(t) : Required(t.points[w])}
           ahead == {w \in Dom(t) : Required(t.points[w]) /\ (e.hits[w] = NoHit \/ e.hits[w].shown >= i)}
           target == Target(t, e.hits, i)
<1>1. n \in Nat /\ Dom(t) = 1..n /\ required \subseteq 1..n /\ ahead \subseteq 1..n /\ \A w \in 1..n : t.points[w].at \in Int
  BY TaskIs
<1>2. required # {} /\ e.distance \in Nat
  BY DEF IsJudged
<1>3. target = IF ahead = {} THEN Max(required) ELSE Min(ahead)
  BY DEF Target
<1> HIDE DEF required, ahead, target
<1>4. target \in 1..n
  <2>1. 1 \in Nat
    OBVIOUS
  <2>2. CASE ahead = {}
    <3>1. Max(required) \in required
      BY <1>1, <1>2, <2>1, EndsOf
    <3> QED BY <1>1, <1>3, <2>2, <3>1
  <2>3. CASE ahead # {}
    <3>1. Min(ahead) \in ahead
      BY <1>1, <2>1, <2>3, EndsOf
    <3> QED BY <1>1, <1>3, <2>3, <3>1
  <2> QED BY <2>2, <2>3
<1>5. trk[i] \in Int /\ LegsTo(t, target) \in Nat
  <2>1. target \in 0..n
    BY <1>1, <1>4
  <2> QED BY <2>1, LegsAre
<1>6. Apart(t.points[target].at, trk[i]) \in Nat
  BY <1>1, <1>4, <1>5, ApartIs
<1>7. Flown(t, target, trk[i]) \in Nat
  BY <1>5, <1>6 DEF Flown, Larger
<1> QED BY <1>2, <1>7 DEF Gained, Smaller, target

Weight(t, e, i) == Larger(At(i) - OpenedAt(t, e), 0)

LEMMA WeightIs ==
  ASSUME NEW t \in TaskRecords, NEW e, IsJudged(t, e), NEW i \in Nat
  PROVE  Weight(t, e, i) \in Nat
<1>1. OpenedAt(t, e) \in Nat
  <2>1. t.open \in Nat /\ e.start.time \in Nat
    BY DEF TaskRecords, IsJudged
  <2> QED BY <2>1 DEF OpenedAt
<1> QED BY <1>1 DEF Weight, At, Larger

LEMMA GainsAre ==
  ASSUME NEW t \in TaskRecords, NEW trk \in Seq(Int), NEW e, IsJudged(t, e), GainedBefore(t, trk, e) \in Nat
  PROVE  \E h : /\ Gains(t, trk, e) = h[Len(trk)]
                /\ IsGains(h, Len(trk), {i \in 1..Len(trk) : InSection(t, e, i)},
                           [i \in 1..Len(trk) |-> Gained(t, trk, e, i)], [i \in 1..Len(trk) |-> Weight(t, e, i)],
                           GainedBefore(t, trk, e))
<1> DEFINE n == Len(trk)
           S == [most : Nat, area : Nat]
           B == GainedBefore(t, trk, e)
           X == {i \in 1..n : InSection(t, e, i)}
           G == [i \in 1..n |-> Gained(t, trk, e, i)]
           W == [i \in 1..n |-> Weight(t, e, i)]
           start == [most |-> B, area |-> 0]
           Step(i, s) == IF ~InSection(t, e, i) \/ Gained(t, trk, e, i) <= s.most THEN s
                         ELSE [most |-> Gained(t, trk, e, i),
                               area |-> s.area + Weight(t, e, i) * (Gained(t, trk, e, i) - s.most)]
           H == [i \in 1..n |-> [s \in S |-> Step(i, s)]]
           All(f) == f = [i \in 0..n |-> IF i = 0 THEN start ELSE Step(i, f[i - 1])]
           h == CHOOSE x : All(x)
<1>1. n \in Nat /\ \A i \in 1..n : i \in Nat /\ i - 1 \in 0..n /\ i \in 0..n /\ i # 0
  OBVIOUS
<1>2. \A i \in 1..n : Gained(t, trk, e, i) \in Nat /\ Weight(t, e, i) \in Nat
  BY <1>1, GainedIs, WeightIs
<1>3. Gains(t, trk, e) = h[n]
  BY DEF Gains, Gain, Weight
<1> HIDE DEF h, n, B
<1>4. start \in S
  BY DEF B
<1>5. ASSUME NEW i \in 1..n, NEW s \in S PROVE Step(i, s) \in S
  <2> DEFINE new == Gained(t, trk, e, i)
             w == Weight(t, e, i)
  <2>1. new \in Nat /\ w \in Nat /\ s.most \in Nat /\ s.area \in Nat
    BY <1>2
  <2>2. Step(i, s) = IF ~InSection(t, e, i) \/ new <= s.most THEN s
                     ELSE [most |-> new, area |-> s.area + w * (new - s.most)]
    OBVIOUS
  <2> HIDE DEF new, w, Step
  <2>3. CASE ~InSection(t, e, i) \/ new <= s.most
    BY <2>2, <2>3
  <2>4. CASE InSection(t, e, i) /\ ~(new <= s.most)
    <3>1. new - s.most \in Nat
      BY <2>1, <2>4
    <3>2. w * (new - s.most) \in Nat
      BY <2>1, <3>1
    <3> DEFINE more == w * (new - s.most)
    <3>3. Step(i, s) = [most |-> new, area |-> s.area + more] /\ more \in Nat
      BY <2>2, <2>4, <3>2
    <3> HIDE DEF more
    <3> QED BY <2>1, <3>3
  <2> QED BY <2>3, <2>4
<1>6. H \in [1..n -> [S -> S]]
  <2> HIDE DEF Step, S
  <2> QED BY <1>5
<1> HIDE DEF S, start
<1>7. All(h)
  <2>1. PICK f : IsRun(f, n, S, start, H)
    <3> HIDE DEF H
    <3> QED BY <1>1, <1>4, <1>6, RunExists
  <2>2. /\ f \in [0..n -> S] /\ f[0] = start
        /\ \A i \in 1..n : f[i - 1] \in S /\ f[i] = Step(i, f[i - 1])
    <3> HIDE DEF Step
    <3> QED BY <1>1, <2>1 DEF IsRun
  <2>3. All(f)
    <3> HIDE DEF Step
    <3> QED BY <1>1, <2>2
  <2> QED BY <2>3, Zenon DEF h
<1>8. /\ h = [i \in 0..n |-> h[i]] /\ h[0] = start
      /\ \A i \in 1..n : h[i] = Step(i, h[i - 1])
  <2> HIDE DEF Step
  <2>1. \A i \in 0..n : h[i] = IF i = 0 THEN start ELSE Step(i, h[i - 1])
    BY <1>7
  <2>2. h = [i \in 0..n |-> h[i]]
    BY <1>7, <2>1
  <2>3. 0 \in 0..n
    BY <1>1
  <2> QED BY <1>1, <2>1, <2>2, <2>3
<1>9. h \in [0..n -> S]
  <2>1. \A i \in 1..n : h[i - 1] \in S => h[i] = H[i][h[i - 1]]
    <3> HIDE DEF Step
    <3> QED BY <1>8
  <2>2. IsRun(h, n, S, start, H)
    <3> HIDE DEF H
    <3> QED BY <1>1, <1>4, <1>6, <1>8, <2>1, RunStays
  <2> QED BY <2>2 DEF IsRun
<1>10. \A i \in 1..n : h[i] = IF i \notin X \/ G[i] <= h[i - 1].most THEN h[i - 1]
                              ELSE [most |-> G[i], area |-> h[i - 1].area + W[i] * (G[i] - h[i - 1].most)]
  <2> SUFFICES ASSUME NEW i \in 1..n
               PROVE  h[i] = IF i \notin X \/ G[i] <= h[i - 1].most THEN h[i - 1]
                             ELSE [most |-> G[i], area |-> h[i - 1].area + W[i] * (G[i] - h[i - 1].most)]
    OBVIOUS
  <2>1. h[i] = Step(i, h[i - 1])
    BY <1>8
  <2>2. G[i] = Gained(t, trk, e, i) /\ W[i] = Weight(t, e, i) /\ (i \in X <=> InSection(t, e, i))
    OBVIOUS
  <2> HIDE DEF G, W, X
  <2> QED BY <2>1, <2>2
<1>11. G \in [1..n -> Nat] /\ W \in [1..n -> Nat] /\ X \subseteq 1..n
  BY <1>2
<1>12. IsGains(h, n, X, G, W, B)
  <2> HIDE DEF G, W, X
  <2> QED BY <1>8, <1>9, <1>10, <1>11 DEF IsGains, start, S
<1> QED BY <1>3, <1>12 DEF n, B

MostOf(X, G, B) == Max({G[i] : i \in X} \cup {B})

\* The greatest of finitely many numbers and one more
LEMMA MostIs ==
  ASSUME NEW n \in Nat, NEW X \in SUBSET (1..n), NEW G, AreNumbers(G, X), NEW B \in Nat
  PROVE  IsMost(MostOf(X, G, B), X, G, B)
<1> DEFINE S == {G[i] : i \in X} \cup {B}
           T == {G[i] : i \in X}
<1>1. IsFiniteSet(T)
  <2>1. IsFiniteSet(1..n)
    BY FS_Interval
  <2>2. IsFiniteSet(X)
    BY <2>1, FS_Subset
  <2> DEFINE g == [i \in X |-> G[i]]
  <2>3. g \in Surjection(X, T)
    BY DEF Surjection
  <2> HIDE DEF g, T
  <2> QED BY <2>2, <2>3, FS_Surjection
<1>2. IsFiniteSet(S)
  <2>1. IsFiniteSet({B})
    BY FS_Singleton
  <2>2. S = T \cup {B}
    OBVIOUS
  <2> HIDE DEF S, T
  <2> QED BY <1>1, <2>1, <2>2, FS_Union
<1>3. S \subseteq Nat /\ S # {} /\ B \in S /\ \A i \in X : G[i] \in S
  BY DEF AreNumbers
<1>4. Max(S) \in S /\ \A y \in S : y <= Max(S)
  <2> HIDE DEF S
  <2> QED BY <1>2, <1>3, MaxIsNumber
<1>5. Max(S) = B \/ \E i \in X : G[i] = Max(S)
  BY <1>4
<1> QED BY <1>3, <1>4, <1>5 DEF IsMost, MostOf

LEMMA EvaluationLeads ==
  ASSUME task \in TaskRecords, track \in Seq(Int), MaxFixes \in Nat, MinDist \in Nat, EvalTypeOK,
         overlap = "none" => scored = Evaluation(task, track)
  PROVE  LeadingIsFirstTimes
<1> DEFINE n == Len(track)
           e == scored
           st == StartOf(task)
           X == {i \in 1..n : InSection(task, e, i)}
           G == [i \in 1..n |-> Gained(task, track, e, i)]
           W == [i \in 1..n |-> Weight(task, e, i)]
           B == GainedBefore(task, track, e)
           all == {Gained(task, track, e, i) : i \in X} \cup {B}
           M == Max(all)
           later(d) == {At(i) : i \in {j \in X : Gained(task, track, e, j) >= d}}
           first == [d \in (B + 1)..M |-> Min(later(d))]
           waited == [d \in (B + 1)..M |-> Larger(first[d] - OpenedAt(task, e), 0)]
<1> SUFFICES ASSUME overlap = "none", e.start # Unscored, EssOf(task) # 0
             PROVE  Leading(task, track, e) = Outstanding(task, e, M) + SumFunctionOnSet(waited, (B + 1)..M)
  BY DEF LeadingIsFirstTimes
<1>1. Walked(task, track, Hits(task, track), Len(task.points)) /\ Hits(task, track) \in WalkStates(task, track)
  BY HitsAreKept
<1>2. /\ e.hits = Hits(task, track).hits /\ e.start = ScoredStart(task, HitOf(e, st))
      /\ EvalTypeOK
  <2> DEFINE s == Hits(task, track)
             goal == InGoalBy(task, s)
             progress == Progress(task, track, s)
  <2>1. e = Judged(task, track, s, goal, Total(task), progress) /\ goal \in BOOLEAN
    BY DEF Evaluation, EvaluationOf, InGoalBy
  <2> HIDE DEF s, goal, progress
  <2>2. e.hits = s.hits /\ e.start = ScoredStart(task, HitOf(s, st))
    BY <2>1, JudgedIs
  <2>3. HitOf(s, st) = HitOf(e, st)
    BY <2>2 DEF HitOf
  <2> QED BY <2>2, <2>3 DEF s
<1>3. HitOf(e, st) # NoHit
  BY <1>2 DEF ScoredStart
<1>4. st \in Dom(task) /\ HitOf(e, st) = e.hits[st] /\ Required(task.points[st]) /\ task.points[st] \in PointRecords
  <2>1. st # 0 /\ HitOf(e, st) = e.hits[st]
    BY <1>3 DEF HitOf
  <2>2. st \in Dom(task) /\ task.points[st].kind \in {"start"}
    BY <2>1, PointOfIs DEF StartOf
  <2> QED BY <2>1, <2>2, TaskIs DEF Required
<1>5. e.hits[st].shown \in 1..n /\ e.hits[st].after \in 1..n /\ e.hits[st].shown <= e.hits[st].after
  <2>1. IsHit(task.points[st], track, 1, e.hits[st])
    BY <1>1, <1>2, <1>3, <1>4 DEF Walked
  <2>2. 1 \in Starts
    BY DEF Starts
  <2> QED BY <1>3, <1>4, <2>1, <2>2, HitIsLater
<1>6. IsJudged(task, e)
  <2>1. e.hits \in [Dom(task) -> HitRecords]
    BY <1>1, <1>2 DEF WalkStates
  <2>2. e.distance \in Nat
    BY <1>2 DEF EvalTypeOK
  <2>3. e.start.time \in Nat
    <3>1. At(e.hits[st].shown) \in Nat /\ At(e.hits[st].after) \in Nat /\ At(e.hits[st].shown) <= At(e.hits[st].after)
      <4>1. e.hits[st].shown \in Nat /\ e.hits[st].after \in Nat /\ e.hits[st].shown <= e.hits[st].after
        BY <1>5
      <4> QED BY <4>1 DEF At
    <3>2. e.start = IF task.type = "elapsed" THEN ElapsedStart(task, At(e.hits[st].shown))
                    ELSE RaceStart(task, At(e.hits[st].shown), At(e.hits[st].after))
      BY <1>2, <1>3, <1>4 DEF ScoredStart
    <3> QED BY <3>1, <3>2, RaceStartIs, ElapsedStartIs
  <2> QED BY <1>4, <2>1, <2>2, <2>3 DEF IsJudged
<1>7. B \in Nat
  <2>1. Gained(task, track, e, e.hits[st].shown) \in Nat
    BY <1>5, <1>6, GainedIs
  <2>2. LegsTo(task, st) \in Nat
    <3>1. st \in 0..Len(task.points)
      BY PointsAre
    <3> QED BY <3>1, LegsAre
  <2> QED BY <2>1, <2>2 DEF GainedBefore, Larger
<1>8. PICK h : Gains(task, track, e) = h[n] /\ IsGains(h, n, X, G, W, B)
  BY <1>6, <1>7, GainsAre
<1>9. \A i \in 1..n : G[i] = Gained(task, track, e, i) /\ W[i] = Weight(task, e, i) /\ G[i] \in Nat /\ i \in Nat
  BY <1>6, GainedIs
<1>10. X \subseteq 1..n /\ n \in Nat /\ all = {G[i] : i \in X} \cup {B}
  OBVIOUS
<1> HIDE DEF G, W, B, X, e, n, all, later
<1>11. IsMost(M, X, G, B)
  <2>1. AreNumbers(G, X) /\ X \in SUBSET (1..n)
    BY <1>9, <1>10 DEF AreNumbers
  <2>2. IsMost(MostOf(X, G, B), X, G, B)
    BY <1>7, <1>10, <2>1, MostIs
  <2>3. M = MostOf(X, G, B)
    BY <1>10 DEF MostOf
  <2> HIDE DEF M
  <2> QED BY <2>2, <2>3
<1>17. M \in Nat /\ B <= M /\ (\A i \in X : G[i] <= M) /\ (M = B \/ \E i \in X : G[i] = M)
  BY <1>11 DEF IsMost
<1> HIDE DEF M
<1>12. ASSUME NEW d \in (B + 1)..M
       PROVE  \E i \in X : G[i] >= d /\ (\A j \in X : j < i => G[j] < d) /\ waited[d] = W[i]
  <2> DEFINE ks == {j \in X : Gained(task, track, e, j) >= d}
  <2>1. d \in Nat /\ B < d /\ d <= M
    BY <1>7, <1>17
  <2>2. \A j \in X : j \in ks <=> G[j] >= d
    BY <1>9, <1>10
  <2>3. ks # {}
    BY <1>7, <1>17, <2>1, <2>2
  <2>4. ks \subseteq 1..n /\ later(d) = {At(i) : i \in ks}
    BY <1>10 DEF later
  <2> HIDE DEF ks
  <2>5. later(d) # {} /\ later(d) \subseteq 0..At(n)
    <3>1. \A i \in 1..n : At(i) \in 0..At(n)
      BY <1>10 DEF At
    <3> QED BY <2>3, <2>4, <3>1
  <2>6. Min(later(d)) \in later(d) /\ \A y \in later(d) : Min(later(d)) <= y
    <3>1. 0 \in Nat /\ At(n) \in Nat
      BY <1>10 DEF At
    <3> QED BY <2>5, <3>1, EndsOf
  <2>7. PICK i \in ks : Min(later(d)) = At(i)
    BY <2>4, <2>6
  <2>8. \A j \in ks : At(i) <= At(j)
    BY <2>4, <2>6, <2>7
  <2>9. i \in X /\ i \in 1..n /\ G[i] >= d
    BY <2>2, <2>4 DEF ks
  <2>10. ASSUME NEW j \in X, j < i PROVE G[j] < d
    <3>1. j \in Nat /\ i \in Nat /\ G[j] \in Nat
      BY <1>9, <1>10, <2>9
    <3>2. j \notin ks
      BY <2>8, <2>10, <3>1 DEF At
    <3> QED BY <2>1, <2>2, <3>1, <3>2
  <2>11. waited[d] = W[i]
    <3>1. waited[d] = Larger(At(i) - OpenedAt(task, e), 0)
      BY <2>7
    <3> QED BY <1>9, <2>9, <3>1 DEF Weight
  <2> QED BY <2>9, <2>10, <2>11
<1> HIDE DEF waited
<1>13. h[n].most = M /\ h[n].area = SumFunctionOnSet(waited, (B + 1)..M)
  <2>1. Weighs(waited, M, X, G, W, B)
    BY <1>12 DEF Weighs
  <2> QED BY <1>7, <1>8, <1>10, <1>11, <2>1, AreaIs
<1>14. h[n].area \in Nat
  <2>1. n \in 0..n
    BY <1>10
  <2> QED BY <1>8, <2>1 DEF IsGains
<1>15. Leading(task, track, e) = h[n].area + Outstanding(task, e, h[n].most)
  BY <1>8 DEF Leading
<1>16. Outstanding(task, e, M) \in Int
  <2>1. /\ LegsTo(task, EssOf(task)) \in Nat /\ LegsTo(task, st) \in Nat /\ e.distance \in Nat /\ e.start.time \in Nat
    BY <1>6, PointsAre, LegsAre DEF IsJudged
  <2>2. OpenedAt(task, e) \in Nat /\ ClosedAt(task) \in Nat
    <3>1. task.open \in Nat /\ task.close \in Nat /\ task.finish \in Nat
      BY DEF TaskRecords
    <3> QED BY <2>1, <3>1 DEF OpenedAt, ClosedAt, StartClose, Finish, Upto, End, At
  <2>3. Larger(e.start.time - OpenedAt(task, e), 0) \in Int
    BY <2>1, <2>2 DEF Larger
  <2> DEFINE left == LegsTo(task, EssOf(task)) - e.distance
             span == LegsTo(task, EssOf(task)) - LegsTo(task, st)
             wait == Larger(e.start.time - OpenedAt(task, e), 0)
             rest == ClosedAt(task) - OpenedAt(task, e)
  <2>4. left \in Int /\ span \in Int /\ wait \in Int /\ rest \in Int
    BY <2>1, <2>2, <2>3
  <2>5. Outstanding(task, e, M) = IF HitOf(e, EssOf(task)) = NoHit /\ M > LegsTo(task, st) /\ left > 0
                                  THEN span * wait + left * rest ELSE 0
    BY DEF Outstanding
  <2> HIDE DEF left, span, wait, rest
  <2>6. span * wait \in Int /\ left * rest \in Int
    BY <2>4
  <2> QED BY <2>5, <2>6
<1> QED BY <1>13, <1>14, <1>15, <1>16

-----------------------------------------------------------------------------
(* The flight.                                                             *)

\* What is scored is the evaluation of the fixes so far, or what one of another
\* task that ran beside it made of it.
EvalInv ==
    /\ task \in TaskSet /\ track \in Seq(Positions) /\ Len(track) <= MaxFixes
    /\ \/ overlap = "none" /\ scored = Evaluation(task, track)
       \/ overlap = "reading" /\ \E d \in Misread : scored = Confused(task, track, Total(task), d)
       \/ /\ overlap = "preparing"
          /\ \E d \in Misread, k, m, j \in Lengths :
                scored = Confused(Shortened(task, k, m), track, LegsTo(task, Smaller(j, Len(task.points))), d)

LEMMA EvalInitHolds == EvalInit => EvalInv
BY EvalAssumption DEF EvalInit, EvalInv

LEMMA EvalNextKeeps == EvalInv /\ [EvalNext]_evalvars => EvalInv'
<1> SUFFICES ASSUME EvalInv, [EvalNext]_evalvars PROVE EvalInv'
  OBVIOUS
<1>1. ASSUME NEW x \in Positions, track' = Append(track, x), Len(track) < MaxFixes
      PROVE  track' \in Seq(Positions) /\ Len(track') <= MaxFixes
  BY <1>1, EvalAssumption DEF EvalInv
<1>2. CASE Fly
  <2>1. PICK x \in Positions : track' = Append(track, x) /\ scored' = Evaluation(task, Append(track, x))
    BY <1>2 DEF Fly
  <2>2. task' = task /\ Len(track) < MaxFixes /\ overlap' = "none"
    BY <1>2 DEF Fly
  <2>3. track' \in Seq(Positions) /\ Len(track') <= MaxFixes
    BY <1>1, <2>1, <2>2
  <2>4. scored' = Evaluation(task', track')
    BY <2>1, <2>2
  <2> QED BY <2>2, <2>3, <2>4 DEF EvalInv
<1>3. CASE FlyBeside
  <2>1. PICK x \in Positions, d \in Misread :
           track' = Append(track, x) /\ scored' = Confused(task, Append(track, x), Total(task), d)
    BY <1>3 DEF FlyBeside
  <2>2. task' = task /\ Len(track) < MaxFixes /\ overlap' = "reading"
    BY <1>3 DEF FlyBeside
  <2>3. track' \in Seq(Positions) /\ Len(track') <= MaxFixes
    BY <1>1, <2>1, <2>2
  <2>4. scored' = Confused(task', track', Total(task'), d)
    BY <2>1, <2>2
  <2> QED BY <2>2, <2>3, <2>4 DEF EvalInv
<1>4. CASE FlyAcross
  <2>1. PICK x \in Positions, d \in Misread, k \in Lengths, m \in Lengths, j \in Lengths :
           /\ track' = Append(track, x)
           /\ scored' = Confused(Shortened(task, k, m), Append(track, x), LegsTo(task, Smaller(j, Len(task.points))), d)
    BY <1>4 DEF FlyAcross
  <2>2. task' = task /\ Len(track) < MaxFixes /\ overlap' = "preparing"
    BY <1>4 DEF FlyAcross
  <2>3. track' \in Seq(Positions) /\ Len(track') <= MaxFixes
    BY <1>1, <2>1, <2>2
  <2>4. scored' = Confused(Shortened(task', k, m), track', LegsTo(task', Smaller(j, Len(task'.points))), d)
    BY <2>1, <2>2
  <2> QED BY <2>2, <2>3, <2>4 DEF EvalInv
<1>5. CASE UNCHANGED evalvars
  BY <1>5 DEF EvalInv, evalvars
<1> QED BY <1>2, <1>3, <1>4, <1>5 DEF EvalNext

\* Shortened lists take kinds and margins from points, and no start.
LEMMA ShortenedIs ==
  ASSUME NEW t \in TaskRecords, NEW k, NEW m
  PROVE  Resembles(Shortened(t, k, m), t)
<1>1. CASE t.type = "open"
  <2>1. Shortened(t, k, m) = t
    BY <1>1 DEF Shortened
  <2> QED BY <2>1 DEF Resembles
<1>2. CASE t.type # "open"
  <2> DEFINE u == Shortened(t, k, m)
             n == Len(t.points)
             Kind(w) == IF w > k /\ t.points[w].kind \in {"goal", "ess"} THEN "tp" ELSE t.points[w].kind
             Margin(w) == IF w > m THEN 0 ELSE t.points[w].margin
             ps == [w \in Dom(t) |-> [t.points[w] EXCEPT !.kind = Kind(w), !.margin = Margin(w)]]
  <2>1. u = [t EXCEPT !.points = ps]
    BY <1>2 DEF Shortened
  <2>2. Dom(t) = 1..n /\ n \in Nat \ {0}
    BY TaskIs
  <2>3. ASSUME NEW w \in Dom(t)
        PROVE  /\ ps[w] \in PointRecords /\ ps[w].exit = t.points[w].exit
               /\ (IsStart(ps[w]) <=> IsStart(t.points[w]))
               /\ (Required(ps[w]) <=> Required(t.points[w]))
    <3>1. t.points[w] \in PointRecords
      BY TaskIs
    <3>2. ps[w] = [t.points[w] EXCEPT !.kind = Kind(w), !.margin = Margin(w)]
      OBVIOUS
    <3>3. Kind(w) \in {"launch", "start", "tp", "ess", "goal"} /\ Margin(w) \in Nat
      <4>1. t.points[w].kind \in {"launch", "start", "tp", "ess", "goal"} /\ t.points[w].margin \in Nat
        BY <3>1 DEF PointRecords
      <4>2. Kind(w) = "tp" \/ Kind(w) = t.points[w].kind
        OBVIOUS
      <4>3. Margin(w) = 0 \/ Margin(w) = t.points[w].margin
        OBVIOUS
      <4> HIDE DEF Kind, Margin
      <4> QED BY <4>1, <4>2, <4>3
    <3>4. /\ (Kind(w) = "start" <=> t.points[w].kind = "start")
          /\ (Kind(w) = "launch" <=> t.points[w].kind = "launch")
      OBVIOUS
    <3> HIDE DEF ps, Kind, Margin
    <3> QED BY <3>1, <3>2, <3>3, <3>4 DEF PointRecords, IsStart, Required
  <2> HIDE DEF u
  <2>4. ps \in Seq(PointRecords) /\ Len(ps) = n /\ ps # <<>>
    <3>1. ps \in [1..n -> PointRecords]
      <4>1. ps = [w \in 1..n |-> ps[w]]
        BY <2>2
      <4> HIDE DEF ps
      <4> QED BY <2>2, <2>3, <4>1
    <3> HIDE DEF ps
    <3> QED BY <2>2, <3>1
  <2> HIDE DEF ps
  <2>5. /\ u \in TaskRecords /\ u.points = ps
        /\ u.type = t.type /\ u.open = t.open /\ u.close = t.close /\ u.gates = t.gates /\ u.interval = t.interval
    BY <2>1, <2>4 DEF TaskRecords
  <2>6. Len(u.points) = n /\ Dom(u) = Dom(t)
    BY <2>4, <2>5 DEF Dom
  <2>7. StartOf(u) = StartOf(t)
    <3>1. \A w \in Dom(t) : u.points[w].kind \in {"start"} <=> t.points[w].kind \in {"start"}
      BY <2>3, <2>5 DEF IsStart
    <3>2. {w \in Dom(u) : u.points[w].kind \in {"start"}} = {w \in Dom(t) : t.points[w].kind \in {"start"}}
      BY <2>6, <3>1
    <3> QED BY <3>2 DEF StartOf, PointOf
  <2> QED BY <2>3, <2>5, <2>6, <2>7 DEF Resembles, u, n
<1> QED BY <1>1, <1>2

LEMMA EvalInvScored ==
  ASSUME EvalInv, task \in TaskRecords, track \in Seq(Int), MaxFixes \in Nat
  PROVE  \E u, total, progress : IsScored(u, total, progress)
<1>1. Resembles(task, task)
  BY DEF Resembles
<1>2. Len(task.points) \in Nat /\ \A w \in 0..Len(task.points) : LegsTo(task, w) \in Nat
  BY TaskIs, LegsAre
<1>3. Total(task) \in Nat
  BY <1>2 DEF Total
<1>4. CASE overlap = "none" /\ scored = Evaluation(task, track)
  <2>1. Progress(task, track, Hits(task, track)) \in Nat
    <3>1. Progress(task, track, Hits(task, track)) \in 0..Total(task)
      BY HitsAreKept, ProgressIs
    <3> QED BY <1>3, <3>1
  <2>2. IsScored(task, Total(task), Progress(task, track, Hits(task, track)))
    BY <1>1, <1>3, <1>4, <2>1 DEF IsScored, Evaluation, EvaluationOf
  <2> QED BY <2>2
<1>5. CASE overlap = "reading" /\ \E d \in Misread : scored = Confused(task, track, Total(task), d)
  <2>1. PICK d \in Misread : scored = Confused(task, track, Total(task), d)
    BY <1>5
  <2>2. d \in Nat
    BY EvalAssumption
  <2>3. IsScored(task, Total(task), d)
    BY <1>1, <1>3, <1>5, <2>1, <2>2 DEF IsScored, Confused
  <2> QED BY <2>3
<1>6. CASE /\ overlap = "preparing"
           /\ \E d \in Misread, k, m, j \in Lengths :
                 scored = Confused(Shortened(task, k, m), track, LegsTo(task, Smaller(j, Len(task.points))), d)
  <2>1. PICK d \in Misread, k \in Lengths, m \in Lengths, j \in Lengths :
           scored = Confused(Shortened(task, k, m), track, LegsTo(task, Smaller(j, Len(task.points))), d)
    BY <1>6
  <2> DEFINE u == Shortened(task, k, m)
             total == LegsTo(task, Smaller(j, Len(task.points)))
  <2>2. d \in Nat /\ j \in Nat
    BY EvalAssumption
  <2>3. total \in Nat
    <3>1. Smaller(j, Len(task.points)) \in 0..Len(task.points)
      BY <1>2, <2>2 DEF Smaller
    <3> QED BY <1>2, <3>1
  <2>4. Resembles(u, task)
    BY ShortenedIs
  <2> HIDE DEF u, total
  <2>5. scored = Judged(u, track, Hits(u, track), InGoalBy(u, Hits(u, track)), total, d)
    BY <2>1 DEF Confused, u, total
  <2>6. IsScored(u, total, d)
    BY <1>6, <2>2, <2>3, <2>4, <2>5 DEF IsScored
  <2> QED BY <2>6
<1> QED BY <1>4, <1>5, <1>6 DEF EvalInv

LEMMA EvalInvImplies == EvalInv => FlownIsScored
<1> SUFFICES ASSUME EvalInv PROVE FlownIsScored
  OBVIOUS
<1>1. /\ task \in TaskRecords /\ track \in Seq(Int) /\ MaxFixes \in Nat /\ MinDist \in Nat
      /\ Len(track) <= MaxFixes
  <2>1. task \in TaskRecords /\ MaxFixes \in Nat /\ MinDist \in Nat /\ Len(track) <= MaxFixes
    BY EvalAssumption DEF EvalInv
  <2>2. track \in Seq(Int)
    <3>1. track \in Seq(Positions) /\ Positions \subseteq Int
      BY EvalAssumption DEF EvalInv
    <3>2. Len(track) \in Nat /\ \A i \in 1..Len(track) : track[i] \in Int
      <4>1. Len(track) \in Nat /\ \A i \in 1..Len(track) : track[i] \in Positions
        BY <3>1
      <4> QED BY <3>1, <4>1
    <3>3. track = [i \in 1..Len(track) |-> track[i]]
      BY <3>1
    <3> QED BY <3>2, <3>3
  <2> QED BY <2>1, <2>2
<1>2. PICK u, total, progress : IsScored(u, total, progress)
  BY <1>1, EvalInvScored
<1>3. EvalTypeOK /\ EnteredAfter /\ StartFits
  BY <1>1, <1>2, EvaluationTyped, EvaluationStarts
<1>4. MadeIfFlown
  <2>1. overlap # "preparing" => scored.missed = Hits(task, track).missed
    <3>1. InGoalBy(u, Hits(u, track)) \in BOOLEAN
      BY DEF InGoalBy
    <3>2. scored.missed = Hits(u, track).missed
      BY <1>2, <3>1, JudgedIs DEF IsScored
    <3> QED BY <1>2, <3>2 DEF IsScored
  <2> QED BY <1>1, <2>1, EvaluationMade
<1>5. LeadingIsFirstTimes
  <2>1. overlap = "none" => scored = Evaluation(task, track)
    BY DEF EvalInv
  <2> QED BY <1>1, <1>3, <2>1, EvaluationLeads
<1> QED BY <1>1, <1>3, <1>4, <1>5, ScansAgreeHere DEF FlownIsScored

\* What was flown is what is scored (evaluate_task, validate_task): the points
\* are made in order and none that was flown is given up, either copy of the
\* rules finds the same crossings within the same margin, the start is the right
\* gate's, and the leading coefficient sums the times at which each unit of
\* distance was first gained.  Evaluations of other tasks in the same process may
\* change distances, but no points while nobody prepares a task, and never the
\* start's gate or the order of the points.
THEOREM FlownIsAlwaysScored == EvalSpec => []FlownIsScored
<1>1. EvalInit => EvalInv
  BY EvalInitHolds
<1>2. EvalInv /\ [EvalNext]_evalvars => EvalInv'
  BY EvalNextKeeps
<1>3. EvalInv => FlownIsScored
  BY EvalInvImplies
<1> QED BY <1>1, <1>2, <1>3, PTL DEF EvalSpec

=============================================================================
