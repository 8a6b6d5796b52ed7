--------------------------- MODULE AirspaceFiles ---------------------------
(***************************************************************************)
(* The airspace of the meets (backend/app/routers/airspace.py) and the     *)
(* duplication of a meet (routers/events.py).  An uploaded file is stored  *)
(* by what is in it, so meets that upload the same one share it; a         *)
(* duplicated meet gets copies.  Of each source there are the row, its     *)
(* regions, which say whether they are restricted fields, and the file.    *)
(***************************************************************************)
EXTENDS Naturals, FiniteSets, Database

CONSTANTS Meets, Texts,
          MaxSources,  \* bound on the sources ever inserted
          MaxAsked     \* bound on the requests

ASSUME SourcesAssumption == MaxSources \in Nat /\ MaxAsked \in Nat

VARIABLES meet,     \* of each event whether it is there; an id is not used again
          source,   \* airspace_sources
          region,   \* airspace_regions.is_restricted_field, the same for all of a source
          disk,     \* the stored files
          asking,   \* the transaction of each request
          asked,
          last,     \* the sequence of the source ids
          taken,    \* history: files removed while others counted on them
          torn      \* history: sources whose kind and regions were read or written apart

airvars == <<meet, source, region, disk, asking, asked, last, taken, torn>>

Kinds == {"airspace", "restricted_field"}
SourceIds == 1..MaxSources
Paths == Texts \cup (Meets \X SourceIds)
Source == [of : Meets, kind : Kinds, at : Paths, copied : BOOLEAN]

\* The requests under way; a duplication has read the sources S and the regions of T.
Uploads == [op : {"upload"}, of : Meets, at : Texts, kind : Kinds]
Changes == [op : {"change"}, id : SourceIds, was : Kinds, kind : Kinds, seen : BOOLEAN \cup {None},
            crossed : BOOLEAN]
Deletions == [op : {"delete"}, id : SourceIds, at : Paths, stage : {"open", "unlinked"}]
Duplications(S, T) ==
    [op : {"duplicate"}, of : Meets, new : Meets, rows : [S -> Source], regions : [T -> BOOLEAN] \cup {None},
     apart : SUBSET SourceIds]

\* No upload is named like a copy; None is no value of a column and no request.
ASSUME PathsAssumption == Texts \cap (Meets \X SourceIds) = {}
ASSUME AskAssumption ==
    /\ None \notin Requests \cup BOOLEAN \cup Source \cup Uploads \cup Changes \cup Deletions
    /\ \A S, T \in SUBSET SourceIds : None \notin [T -> BOOLEAN] /\ None \notin Duplications(S, T)

\* A source belongs to a meet that is there, and so do its regions.
AirTypeOK ==
    /\ meet \in [Meets -> {"unused", "there", "gone"}]
    /\ source \in [SourceIds -> Source \cup {None}]
    /\ region \in [SourceIds -> BOOLEAN \cup {None}]
    /\ disk \subseteq Paths /\ taken \subseteq Paths
    /\ torn \subseteq SourceIds
    /\ asked \in 0..MaxAsked /\ last \in 0..MaxSources
    /\ \A r \in Requests : asking[r] # None =>
          \/ asking[r] \in Uploads \cup Changes \cup Deletions
          \/ \E S, T \in SUBSET SourceIds : asking[r] \in Duplications(S, T)
    /\ \A s \in SourceIds : /\ region[s] # None => source[s] # None
                            /\ source[s] # None => meet[source[s].of] = "there"

Listed == {s \in SourceIds : source[s] # None}
SourcesOf(e) == {s \in Listed : source[s].of = e}

AirInit ==
    /\ meet \in [Meets -> {"unused", "there"}]
    /\ source = [s \in SourceIds |-> None]
    /\ region = [s \in SourceIds |-> None]
    /\ disk = {} /\ taken = {} /\ torn = {}
    /\ asking = [r \in Requests |-> None]
    /\ asked = 0 /\ last = 0

Asking(op) == {r \in Requests : asking[r] # None /\ asking[r].op = op}
Withdrawing == {asking[r].id : r \in Asking("delete")}

Ask(r, q) ==
    /\ asking[r] = None /\ asked < MaxAsked
    /\ asked' = asked + 1
    /\ asking' = [asking EXCEPT ![r] = q]

Done(r) == [asking EXCEPT ![r] = None]

\* The requests about the sources S go on, with the request of r done.
DoneCrossing(r, S) ==
    [q \in Requests |->
        IF q = r THEN None
        ELSE IF q \in Asking("change") /\ asking[q].id \in S THEN [asking[q] EXCEPT !.crossed = TRUE]
        ELSE IF q \in Asking("duplicate") /\ asking[q].regions = None
             THEN [asking[q] EXCEPT !.apart = @ \cup (S \cap DOMAIN asking[q].rows)]
        ELSE asking[q]]

-----------------------------------------------------------------------------
(* upload_airspace                                                         *)

\* Written unless it is there already; what is written stays after a failure.
Store(r, e, c, k) ==
    /\ meet[e] = "there" /\ last < MaxSources
    /\ Ask(r, [op |-> "upload", of |-> e, at |-> c, kind |-> k])
    /\ disk' = disk \cup {c}
    /\ UNCHANGED <<meet, source, region, last, taken, torn>>

CommitUpload(r) ==
    /\ r \in Asking("upload") /\ last < MaxSources
    /\ LET q == asking[r]
       IN  /\ meet[q.of] = "there"
           /\ source' = [source EXCEPT ![last + 1] = [of |-> q.of, kind |-> q.kind, at |-> q.at, copied |-> FALSE]]
           /\ region' = [region EXCEPT ![last + 1] = q.kind = "restricted_field"]
    /\ last' = last + 1
    /\ asking' = Done(r)
    /\ UNCHANGED <<meet, disk, asked, taken, torn>>

-----------------------------------------------------------------------------
(* update_airspace_source: what is written are the columns that differ     *)
(* from what was read, the source's and the regions' at two moments.       *)

BeginChange(r, s, k) ==
    /\ s \in Listed
    /\ Ask(r, [op |-> "change", id |-> s, was |-> source[s].kind, kind |-> k, seen |-> None, crossed |-> FALSE])
    /\ UNCHANGED <<meet, source, region, disk, last, taken, torn>>

ReadRegions(r) ==
    /\ r \in Asking("change") /\ asking[r].seen = None
    /\ region[asking[r].id] # None
    /\ asking' = [asking EXCEPT ![r].seen = region[asking[r].id]]
    /\ UNCHANGED <<meet, source, region, disk, asked, last, taken, torn>>

Restricted(k, seen) == k = "restricted_field"

CommitChange(r) ==
    /\ r \in Asking("change") /\ asking[r].seen # None
    /\ LET q == asking[r]
           marked == Restricted(q.kind, q.seen)
       IN  /\ q.id \in Listed \ Withdrawing
           /\ source' = IF q.kind = q.was THEN source ELSE [source EXCEPT ![q.id].kind = q.kind]
           /\ region' = IF marked = q.seen THEN region ELSE [region EXCEPT ![q.id] = marked]
           /\ torn' = IF q.crossed THEN torn \cup {q.id} ELSE torn
           /\ asking' = DoneCrossing(r, {q.id})
    /\ UNCHANGED <<meet, disk, asked, last, taken>>

-----------------------------------------------------------------------------
(* delete_airspace_source: the file is removed before the commit, without  *)
(* a look at the other sources.                                            *)

BeginDelete(r, s) ==
    /\ s \in Listed \ Withdrawing
    /\ Ask(r, [op |-> "delete", id |-> s, at |-> source[s].at, stage |-> "open"])
    /\ UNCHANGED <<meet, source, region, disk, last, taken, torn>>

\* Another row, or one that is about to be inserted, names the file.
CountedOn(s, at) ==
    \/ \E t \in Listed \ {s} : source[t].at = at
    \/ \E q \in Asking("upload") : asking[q].at = at
    \/ \E q \in Asking("duplicate") : \E t \in DOMAIN asking[q].rows : asking[q].rows[t].at = at

RemoveFile(r) ==
    /\ r \in Asking("delete") /\ asking[r].stage = "open"
    /\ LET q == asking[r]
       IN  /\ disk' = disk \ {q.at}
           /\ taken' = IF CountedOn(q.id, q.at) THEN taken \cup {q.at} ELSE taken
    /\ asking' = [asking EXCEPT ![r].stage = "unlinked"]
    /\ UNCHANGED <<meet, source, region, asked, last, torn>>

CommitDelete(r) ==
    /\ r \in Asking("delete") /\ asking[r].stage = "unlinked"
    /\ LET s == asking[r].id
       IN  /\ source' = [source EXCEPT ![s] = None]
           /\ region' = [region EXCEPT ![s] = None]
           /\ asking' = DoneCrossing(r, {s})
    /\ UNCHANGED <<meet, disk, asked, last, taken, torn>>

-----------------------------------------------------------------------------
(* duplicate_event: the sources are read by one statement and their files  *)
(* copied, the regions are read by another.  Pilots, slots and tasks with  *)
(* their points are copied the same way.                                   *)

\* _copy_stored_file
CopyAt(e, s) == IF source[s].at \in disk THEN <<e, s>> ELSE source[s].at

BeginDuplicate(r, e, new) ==
    /\ meet[e] = "there" /\ meet[new] = "unused"
    /\ \A q \in Asking("duplicate") : asking[q].new # new
    /\ LET rows == [s \in SourcesOf(e) |->
                       [of |-> new, kind |-> source[s].kind, at |-> CopyAt(new, s), copied |-> TRUE]]
           gone == {s \in SourcesOf(e) : source[s].at \notin disk}
       IN  /\ Ask(r, [op |-> "duplicate", of |-> e, new |-> new, rows |-> rows, regions |-> None,
                      apart |-> torn \cap SourcesOf(e)])
           /\ disk' = disk \cup {rows[s].at : s \in SourcesOf(e) \ gone}
           /\ taken' = taken \cup {source[s].at : s \in gone}
    /\ UNCHANGED <<meet, source, region, last, torn>>

\* A region whose source arrived in between has no entry in the map of the
\* sources: the request fails.
ReadDuplicated(r) ==
    /\ r \in Asking("duplicate") /\ asking[r].regions = None
    /\ LET found == {s \in SourcesOf(asking[r].of) : region[s] # None}
       IN  /\ found \subseteq DOMAIN asking[r].rows
           /\ asking' = [asking EXCEPT ![r].regions = [s \in found |-> region[s]]]
    /\ UNCHANGED <<meet, source, region, disk, asked, last, taken, torn>>

\* airspace_source_id_map
NewId(S, s) == last + Cardinality({t \in S : t <= s})

CommitDuplicate(r) ==
    /\ r \in Asking("duplicate") /\ asking[r].regions # None
    /\ LET q == asking[r]
           S == DOMAIN q.rows
       IN  /\ last + Cardinality(S) <= MaxSources
           /\ meet' = [meet EXCEPT ![q.new] = "there"]
           /\ source' = [i \in SourceIds |-> IF \E s \in S : NewId(S, s) = i
                             THEN q.rows[CHOOSE s \in S : NewId(S, s) = i] ELSE source[i]]
           /\ region' = [i \in SourceIds |-> IF \E s \in DOMAIN q.regions : NewId(S, s) = i
                             THEN q.regions[CHOOSE s \in S : NewId(S, s) = i] ELSE region[i]]
           /\ torn' = torn \cup {NewId(S, s) : s \in q.apart \cap S}
           /\ last' = last + Cardinality(S)
    /\ asking' = Done(r)
    /\ UNCHANGED <<disk, asked, taken>>

-----------------------------------------------------------------------------
\* ON DELETE CASCADE of AirspaceSource.event_id
Cascade(e) == [s \in SourceIds |-> IF s \in SourcesOf(e) THEN None ELSE source[s]]

\* delete_event leaves the files.
DeleteMeet(e) ==
    /\ meet[e] = "there" /\ SourcesOf(e) \cap Withdrawing = {} /\ asked < MaxAsked
    /\ asked' = asked + 1
    /\ meet' = [meet EXCEPT ![e] = "gone"]
    /\ source' = Cascade(e)
    /\ region' = [s \in SourceIds |-> IF s \in SourcesOf(e) THEN None ELSE region[s]]
    /\ asking' = DoneCrossing(None, SourcesOf(e))
    /\ UNCHANGED <<disk, last, taken, torn>>

\* Mutant of LeftOnDisk: a failed upload takes its file back, as the library of turnpoints does.
Cleaned(q) == IF q.op = "upload" THEN disk \ {q.at} ELSE disk
LeftOnDisk(q) == disk

\* An error or a kill before the commit, even with a file removed.
AskFails(r) ==
    /\ asking[r] # None
    /\ disk' = LeftOnDisk(asking[r])
    /\ taken' = IF r \in Asking("delete") THEN taken \cup {asking[r].at} ELSE taken
    /\ asking' = Done(r)
    /\ UNCHANGED <<meet, source, region, asked, last, torn>>

AirNext ==
    \/ \E r \in Requests :
          \/ \E e \in Meets, c \in Texts, k \in Kinds : Store(r, e, c, k)
          \/ \E s \in SourceIds, k \in Kinds : BeginChange(r, s, k)
          \/ \E s \in SourceIds : BeginDelete(r, s)
          \/ \E e, new \in Meets : BeginDuplicate(r, e, new)
          \/ CommitUpload(r) \/ ReadRegions(r) \/ CommitChange(r) \/ RemoveFile(r) \/ CommitDelete(r)
          \/ ReadDuplicated(r) \/ CommitDuplicate(r) \/ AskFails(r)
    \/ \E e \in Meets : DeleteMeet(e)

AirSpec == AirInit /\ [][AirNext]_airvars

-----------------------------------------------------------------------------
(* Properties                                                              *)

\* A listed source can be downloaded, unless a deletion took a file that
\* others counted on or did not come to its commit.
TakenOrThere ==
    \A s \in Listed :
        \/ source[s].at \in disk \cup taken
        \/ s \in Withdrawing

\* The files of a duplicated meet are its own: what is deleted in one of the two
\* takes nothing from the other.
CopyOfItsOwn ==
    \A s, t \in Listed :
        s # t /\ source[s].at = source[t].at /\ source[s].copied => source[s].at \in taken

\* The map draws the regions of a source as the kind that the list of sources
\* shows, in a duplicate too, unless changes of the kind, or a change and a
\* duplication, crossed.
DrawnAsListed ==
    \A s \in Listed \ torn : region[s] = (source[s].kind = "restricted_field")

\* Every listed airspace has its file, its own and of the kind it is listed as.
AirspaceHolds == AirTypeOK /\ TakenOrThere /\ CopyOfItsOwn /\ DrawnAsListed
=============================================================================
