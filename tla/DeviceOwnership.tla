-------------------------- MODULE DeviceOwnership --------------------------
(***************************************************************************)
(* Who a mesh device belongs to (backend/app/routers/auth.py).             *)
(*                                                                         *)
(* It is written twice: an inventory of devices, each with an owner and a  *)
(* purpose, and each account's pointer to its tracker.  Both are unique    *)
(* per device.  A request reads, decides what to write, and writes it with *)
(* its commit; requests run side by side.  The session writes the changed  *)
(* columns only, one UPDATE per row in the order of primary keys, and the  *)
(* database checks uniqueness after each.  Accounts and rows are numbers   *)
(* for that reason.                                                        *)
(***************************************************************************)
EXTENDS Naturals, FiniteSets, Database

CONSTANTS MaxAccounts,  \* accounts
          MaxRows,      \* bound on the rows of the inventory
          Devices,
          OtherPurposes \* but tracking; of these, only driver_mesh is resolved

ASSUME DeviceAssumption == None \notin Devices /\ MaxAccounts \in Nat /\ MaxRows \in Nat \ {0}

Accounts == 1..MaxAccounts
RowIds == 1..MaxRows
Purposes == {"tracking"} \cup OtherPurposes

VARIABLES tracker,  \* users.mesh_device_id
          row,      \* mesh_devices
          writing,     \* what each request under way will write
          alone,    \* history: the requests that nothing crossed since they began
          raced,    \* history: a request wrote that was crossed
          nodes     \* history: accounts whose pointer was written for a stationary
                    \* node, past the row of its device

devvars == <<tracker, row, writing, alone, raced, nodes>>

NoRow == [dev |-> None, owner |-> 0, purpose |-> "none"]
Row == [dev : Devices, owner : Accounts, purpose : Purposes]

\* A writing: pointers to write, and a row that was read as "was" and becomes "to".
\* It answers with success for the account "by", or with an error.
Idle == [open |-> FALSE]
Pointers == UNION {[S -> Devices \cup {None}] : S \in SUBSET Accounts}

DevTypeOK ==
    /\ tracker \in [Accounts -> Devices \cup {None}]
    /\ row \in [RowIds -> Row \cup {NoRow}]
    /\ \A r \in Requests : writing[r] = Idle \/ writing[r] \in
          [open : {TRUE}, by : Accounts, dev : Devices \cup {None},
           ptr : Pointers, id : RowIds,
           was : Row \cup {NoRow}, to : Row \cup {NoRow}]
    /\ alone \subseteq Requests
    /\ raced \in BOOLEAN
    /\ nodes \subseteq Accounts

\* Pointers without a row are older than the inventory, or belong to a node
\* that was registered by an administrator.
DevInit ==
    /\ tracker \in [Accounts -> Devices \cup {None}]
    /\ \A u, v \in Accounts : u # v => tracker[u] # tracker[v] \/ tracker[u] = None
    /\ row = [i \in RowIds |-> NoRow]
    /\ writing = [r \in Requests |-> Idle]
    /\ alone = {}
    /\ raced = FALSE
    /\ nodes = {}

-----------------------------------------------------------------------------
(* Reading                                                                 *)

Holders(d) == {u \in Accounts : tracker[u] = d}
RowsOf(d) == {i \in RowIds : row[i].dev = d}

\* The next id that no row has, nor any request under way.
FreeIds ==
    LET free == {i \in RowIds : row[i] = NoRow /\
                    \A r \in Requests : writing[r] # Idle => writing[r].id # i}
    IN  {i \in free : \A j \in free : i <= j}

\* resolve_mesh_device_assignment: whose positions a device sends.
Resolve(d) ==
    IF RowsOf(d) = {} THEN Holders(d)
    ELSE {row[i].owner : i \in {j \in RowsOf(d) : row[j].purpose \in {"tracking", "driver_mesh"}}}

\* Pointers written as f, except those that already have the value.
Changed(f) == [u \in {v \in DOMAIN f : f[v] # tracker[v]} |-> f[u]]

DevBegin(r, u, d, ptr, i, to) ==
    /\ writing[r] = Idle
    /\ writing' = [writing EXCEPT ![r] = [open |-> TRUE, by |-> u, dev |-> d,
                                    ptr |-> Changed(ptr), id |-> i,
                                    was |-> row[i], to |-> to]]
    /\ alone' = alone \cup {r}
    /\ UNCHANGED <<tracker, row, raced, nodes>>

\* The row of a device, or a new one.
RowFor(d) == IF RowsOf(d) # {} THEN RowsOf(d) ELSE FreeIds

\* A mutant of Deselect.
KeepPointer(u, ds) == [v \in {} |-> None]

\* Pointers of a request that gives the device d to u.
TakePointer(u, d) == [v \in {u} \cup Holders(d) |-> IF v = u THEN d ELSE None]

\* _set_user_tracking_device with a device: the row may be another's only when
\* the request may transfer; a pointer without a row is always taken over.
SetTracker(r, u, d, transfer) ==
    \E i \in RowFor(d) :
       /\ row[i] # NoRow /\ ~transfer => row[i].owner = u
       /\ DevBegin(r, u, d, TakePointer(u, d), i,
                [dev |-> d, owner |-> u, purpose |-> "tracking"])

\* _clear_user_tracking_device
ClearTracker(r, u) == DevBegin(r, u, None, [v \in {u} |-> None], 1, row[1])

\* The device is deselected, where it is u's tracker.
Deselect(u, ds) == [v \in {w \in {u} : tracker[w] \in ds} |-> None]

\* _upsert_owned_mesh_device for another purpose, without transfer
RegisterDevice(r, u, d, purpose) ==
    \E i \in RowFor(d) :
       /\ row[i] # NoRow => row[i].owner = u
       /\ Holders(d) \subseteq {u}
       /\ DevBegin(r, u, d, Deselect(u, {d}), i, [dev |-> d, owner |-> u, purpose |-> purpose])

\* _update_owned_mesh_device: a new device id must be nobody's.
UpdateOwned(r, u, d, next, purpose) ==
    \E i \in RowsOf(d) :
       /\ row[i].owner = u
       /\ next # d => RowsOf(next) = {} /\ Holders(next) \subseteq {u}
       /\ DevBegin(r, u, next,
                IF purpose = "tracking" THEN [v \in {u} |-> next]
                ELSE Deselect(u, {d, next}),
                i, [dev |-> next, owner |-> u, purpose |-> purpose])

\* _delete_owned_mesh_device
DeleteOwned(r, u, d) ==
    \E i \in RowsOf(d) :
       /\ row[i].owner = u
       /\ DevBegin(r, u, None, Deselect(u, {d}), i, NoRow)

\* admin_set_user_tracking_mesh_device: only a device of the account's own.
SelectOwned(r, u, d) ==
    /\ \E i \in RowsOf(d) : row[i].owner = u
    /\ SetTracker(r, u, d, FALSE)

-----------------------------------------------------------------------------
(* Writing                                                                 *)

\* The pointers are written by account: v's is written before u's when v < u.
PointersUnique(p) ==
    \A u \in DOMAIN p, v \in Accounts :
       u # v /\ p[u] # None =>
          p[u] # (IF v \in DOMAIN p /\ v < u THEN p[v] ELSE tracker[v])

\* Only the columns that the request changed are written.
RowWritten(p) ==
    IF p.to = NoRow \/ p.was = NoRow THEN p.to
    ELSE [k \in DOMAIN p.to |-> IF p.to[k] = p.was[k] THEN row[p.id][k] ELSE p.to[k]]

Writes(p) == p.to # p.was

\* The requests under way but r that concern one of the accounts us or devices ds.
Crossed(r, us, ds) ==
    {s \in Requests \ {r} :
       /\ writing[s] # Idle
       /\ \/ us \cap (DOMAIN writing[s].ptr \cup {writing[s].by}) # {}
          \/ ds \cap {writing[s].dev, writing[s].was.dev} # {}}

\* An UPDATE must find its row, and the device must be in no other row.
RowLegal(p) ==
    /\ Writes(p) /\ p.was # NoRow /\ p.to # NoRow => row[p.id] # NoRow
    /\ Writes(p) /\ p.to # NoRow => RowsOf(RowWritten(p).dev) \subseteq {p.id}

Succeeds(p) == PointersUnique(p.ptr) /\ RowLegal(p)

DevCommit(r) ==
    /\ writing[r] # Idle
    /\ Succeeds(writing[r])
    /\ tracker' = [u \in Accounts |-> IF u \in DOMAIN writing[r].ptr THEN writing[r].ptr[u]
                                      ELSE tracker[u]]
    /\ row' = [row EXCEPT ![writing[r].id] = IF Writes(writing[r]) THEN RowWritten(writing[r]) ELSE @]
    /\ raced' = (raced \/ r \notin alone)
    /\ alone' = alone \ ({r} \cup Crossed(r, DOMAIN writing[r].ptr \cup {writing[r].by},
                                       {writing[r].dev, writing[r].was.dev} \ {None}))
    /\ writing' = [writing EXCEPT ![r] = Idle]
    /\ nodes' = nodes \ DOMAIN writing[r].ptr

\* IntegrityError or StaleDataError: nothing is written.
DevFail(r) ==
    /\ writing[r] # Idle
    /\ ~Succeeds(writing[r])
    /\ writing' = [writing EXCEPT ![r] = Idle]
    /\ alone' = alone \ {r}
    /\ UNCHANGED <<tracker, row, raced, nodes>>

\* register_stationary_node for a device that no account has: the account is
\* new, so it is one with nothing.  The inventory is not read, and a row that the
\* device has there stays its owner's.  (An account that has the device is
\* renamed, which changes nothing here.)
RegisterNode(u, d) ==
    /\ Holders(d) = {}
    /\ tracker[u] = None
    /\ \A i \in RowIds : row[i].owner # u
    /\ \A r \in Requests : writing[r] # Idle => writing[r].by # u
    /\ tracker' = [tracker EXCEPT ![u] = d]
    /\ alone' = alone \ {r \in Requests : writing[r] # Idle /\ d = writing[r].dev}
    /\ nodes' = IF RowsOf(d) # {} THEN nodes \cup {u} ELSE nodes
    /\ UNCHANGED <<row, writing, raced>>

\* merge_user_accounts, at the start of the server when no request is under way.
\* The pointer follows only together with devices.
MergeAccounts(u, v) ==
    LET owned == {i \in RowIds : row[i].owner = u}
        moves == owned # {} /\ tracker[v] = None /\ tracker[u] # None
    IN  /\ u # v
        /\ writing = [r \in Requests |-> Idle]
        /\ row' = [i \in RowIds |-> IF i \in owned THEN [row[i] EXCEPT !.owner = v] ELSE row[i]]
        /\ tracker' = [tracker EXCEPT ![u] = None, ![v] = IF moves THEN tracker[u] ELSE @]
        /\ nodes' = IF moves /\ u \in nodes THEN nodes \cup {v} ELSE nodes
        /\ UNCHANGED <<writing, alone, raced>>

DevNext ==
    \/ \E r \in Requests, u \in Accounts, d \in Devices :
          \/ \E transfer \in BOOLEAN : SetTracker(r, u, d, transfer)
          \/ ClearTracker(r, u)
          \/ \E p \in OtherPurposes : RegisterDevice(r, u, d, p)
          \/ \E next \in Devices, p \in Purposes : UpdateOwned(r, u, d, next, p)
          \/ DeleteOwned(r, u, d)
          \/ SelectOwned(r, u, d)
    \/ \E r \in Requests : DevCommit(r) \/ DevFail(r)
    \/ \E u \in Accounts, d \in Devices : RegisterNode(u, d)
    \/ \E u, v \in Accounts : MergeAccounts(u, v)

DevSpec == DevInit /\ [][DevNext]_devvars

-----------------------------------------------------------------------------
(* Properties                                                              *)

\* What an account shows as its tracker is what its positions are credited to:
\* the inventory and the pointer agree, after any sequence of transfers,
\* renames, deletions, merges and registrations of nodes, unless a request wrote
\* that another one about the same account or device had crossed, and but for a
\* node whose device was in the inventory already: its positions stay credited
\* to the owner of that row.
TrackedIsResolved ==
    \A u \in Accounts \ nodes : tracker[u] # None /\ ~raced => Resolve(tracker[u]) = {u}

\* A request that nothing crosses fails only when it takes a tracker from
\* an account with a higher number, whose pointer is then cleared after its own
\* is written, or one that such a node has meanwhile.
FailsOnlyUphill ==
    [][\A r \in Requests :
         r \in alone /\ ~raced /\ DevFail(r) =>
            \E v \in Holders(writing[r].dev) : v > writing[r].by \/ v \in nodes]_devvars

\* A tracker is credited to whoever shows it, and a request fails for one reason
\* only.
DevicesHold == [](DevTypeOK /\ TrackedIsResolved) /\ FailsOnlyUphill
=============================================================================
