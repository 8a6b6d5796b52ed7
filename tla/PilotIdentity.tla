--------------------------- MODULE PilotIdentity ---------------------------
(***************************************************************************)
(* Accounts, their login addresses and the pilot records they stand for    *)
(* (backend/app/services/pilot_identity.py, and the requests of            *)
(* routers/auth.py and routers/pilots.py that use it).                     *)
(*                                                                         *)
(* A pilot record may be imported by an organizer long before its pilot    *)
(* opens an account, and under several addresses.  Every request that      *)
(* meets two records of one person merges them.  The module has one        *)
(* operator per function of pilot_identity.py, from a state of the         *)
(* database to the next one, and one action per request.  A request is one *)
(* transaction; one that breaks a unique constraint changes nothing.       *)
(*                                                                         *)
(* An account or a pilot is a number, so that "order by id" means          *)
(* something; a new one gets a number above those in use.  Of a pilot's    *)
(* profile there is the address and one identifying number, which stands   *)
(* for the CIVL ID and the competition number alike.                       *)
(***************************************************************************)
EXTENDS Naturals, FiniteSets, FiniteSetsExt, Database

CONSTANTS MaxUsers, MaxPilots,  \* bounds on the ids in use
          MaxRequests,          \* bound on the requests
          Emails, Numbers, Events,
          Slug                  \* any username that is not an address

UserIds == 1..MaxUsers + 1      \* the last one is never used, see Fits
PilotIds == 1..MaxPilots + 1

ASSUME IdAssumption ==
    /\ MaxUsers \in Nat /\ MaxPilots \in Nat /\ MaxRequests \in Nat
    /\ None \notin UserIds \cup PilotIds /\ None \notin Emails \cup Numbers
    /\ Slug \notin Emails \cup {None}
    /\ IsFiniteSet(Events)

VARIABLES users,    \* table users
          pilots,   \* table pilots
          alias,    \* table user_emails: the account an address belongs to
          entered,  \* table event_pilots
          requests  \* requests so far, for the bound

idvars == <<users, pilots, alias, entered, requests>>

NoUser == [row |-> FALSE, name |-> None, role |-> None, active |-> FALSE,
           pilot |-> None, google |-> None]
NoPilot == [row |-> FALSE, email |-> None, num |-> None]

IdTypeOK ==
    /\ users \in [UserIds ->
          {NoUser} \cup [row : {TRUE}, name : Emails \cup {Slug},
                         role : {"pilot", "organizer"}, active : BOOLEAN,
                         pilot : PilotIds \cup {None},
                         google : Emails \cup {None}]]
    /\ pilots \in [PilotIds ->
          {NoPilot} \cup [row : {TRUE}, email : Emails \cup {None},
                          num : Numbers \cup {None}]]
    /\ alias \in [Emails -> UserIds \cup {None}]
    /\ entered \in [PilotIds -> SUBSET Events]
    /\ requests \in 0..MaxRequests

-----------------------------------------------------------------------------
(* Queries.  s is a state of the database.                                 *)

Db == [user |-> users, pilot |-> pilots, alias |-> alias, entered |-> entered]

UserRows(s) == {u \in UserIds : s.user[u].row}
PilotRows(s) == {p \in PilotIds : s.pilot[p].row}

\* NULL, or the lowest of a set of ids.
First(ids) == IF ids = {} THEN None ELSE Min(ids)

\* The id of the next row of a table.
NextId(ids) == IF ids = {} THEN 1 ELSE Max(ids) + 1

Linked(s, p) == {u \in UserRows(s) : s.user[u].pilot = p /\ s.user[u].active}

AliasOwner(s, e) == IF e = None THEN None ELSE s.alias[e]

\* find_pilot_user_by_email
PilotUser(s, e) ==
    First({u \in UserRows(s) : /\ s.user[u].name = e
                               /\ s.user[u].role = "pilot"
                               /\ s.user[u].active})

\* find_user_by_login_email: a username goes before an additional address.
LoginUser(s, e) ==
    LET named == {u \in UserRows(s) : s.user[u].name = e /\ s.user[u].active}
        owner == AliasOwner(s, e)
    IN  CASE named # {} -> Min(named)
          [] named = {} /\ owner # None /\ s.user[owner].active -> owner
          [] OTHER -> None

\* linked_user_for_pilot
LinkedUser(s, p) ==
    LET named == {u \in Linked(s, p) : s.user[u].name = s.pilot[p].email}
    IN  IF named # {} THEN Min(named) ELSE First(Linked(s, p))

\* _best_pilot_candidate
Best(s, ps, preferred) ==
    CASE ps = {} -> preferred
      [] preferred \in ps -> preferred
      [] OTHER -> CHOOSE p \in ps : \A q \in ps :
                     LET n(r) == Cardinality(s.entered[r])
                     IN  n(p) > n(q) \/ (n(p) = n(q) /\ p <= q)

\* find_canonical_pilot.  The session does not flush before a query: rows is
\* the table of pilots as the queries see it.
Canonical(s, rows, e, num, preferred) ==
    LET owner(u) == IF u = None THEN None ELSE s.user[u].pilot
        mailed == {p \in PilotIds : rows[p].row /\ rows[p].email = e} \ {preferred}
        numbered == {p \in PilotIds : rows[p].row /\ rows[p].num = num}
    IN  CASE e # None /\ owner(PilotUser(s, e)) # None -> owner(PilotUser(s, e))
          [] e # None /\ owner(AliasOwner(s, e)) # None -> owner(AliasOwner(s, e))
          [] e # None /\ mailed # {} -> Best(s, mailed, None)
          [] num # None /\ numbered # {} -> Best(s, numbered, preferred)
          [] OTHER -> preferred

-----------------------------------------------------------------------------
(* Changes                                                                 *)

\* The first value of two, unless it is NULL.
Or(x, y) == IF x # None THEN x ELSE y

NewUser(s, name, role, p, google) ==
    [s EXCEPT !.user[NextId(UserRows(s))] =
        [row |-> TRUE, name |-> name, role |-> role, active |-> TRUE,
         pilot |-> p, google |-> google]]

NewPilot(s, e, num) ==
    [s EXCEPT !.pilot[NextId(PilotRows(s))] = [row |-> TRUE, email |-> e, num |-> num]]

\* Mutants of EntriesAfter and PilotAfter.
EntriesOfTarget(s, a, b) == s.entered[b]
PilotStays(s, u, a, b) == s.user[u].pilot

\* _move_unique_memberships: an entry both records had is deleted, the others move.
EntriesAfter(s, a, b) == s.entered[b] \cup s.entered[a]
PilotAfter(s, u, a, b) == IF s.user[u].pilot = a THEN b ELSE s.user[u].pilot

\* merge_pilots, with _copy_profile
Merge(s, a, b) ==
    IF a = b THEN s
    ELSE [s EXCEPT
            !.user = [u \in UserIds |->
                         [s.user[u] EXCEPT !.pilot = PilotAfter(s, u, a, b)]],
            !.pilot[b].email = Or(s.pilot[a].email, @),
            !.pilot[b].num = Or(s.pilot[a].num, @),
            !.pilot[a] = NoPilot,
            !.entered[b] = EntriesAfter(s, a, b),
            !.entered[a] = {}]

\* _retire_auto_users
Retire(s, p, except) ==
    [s EXCEPT !.user = [u \in UserIds |->
        IF u \in Linked(s, p) \ {except} /\ s.user[u].name = Slug
        THEN [s.user[u] EXCEPT !.active = FALSE, !.pilot = None]
        ELSE s.user[u]]]

\* _ensure_portal_identity
Portal(s, p, create) ==
    IF LinkedUser(s, p) # None \/ ~create THEN s
    ELSE NewUser(s, Slug, "pilot", p, None)

\* The pilot that ensure_pilot_login_identity ends with.
EnsuredPilot(s, rows, p) ==
    IF s.pilot[p].email = None THEN p
    ELSE Canonical(s, rows, s.pilot[p].email, s.pilot[p].num, p)

\* ensure_pilot_login_identity
Ensure(s, rows, p, create) ==
    LET e == s.pilot[p].email
        c == EnsuredPilot(s, rows, p)
        m == Merge(s, p, c)
        holder == PilotUser(s, e)
        linked == LinkedUser(m, c)
    IN  CASE e = None -> Portal(s, p, create)
          [] e # None /\ holder # None ->
                Retire([m EXCEPT !.user[holder].pilot = c], c, holder)
          [] e # None /\ holder = None /\ linked # None ->
                IF m.user[linked].name = Slug
                THEN [m EXCEPT !.user[linked].name = e, !.user[linked].role = "pilot"]
                ELSE m
          [] OTHER -> IF create THEN NewUser(m, e, "pilot", c, None) ELSE m

\* repair_user_email_identity
RepairUser(s, u) ==
    LET e == s.user[u].name
        own == s.user[u].pilot
        p == IF own # None THEN own ELSE Canonical(s, s.pilot, e, None, None)
        t == [s EXCEPT !.user[u].pilot = p]
        c == Canonical(t, s.pilot, e, s.pilot[p].num, p)
        m == [Merge(t, p, c) EXCEPT !.user[u].pilot = c]
    IN  IF s.user[u].role # "pilot" \/ e = Slug \/ p = None THEN s
        ELSE Ensure([m EXCEPT !.pilot[c].email = e], m.pilot, c, FALSE)

Mailed(s, e) == {p \in PilotRows(s) : s.pilot[p].email = e}

\* The pilot an account merges others into when it gets the address e.
AliasTarget(s, u, e) ==
    IF s.user[u].pilot # None THEN s.user[u].pilot ELSE Best(s, Mailed(s, e), None)

\* All records of an address, merged into p one after the other.
AllMerged(s, e, p) ==
    LET merged[q \in 0..MaxPilots] ==
            IF q = 0 THEN s
            ELSE IF q \in Mailed(s, e) THEN Merge(merged[q - 1], q, p)
            ELSE merged[q - 1]
    IN  merged[MaxPilots]

\* repair_user_email_alias_identity
RepairAlias(s, u, e) ==
    LET p == AliasTarget(s, u, e)
        name == s.user[u].name
    IN  IF s.user[u].role # "pilot" \/ p = None THEN s
        ELSE [AllMerged(s, e, p) EXCEPT !.user[u].pilot = p,
                                        !.pilot[p].email = IF name = Slug THEN @ ELSE name]

\* Its merges are flushed together, and a query of the second does not see what
\* the first moved: two records in one event become two entries of one pilot,
\* which the database refuses.
DoubleEntry(s, u, e) ==
    LET p == AliasTarget(s, u, e)
    IN  /\ s.user[u].role = "pilot"
        /\ p # None
        /\ \E q, r \in Mailed(s, e) \ {p} :
              q # r /\ (s.entered[q] \cap s.entered[r]) \ s.entered[p] # {}

\* A pilot is entered in an event, with what is known of it.
WithEntry(s, e, num, event) ==
    LET found == Canonical(s, s.pilot, e, num, None)
        p == IF found # None THEN found ELSE NextId(PilotRows(s))
        t == [s EXCEPT !.pilot[p] = [row |-> TRUE, email |-> e, num |-> num]]
        c == EnsuredPilot(t, t.pilot, p)
    IN  [Ensure(t, t.pilot, p, TRUE) EXCEPT !.entered[c] = @ \cup {event}]

\* The unique constraint of users.username, and room for the ids.
Legal(s) ==
    /\ \A u, v \in UserRows(s) :
          u # v => s.user[u].name # s.user[v].name \/ s.user[u].name = Slug
    /\ MaxUsers + 1 \notin UserRows(s)
    /\ MaxPilots + 1 \notin PilotRows(s)

Empty == [user |-> [u \in UserIds |-> NoUser],
          pilot |-> [p \in PilotIds |-> NoPilot],
          alias |-> [e \in Emails |-> None],
          entered |-> [p \in PilotIds |-> {}]]

\* An organizer has entered the first pilot.
IdInit ==
    \E e \in Emails \cup {None}, num \in Numbers \cup {None}, event \in Events :
       LET s == WithEntry(Empty, e, num, event)
       IN  /\ Legal(s)
           /\ users = s.user
           /\ pilots = s.pilot
           /\ alias = s.alias
           /\ entered = s.entered
           /\ requests = 0

-----------------------------------------------------------------------------
(* Requests                                                                *)

IdCommit(s) ==
    /\ requests < MaxRequests
    /\ Legal(s)
    /\ requests' = requests + 1
    /\ users' = s.user
    /\ pilots' = s.pilot
    /\ alias' = s.alias
    /\ entered' = s.entered

SignedIn(u) == users[u].row /\ users[u].active

\* login, once the password is right.
Login(u) ==
    /\ SignedIn(u)
    /\ IdCommit(RepairUser(Db, u))

\* The account of a pilot's record is upgraded, or there is a new one.
\* "select ... where pilot_id" may return any of several.
Adopt(s, p, e, role, google) ==
    LET linked == {u \in UserRows(s) : s.user[u].pilot = p}
    IN  IF p = None \/ linked = {}
        THEN {NewUser(s, e, role, p, google)}
        ELSE {[s EXCEPT !.user[u].name = e, !.user[u].active = TRUE,
                        !.user[u].google = Or(google, @)] : u \in linked}

\* The username e is free for the account u (None: a new one).
AddressFree(e, u) == LoginUser(Db, e) \in {None, u}

\* register
Register(e, role, num) ==
    /\ AddressFree(e, None)
    /\ IF role = "organizer"
       THEN IdCommit(NewUser(Db, e, role, None, None))
       ELSE LET found == Canonical(Db, pilots, e, num, None)
                p == IF found # None THEN found ELSE NextId(PilotRows(Db))
                s == IF found = None THEN NewPilot(Db, e, num)
                     ELSE [Db EXCEPT !.pilot[p].email = e,
                                     !.pilot[p].num = Or(num, @)]
            IN  \E t \in Adopt(s, p, e, role, None) : IdCommit(t)

\* google_auth: the account known by its Google id, the one of the address,
\* or one for the pilot of the address.
Google(e) ==
    LET known == {u \in UserRows(Db) : SignedIn(u) /\ users[u].google = e}
        holder == LoginUser(Db, e)
        found == Canonical(Db, pilots, e, None, None)
        p == IF found # None THEN found ELSE NextId(PilotRows(Db))
        s == IF found = None THEN NewPilot(Db, e, None) ELSE Db
    IN  CASE known # {} -> \E u \in known : IdCommit(RepairUser(Db, u))
          [] known = {} /\ holder # None ->
               IdCommit(RepairUser(
                  [Db EXCEPT !.user[holder].google = e,
                             !.alias[e] = IF users[holder].name = e THEN @
                                          ELSE Or(@, holder)], holder))
          [] OTHER -> \E t \in Adopt(s, p, e, "pilot", e) :
               LET u == CHOOSE v \in UserRows(t) : t.user[v] # users[v]
               IN  IdCommit(RepairUser(t, u))

\* update_settings: another record with the address is merged into one's own.
Settings(u, e, role, num) ==
    LET name == IF e = None THEN users[u].name ELSE e
        p == users[u].pilot
        s == [Db EXCEPT !.user[u].name = name, !.user[u].role = role]
        profile(t) == [t EXCEPT !.pilot[p].email = e, !.pilot[p].num = num]
        others == Mailed(s, e) \ {p}
    IN  /\ SignedIn(u)
        /\ e = None => name = Slug
        /\ e # None => AddressFree(e, u)
        /\ CASE p = None -> IdCommit(s)
             [] p # None /\ (e = None \/ others = {}) -> IdCommit(profile(s))
             [] OTHER -> \E q \in others : IdCommit(profile(Merge(s, q, p)))

\* add_email
AddEmail(u, e) ==
    /\ SignedIn(u)
    /\ AddressFree(e, None)
    /\ alias[e] = None
    /\ ~DoubleEntry(Db, u, e)
    /\ IdCommit(RepairAlias([Db EXCEPT !.alias[e] = u], u, e))

\* remove_email
RemoveEmail(u, e) ==
    /\ SignedIn(u)
    /\ alias[e] = u
    /\ IdCommit([Db EXCEPT !.alias[e] = None])

\* claim_pilot: the record is free, as far as the account that the query found
\* tells, and the address or the number shows whose it is.
ClaimPilot(u, p, byNumber) ==
    /\ SignedIn(u)
    /\ pilots[p].row
    /\ \/ /\ pilots[p].email # None
          /\ users[u].name = pilots[p].email \/ alias[pilots[p].email] = u
       \/ byNumber /\ pilots[p].num # None
    /\ LET own == users[u].pilot
           link(s) == [s EXCEPT !.user[u].pilot = p]
           retire(v) == [Db EXCEPT !.user[v].active = FALSE, !.user[v].pilot = None]
       IN  \/ /\ Linked(Db, p) = {}
              /\ IdCommit(link(Merge(Db, IF own = None THEN p ELSE own, p)))
           \/ \E v \in Linked(Db, p) :
                 /\ users[v].name = Slug
                 /\ IF own # None /\ own # p THEN IdCommit(link(Merge(Db, own, p)))
                    ELSE IdCommit(link(IF v # u THEN retire(v) ELSE Db))

\* update_user_account, update_user_credentials and delete_user_account
AdminUpdate(u, role, active) ==
    /\ users[u].row
    /\ IdCommit([Db EXCEPT !.user[u].role = role, !.user[u].active = active])

SetUsername(u, name) ==
    /\ users[u].row
    /\ name # Slug => AddressFree(name, u)
    /\ IdCommit([Db EXCEPT !.user[u].name = name])

DeleteUser(u) ==
    /\ users[u].row
    /\ IdCommit([Db EXCEPT !.user[u] = NoUser,
                         !.alias = [e \in Emails |-> IF alias[e] = u THEN None
                                                     ELSE alias[e]]])

\* create_pilot, and a row of import_pilots
EnterPilot(e, num, event) == IdCommit(WithEntry(Db, e, num, event))

\* assign_existing_pilot
AssignPilot(p, event) ==
    /\ pilots[p].row
    /\ LET c == EnsuredPilot(Db, pilots, p)
       IN  IdCommit([Ensure(Db, pilots, p, TRUE) EXCEPT !.entered[c] = @ \cup {event}])

\* update_pilot, by an administrator or of a record that nobody claimed
UpdatePilot(p, e, num) ==
    /\ pilots[p].row
    /\ IdCommit(Ensure([Db EXCEPT !.pilot[p].email = e, !.pilot[p].num = num],
                     pilots, p, TRUE))

\* remove_pilot
RemovePilot(p, event) ==
    /\ event \in entered[p]
    /\ IdCommit([Db EXCEPT !.entered[p] = @ \ {event}])

\* repair_pilot_email_identities, when the server starts: first the active
\* pilots' accounts one after the other, then the records with an address.
AccountsRepaired(s) ==
    LET subjects == {u \in UserRows(s) : s.user[u].role = "pilot" /\ s.user[u].active}
        repaired[u \in 0..MaxUsers] ==
            IF u = 0 THEN s
            ELSE IF u \in subjects THEN RepairUser(repaired[u - 1], u)
            ELSE repaired[u - 1]
    IN  repaired[MaxUsers]

RecordsUnified(s) ==
    LET unified[p \in 0..MaxPilots] ==
            IF p = 0 THEN s
            ELSE LET t == unified[p - 1]
                     e == s.pilot[p].email
                 IN  IF e = None \/ PilotUser(t, e) = None THEN t
                     ELSE Ensure(t, t.pilot, p, FALSE)
    IN  unified[MaxPilots]

Startup == IdCommit(RecordsUnified(AccountsRepaired(Db)))

\* scripts/repair_canonical_pilots.py
MergeByHand(a, b) ==
    /\ pilots[a].row /\ pilots[b].row
    /\ IdCommit(Merge(Db, a, b))

-----------------------------------------------------------------------------
IdNext ==
    \/ \E u \in UserIds : Login(u) \/ DeleteUser(u)
    \/ \E e \in Emails : \/ Google(e)
                         \/ Register(e, "organizer", None)
                         \/ \E n \in Numbers \cup {None} : Register(e, "pilot", n)
    \/ \E u \in UserIds, r \in {"pilot", "organizer"} :
          \/ \E e \in Emails \cup {None}, n \in Numbers \cup {None} : Settings(u, e, r, n)
          \/ \E active \in BOOLEAN : AdminUpdate(u, r, active)
    \/ \E u \in UserIds, e \in Emails : AddEmail(u, e) \/ RemoveEmail(u, e)
    \/ \E u \in UserIds, name \in Emails \cup {Slug} : SetUsername(u, name)
    \/ \E u \in UserIds, p \in PilotIds, b \in BOOLEAN : ClaimPilot(u, p, b)
    \/ \E e \in Emails \cup {None}, n \in Numbers \cup {None} :
          \/ \E v \in Events : EnterPilot(e, n, v)
          \/ \E p \in PilotIds : UpdatePilot(p, e, n)
    \/ \E p \in PilotIds, v \in Events : AssignPilot(p, v) \/ RemovePilot(p, v)
    \/ Startup
    \/ \E a, b \in PilotIds : MergeByHand(a, b)

IdSpec == IdInit /\ [][IdNext]_idvars

-----------------------------------------------------------------------------
(* Properties                                                              *)

\* Every account's pilot exists: no merge, by whatever request, leaves an
\* account behind on the record it deleted.
LinksHold == \A u \in UserRows(Db) : users[u].pilot # None => pilots[users[u].pilot].row

\* The events of an account's pilot.
EntriesOf(s, u) ==
    IF s.user[u].pilot = None THEN {} ELSE s.entered[s.user[u].pilot]

\* A pilot with a login address stays entered wherever it was, through every
\* merge and every change of the pilot it is linked to; only the removal from
\* an event ends an entry.
EntriesKept ==
    [][\A u \in UserIds :
         SignedIn(u) /\ users[u].name # Slug /\ users'[u].row =>
            \/ EntriesOf(Db, u) \subseteq EntriesOf(Db', u)
            \/ \E p \in PilotIds, v \in Events : RemovePilot(p, v)]_idvars

Holds(s, u, e) ==
    s.user[u].row /\ s.user[u].active /\ (s.user[u].name = e \/ s.alias[e] = u)

\* Whoever logs in with an address logs in to the same account for as long as
\* that account holds the address.  The two exceptions: an organizer who writes
\* an additional address of an account into a pilot record can give it to that
\* record's own account (the fallback to any linked account in
\* ensure_pilot_login_identity), and an account that was inactive takes its
\* username back when it is activated.
AddressKeepsAccount ==
    [][\A e \in Emails, u \in UserIds :
         LoginUser(Db, e) = u /\ Holds(Db', u, e) =>
            \/ LoginUser(Db', e) = u
            \/ \E p \in PilotIds, f \in Emails \cup {None}, n \in Numbers \cup {None} :
                  \/ UpdatePilot(p, f, n)
                  \/ \E v \in Events : EnterPilot(f, n, v) \/ AssignPilot(p, v)
            \/ \E v \in UserIds : /\ users[v].name = e /\ ~users[v].active
                                  /\ users'[v].active]_idvars

\* After a start of the server, all records of a pilot's login address are one
\* record and it is the one the account is linked to, however the requests
\* before it left them.
StartupUnifies ==
    [][\/ \A u \in UserRows(Db') :
             users'[u].active /\ users'[u].role = "pilot" /\ users'[u].name # Slug
             => Mailed(Db', users'[u].name) \subseteq {users'[u].pilot}
       \/ ~Startup]_idvars

\* Rows of pilots and accounts are whole, and no link dangles.
IdentitiesHold == IdTypeOK /\ LinksHold

\* No merge, adoption, edit or start takes an entry or an address away from an
\* account, and a start leaves one record for each address.
IdentitiesKept == EntriesKept /\ AddressKeepsAccount /\ StartupUnifies
=============================================================================
