----------------------------- MODULE ServerProofs -----------------------------
(***************************************************************************)
(* Proofs about accounts, devices and pilots' records, and about the       *)
(* background tasks of the server, for any users, requests, passkeys,      *)
(* brokers, records, releases, sources and bounds.                         *)
(*                                                                         *)
(* A request decides by what it has read and another one may commit before *)
(* it writes; it is then crossed.  The invariant says what an uncrossed    *)
(* request may count on: the administrator who stays when it takes the role*)
(* from another, the time of the choice that it replaces, and the counter  *)
(* that it compared.  Of a device, it counts on its row and on those who   *)
(* point at it.                                                            *)
(*                                                                         *)
(* A pilot's record may go whenever two are found to be one person's.  What*)
(* holds of the database after each function of pilot_identity.py holds    *)
(* after the requests that call them.                                      *)
(*                                                                         *)
(* Each background task has an invariant of its own, and the others rest   *)
(* while it moves.  A client of MQTT is there just between connecting and  *)
(* stopping.  A check of the DNS that nothing crossed is the only one, and *)
(* knows the address as it is.  A start has added the columns of the       *)
(* transactions it is through with; after the first one none changes a     *)
(* choice.  A job of the airspace has read the pages as they are unless it *)
(* knows of an edit, and no date that it keeps is still to come.           *)
(***************************************************************************)
EXTENDS PilotIdentity, AccountAccess, DeviceOwnership, MCBackground, WellFoundedInduction, FiniteSetTheorems,
        TLAPS


-----------------------------------------------------------------------------
(* Roles, queued preferences and passkeys: what a request knows of the     *)
(* account, the administrators and the credential it has read.             *)

\* What each column holds.
ColumnHolds(c, x) ==
    /\ c = "role" => x \in Roles
    /\ c = "active" => x \in BOOLEAN
    /\ c = "ptype" => x \in Types
    /\ c = "stamp" => x \in 0..MaxClock

IsPlan(p) ==
    /\ p.kind \in {"write", "choice", "delete"} /\ p.target \in Users
    /\ DOMAIN p.cols \subseteq Columns
    /\ \A c \in DOMAIN p.cols : ColumnHolds(c, p.cols[c])

PlanShape ==
    /\ plan = [r \in Requests |-> plan[r]]
    /\ \A r \in Requests : plan[r] # NoPlan => IsPlan(plan[r])

\* A request verifies, and a counter that was verified is higher than the one it was compared with.
Ceremony ==
    {v \in [step : {"read", "verify", "verified"}, ch : Challenges, user : Users \cup {None}, key : Keys,
            sign : 0..MaxCount, seen : 0..MaxCount] :
       v.step = "verified" => v.sign > v.seen}

CeremonyShape == ceremony \in [Requests -> Ceremony \cup {NoCeremony}]

\* Whoever has the role administers, but after a deactivation.
RoleIsActive == ~deactivated => \A u \in Users : account[u].role = "admin" => account[u].active

Demotes(p) == p.kind = "delete" \/ ("role" \in DOMAIN p.cols /\ p.cols["role"] # "admin")

\* A request that nothing crossed leaves another administrator,
OtherStays ==
    \A r \in Requests \ crossed :
       plan[r] # NoPlan /\ account[plan[r].target].role = "admin" /\ Demotes(plan[r]) /\ ~deactivated =>
          \E a \in Admins : a # plan[r].target

\* and a choice that nothing crossed is not older than the account's.
ChoiceIsLater ==
    \A r \in Requests \ crossed :
       plan[r] # NoPlan /\ plan[r].kind = "choice" /\ "stamp" \in DOMAIN plan[r].cols =>
          plan[r].cols["stamp"] >= account[plan[r].target].stamp

AcceptedIsUsed == \A c \in Challenges : answered[c] # 0 => challenge[c] = NoChallenge \/ challenge[c].used

AccInv ==
    /\ AccTypeOK /\ PlanShape /\ CeremonyShape
    /\ RoleIsActive /\ OtherStays /\ ChoiceIsLater /\ AdminRemains
    /\ AcceptedIsUsed /\ AnsweredOnce

LEMMA AccInitHolds == AccInit => AccInv
<1> SUFFICES ASSUME AccInit PROVE AccInv
  OBVIOUS
<1>1. PICK a \in Users :
        account = [u \in Users |-> [role |-> IF u = a THEN "admin" ELSE "pilot", active |-> TRUE,
                                    ptype |-> "pilot", stamp |-> 0]]
  BY DEF AccInit
<1>2. \A u \in Users : account[u] \in Account /\ account[u].active /\ (account[u].role = "admin" <=> u = a)
  BY <1>1, AccessAssumption DEF Account, Roles, Types
<1>3. a \in Admins
  BY <1>2 DEF Admins, IsAdmin, CanAct
<1>4. AccTypeOK
  <2>1. account \in [Users -> Account \cup {Gone}]
    BY <1>1, <1>2
  <2>2. /\ challenge \in [Challenges -> {NoChallenge}] /\ passkey \in [Keys -> {NoKey}]
        /\ device \in [Keys -> {0}] /\ answered \in [Challenges -> {0}]
    BY DEF AccInit
  <2>3. 0 \in 0..MaxClock /\ 0 \in 0..MaxCount /\ 0 \in 0..2
    BY AccessAssumption
  <2>4. clock = 0 /\ crossed = {} /\ careless \in BOOLEAN /\ deactivated \in BOOLEAN
    BY DEF AccInit
  <2>5. \A r \in Requests : plan[r] = NoPlan /\ ceremony[r] = NoCeremony
    BY DEF AccInit
  <2>6. /\ challenge \in [Challenges -> {NoChallenge} \cup
              [purpose : {"register", "login"}, user : Users \cup {None}, used : BOOLEAN, late : BOOLEAN]]
        /\ passkey \in [Keys -> {NoKey} \cup [user : Users, count : 0..MaxCount]]
        /\ device \in [Keys -> 0..MaxCount] /\ answered \in [Challenges -> 0..2]
    BY <2>2, <2>3
  <2> QED
    BY <2>1, <2>3, <2>4, <2>5, <2>6 DEF AccTypeOK
<1>5. PlanShape /\ CeremonyShape /\ RoleIsActive /\ OtherStays /\ ChoiceIsLater /\ AcceptedIsUsed /\ AnsweredOnce
  BY <1>2 DEF AccInit, PlanShape, CeremonyShape, RoleIsActive, OtherStays, ChoiceIsLater, AcceptedIsUsed, AnsweredOnce
<1> QED
  BY <1>3, <1>4, <1>5 DEF AccInv, AdminRemains

\* The state of the roles, and that of the passkeys: a step that leaves one of
\* them keeps what the invariant says of it.
RoleInv ==
    /\ account \in [Users -> Account \cup {Gone}] /\ clock \in 0..MaxClock
    /\ crossed \subseteq Requests /\ careless \in BOOLEAN /\ deactivated \in BOOLEAN
    /\ PlanShape /\ RoleIsActive /\ OtherStays /\ ChoiceIsLater /\ AdminRemains
Challenge ==
    {NoChallenge}
      \cup [purpose : {"register", "login"}, user : Users \cup {None}, used : BOOLEAN, late : BOOLEAN]
Passkey == {NoKey} \cup [user : Users, count : 0..MaxCount]
KeyInv ==
    /\ challenge \in [Challenges -> Challenge] /\ passkey \in [Keys -> Passkey]
    /\ device \in [Keys -> 0..MaxCount] /\ answered \in [Challenges -> 0..2]
    /\ CeremonyShape /\ AcceptedIsUsed /\ AnsweredOnce

LEMMA AccParts == AccInv <=> RoleInv /\ KeyInv
<1>1. PlanShape => \A r \in Requests :
         plan[r] = NoPlan \/ /\ plan[r].kind \in {"write", "choice", "delete"}
                             /\ plan[r].target \in Users
                             /\ DOMAIN plan[r].cols \subseteq Columns
  BY DEF PlanShape, IsPlan
<1>2. CeremonyShape => \A r \in Requests :
         ceremony[r] = NoCeremony \/ ceremony[r].step \in {"read", "verify", "verified"}
  BY DEF CeremonyShape, Ceremony
<1> QED
  BY <1>1, <1>2 DEF AccInv, RoleInv, KeyInv, AccTypeOK, Challenge, Passkey

LEMMA RoleFrame == RoleInv /\ UNCHANGED rolevars => RoleInv'
  BY DEF RoleInv, rolevars, PlanShape, RoleIsActive, OtherStays, ChoiceIsLater, AdminRemains, Admins, IsAdmin, CanAct

LEMMA KeyFrame == KeyInv /\ UNCHANGED keyvars => KeyInv'
  BY DEF KeyInv, keyvars, CeremonyShape, AcceptedIsUsed, AnsweredOnce

-----------------------------------------------------------------------------
(* Roles and preferences                                                   *)

\* A request has read the account t and will write what differs.
LEMMA BeginKeeps ==
    ASSUME RoleInv, NEW r \in Requests, NEW kind \in {"write", "choice", "delete"}, NEW t \in Users,
           NEW new \in Account, account[t] \in Account, AccBegin(r, kind, t, new),
           account[t].role = "admin" /\ (kind = "delete" \/ new.role # "admin") => \E a \in Admins : a # t,
           kind = "choice" => new.stamp >= account[t].stamp
    PROVE  RoleInv'
<1> DEFINE cols == [c \in {x \in Columns : new[x] # account[t][x]} |-> new[c]]
           p == [kind |-> kind, target |-> t, cols |-> cols]
<1>1. /\ plan[r] = NoPlan /\ plan' = [plan EXCEPT ![r] = p] /\ crossed' = crossed \ {r}
      /\ account' = account /\ clock' = clock /\ careless' = careless /\ deactivated' = deactivated
  BY DEF AccBegin
<1>2. \A c \in Columns : ColumnHolds(c, new[c])
  BY DEF Columns, ColumnHolds, Account
<1>3. /\ DOMAIN cols \subseteq Columns /\ \A c \in DOMAIN cols : cols[c] = new[c] /\ new[c] # account[t][c]
  OBVIOUS
<1> HIDE DEF cols
<1>4. p.kind = kind /\ p.target = t /\ p.cols = cols
  OBVIOUS
<1> HIDE DEF p
<1>5. IsPlan(p)
  BY <1>2, <1>3, <1>4 DEF IsPlan
<1>6. /\ plan' = [q \in Requests |-> plan'[q]] /\ plan'[r] = p
      /\ \A q \in Requests \ {r} : plan'[q] = plan[q]
  BY <1>1 DEF RoleInv, PlanShape
<1>7. Admins' = Admins
  BY <1>1 DEF Admins, IsAdmin, CanAct
<1>8. PlanShape'
  BY <1>5, <1>6 DEF RoleInv, PlanShape
<1>9. RoleIsActive' /\ AdminRemains'
  BY <1>1, <1>7 DEF RoleInv, RoleIsActive, AdminRemains
<1>10. OtherStays'
  <2> SUFFICES ASSUME NEW q \in Requests, q \notin crossed', plan'[q] # NoPlan,
                      account[plan'[q].target].role = "admin", Demotes(plan'[q]), ~deactivated
               PROVE  \E a \in Admins : a # plan'[q].target
    BY <1>1, <1>7 DEF OtherStays, Demotes
  <2>1. CASE q = r
    <3>1. new["role"] = new.role
      BY DEF Account
    <3>2. kind = "delete" \/ new.role # "admin"
      BY <1>3, <1>4, <1>6, <2>1, <3>1 DEF Demotes
    <3> QED
      BY <1>4, <1>6, <2>1, <3>2
  <2>2. CASE q # r
    BY <1>1, <1>6, <2>2 DEF RoleInv, OtherStays
  <2> QED
    BY <2>1, <2>2
<1>11. ChoiceIsLater'
  <2> SUFFICES ASSUME NEW q \in Requests, q \notin crossed', plan'[q] # NoPlan, plan'[q].kind = "choice",
                      "stamp" \in DOMAIN plan'[q].cols
               PROVE  plan'[q].cols["stamp"] >= account[plan'[q].target].stamp
    BY <1>1 DEF ChoiceIsLater
  <2>1. CASE q = r
    <3>1. new["stamp"] = new.stamp
      BY DEF Account
    <3> QED
      BY <1>3, <1>4, <1>6, <2>1, <3>1
  <2>2. CASE q # r
    BY <1>1, <1>6, <2>2 DEF RoleInv, ChoiceIsLater
  <2> QED
    BY <2>1, <2>2
<1> QED
  BY <1>1, <1>8, <1>9, <1>10, <1>11 DEF RoleInv

LEMMA UpdateAccountKeeps ==
    ASSUME RoleInv, NEW r \in Requests, NEW a \in Users, NEW t \in Users, NEW role \in Roles, NEW active \in BOOLEAN,
           NEW ptype \in Types, UpdateAccount(r, a, t, role, active, ptype)
    PROVE  RoleInv'
<1> DEFINE new == [role |-> role, active |-> active, ptype |-> ptype,
                   stamp |-> IF account[t].ptype = ptype THEN account[t].stamp ELSE clock]
<1>1. account[t] \in Account /\ clock \in 0..MaxClock
  BY DEF RoleInv, UpdateAccount
<1>2. new \in Account /\ new.role = role
  BY <1>1 DEF Account
<1>3. role # "admin" /\ account[t].role = "admin" => a \in Admins /\ a # t
  BY DEF UpdateAccount, MayDemote, Admins
<1>4. AccBegin(r, "write", t, new)
  BY DEF UpdateAccount
<1> HIDE DEF new
<1> QED
  BY <1>1, <1>2, <1>3, <1>4, BeginKeeps

LEMMA DeleteAccountKeeps ==
    ASSUME RoleInv, NEW r \in Requests, NEW a \in Users, NEW t \in Users, DeleteAccount(r, a, t)
    PROVE  RoleInv'
<1>1. account[t] \in Account
  BY DEF RoleInv, DeleteAccount
<1>2. a \in Admins /\ a # t
  BY DEF DeleteAccount, MayDemote, Admins
<1> QED
  BY <1>1, <1>2, BeginKeeps DEF DeleteAccount

LEMMA UpdateSettingsKeeps ==
    ASSUME RoleInv, NEW r \in Requests, NEW u \in Users, NEW role \in {None, "organizer", "pilot"}, NEW ptype \in Types,
           UpdateSettings(r, u, role, ptype)
    PROVE  RoleInv'
<1> DEFINE new == [account[u] EXCEPT !.role = IF role = None THEN @ ELSE role, !.ptype = ptype,
                                     !.stamp = IF account[u].ptype = ptype THEN @ ELSE clock]
<1>1. account[u] \in Account /\ clock \in 0..MaxClock
  BY DEF RoleInv, UpdateSettings, CanAct, Gone
<1>2. new \in Account /\ new.role = (IF role = None THEN account[u].role ELSE role)
  BY <1>1 DEF Account, Roles
<1>3. account[u].role = "admin" => new.role = "admin"
  BY <1>2 DEF UpdateSettings
<1>4. AccBegin(r, "write", u, new)
  BY DEF UpdateSettings
<1> HIDE DEF new
<1> QED
  BY <1>1, <1>2, <1>3, <1>4, BeginKeeps

LEMMA UpdatePreferencesKeeps ==
    ASSUME RoleInv, NEW r \in Requests, NEW u \in Users, NEW ptype \in Types, NEW s \in 0..MaxClock,
           UpdatePreferences(r, u, ptype, s)
    PROVE  RoleInv'
<1> DEFINE new == IF IsNewer(u, s) THEN [account[u] EXCEPT !.ptype = ptype, !.stamp = s] ELSE account[u]
<1>1. account[u] \in Account
  BY DEF RoleInv, UpdatePreferences, CanAct, Gone
<1>2. new \in Account /\ new.role = account[u].role /\ new.stamp >= account[u].stamp
  <2>1. account[u].stamp \in Nat
    BY <1>1, AccessAssumption DEF Account
  <2>2. CASE IsNewer(u, s)
    BY <1>1, <2>2 DEF Account, IsNewer
  <2>3. CASE ~IsNewer(u, s)
    BY <1>1, <2>1, <2>3
  <2> QED
    BY <2>2, <2>3
<1>3. AccBegin(r, "choice", u, new)
  BY DEF UpdatePreferences
<1> HIDE DEF new
<1> QED
  BY <1>1, <1>2, <1>3, BeginKeeps

LEMMA WrittenIsAccount ==
    ASSUME NEW p, IsPlan(p), account[p.target] \in Account
    PROVE  /\ AccWritten(p) \in Account
           /\ AccWritten(p).role = IF "role" \in DOMAIN p.cols THEN p.cols["role"] ELSE account[p.target].role
           /\ AccWritten(p).stamp = IF "stamp" \in DOMAIN p.cols THEN p.cols["stamp"] ELSE account[p.target].stamp
<1> DEFINE w(c) == IF c \in DOMAIN p.cols THEN p.cols[c] ELSE account[p.target][c]
<1>1. \A c \in Columns : ColumnHolds(c, account[p.target][c])
  BY DEF Columns, ColumnHolds, Account
<1>2. \A c \in Columns : ColumnHolds(c, w(c))
  BY <1>1 DEF IsPlan
<1>3. AccWritten(p) = [c \in Columns |-> w(c)]
  BY DEF AccWritten
<1>4. account[p.target]["role"] = account[p.target].role /\ account[p.target]["stamp"] = account[p.target].stamp
  BY DEF Account
<1>5. /\ w("role") = IF "role" \in DOMAIN p.cols THEN p.cols["role"] ELSE account[p.target].role
      /\ w("stamp") = IF "stamp" \in DOMAIN p.cols THEN p.cols["stamp"] ELSE account[p.target].stamp
  BY <1>4
<1> HIDE DEF w
<1>6. w("role") \in Roles /\ w("active") \in BOOLEAN /\ w("ptype") \in Types /\ w("stamp") \in 0..MaxClock
  BY <1>2 DEF Columns, ColumnHolds
<1>7. [c \in Columns |-> w(c)] \in Account
  BY <1>6 DEF Account, Columns
<1>8. [c \in Columns |-> w(c)].role = w("role") /\ [c \in Columns |-> w(c)].stamp = w("stamp")
  BY DEF Columns
<1> QED
  BY <1>3, <1>5, <1>7, <1>8

\* A request writes: what another one wrote of the account or of the
\* administrators since it read has crossed it.
LEMMA CommitRoles ==
    ASSUME RoleInv, NEW r \in Requests, AccCommit(r)
    PROVE  RoleInv' /\ (plan[r].kind = "choice" /\ r \notin crossed =>
                           account'[plan[r].target].stamp >= account[plan[r].target].stamp)
<1> DEFINE p == plan[r]
           t == plan[r].target
           new == IF p.kind = "delete" THEN Gone ELSE AccWritten(p)
<1>1. IsPlan(p) /\ p # NoPlan /\ account[t] # Gone
  BY DEF AccCommit, RoleInv, PlanShape
<1>2. t \in Users /\ account[t] \in Account
  BY <1>1 DEF IsPlan, RoleInv
<1>3. new \in Account \cup {Gone}
  BY <1>1, <1>2, WrittenIsAccount
<1>4. new.role = "admin" <=> ~(p.kind = "delete") /\
         (IF "role" \in DOMAIN p.cols THEN p.cols["role"] = "admin" ELSE account[t].role = "admin")
  BY <1>1, <1>2, WrittenIsAccount DEF Gone
<1>5. account[t].role = "admin" => (Demotes(p) <=> new.role # "admin")
  BY <1>4 DEF Demotes
<1>6. p.kind = "choice" => new.stamp = IF "stamp" \in DOMAIN p.cols THEN p.cols["stamp"] ELSE account[t].stamp
  BY <1>1, <1>2, WrittenIsAccount
<1>7. /\ account' = [account EXCEPT ![t] = new]
      /\ plan' = [plan EXCEPT ![r] = NoPlan]
      /\ crossed' = crossed \cup
              {q \in Requests \ {r} : /\ plan[q] # NoPlan
                                      /\ \/ plan[q].target = t
                                         \/ account[t].role = "admin" /\ new.role # "admin"}
      /\ careless' = (careless \/ (account[t].role = "admin" /\ r \in crossed))
      /\ deactivated' = (deactivated \/ (new.role = "admin" /\ ~new.active))
      /\ clock' = clock
  BY DEF AccCommit
<1> HIDE DEF new
<1>8. /\ account'[t] = new /\ \A u \in Users \ {t} : account'[u] = account[u]
      /\ account' \in [Users -> Account \cup {Gone}]
  BY <1>2, <1>3, <1>7 DEF RoleInv
<1>9. /\ plan' = [q \in Requests |-> plan'[q]] /\ plan'[r] = NoPlan
      /\ \A q \in Requests \ {r} : plan'[q] = plan[q]
  BY <1>7 DEF RoleInv, PlanShape
<1>10. PlanShape'
  BY <1>9 DEF RoleInv, PlanShape
<1>11. /\ (deactivated => deactivated') /\ (new.role = "admin" /\ ~deactivated' => new.active)
       /\ (careless => careless') /\ (account[t].role = "admin" /\ r \in crossed => careless')
  BY <1>7
<1>12. RoleIsActive'
  <2> SUFFICES ASSUME ~deactivated', NEW u \in Users, account'[u].role = "admin" PROVE account'[u].active
    BY DEF RoleIsActive
  <2> QED
    BY <1>8, <1>11 DEF RoleInv, RoleIsActive
<1>13. ~deactivated' => Admins = {u \in Users : account[u].role = "admin"}
                        /\ Admins' = {u \in Users : account'[u].role = "admin"}
  BY <1>11, <1>12 DEF RoleInv, RoleIsActive, Admins, IsAdmin, CanAct
<1>14. AdminRemains'
  <2> SUFFICES ASSUME ~careless', ~deactivated' PROVE Admins' # {}
    BY DEF AdminRemains
  <2>1. ~careless /\ ~deactivated /\ Admins # {}
    BY <1>11 DEF RoleInv, AdminRemains
  <2>2. CASE new.role = "admin"
    BY <1>2, <1>8, <1>13, <2>2
  <2>3. CASE new.role # "admin" /\ account[t].role = "admin"
    <3>1. r \notin crossed /\ Demotes(p)
      BY <1>5, <1>11, <2>3
    <3>2. PICK a \in Admins : a # t
      BY <1>1, <2>1, <2>3, <3>1 DEF RoleInv, OtherStays
    <3> QED
      BY <1>8, <1>13, <3>2
  <2>4. CASE account[t].role # "admin"
    BY <1>8, <1>13, <2>1, <2>4
  <2> QED
    BY <2>2, <2>3, <2>4
<1>15. ASSUME NEW q \in Requests, q \notin crossed', plan'[q] # NoPlan
       PROVE  /\ q \notin crossed /\ plan'[q] = plan[q] /\ plan[q].target # t
              /\ account'[plan[q].target] = account[plan[q].target]
              /\ ~(account[t].role = "admin" /\ new.role # "admin")
  <2>1. q # r /\ plan'[q] = plan[q] /\ q \notin crossed
    BY <1>7, <1>9, <1>15
  <2>2. plan[q].target # t /\ ~(account[t].role = "admin" /\ new.role # "admin")
    BY <1>7, <1>15, <2>1
  <2>3. plan[q].target \in Users
    BY <1>15, <2>1 DEF RoleInv, PlanShape, IsPlan
  <2> QED
    BY <1>8, <2>1, <2>2, <2>3
<1>16. OtherStays'
  <2> SUFFICES ASSUME NEW q \in Requests, q \notin crossed', plan'[q] # NoPlan,
                      account'[plan'[q].target].role = "admin", Demotes(plan'[q]), ~deactivated'
               PROVE  \E a \in Admins' : a # plan'[q].target
    BY DEF OtherStays, Demotes
  <2>1. PICK a \in Admins : a # plan[q].target
    BY <1>11, <1>15 DEF RoleInv, OtherStays
  <2>2. a \in Admins'
    BY <1>8, <1>13, <1>15, <2>1
  <2> QED
    BY <1>15, <2>1, <2>2
<1>17. ChoiceIsLater'
  <2> SUFFICES ASSUME NEW q \in Requests, q \notin crossed', plan'[q] # NoPlan, plan'[q].kind = "choice",
                      "stamp" \in DOMAIN plan'[q].cols
               PROVE  plan'[q].cols["stamp"] >= account'[plan'[q].target].stamp
    BY DEF ChoiceIsLater
  <2> QED
    BY <1>15 DEF RoleInv, ChoiceIsLater
<1>18. p.kind = "choice" /\ r \notin crossed => account'[t].stamp >= account[t].stamp
  <2>1. account[t].stamp \in Nat
    BY <1>2, AccessAssumption DEF Account
  <2> QED
    BY <1>1, <1>6, <1>8, <2>1 DEF RoleInv, ChoiceIsLater
<1>19. crossed' \subseteq Requests /\ careless' \in BOOLEAN /\ deactivated' \in BOOLEAN /\ clock' \in 0..MaxClock
  BY <1>7 DEF RoleInv
<1> QED
  BY <1>8, <1>10, <1>12, <1>14, <1>16, <1>17, <1>18, <1>19 DEF RoleInv

LEMMA CommitKeys == ASSUME KeyInv, NEW r \in Requests, AccCommit(r) PROVE KeyInv'
<1>1. /\ device' = device /\ ceremony' = ceremony /\ answered' = answered
      /\ \A c \in Challenges : challenge'[c] \in {challenge[c], NoChallenge}
      /\ \A k \in Keys : passkey'[k] \in {passkey[k], NoKey}
      /\ challenge' = [c \in Challenges |-> challenge'[c]] /\ passkey' = [k \in Keys |-> passkey'[k]]
  BY DEF AccCommit
<1>2. challenge' \in [Challenges -> Challenge] /\ passkey' \in [Keys -> Passkey]
  BY <1>1 DEF KeyInv, Challenge, Passkey
<1>3. AcceptedIsUsed'
  BY <1>1 DEF KeyInv, AcceptedIsUsed
<1>4. CeremonyShape' /\ AnsweredOnce'
  BY <1>1 DEF KeyInv, CeremonyShape, AnsweredOnce
<1> QED
  BY <1>1, <1>2, <1>3, <1>4 DEF KeyInv

LEMMA FailRoles == ASSUME RoleInv, (\E r \in Requests : AccFail(r)) \/ Tick PROVE RoleInv'
<1>1. /\ account' = account /\ crossed' = crossed /\ careless' = careless /\ deactivated' = deactivated
      /\ clock' \in 0..MaxClock
      /\ plan' = [q \in Requests |-> plan'[q]] /\ \A q \in Requests : plan'[q] \in {plan[q], NoPlan}
  BY AccessAssumption DEF AccFail, Tick, RoleInv, PlanShape
<1>2. Admins' = Admins
  BY <1>1 DEF Admins, IsAdmin, CanAct
<1>3. PlanShape'
  BY <1>1 DEF RoleInv, PlanShape
<1>4. RoleIsActive' /\ AdminRemains'
  BY <1>1, <1>2 DEF RoleInv, RoleIsActive, AdminRemains
<1>5. \A q \in Requests : plan'[q] # NoPlan => plan'[q] = plan[q]
  BY <1>1
<1>6. OtherStays'
  <2> SUFFICES ASSUME NEW q \in Requests, q \notin crossed, plan'[q] # NoPlan,
                      account[plan'[q].target].role = "admin", Demotes(plan'[q]), ~deactivated
               PROVE  \E a \in Admins : a # plan'[q].target
    BY <1>1, <1>2 DEF OtherStays, Demotes
  <2> QED
    BY <1>5 DEF RoleInv, OtherStays
<1>7. ChoiceIsLater'
  BY <1>1, <1>5 DEF RoleInv, ChoiceIsLater
<1> QED
  BY <1>1, <1>3, <1>4, <1>6, <1>7 DEF RoleInv

-----------------------------------------------------------------------------
(* Passkeys                                                                *)

LEMMA ChallengesKeep ==
    ASSUME KeyInv, NEW c \in Challenges, NEW purpose \in {"register", "login"}, NEW u \in Users \cup {None},
           IssueChallenge(c, purpose, u) \/ Expire(c)
    PROVE  KeyInv'
<1>1. /\ passkey' = passkey /\ device' = device /\ ceremony' = ceremony /\ answered' = answered
      /\ challenge \in [Challenges -> Challenge]
  BY DEF IssueChallenge, Expire, KeyInv
<1>2. CASE IssueChallenge(c, purpose, u)
  <2> DEFINE new == [purpose |-> purpose, user |-> u, used |-> FALSE, late |-> FALSE]
  <2>1. new \in Challenge
    BY DEF Challenge
  <2> HIDE DEF new
  <2>2. challenge' = [Pruned EXCEPT ![c] = new] /\ answered[c] = 0
    BY <1>2 DEF IssueChallenge, new
  <2>3. Pruned \in [Challenges -> Challenge] /\ \A x \in Challenges : Pruned[x] \in {NoChallenge, challenge[x]}
    BY <1>1 DEF Pruned, Challenge
  <2>4. challenge' \in [Challenges -> Challenge] /\ \A x \in Challenges \ {c} : challenge'[x] = Pruned[x]
    BY <2>1, <2>2, <2>3
  <2>5. AcceptedIsUsed'
    BY <1>1, <2>2, <2>3, <2>4 DEF KeyInv, AcceptedIsUsed
  <2> QED
    BY <1>1, <2>4, <2>5 DEF KeyInv, CeremonyShape, AnsweredOnce
<1>3. CASE Expire(c)
  <2> DEFINE new == [challenge[c] EXCEPT !.late = TRUE]
  <2>1. challenge' = [challenge EXCEPT ![c] = new] /\ challenge[c] # NoChallenge
    BY <1>3 DEF Expire
  <2>2. new \in Challenge /\ new.used = challenge[c].used
    BY <1>1, <2>1 DEF Challenge
  <2> HIDE DEF new
  <2>3. /\ challenge' \in [Challenges -> Challenge] /\ challenge'[c] = new
        /\ \A x \in Challenges \ {c} : challenge'[x] = challenge[x]
    BY <1>1, <2>1, <2>2
  <2>4. AcceptedIsUsed'
    BY <1>1, <2>1, <2>2, <2>3 DEF KeyInv, AcceptedIsUsed
  <2> QED
    BY <1>1, <2>3, <2>4 DEF KeyInv, CeremonyShape, AnsweredOnce
<1> QED
  BY <1>2, <1>3

LEMMA AnswerKeeps ==
    ASSUME KeyInv, NEW r \in Requests, NEW c \in Challenges, NEW purpose, NEW u \in Users \cup {None}, NEW k \in Keys,
           Answer(r, c, purpose, u, k)
    PROVE  KeyInv'
<1> DEFINE v == [step |-> "read", ch |-> c, user |-> u, key |-> k, sign |-> device[k] + 1, seen |-> 0]
<1>1. /\ device' = [device EXCEPT ![k] = device[k] + 1] /\ ceremony' = [ceremony EXCEPT ![r] = v]
      /\ device[k] < MaxCount
      /\ challenge' = challenge /\ passkey' = passkey /\ answered' = answered
  BY DEF Answer
<1>2. device[k] + 1 \in 0..MaxCount
  BY <1>1, AccessAssumption DEF KeyInv
<1>3. v \in Ceremony
  BY <1>2, AccessAssumption DEF Ceremony
<1> HIDE DEF v
<1>4. device' \in [Keys -> 0..MaxCount] /\ CeremonyShape'
  BY <1>1, <1>2, <1>3 DEF KeyInv, CeremonyShape
<1> QED
  BY <1>1, <1>4 DEF KeyInv, AcceptedIsUsed, AnsweredOnce

LEMMA ConsumeKeeps == ASSUME KeyInv, NEW r \in Requests, Consume(r) PROVE KeyInv'
<1> DEFINE v == ceremony[r]
           c == ceremony[r].ch
           w == [ceremony[r] EXCEPT !.step = "verify"]
<1>1. /\ v # NoCeremony /\ v.step = "read" /\ passkey' = passkey /\ device' = device
      /\ v \in Ceremony /\ c \in Challenges /\ challenge \in [Challenges -> Challenge]
  BY DEF Consume, KeyInv, CeremonyShape, Ceremony
<1>2. w \in Ceremony
  BY <1>1 DEF Ceremony
<1>3. CASE Fresh(c)
  <2> DEFINE new == [challenge[c] EXCEPT !.used = TRUE]
  <2>1. /\ challenge' = [challenge EXCEPT ![c] = new] /\ ceremony' = [ceremony EXCEPT ![r] = w]
        /\ answered' = [answered EXCEPT ![c] = IF answered[c] < 2 THEN answered[c] + 1 ELSE answered[c]]
    BY <1>3 DEF Consume
  <2>2. new \in Challenge /\ new.used /\ challenge[c] # NoChallenge /\ ~challenge[c].used
    <3>1. challenge[c] \in Challenge /\ challenge[c] # NoChallenge /\ ~challenge[c].used
      BY <1>1, <1>3 DEF Fresh
    <3>2. challenge[c] \in [purpose : {"register", "login"}, user : Users \cup {None}, used : BOOLEAN, late : BOOLEAN]
      BY <3>1 DEF Challenge
    <3>3. new \in [purpose : {"register", "login"}, user : Users \cup {None}, used : BOOLEAN, late : BOOLEAN]
          /\ new.used = TRUE
      BY <3>2
    <3> QED
      BY <3>1, <3>3 DEF Challenge
  <2> HIDE DEF new, w
  <2>3. answered[c] = 0
    BY <1>1, <2>2 DEF KeyInv, AcceptedIsUsed
  <2>4. /\ challenge'[c] = new /\ challenge' \in [Challenges -> Challenge]
        /\ \A x \in Challenges \ {c} : challenge'[x] = challenge[x] /\ answered'[x] = answered[x]
        /\ answered'[c] = 1 /\ answered' \in [Challenges -> 0..2]
    BY <1>1, <2>1, <2>2, <2>3 DEF KeyInv
  <2>5. CeremonyShape'
    BY <1>2, <2>1 DEF KeyInv, CeremonyShape
  <2> QED
    BY <1>1, <2>2, <2>4, <2>5 DEF KeyInv, AcceptedIsUsed, AnsweredOnce
<1>4. CASE ~Fresh(c)
  <2>1. ceremony' = [ceremony EXCEPT ![r] = NoCeremony] /\ challenge' = challenge /\ answered' = answered
    BY <1>4 DEF Consume
  <2> QED
    BY <1>1, <2>1 DEF KeyInv, CeremonyShape, AcceptedIsUsed, AnsweredOnce
<1> QED
  BY <1>3, <1>4

LEMMA KeysKeep ==
    ASSUME KeyInv, \/ \E r \in Requests : StoreKey(r) \/ VerifyKey(r) \/ StoreCount(r)
                   \/ \E d \in Keys : DeleteKey(d)
    PROVE  KeyInv'
<1>1. challenge' = challenge /\ device' = device /\ answered' = answered
  BY DEF StoreKey, VerifyKey, StoreCount, DeleteKey
<1>2. passkey' \in [Keys -> Passkey] /\ CeremonyShape'
  <2>1. ASSUME NEW r \in Requests, StoreKey(r) PROVE passkey' \in [Keys -> Passkey] /\ CeremonyShape'
    <3> DEFINE k == ceremony[r].key
               new == [user |-> ceremony[r].user, count |-> ceremony[r].sign]
    <3>1. /\ ceremony[r] \in Ceremony /\ ceremony[r].user # None /\ ceremony' = [ceremony EXCEPT ![r] = NoCeremony]
          /\ passkey' \in {passkey, [passkey EXCEPT ![k] = new]}
      BY <2>1 DEF StoreKey, KeyInv, CeremonyShape
    <3>2. new \in Passkey
      BY <3>1 DEF Ceremony, Passkey
    <3> HIDE DEF new, k
    <3> QED
      BY <3>1, <3>2 DEF KeyInv, CeremonyShape
  <2>2. ASSUME NEW r \in Requests, VerifyKey(r) PROVE passkey' \in [Keys -> Passkey] /\ CeremonyShape'
    <3> DEFINE v == ceremony[r]
               owner == passkey[v.key].user
               new == [v EXCEPT !.step = "verified", !.user = owner, !.seen = passkey[v.key].count]
    <3>1. /\ v \in Ceremony /\ passkey' = passkey
          /\ ceremony' = [ceremony EXCEPT ![r] = IF owner # None /\ account[owner].active /\ CountGrows(v)
                                                 THEN new ELSE NoCeremony]
      BY <2>2 DEF VerifyKey, KeyInv, CeremonyShape
    <3>2. passkey[v.key] \in Passkey
      BY <3>1 DEF KeyInv, Ceremony
    <3>3. owner \in Users \cup {None} /\ passkey[v.key].count \in 0..MaxCount
      BY <3>2, AccessAssumption DEF Passkey, NoKey
    <3>4. CountGrows(v) => new \in Ceremony
      BY <3>1, <3>3 DEF CountGrows, Ceremony
    <3> HIDE DEF v, owner, new
    <3> QED
      BY <3>1, <3>4 DEF KeyInv, CeremonyShape
  <2>3. ASSUME NEW r \in Requests, StoreCount(r) PROVE passkey' \in [Keys -> Passkey] /\ CeremonyShape'
    <3> DEFINE k == ceremony[r].key
               new == [passkey[k] EXCEPT !.count = ceremony[r].sign]
    <3>1. ceremony[r] \in Ceremony /\ k \in Keys /\ passkey[k] \in Passkey
      BY <2>3 DEF StoreCount, KeyInv, CeremonyShape, Ceremony
    <3>2. /\ ceremony' = [ceremony EXCEPT ![r] = NoCeremony]
          /\ passkey' = IF passkey[k] = NoKey THEN passkey ELSE [passkey EXCEPT ![k] = new]
      BY <2>3 DEF StoreCount
    <3>3. passkey[k] # NoKey => new \in Passkey
      BY <3>1 DEF Ceremony, Passkey
    <3> HIDE DEF new, k
    <3> QED
      BY <3>2, <3>3 DEF KeyInv, CeremonyShape
  <2>4. ASSUME NEW d \in Keys, DeleteKey(d) PROVE passkey' \in [Keys -> Passkey] /\ CeremonyShape'
    BY <2>4 DEF DeleteKey, KeyInv, CeremonyShape, Passkey
  <2> QED
    BY <2>1, <2>2, <2>3, <2>4
<1> QED
  BY <1>1, <1>2 DEF KeyInv, AcceptedIsUsed, AnsweredOnce

LEMMA AccNextKeeps == AccInv /\ [AccNext]_accvars => AccInv'
<1> SUFFICES ASSUME AccInv, [AccNext]_accvars PROVE RoleInv' /\ KeyInv'
  <2> (AccInv <=> RoleInv /\ KeyInv)'
    BY AccParts, PTL
  <2> QED
    OBVIOUS
<1>0. RoleInv /\ KeyInv
  BY AccParts
<1>1. ASSUME NEW r \in Requests, AccCommit(r) PROVE RoleInv' /\ KeyInv'
  BY <1>0, <1>1, CommitRoles, CommitKeys
<1>2. ASSUME (\E r \in Requests : AccFail(r)) \/ Tick PROVE RoleInv' /\ KeyInv'
  <2>1. UNCHANGED keyvars
    BY <1>2 DEF AccFail, Tick
  <2> QED
    BY <1>0, <1>2, <2>1, FailRoles, KeyFrame
<1>3. ASSUME NEW r \in Requests, NEW a \in Users, NEW t \in Users, NEW role \in Roles, NEW active \in BOOLEAN,
             NEW ptype \in Types, UpdateAccount(r, a, t, role, active, ptype)
      PROVE  RoleInv' /\ KeyInv'
  <2>1. RoleInv'
    BY <1>0, <1>3, UpdateAccountKeeps
  <2>2. UNCHANGED keyvars
    BY <1>3 DEF UpdateAccount, AccBegin
  <2> QED
    BY <1>0, <2>1, <2>2, KeyFrame
<1>4. ASSUME NEW r \in Requests, NEW a \in Users, NEW t \in Users, DeleteAccount(r, a, t) PROVE RoleInv' /\ KeyInv'
  <2>1. RoleInv'
    BY <1>0, <1>4, DeleteAccountKeeps
  <2>2. UNCHANGED keyvars
    BY <1>4 DEF DeleteAccount, AccBegin
  <2> QED
    BY <1>0, <2>1, <2>2, KeyFrame
<1>5. ASSUME NEW r \in Requests, NEW u \in Users, NEW ptype \in Types, NEW role \in {None, "organizer", "pilot"},
             UpdateSettings(r, u, role, ptype)
      PROVE  RoleInv' /\ KeyInv'
  <2>1. RoleInv'
    BY <1>0, <1>5, UpdateSettingsKeeps
  <2>2. UNCHANGED keyvars
    BY <1>5 DEF UpdateSettings, AccBegin
  <2> QED
    BY <1>0, <2>1, <2>2, KeyFrame
<1>6. ASSUME NEW r \in Requests, NEW u \in Users, NEW ptype \in Types, NEW s \in 0..MaxClock,
             UpdatePreferences(r, u, ptype, s)
      PROVE  RoleInv' /\ KeyInv'
  <2>1. RoleInv'
    BY <1>0, <1>6, UpdatePreferencesKeeps
  <2>2. UNCHANGED keyvars
    BY <1>6 DEF UpdatePreferences, AccBegin
  <2> QED
    BY <1>0, <2>1, <2>2, KeyFrame
<1>7. ASSUME NEW c \in Challenges, NEW purpose \in {"register", "login"}, NEW u \in Users \cup {None},
             IssueChallenge(c, purpose, u) \/ Expire(c)
      PROVE  RoleInv' /\ KeyInv'
  <2>1. UNCHANGED rolevars
    BY <1>7 DEF IssueChallenge, Expire
  <2> QED
    BY <1>0, <1>7, <2>1, ChallengesKeep, RoleFrame
<1>8. ASSUME NEW r \in Requests, NEW c \in Challenges, NEW purpose \in {"register", "login"},
             NEW u \in Users \cup {None},
             NEW k \in Keys, Answer(r, c, purpose, u, k)
      PROVE  RoleInv' /\ KeyInv'
  <2>1. UNCHANGED rolevars
    BY <1>8 DEF Answer
  <2> QED
    BY <1>0, <1>8, <2>1, AnswerKeeps, RoleFrame
<1>9. ASSUME NEW r \in Requests, Consume(r) PROVE RoleInv' /\ KeyInv'
  <2>1. KeyInv'
    BY <1>0, <1>9, ConsumeKeeps
  <2>2. UNCHANGED rolevars
    BY <1>9 DEF Consume
  <2> QED
    BY <1>0, <2>1, <2>2, RoleFrame
<1>10. ASSUME \/ \E r \in Requests : StoreKey(r) \/ VerifyKey(r) \/ StoreCount(r)
              \/ \E k \in Keys : DeleteKey(k)
       PROVE  RoleInv' /\ KeyInv'
  <2>1. UNCHANGED rolevars
    BY <1>10 DEF StoreKey, VerifyKey, StoreCount, DeleteKey
  <2> QED
    BY <1>0, <1>10, <2>1, KeysKeep, RoleFrame
<1>11. CASE UNCHANGED accvars
  BY <1>0, <1>11, RoleFrame, KeyFrame DEF accvars
<1> QED
  BY <1>1, <1>2, <1>3, <1>4, <1>5, <1>6, <1>7, <1>8, <1>9, <1>10, <1>11 DEF AccNext, RoleNext, KeyNext

LEMMA AccAlways == AccSpec => []AccInv
  BY AccInitHolds, AccNextKeeps, PTL DEF AccSpec

\* update_user_account and delete_user_account: an active administrator remains unless one was
\* deactivated or changed by a request that was crossed; _consume_passkey_challenge: a
\* challenge is accepted once.
THEOREM AccountsAlwaysHold == AccSpec => []AccountsHold
<1>1. AccInv => AccountsHold
  BY DEF AccInv, AccountsHold
<1> QED
  BY <1>1, AccAlways, PTL

\* Accounts are written by commits, passkeys by these and by what is done to a passkey.
LEMMA OthersLeave ==
    ASSUME [AccNext]_accvars, ~\E r \in Requests : AccCommit(r)
    PROVE  /\ account' = account
           /\ \/ passkey' = passkey
              \/ \E r \in Requests : StoreKey(r) \/ StoreCount(r)
              \/ \E d \in Keys : DeleteKey(d)
<1>1. CASE RoleNext
  <2>1. ASSUME NEW r \in Requests, NEW kind, NEW t, NEW new, AccBegin(r, kind, t, new)
        PROVE  account' = account /\ passkey' = passkey
    BY <2>1 DEF AccBegin, keyvars
  <2>2. \/ \E r \in Requests : AccFail(r)
        \/ Tick
        \/ \E r \in Requests : \E kind, t, new : AccBegin(r, kind, t, new)
    <3>1. /\ \A r, a, t, role, active, ptype :
                UpdateAccount(r, a, t, role, active, ptype) => \E kind, x, new : AccBegin(r, kind, x, new)
          /\ \A r, a, t : DeleteAccount(r, a, t) => \E kind, x, new : AccBegin(r, kind, x, new)
      BY DEF UpdateAccount, DeleteAccount
    <3>2. /\ \A r, u, role, ptype : UpdateSettings(r, u, role, ptype) => \E kind, x, new : AccBegin(r, kind, x, new)
          /\ \A r, u, ptype, at : UpdatePreferences(r, u, ptype, at) => \E kind, x, new : AccBegin(r, kind, x, new)
      BY DEF UpdateSettings, UpdatePreferences
    <3> QED
      BY <1>1, <3>1, <3>2 DEF RoleNext
  <2> QED
    BY <2>1, <2>2 DEF AccFail, Tick, keyvars
<1>2. CASE KeyNext
  <2>1. /\ \A c, purpose, u : IssueChallenge(c, purpose, u) => UNCHANGED <<account, passkey>>
        /\ \A c : Expire(c) => UNCHANGED <<account, passkey>>
        /\ \A r, c, purpose, u, k : Answer(r, c, purpose, u, k) => UNCHANGED <<account, passkey>>
    BY DEF IssueChallenge, Expire, Answer, rolevars
  <2>2. \A r : Consume(r) \/ VerifyKey(r) => UNCHANGED <<account, passkey>>
    BY DEF Consume, VerifyKey, rolevars
  <2>3. \A r, k : StoreKey(r) \/ StoreCount(r) \/ DeleteKey(k) => account' = account
    BY DEF StoreKey, StoreCount, DeleteKey, rolevars
  <2> QED
    BY <1>2, <2>1, <2>2, <2>3 DEF KeyNext
<1>3. CASE UNCHANGED accvars
  BY <1>3 DEF accvars, rolevars, keyvars
<1> QED
  BY <1>1, <1>2, <1>3 DEF AccNext

\* A step that ends a choice writes no older one.
LEMMA ChoicesYield ==
    ASSUME AccInv, [AccNext]_accvars, NEW r \in Requests, plan[r].kind = "choice", plan'[r] = NoPlan, r \notin crossed
    PROVE  account'[plan[r].target].stamp >= account[plan[r].target].stamp
<1>0. RoleInv
  BY AccParts
<1>1. plan[r] # NoPlan /\ plan[r].target \in Users
  BY <1>0 DEF NoPlan, RoleInv, PlanShape, IsPlan
<1>2. account[plan[r].target].stamp >= account[plan[r].target].stamp
  BY <1>0, <1>1, AccessAssumption DEF RoleInv, Account, Gone
<1>3. ASSUME NEW q \in Requests, AccCommit(q) PROVE account'[plan[r].target].stamp >= account[plan[r].target].stamp
  <2>1. q = r
    BY <1>0, <1>1, <1>3 DEF AccCommit, RoleInv, PlanShape
  <2> QED
    BY <1>0, <1>3, <2>1, CommitRoles
<1>4. (~\E q \in Requests : AccCommit(q)) => account' = account
  BY OthersLeave
<1> QED
  BY <1>2, <1>3, <1>4

\* A step that lowers a stored counter ends a login that was verified against another one.
LEMMA CountersYield ==
    ASSUME AccInv, [AccNext]_accvars, NEW k \in Keys, passkey'[k] # NoKey, passkey'[k].count < passkey[k].count
    PROVE  \E r \in Requests : /\ ceremony[r] # NoCeremony /\ ceremony'[r] = NoCeremony
                               /\ ceremony[r].seen # passkey[k].count
<1>0. KeyInv
  BY AccParts
<1>1. passkey[k] \in Passkey /\ passkey[k].count \in Nat /\ ~(passkey[k].count < passkey[k].count)
  BY <1>0, AccessAssumption DEF KeyInv, Passkey, NoKey
<1>2. ~\E r \in Requests : AccCommit(r)
  BY <1>1 DEF AccCommit
<1>3. ~\E d \in Keys : DeleteKey(d)
  BY <1>0, <1>1 DEF DeleteKey, KeyInv
<1>4. ~\E r \in Requests : StoreKey(r)
  <2> SUFFICES ASSUME NEW r \in Requests, StoreKey(r) PROVE FALSE
    OBVIOUS
  <2>1. ceremony[r].sign \in Nat /\ ceremony[r].key \in Keys
    BY <1>0, AccessAssumption DEF StoreKey, KeyInv, CeremonyShape, Ceremony
  <2>2. ceremony[r].key = k /\ passkey[k] = NoKey
    BY <1>0, <1>1, <2>1 DEF StoreKey, KeyInv
  <2> QED
    BY <1>0, <2>1, <2>2 DEF StoreKey, KeyInv, NoKey
<1>5. \E r \in Requests : StoreCount(r)
  <2>1. passkey' # passkey
    BY <1>1
  <2> QED
    BY <1>2, <1>3, <1>4, <2>1, OthersLeave
<1>6. PICK r \in Requests : StoreCount(r)
  BY <1>5
<1>7. /\ ceremony[r] # NoCeremony /\ ceremony[r] \in Ceremony /\ ceremony[r].step = "verified"
      /\ ceremony' = [ceremony EXCEPT ![r] = NoCeremony]
  BY <1>0, <1>6 DEF StoreCount, KeyInv, CeremonyShape
<1>8. /\ ceremony[r].sign > ceremony[r].seen /\ ceremony[r].sign \in Nat /\ ceremony[r].seen \in Nat
      /\ ceremony[r].key \in Keys
  BY <1>7, AccessAssumption DEF Ceremony
<1>9. ceremony[r].key = k /\ passkey'[k].count = ceremony[r].sign
  BY <1>0, <1>1, <1>6, <1>8 DEF StoreCount, KeyInv, Passkey
<1>10. ceremony'[r] = NoCeremony /\ ceremony[r].seen # passkey[k].count
  BY <1>0, <1>1, <1>7, <1>8, <1>9 DEF KeyInv, CeremonyShape
<1> QED
  BY <1>7, <1>10

\* update_preferences and passkey_login_verify: a choice that waited replaces no later one and a
\* stored counter does not move back, unless the request crossed another one.
THEOREM LateAlwaysYield == AccSpec => LateRequestsYield
<1>1. AccInv /\ [AccNext]_accvars =>
         [\A r \in Requests :
            plan[r].kind = "choice" /\ plan'[r] = NoPlan =>
               LET t == plan[r].target
               IN  account'[t].stamp >= account[t].stamp \/ r \in crossed]_accvars
  BY ChoicesYield
<1>2. AccInv /\ [AccNext]_accvars =>
         [\A k \in Keys :
            passkey'[k] # NoKey /\ passkey'[k].count < passkey[k].count =>
               \E r \in Requests : /\ ceremony[r] # NoCeremony /\ ceremony'[r] = NoCeremony
                                   /\ ceremony[r].seen # passkey[k].count]_accvars
  BY CountersYield
<1> QED
  BY <1>1, <1>2, AccAlways, PTL DEF AccSpec, LateRequestsYield, LatestChoiceStands, CounterMovesBackOnlyOnOverlap

-----------------------------------------------------------------------------
(* Devices: the tracker of an account and the inventory, which a request   *)
(* has read and writes one after the other.                                *)

Writing ==
    [open : {TRUE}, by : Accounts, dev : Devices \cup {None}, ptr : Pointers, id : RowIds,
     was : Row \cup {NoRow}, to : Row \cup {NoRow}]

\* Purposes for which a device sends the positions of its owner
Resolved == {"tracking", "driver_mesh"}

WritingShape == writing \in [Requests -> Writing \cup {Idle}]

\* Both columns are unique.
PointersApart == \A u, v \in Accounts : u # v /\ tracker[u] # None => tracker[u] # tracker[v]
RowsApart == \A i, j \in RowIds : i # j /\ row[i].dev # None => row[i].dev # row[j].dev

\* The row of a tracker is its account's, but for a node's.
Agree ==
    \A u \in Accounts \ nodes, i \in RowIds :
       tracker[u] # None /\ row[i].dev = tracker[u] => row[i].owner = u /\ row[i].purpose \in Resolved

\* A request gives one device to one account, in its row and in its pointer.
OneDevice(p) ==
    /\ \A u \in DOMAIN p.ptr : p.ptr[u] # None => u = p.by /\ p.ptr[u] = p.dev /\ p.to.purpose \in Resolved
    /\ IF p.dev = None THEN p.to \in {NoRow, p.was} ELSE p.to.dev = p.dev /\ p.to.owner = p.by

\* What a request that nothing crossed has read is still so: its row, the row
\* of its device, and who has the device beside those whose pointers it writes.
Knows(p) ==
    /\ p.dev # None \/ p.to # p.was => row[p.id] = p.was
    /\ p.dev # None => RowsOf(p.dev) \subseteq {p.id}
    /\ \A v \in Holders(p.dev) \ (DOMAIN p.ptr \cup nodes) : p.dev # None => v = p.by /\ p.to.purpose \in Resolved

Inserts(r) == writing[r] # Idle /\ writing[r].was = NoRow /\ writing[r].to # NoRow

DevInv ==
    /\ DevTypeOK /\ WritingShape /\ PointersApart /\ RowsApart
    /\ \A r \in Requests : writing[r] # Idle => OneDevice(writing[r])
    /\ \A r, s \in Requests : r # s /\ Inserts(r) /\ Inserts(s) => writing[r].id # writing[s].id
    /\ ~raced => Agree /\ \A r \in alone : writing[r] # Idle => Knows(writing[r])

-----------------------------------------------------------------------------
LEMMA DeviceTypes ==
    ASSUME DevInv
    PROVE  /\ Idle \notin Writing /\ NoRow \notin Row /\ \A x \in Row : x.dev # None /\ x.dev \in Devices
           /\ \A u \in Accounts : u \in Nat
           /\ tracker \in [Accounts -> Devices \cup {None}] /\ row \in [RowIds -> Row \cup {NoRow}]
           /\ NoRow.dev = None /\ raced \in BOOLEAN /\ alone \subseteq Requests /\ nodes \subseteq Accounts
           /\ \A i \in RowIds : row[i].dev # None => row[i] \in Row
<1>1. NoRow.dev = None /\ \A x \in Row : x.dev # None /\ x.dev \in Devices
  BY DeviceAssumption DEF Row, NoRow
<1>2. Idle.open = FALSE /\ \A p \in Writing : p.open = TRUE
  BY DEF Idle, Writing
<1>3. \A u \in Accounts : u \in Nat
  BY DeviceAssumption DEF Accounts
<1> QED
  BY <1>1, <1>2, <1>3 DEF DevInv, DevTypeOK

\* A writing in its place: the conjuncts that speak of pointers and rows.
LEMMA DevInitInv == DevInit => DevInv
<1> SUFFICES ASSUME DevInit PROVE DevInv
  OBVIOUS
<1>1. /\ tracker \in [Accounts -> Devices \cup {None}] /\ row = [i \in RowIds |-> NoRow]
      /\ writing = [r \in Requests |-> Idle] /\ alone = {} /\ raced = FALSE /\ nodes = {}
      /\ PointersApart
  BY DEF DevInit, PointersApart
<1>2. NoRow.dev = None
  BY DEF NoRow
<1>3. DevTypeOK
  BY <1>1 DEF DevTypeOK
<1>4. RowsApart /\ Agree
  BY <1>1, <1>2 DEF RowsApart, Agree
<1> QED
  BY <1>1, <1>3, <1>4 DEF DevInv, WritingShape, Inserts

-----------------------------------------------------------------------------
(* Requests begin                                                          *)

\* Writings are idle or whole.
LEMMA UnderWay ==
    ASSUME DevInv, NEW r \in Requests, writing[r] # Idle
    PROVE  writing[r] \in Writing /\ OneDevice(writing[r])
  BY DEF DevInv, WritingShape

LEMMA DeviceBegins ==
    ASSUME DevInv, NEW r \in Requests, NEW u \in Accounts, NEW d \in Devices \cup {None}, NEW ptr \in Pointers,
           NEW i \in RowIds, NEW to \in Row \cup {NoRow}, DevBegin(r, u, d, ptr, i, to),
           \A v \in DOMAIN ptr : ptr[v] # None => v = u /\ ptr[v] = d /\ to.purpose \in Resolved,
           IF d = None THEN to \in {NoRow, row[i]} ELSE to.dev = d /\ to.owner = u,
           ~raced /\ d # None => \A v \in Holders(d) \ nodes : (v \in DOMAIN ptr /\ ptr[v] = None)
                                                        \/ (v = u /\ to.purpose \in Resolved),
           d # None => RowsOf(d) \subseteq {i},
           row[i] = NoRow /\ to # NoRow => \A q \in Requests : writing[q] # Idle => writing[q].id # i
    PROVE  DevInv'
<1> DEFINE p == [open |-> TRUE, by |-> u, dev |-> d, ptr |-> Changed(ptr), id |-> i, was |-> row[i], to |-> to]
<1>1. /\ writing' = [writing EXCEPT ![r] = p] /\ alone' = alone \cup {r}
      /\ tracker' = tracker /\ row' = row /\ raced' = raced /\ nodes' = nodes
  BY DEF DevBegin
<1>2. /\ Changed(ptr) \in Pointers /\ DOMAIN Changed(ptr) \subseteq DOMAIN ptr
      /\ \A v \in DOMAIN Changed(ptr) : Changed(ptr)[v] = ptr[v]
      /\ \A v \in DOMAIN ptr : ptr[v] # tracker[v] => v \in DOMAIN Changed(ptr)
  <2>1. PICK S \in SUBSET Accounts : ptr \in [S -> Devices \cup {None}]
    BY DEF Pointers
  <2>2. Changed(ptr) \in [{v \in S : ptr[v] # tracker[v]} -> Devices \cup {None}]
    BY <2>1 DEF Changed
  <2>3. {v \in S : ptr[v] # tracker[v]} \in SUBSET Accounts
    BY <2>1
  <2>4. Changed(ptr) \in Pointers
    BY <2>2, <2>3 DEF Pointers
  <2> QED
    BY <2>1, <2>4 DEF Changed
<1>3. p \in Writing
  BY <1>2, DeviceTypes DEF Writing
<1>4. p.by = u /\ p.dev = d /\ p.ptr = Changed(ptr) /\ p.id = i /\ p.was = row[i] /\ p.to = to
  OBVIOUS
<1> HIDE DEF p
<1>5. /\ writing' \in [Requests -> Writing \cup {Idle}] /\ writing'[r] = p /\ p # Idle
      /\ \A q \in Requests \ {r} : writing'[q] = writing[q]
  BY <1>1, <1>3, DeviceTypes DEF DevInv, WritingShape
<1>6. DevTypeOK'
  <2>1. \A q \in Requests : writing'[q] = Idle \/ writing'[q] \in Writing
    BY <1>5
  <2> QED
    BY <1>1, <2>1 DEF DevInv, DevTypeOK, Writing
<1>7. OneDevice(p)
  BY <1>2, <1>4 DEF OneDevice
<1>8. ~raced => Knows(p)
  <2>1. ASSUME ~raced, d # None, NEW v \in Holders(d) \ (DOMAIN Changed(ptr) \cup nodes)
        PROVE  v = u /\ to.purpose \in Resolved
    <3>1. tracker[v] = d /\ v \in Holders(d) /\ v \notin DOMAIN Changed(ptr)
      BY <2>1 DEF Holders
    <3>2. ASSUME v \in DOMAIN ptr, ptr[v] = None PROVE FALSE
      <4>1. ptr[v] # tracker[v]
        BY <2>1, <3>1, <3>2
      <4> QED
        BY <1>2, <3>1, <3>2, <4>1
    <3> QED
      BY <2>1, <3>1, <3>2
  <2> QED
    BY <1>4, <2>1 DEF Knows
<1>9. \A q \in Requests : Knows(writing[q])' <=> Knows(writing'[q])
  BY <1>1 DEF Knows, RowsOf, Holders
<1>10. \A q, s \in Requests : q # s /\ Inserts(q)' /\ Inserts(s)' => writing'[q].id # writing'[s].id
  BY <1>4, <1>5 DEF Inserts, DevInv
<1>11. WritingShape' /\ PointersApart' /\ RowsApart' /\ (Agree' <=> Agree)
  BY <1>1, <1>5 DEF DevInv, WritingShape, PointersApart, RowsApart, Agree
<1>12. \A q \in Requests : writing'[q] # Idle => OneDevice(writing'[q])
  BY <1>5, <1>7 DEF DevInv
<1>13. ~raced => \A q \in alone' : writing'[q] # Idle => Knows(writing'[q])
  BY <1>1, <1>5, <1>8, DeviceTypes DEF DevInv
<1>14. \A q \in Requests : /\ OneDevice(writing[q])' <=> OneDevice(writing'[q])
                           /\ Inserts(q)' <=> writing'[q] # Idle /\ writing'[q].was = NoRow /\ writing'[q].to # NoRow
  BY DEF OneDevice, Inserts
<1> QED
  BY <1>1, <1>6, <1>9, <1>10, <1>11, <1>12, <1>13, <1>14, DeviceTypes DEF DevInv

\* The row of a device is the only one, and a new row nobody else's.
LEMMA RowChosen ==
    ASSUME DevInv, NEW d \in Devices, NEW i \in RowFor(d)
    PROVE  /\ i \in RowIds /\ RowsOf(d) \subseteq {i}
           /\ row[i] = NoRow => \A q \in Requests : writing[q] # Idle => writing[q].id # i
<1>1. NoRow.dev = None /\ d # None
  BY DeviceTypes, DeviceAssumption
<1>2. CASE RowsOf(d) # {}
  <2>1. i \in RowIds /\ row[i].dev = d
    BY <1>2 DEF RowFor, RowsOf
  <2>2. RowsOf(d) \subseteq {i}
    BY <1>1, <2>1 DEF RowsOf, DevInv, RowsApart
  <2> QED
    BY <1>1, <2>1, <2>2
<1>3. CASE RowsOf(d) = {}
  BY <1>3 DEF RowFor, FreeIds
<1> QED
  BY <1>2, <1>3

LEMMA OwnRow ==
    ASSUME DevInv, NEW d \in Devices, NEW i \in RowsOf(d)
    PROVE  /\ i \in RowFor(d) /\ row[i] \in Row /\ row[i].dev = d /\ row[i] # NoRow
           /\ ~raced => \A v \in Holders(d) \ nodes : v = row[i].owner
<1>1. i \in RowFor(d) /\ i \in RowIds /\ row[i].dev = d
  BY DEF RowFor, RowsOf
<1>2. row[i] \in Row /\ row[i] # NoRow
  BY <1>1, DeviceTypes, DeviceAssumption
<1>3. ASSUME ~raced, NEW v \in Holders(d) \ nodes PROVE v = row[i].owner
  <2>1. v \in Accounts /\ tracker[v] = d /\ d # None
    BY DeviceAssumption DEF Holders
  <2> QED
    BY <1>1, <1>3, <2>1 DEF DevInv, Agree
<1> QED
  BY <1>1, <1>2, <1>3

LEMMA SetKeeps ==
    ASSUME DevInv, NEW r \in Requests, NEW u \in Accounts, NEW d \in Devices, NEW transfer \in BOOLEAN,
           SetTracker(r, u, d, transfer)
    PROVE  DevInv'
<1> DEFINE ptr == TakePointer(u, d)
           to == [dev |-> d, owner |-> u, purpose |-> "tracking"]
<1>1. PICK i \in RowFor(d) : DevBegin(r, u, d, ptr, i, to)
  BY DEF SetTracker
<1>2. to \in Row /\ to.dev = d /\ to.owner = u /\ to.purpose = "tracking" /\ to.purpose \in Resolved
  BY DEF Row, Purposes, Resolved
<1>3. /\ ptr \in Pointers /\ DOMAIN ptr = {u} \cup Holders(d)
      /\ \A v \in DOMAIN ptr : ptr[v] = IF v = u THEN d ELSE None
  <2>1. ({u} \cup Holders(d)) \in SUBSET Accounts
    BY DEF Holders
  <2>2. ptr \in [({u} \cup Holders(d)) -> Devices \cup {None}]
    BY DEF TakePointer
  <2> QED
    BY <2>1, <2>2 DEF Pointers, TakePointer
<1>4. d # None /\ d \in Devices \cup {None}
  BY DeviceAssumption
<1> HIDE DEF ptr, to
<1> QED
  BY <1>1, <1>2, <1>3, <1>4, RowChosen, DeviceBegins

LEMMA ClearKeeps ==
    ASSUME DevInv, NEW r \in Requests, NEW u \in Accounts, ClearTracker(r, u)
    PROVE  DevInv'
<1> DEFINE ptr == [v \in {u} |-> None]
<1>1. 1 \in RowIds
  BY DeviceAssumption DEF RowIds
<1>2. {u} \in SUBSET Accounts /\ ptr \in [{u} -> Devices \cup {None}]
  OBVIOUS
<1>3. ptr \in Pointers /\ \A v \in DOMAIN ptr : ptr[v] = None
  BY <1>2 DEF Pointers
<1>4. row[1] \in Row \cup {NoRow} /\ None \in Devices \cup {None}
  BY <1>1, DeviceTypes
<1>5. DevBegin(r, u, None, ptr, 1, row[1])
  BY DEF ClearTracker
<1> HIDE DEF ptr
<1> QED
  BY <1>1, <1>3, <1>4, <1>5, DeviceBegins

\* An account gives up its tracker if it is one of these.
LEMMA Deselected ==
    ASSUME DevInv, NEW u \in Accounts, NEW ds
    PROVE  /\ Deselect(u, ds) \in Pointers
           /\ \A v \in DOMAIN Deselect(u, ds) : Deselect(u, ds)[v] = None
           /\ tracker[u] \in ds => u \in DOMAIN Deselect(u, ds)
<1> DEFINE S == {w \in {u} : tracker[w] \in ds}
<1>1. S \in SUBSET Accounts /\ Deselect(u, ds) \in [S -> Devices \cup {None}]
  BY DEF Deselect
<1> QED
  BY <1>1 DEF Pointers, Deselect

LEMMA RegisterKeeps ==
    ASSUME DevInv, NEW r \in Requests, NEW u \in Accounts, NEW d \in Devices, NEW purpose \in OtherPurposes,
           RegisterDevice(r, u, d, purpose)
    PROVE  DevInv'
<1> DEFINE to == [dev |-> d, owner |-> u, purpose |-> purpose]
           ptr == Deselect(u, {d})
<1>1. PICK i \in RowFor(d) : DevBegin(r, u, d, ptr, i, to)
  BY DEF RegisterDevice
<1>2. to \in Row /\ to.dev = d /\ to.owner = u
  BY DEF Row, Purposes
<1>3. d # None /\ d \in Devices \cup {None}
  BY DeviceAssumption
<1>4. \A v \in Holders(d) : v \in DOMAIN ptr /\ ptr[v] = None
  BY Deselected DEF RegisterDevice, Holders
<1>5. ptr \in Pointers /\ \A v \in DOMAIN ptr : ptr[v] = None
  BY Deselected
<1>6. /\ i \in RowIds /\ RowsOf(d) \subseteq {i}
      /\ row[i] = NoRow => \A q \in Requests : writing[q] # Idle => writing[q].id # i
  BY RowChosen
<1> HIDE DEF to, ptr
<1>7. /\ \A v \in DOMAIN ptr : ptr[v] # None => v = u /\ ptr[v] = d /\ to.purpose \in Resolved
      /\ IF d = None THEN to \in {NoRow, row[i]} ELSE to.dev = d /\ to.owner = u
  BY <1>2, <1>3, <1>5
<1>8. ~raced /\ d # None => \A v \in Holders(d) \ nodes : (v \in DOMAIN ptr /\ ptr[v] = None)
                                                   \/ (v = u /\ to.purpose \in Resolved)
  BY <1>4
<1> QED
  BY <1>1, <1>2, <1>3, <1>5, <1>6, <1>7, <1>8, DeviceBegins

LEMMA UpdateKeeps ==
    ASSUME DevInv, NEW r \in Requests, NEW u \in Accounts, NEW d \in Devices, NEW next \in Devices,
           NEW purpose \in Purposes, UpdateOwned(r, u, d, next, purpose)
    PROVE  DevInv'
<1> DEFINE ptr == IF purpose = "tracking" THEN [v \in {u} |-> next] ELSE Deselect(u, {d, next})
           to == [dev |-> next, owner |-> u, purpose |-> purpose]
<1>1. PICK i \in RowsOf(d) : /\ row[i].owner = u /\ DevBegin(r, u, next, ptr, i, to)
                             /\ next # d => RowsOf(next) = {} /\ Holders(next) \subseteq {u}
  BY DEF UpdateOwned
<1>2. to \in Row /\ to.dev = next /\ to.owner = u /\ to.purpose = purpose
  BY DEF Row
<1>3. next # None /\ next \in Devices \cup {None}
  BY DeviceAssumption
<1>4. i \in RowIds /\ row[i] # NoRow /\ RowsOf(next) \subseteq {i}
  BY <1>1, OwnRow, RowChosen
<1>5. ~raced => Holders(next) \ nodes \subseteq {u}
  BY <1>1, OwnRow
<1>6. CASE purpose = "tracking"
  <2>1. {u} \in SUBSET Accounts /\ ptr \in [{u} -> Devices \cup {None}]
    BY <1>6
  <2>2. ptr \in Pointers /\ \A v \in DOMAIN ptr : v = u /\ ptr[v] = next
    BY <1>6, <2>1 DEF Pointers
  <2>3. to.purpose \in Resolved
    BY <1>2, <1>6 DEF Resolved
  <2> HIDE DEF ptr, to
  <2> QED
    BY <1>1, <1>2, <1>3, <1>4, <1>5, <2>2, <2>3, DeviceBegins
<1>7. CASE purpose # "tracking"
  <2>1. ptr = Deselect(u, {d, next})
    BY <1>7
  <2> HIDE DEF ptr, to
  <2>2. ptr \in Pointers /\ \A v \in DOMAIN ptr : ptr[v] = None
    BY <2>1, Deselected
  <2>3. ~raced => \A v \in Holders(next) \ nodes : v \in DOMAIN ptr /\ ptr[v] = None
    BY <1>5, <2>1, Deselected DEF Holders
  <2>4. DevBegin(r, u, next, ptr, i, to)
    BY <1>1
  <2>5. /\ \A v \in DOMAIN ptr : ptr[v] # None => v = u /\ ptr[v] = next /\ to.purpose \in Resolved
        /\ IF next = None THEN to \in {NoRow, row[i]} ELSE to.dev = next /\ to.owner = u
    BY <1>2, <1>3, <2>2
  <2>6. ~raced /\ next # None => \A v \in Holders(next) \ nodes : (v \in DOMAIN ptr /\ ptr[v] = None)
                                                           \/ (v = u /\ to.purpose \in Resolved)
    BY <2>3
  <2> QED
    BY <1>2, <1>3, <1>4, <2>2, <2>4, <2>5, <2>6, DeviceBegins
<1> QED
  BY <1>6, <1>7

LEMMA DeleteKeeps ==
    ASSUME DevInv, NEW r \in Requests, NEW u \in Accounts, NEW d \in Devices, DeleteOwned(r, u, d)
    PROVE  DevInv'
<1>1. PICK i \in RowsOf(d) : DevBegin(r, u, None, Deselect(u, {d}), i, NoRow)
  BY DEF DeleteOwned
<1>2. i \in RowIds
  BY DEF RowsOf
<1>3. None \in Devices \cup {None} /\ NoRow \in Row \cup {NoRow}
  OBVIOUS
<1> QED
  BY <1>1, <1>2, <1>3, Deselected, DeviceBegins

-----------------------------------------------------------------------------
(* Requests end                                                            *)

\* A row that is written is whole, and what the request wants if it is what
\* the request has read.
LEMMA WrittenRow ==
    ASSUME DevInv, NEW p \in Writing, p.to # NoRow, p.was # NoRow => row[p.id] # NoRow
    PROVE  /\ RowWritten(p) \in Row
           /\ row[p.id] = p.was => RowWritten(p) = p.to
<1>1. p.to \in Row /\ p.id \in RowIds /\ p.was \in Row \cup {NoRow} /\ row[p.id] \in Row \cup {NoRow}
  BY DeviceTypes DEF Writing
<1>2. CASE p.was = NoRow
  BY <1>1, <1>2 DEF RowWritten
<1>3. CASE p.was # NoRow
  <2> DEFINE old == row[p.id]
             w == [k \in DOMAIN p.to |-> IF p.to[k] = p.was[k] THEN old[k] ELSE p.to[k]]
  <2>1. RowWritten(p) = w /\ old \in Row /\ p.was \in Row
    BY <1>1, <1>3 DEF RowWritten
  <2>2. DOMAIN p.to = {"dev", "owner", "purpose"}
    BY <1>1 DEF Row
  <2>3. \A x \in Row : x["dev"] \in Devices /\ x["owner"] \in Accounts /\ x["purpose"] \in Purposes
    BY DEF Row
  <2>4. w = [dev |-> w["dev"], owner |-> w["owner"], purpose |-> w["purpose"]]
    BY <2>2
  <2>5. w["dev"] \in Devices /\ w["owner"] \in Accounts /\ w["purpose"] \in Purposes
    BY <1>1, <2>1, <2>2, <2>3
  <2>6. w \in Row
    BY <2>4, <2>5 DEF Row
  <2>7. ASSUME old = p.was PROVE w = p.to
    <3>1. \A k \in DOMAIN p.to : w[k] = p.to[k]
      BY <2>7
    <3>2. p.to = [k \in DOMAIN p.to |-> p.to[k]]
      BY <1>1 DEF Row
    <3> QED
      BY <3>1, <3>2
  <2> QED
    BY <2>1, <2>6, <2>7
<1> QED
  BY <1>2, <1>3

LEMMA CommitKeeps ==
    ASSUME DevInv, NEW r \in Requests, DevCommit(r)
    PROVE  DevInv'
<1> DEFINE p == writing[r]
           w == RowWritten(p)
           own == DOMAIN p.ptr \cup {p.by}
           devs == {p.dev, p.was.dev} \ {None}
<1>1. /\ p # Idle /\ Succeeds(p)
      /\ tracker' = [u \in Accounts |-> IF u \in DOMAIN p.ptr THEN p.ptr[u] ELSE tracker[u]]
      /\ row' = [row EXCEPT ![p.id] = IF Writes(p) THEN w ELSE @]
      /\ raced' = (raced \/ r \notin alone)
      /\ alone' = alone \ ({r} \cup Crossed(r, own, devs))
      /\ writing' = [writing EXCEPT ![r] = Idle]
      /\ nodes' = nodes \ DOMAIN p.ptr
  BY DEF DevCommit
<1>2. p \in Writing /\ OneDevice(p)
  BY <1>1, UnderWay
<1>3. /\ p.id \in RowIds /\ p.dev \in Devices \cup {None} /\ p.was \in Row \cup {NoRow} /\ p.to \in Row \cup {NoRow}
      /\ \A u \in DOMAIN p.ptr : u \in Accounts /\ p.ptr[u] \in Devices \cup {None}
      /\ p.by \in Accounts
  <2>1. PICK S \in SUBSET Accounts : p.ptr \in [S -> Devices \cup {None}]
    BY <1>2 DEF Writing, Pointers
  <2> QED
    BY <1>2, <2>1 DEF Writing
<1>4. p.to = NoRow => w = NoRow
  BY DEF RowWritten
<1>5. Writes(p) /\ p.to # NoRow => /\ w \in Row /\ RowsOf(w.dev) \subseteq {p.id}
                                   /\ row[p.id] = p.was => w = p.to
  BY <1>1, <1>2, WrittenRow DEF Succeeds, RowLegal
<1>6. \A j \in RowIds : row'[j] = IF j = p.id /\ Writes(p) THEN w ELSE row[j]
  BY <1>1, DeviceTypes
<1>7. \A u \in Accounts : tracker'[u] = IF u \in DOMAIN p.ptr THEN p.ptr[u] ELSE tracker[u]
  BY <1>1
<1>8. /\ writing' \in [Requests -> Writing \cup {Idle}] /\ writing'[r] = Idle
      /\ \A q \in Requests \ {r} : writing'[q] = writing[q]
  BY <1>1 DEF DevInv, WritingShape
<1> HIDE DEF p, w, own, devs
<1>9. DevTypeOK'
  <2>1. tracker' \in [Accounts -> Devices \cup {None}]
    BY <1>1, <1>3, DeviceTypes
  <2>2. row' \in [RowIds -> Row \cup {NoRow}]
    BY <1>1, <1>4, <1>5, DeviceTypes
  <2>3. \A q \in Requests : writing'[q] = Idle \/ writing'[q] \in Writing
    BY <1>8
  <2>4. alone' \subseteq Requests /\ raced' \in BOOLEAN /\ nodes' \subseteq Accounts
    BY <1>1, DeviceTypes
  <2> QED
    BY <2>1, <2>2, <2>3, <2>4 DEF DevTypeOK, Writing
<1>10. PointersApart'
  <2> SUFFICES ASSUME NEW u \in Accounts, NEW v \in Accounts, u # v, tracker'[u] # None, tracker'[u] = tracker'[v]
               PROVE  FALSE
    BY DEF PointersApart
  <2>1. \A x \in DOMAIN p.ptr, y \in Accounts :
           x # y /\ p.ptr[x] # None => p.ptr[x] # (IF y \in DOMAIN p.ptr /\ y < x THEN p.ptr[y] ELSE tracker[y])
    BY <1>1 DEF Succeeds, PointersUnique
  <2>2. u < v \/ v < u
    BY DeviceTypes
  <2>3. ~(u < v /\ v < u)
    BY DeviceTypes
  <2>4. u \notin DOMAIN p.ptr \/ v \notin DOMAIN p.ptr
    BY <1>7, <2>1, <2>2
  <2>5. u \in DOMAIN p.ptr \/ v \in DOMAIN p.ptr
    BY <1>7 DEF DevInv, PointersApart
  <2> QED
    BY <1>7, <2>1, <2>4, <2>5
<1>11. RowsApart'
  <2> SUFFICES ASSUME NEW i \in RowIds, NEW j \in RowIds, i # j, row'[i].dev # None, row'[i].dev = row'[j].dev
               PROVE  FALSE
    BY DEF RowsApart
  <2>1. Writes(p) /\ (i = p.id \/ j = p.id)
    BY <1>6 DEF DevInv, RowsApart
  <2>2. p.to # NoRow /\ w.dev # None
    BY <1>4, <1>6, <2>1, DeviceTypes
  <2>3. RowsOf(w.dev) \subseteq {p.id}
    BY <1>5, <2>1, <2>2
  <2> QED
    BY <1>6, <2>1, <2>3 DEF RowsOf
<1>12. ASSUME ~raced' PROVE Agree' /\ \A s \in alone' : writing'[s] # Idle => Knows(writing[s])'
  <2>1. r \in alone /\ ~raced /\ Knows(p) /\ Agree
    BY <1>1, <1>12 DEF DevInv, p
  <2>2. Writes(p) => row[p.id] = p.was /\ w = p.to
    BY <1>4, <1>5, <2>1 DEF Writes, Knows
  <2>3. Agree'
    <3> SUFFICES ASSUME NEW u \in Accounts \ nodes', NEW i \in RowIds, tracker'[u] # None, row'[i].dev = tracker'[u]
                 PROVE  row'[i].owner = u /\ row'[i].purpose \in Resolved
      BY DEF Agree
    <3>1. CASE i = p.id /\ Writes(p)
      <4>1. p.to.dev = tracker'[u] /\ row'[i] = p.to
        BY <1>6, <2>2, <3>1
      <4>2. p.dev # None /\ p.to.dev = p.dev /\ p.to.owner = p.by
        <5>1. p.to # NoRow
          BY <4>1, DeviceTypes
        <5> QED
          BY <1>2, <3>1, <5>1 DEF OneDevice, Writes
      <4>3. CASE u \in DOMAIN p.ptr
        BY <1>2, <1>7, <4>1, <4>2, <4>3 DEF OneDevice
      <4>4. CASE u \notin DOMAIN p.ptr
        BY <1>1, <1>7, <2>1, <4>1, <4>2, <4>4 DEF Knows, Holders
      <4> QED
        BY <4>3, <4>4
    <3>2. CASE ~(i = p.id /\ Writes(p))
      <4>1. row'[i] = row[i]
        BY <1>6, <3>2
      <4>2. CASE u \notin DOMAIN p.ptr
        BY <1>1, <1>7, <2>1, <4>1, <4>2 DEF Agree
      <4>3. CASE u \in DOMAIN p.ptr
        <5>1. tracker'[u] = p.dev /\ u = p.by /\ p.to.purpose \in Resolved /\ p.dev # None
          BY <1>2, <1>7, <4>3 DEF OneDevice
        <5>2. i = p.id /\ row[p.id] = p.was /\ p.to = p.was
          BY <2>1, <3>2, <4>1, <5>1 DEF Knows, RowsOf, Writes
        <5> QED
          BY <1>2, <4>1, <5>1, <5>2 DEF OneDevice
      <4> QED
        BY <4>2, <4>3
    <3> QED
      BY <3>1, <3>2
  <2>4. ASSUME NEW s \in alone', writing'[s] # Idle PROVE Knows(writing[s])'
    <3> DEFINE q == writing[s]
    <3>1. s \in alone /\ s # r /\ s \in Requests /\ writing'[s] = q /\ q # Idle
      BY <1>1, <1>8, <2>4, DeviceTypes
    <3>2. q \in Writing /\ OneDevice(q) /\ Knows(q)
      BY <2>1, <3>1, UnderWay DEF DevInv
    <3>3. q.dev \notin devs /\ q.was.dev \notin devs
      BY <1>1, <2>4, <3>1 DEF Crossed
    <3>4. q.dev # None => q.dev # p.dev
      BY <3>3 DEF devs
    <3>5. q.was # NoRow => q.was # p.was
      <4>1. q.was \in Row \cup {NoRow}
        BY <3>2 DEF Writing
      <4> QED
        BY <3>3, <4>1, DeviceTypes DEF devs
    <3>6. Inserts(s) /\ Inserts(r) => q.id # p.id
      BY <3>1 DEF DevInv, p
    <3> HIDE DEF q
    <3>7. ASSUME q.dev # None \/ q.to # q.was PROVE row'[q.id] = q.was
      <4>1. q.id \in RowIds /\ row[q.id] = q.was
        BY <3>2, <3>7 DEF Knows, Writing
      <4>2. ASSUME q.id = p.id, Writes(p) PROVE FALSE
        <5>1. q.was = NoRow /\ p.was = NoRow
          BY <2>2, <3>5, <4>1, <4>2
        <5>2. p.to # NoRow
          BY <4>2, <5>1 DEF Writes
        <5>3. q.to # NoRow
          <6>1. CASE q.dev # None
            BY <3>2, <6>1, DeviceTypes DEF OneDevice
          <6>2. CASE q.dev = None
            BY <3>7, <5>1, <6>2
          <6> QED
            BY <6>1, <6>2
        <5> QED
          BY <1>1, <3>1, <3>6, <4>2, <5>1, <5>2, <5>3 DEF Inserts, p, q
      <4> QED
        BY <1>6, <4>1, <4>2
    <3>8. ASSUME q.dev # None, NEW j \in RowIds, row'[j].dev = q.dev PROVE j = q.id
      <4>1. CASE j = p.id /\ Writes(p)
        <5>1. row'[j] = p.to /\ p.to # p.was
          BY <1>6, <2>2, <4>1 DEF Writes
        <5>2. p.to # NoRow
          BY <3>8, <5>1, DeviceTypes
        <5>3. p.to.dev = p.dev
          BY <1>2, <5>1, <5>2 DEF OneDevice
        <5> QED
          BY <3>4, <3>8, <5>1, <5>3
      <4>2. CASE ~(j = p.id /\ Writes(p))
        BY <1>6, <3>2, <3>8, <4>2 DEF Knows, RowsOf
      <4> QED
        BY <4>1, <4>2
    <3>9. ASSUME q.dev # None, NEW v \in Accounts, tracker'[v] = q.dev, v \notin DOMAIN q.ptr, v \notin nodes'
          PROVE  v = q.by /\ q.to.purpose \in Resolved
      <4>1. v \notin DOMAIN p.ptr
        BY <1>2, <1>7, <3>4, <3>9 DEF OneDevice
      <4> QED
        BY <1>1, <1>7, <3>2, <3>9, <4>1 DEF Knows, Holders
    <3>10. writing[s]' = q
      BY <3>1
    <3> QED
      BY <3>7, <3>8, <3>9, <3>10 DEF Knows, Holders, RowsOf
  <2> QED
    BY <2>3, <2>4
<1>13. /\ \A q \in Requests : writing'[q] # Idle => OneDevice(writing'[q])
       /\ \A q, s \in Requests : q # s /\ Inserts(q)' /\ Inserts(s)' => writing'[q].id # writing'[s].id
  BY <1>8 DEF DevInv, Inserts
<1>14. \A q \in Requests : OneDevice(writing[q])' <=> OneDevice(writing'[q])
  BY DEF OneDevice
<1> QED
  BY <1>8, <1>9, <1>10, <1>11, <1>12, <1>13, <1>14 DEF DevInv, WritingShape

LEMMA FailKeeps ==
    ASSUME DevInv, NEW r \in Requests, DevFail(r)
    PROVE  DevInv'
<1>1. /\ writing' = [writing EXCEPT ![r] = Idle] /\ alone' = alone \ {r}
      /\ tracker' = tracker /\ row' = row /\ raced' = raced /\ nodes' = nodes
  BY DEF DevFail
<1>2. /\ writing' \in [Requests -> Writing \cup {Idle}] /\ writing'[r] = Idle
      /\ \A q \in Requests \ {r} : writing'[q] = writing[q]
  BY <1>1 DEF DevInv, WritingShape
<1>3. DevTypeOK'
  <2>1. \A q \in Requests : writing'[q] = Idle \/ writing'[q] \in Writing
    BY <1>2
  <2> QED
    BY <1>1, <2>1 DEF DevInv, DevTypeOK, Writing
<1>4. \A q \in Requests : writing'[q] # Idle => (OneDevice(writing[q])' <=> OneDevice(writing[q]))
                                                /\ (Knows(writing[q])' <=> Knows(writing[q]))
  BY <1>1, <1>2 DEF OneDevice, Knows, RowsOf, Holders
<1> QED
  BY <1>1, <1>2, <1>3, <1>4, DeviceTypes
  DEF DevInv, WritingShape, PointersApart, RowsApart, Agree, Inserts

LEMMA NodeKeeps ==
    ASSUME DevInv, NEW u \in Accounts, NEW d \in Devices, RegisterNode(u, d)
    PROVE  DevInv'
<1>1. /\ Holders(d) = {} /\ tracker[u] = None
      /\ nodes \subseteq nodes' /\ nodes' \subseteq Accounts /\ (RowsOf(d) # {} => u \in nodes')
      /\ tracker' = [tracker EXCEPT ![u] = d] /\ row' = row /\ writing' = writing /\ raced' = raced
      /\ alone' = alone \ {r \in Requests : writing[r] # Idle /\ d = writing[r].dev}
  BY DeviceTypes DEF RegisterNode
<1>2. d # None /\ \A v \in Accounts : tracker'[v] = IF v = u THEN d ELSE tracker[v]
  BY <1>1, DeviceTypes, DeviceAssumption
<1>3. DevTypeOK'
  BY <1>1, DeviceTypes DEF DevInv, DevTypeOK
<1>4. PointersApart'
  BY <1>1, <1>2 DEF DevInv, PointersApart, Holders
<1>5. Agree => Agree'
  BY <1>1, <1>2 DEF Agree, RowsOf
<1>6. ASSUME ~raced, NEW s \in alone', writing[s] # Idle PROVE Knows(writing[s])'
  <2>1. s \in Requests /\ s \in alone /\ writing[s].dev # d /\ Knows(writing[s])
    BY <1>1, <1>6, DeviceTypes DEF DevInv
  <2>2. writing[s]' = writing[s]
    BY <1>1
  <2> QED
    BY <1>1, <1>2, <2>1, <2>2 DEF Knows, RowsOf, Holders
<1> QED
  BY <1>1, <1>3, <1>4, <1>5, <1>6 DEF DevInv, WritingShape, RowsApart, OneDevice, Inserts

LEMMA MergeKeeps ==
    ASSUME DevInv, NEW u \in Accounts, NEW v \in Accounts, MergeAccounts(u, v)
    PROVE  DevInv'
<1> DEFINE theirs == {i \in RowIds : row[i].owner = u}
           moves == theirs # {} /\ tracker[v] = None /\ tracker[u] # None
<1>1. /\ u # v /\ \A r \in Requests : writing[r] = Idle
      /\ row' = [i \in RowIds |-> IF i \in theirs THEN [row[i] EXCEPT !.owner = v] ELSE row[i]]
      /\ tracker' = [tracker EXCEPT ![u] = None, ![v] = IF moves THEN tracker[u] ELSE @]
      /\ writing' = writing /\ alone' = alone /\ raced' = raced
      /\ nodes \subseteq nodes' /\ nodes' \subseteq Accounts /\ (moves /\ u \in nodes => v \in nodes')
  BY DeviceTypes DEF MergeAccounts
<1>2. \A x \in Accounts : tracker'[x] = IF x = u THEN None ELSE IF x = v /\ moves THEN tracker[u] ELSE tracker[x]
  BY <1>1, DeviceTypes
<1>3. ASSUME NEW i \in RowIds
      PROVE  /\ row'[i] \in Row \cup {NoRow} /\ row'[i].dev = row[i].dev /\ row'[i].purpose = row[i].purpose
             /\ row'[i].owner = IF row[i].owner = u THEN v ELSE row[i].owner
  <2>1. row[i] \in Row \cup {NoRow}
    BY DeviceTypes
  <2>2. CASE i \in theirs
    <3>1. row[i] \in Row
      BY <2>1, <2>2, DeviceAssumption DEF NoRow, Accounts
    <3>2. row'[i] = [row[i] EXCEPT !.owner = v]
      BY <1>1, <2>2
    <3> QED
      BY <2>2, <3>1, <3>2 DEF Row
  <2>3. CASE i \notin theirs
    BY <1>1, <2>1, <2>3
  <2> QED
    BY <2>2, <2>3
<1> HIDE DEF theirs
<1>4. DevTypeOK'
  <2>1. tracker' \in [Accounts -> Devices \cup {None}]
    BY <1>1, DeviceTypes
  <2>2. row' \in [RowIds -> Row \cup {NoRow}]
    BY <1>1, <1>3
  <2> QED
    BY <1>1, <2>1, <2>2 DEF DevInv, DevTypeOK
<1> HIDE DEF moves
<1>5. PointersApart'
  <2> SUFFICES ASSUME NEW x \in Accounts, NEW y \in Accounts, x # y, tracker'[x] # None, tracker'[x] = tracker'[y]
               PROVE  FALSE
    BY DEF PointersApart
  <2>1. \A a, b \in Accounts : a # b /\ tracker[a] # None => tracker[a] # tracker[b]
    BY DEF DevInv, PointersApart
  <2>2. x # u /\ y # u
    BY <1>2
  <2> QED
    BY <1>2, <2>1, <2>2
<1>6. RowsApart'
  BY <1>3 DEF DevInv, RowsApart
<1>7. ASSUME Agree PROVE Agree'
  <2> SUFFICES ASSUME NEW x \in Accounts \ nodes', NEW i \in RowIds, tracker'[x] # None, row'[i].dev = tracker'[x]
               PROVE  row'[i].owner = x /\ row'[i].purpose \in Resolved
    BY DEF Agree
  <2>1. x # u /\ row[i].dev = tracker'[x]
    BY <1>2, <1>3
  <2>2. CASE x = v /\ moves
    <3>1. u \in Accounts \ nodes /\ tracker[u] = tracker'[x] /\ tracker[u] # None
      BY <1>1, <1>2, <2>1, <2>2
    <3>2. row[i].owner = u /\ row[i].purpose \in Resolved
      BY <1>7, <2>1, <3>1 DEF Agree
    <3> QED
      BY <1>3, <2>2, <3>2
  <2>3. CASE ~(x = v /\ moves)
    <3>1. x \in Accounts \ nodes /\ tracker[x] = tracker'[x] /\ tracker[x] # None
      BY <1>1, <1>2, <2>1, <2>3
    <3>2. row[i].owner = x /\ row[i].purpose \in Resolved
      BY <1>7, <2>1, <3>1 DEF Agree
    <3> QED
      BY <1>3, <2>1, <3>2
  <2> QED
    BY <2>2, <2>3
<1> QED
  BY <1>1, <1>4, <1>5, <1>6, <1>7, DeviceTypes DEF DevInv, WritingShape, Inserts

LEMMA DevStutter == DevInv /\ UNCHANGED devvars => DevInv'
<1> SUFFICES ASSUME DevInv, UNCHANGED devvars PROVE DevInv'
  OBVIOUS
<1>1. /\ tracker' = tracker /\ row' = row /\ writing' = writing
      /\ alone' = alone /\ raced' = raced /\ nodes' = nodes
  BY DEF devvars
<1>2. \A q \in Requests : (OneDevice(writing[q])' <=> OneDevice(writing[q])) /\ (Knows(writing[q])' <=> Knows(writing[q]))
  BY <1>1 DEF OneDevice, Knows, RowsOf, Holders
<1> QED
  BY <1>1, <1>2, DeviceTypes DEF DevInv, DevTypeOK, WritingShape, PointersApart, RowsApart, Agree, Inserts

LEMMA DevNextInv == DevInv /\ [DevNext]_devvars => DevInv'
<1> SUFFICES ASSUME DevInv, [DevNext]_devvars PROVE DevInv'
  OBVIOUS
<1>1. ASSUME NEW r \in Requests, NEW u \in Accounts, NEW d \in Devices, SelectOwned(r, u, d) PROVE DevInv'
  BY <1>1, SetKeeps DEF SelectOwned
<1>2. CASE UNCHANGED devvars
  BY <1>2, DevStutter
<1>3. CASE DevNext
  BY <1>1, <1>3, SetKeeps, ClearKeeps, RegisterKeeps, UpdateKeeps, DeleteKeeps, CommitKeeps, FailKeeps,
     NodeKeeps, MergeKeeps DEF DevNext
<1> QED
  BY <1>2, <1>3

-----------------------------------------------------------------------------
\* A pointer and its row agree, so the device resolves to the account alone.
LEMMA AgreeResolves == DevInv => DevTypeOK /\ TrackedIsResolved
<1> SUFFICES ASSUME DevInv, NEW u \in Accounts \ nodes, tracker[u] # None, ~raced PROVE Resolve(tracker[u]) = {u}
  BY DEF DevInv, TrackedIsResolved
<1> DEFINE d == tracker[u]
<1>1. CASE RowsOf(d) = {}
  <2>1. Holders(d) = {u}
    BY DEF DevInv, PointersApart, Holders
  <2> QED
    BY <1>1, <2>1 DEF Resolve
<1>2. CASE RowsOf(d) # {}
  <2>1. \A i \in RowsOf(d) : row[i].owner = u /\ row[i].purpose \in {"tracking", "driver_mesh"}
    BY DEF DevInv, Agree, RowsOf, Resolved
  <2>2. {row[i].owner : i \in {j \in RowsOf(d) : row[j].purpose \in {"tracking", "driver_mesh"}}} = {u}
    BY <1>2, <2>1
  <2> QED
    BY <1>2, <2>2 DEF Resolve
<1> QED
  BY <1>1, <1>2

\* The only UPDATE that fails uncrossed is that of a pointer whose device a
\* higher account still has.
LEMMA OnlyUphill ==
    ASSUME DevInv, NEW r \in Requests, r \in alone, ~raced, DevFail(r)
    PROVE  \E v \in Holders(writing[r].dev) : v > writing[r].by \/ v \in nodes
<1> DEFINE p == writing[r]
<1>1. p # Idle /\ ~Succeeds(p)
  BY DEF DevFail
<1>2. p \in Writing /\ OneDevice(p) /\ Knows(p)
  BY <1>1, UnderWay DEF DevInv
<1>3. p.by \in Accounts /\ p.dev \in Devices \cup {None} /\ p.to \in Row \cup {NoRow} /\ p.was \in Row \cup {NoRow}
      /\ p.id \in RowIds /\ \A u \in DOMAIN p.ptr : u \in Accounts
  BY <1>2 DEF Writing, Pointers
<1> HIDE DEF p
<1>4. RowLegal(p)
  <2>1. Writes(p) => row[p.id] = p.was
    BY <1>2 DEF Knows, Writes
  <2>2. ASSUME Writes(p), p.to # NoRow PROVE RowsOf(RowWritten(p).dev) \subseteq {p.id}
    <3>1. RowWritten(p) = p.to
      BY <1>2, <2>1, <2>2, WrittenRow
    <3>2. p.dev # None /\ p.to.dev = p.dev
      BY <1>2, <2>2 DEF OneDevice, Writes
    <3> QED
      BY <1>2, <3>1, <3>2 DEF Knows
  <2> QED
    BY <2>1, <2>2 DEF RowLegal
<1>5. PICK u \in DOMAIN p.ptr, v \in Accounts :
         /\ u # v /\ p.ptr[u] # None
         /\ p.ptr[u] = (IF v \in DOMAIN p.ptr /\ v < u THEN p.ptr[v] ELSE tracker[v])
  BY <1>1, <1>4 DEF Succeeds, PointersUnique
<1>6. u = p.by /\ p.ptr[u] = p.dev /\ p.dev # None
  BY <1>2, <1>5 DEF OneDevice
<1>7. ~(v \in DOMAIN p.ptr /\ v < u) /\ tracker[v] = p.dev
  BY <1>2, <1>5, <1>6 DEF OneDevice
<1>8. v \in DOMAIN p.ptr \/ v \in nodes
  BY <1>2, <1>5, <1>6, <1>7 DEF Knows, Holders
<1>9. v > p.by \/ v \in nodes
  BY <1>3, <1>5, <1>6, <1>7, <1>8, DeviceTypes
<1> QED
  BY <1>7, <1>9 DEF Holders, p

\* An account that shows a device as its tracker is the one that its positions
\* are credited to, but for a node whose device was in the inventory already,
\* and a request that nothing crossed fails only on its way up to another
\* account's pointer or at such a node's, whatever requests take, rename, give up
\* and delete devices and register nodes (routers/auth.py, routers/tracking.py).
THEOREM DevicesAlwaysHold == DevSpec => DevicesHold
<1>1. DevInv /\ [DevNext]_devvars =>
        [\A r \in Requests :
           r \in alone /\ ~raced /\ DevFail(r) =>
              \E v \in Holders(writing[r].dev) : v > writing[r].by \/ v \in nodes]_devvars
  BY OnlyUphill
<1> QED
  BY <1>1, DevInitInv, DevNextInv, AgreeResolves, PTL DEF DevSpec, DevicesHold, FailsOnlyUphill

LEMMA LeastNumber ==
  ASSUME NEW T, T \subseteq Nat, T # {}
  PROVE  \E x \in T : \A y \in T : x <= y
<1>1. IsWellFoundedOn(OpToRel(<, Nat), Nat)
  BY NatLessThanWellFounded
<1>2. PICK x \in T : \A y \in T : <<y, x>> \notin OpToRel(<, Nat)
  BY <1>1, WFMin, Zenon
<1>3. \A y \in T : x <= y
  <2> TAKE y \in T
  <2>1. <<y, x>> \in Nat \X Nat /\ <<y, x>>[1] = y /\ <<y, x>>[2] = x
    OBVIOUS
  <2>2. <<y, x>> \in OpToRel(<, Nat) <=> <<y, x>>[1] < <<y, x>>[2]
    BY <2>1, Zenon DEF OpToRel
  <2>3. ~(y < x)
    BY <1>2, <2>1, <2>2, Zenon
  <2> QED BY <2>3
<1> QED BY <1>3, Zenon

\* A set of numbers with the least of an interval and the next of each of its own.
LEMMA CountUp ==
  ASSUME NEW n \in Nat, NEW T, 0 \in T, \A k \in 1..n : k - 1 \in T => k \in T
  PROVE  0..n \subseteq T
<1> SUFFICES ASSUME (0..n) \ T # {} PROVE FALSE
  OBVIOUS
<1>1. PICK x \in (0..n) \ T : \A y \in (0..n) \ T : x <= y
  <2> DEFINE L == (0..n) \ T
  <2>1. L \subseteq Nat /\ L # {}
    OBVIOUS
  <2> HIDE DEF L
  <2>2. \E x \in L : \A y \in L : x <= y
    BY <2>1, LeastNumber, Zenon
  <2> QED BY <2>2 DEF L
<1>2. x \in 1..n
  BY <1>1
<1>3. x - 1 \in 0..n /\ ~(x <= x - 1)
  BY <1>2
<1> QED BY <1>1, <1>2, <1>3

-----------------------------------------------------------------------------
(* Databases, as the operators of a request turn one into the next.        *)

UserRecords ==
    {NoUser} \cup [row : {TRUE}, name : Emails \cup {Slug}, role : {"pilot", "organizer"}, active : BOOLEAN,
                   pilot : PilotIds \cup {None}, google : Emails \cup {None}]

PilotRecords == {NoPilot} \cup [row : {TRUE}, email : Emails \cup {None}, num : Numbers \cup {None}]

Databases == [user : [UserIds -> UserRecords], pilot : [PilotIds -> PilotRecords],
              alias : [Emails -> UserIds \cup {None}], entered : [PilotIds -> SUBSET Events]]

Exists(s, p) == p \in PilotIds /\ s.pilot[p].row

\* No account is linked to a record that is not there.
WholeRows(s) == s \in Databases /\ \A u \in UserIds : s.user[u].pilot # None => Exists(s, s.user[u].pilot)

\* A table of records is stale in what they say, never in which there are.
SameRows(rows, s) == rows \in [PilotIds -> PilotRecords] /\ \A p \in PilotIds : rows[p].row = s.pilot[p].row

LEMMA IdNames ==
  /\ UserIds \subseteq Nat /\ PilotIds \subseteq Nat
  /\ None \notin UserIds /\ None \notin PilotIds /\ None \notin Emails /\ None \notin Numbers
  /\ Slug \notin Emails /\ Slug # None
BY IdAssumption DEF UserIds, PilotIds

LEMMA MinIs ==
  ASSUME NEW S, S \subseteq Nat, S # {}
  PROVE  Min(S) \in S /\ \A y \in S : Min(S) <= y
BY LeastNumber, Zenon DEF Min

LEMMA MaxIs ==
  ASSUME NEW n \in Nat, NEW S, S \subseteq 0..n, S # {}
  PROVE  Max(S) \in S /\ \A y \in S : Max(S) >= y
<1> DEFINE T == {n - x : x \in S}
<1>1. T \subseteq Nat /\ T # {}
  <2>1. \A x \in S : n - x \in Nat
    OBVIOUS
  <2>2. PICK x \in S : TRUE
    OBVIOUS
  <2>3. n - x \in T
    OBVIOUS
  <2> QED BY <2>1, <2>3
<1> HIDE DEF T
<1>2. PICK m \in T : \A y \in T : m <= y
  BY <1>1, LeastNumber, Zenon
<1>3. PICK x \in S : m = n - x
  BY <1>2 DEF T
<1>4. \A y \in S : x >= y
  <2> TAKE y \in S
  <2>1. n - y \in T
    BY DEF T
  <2>2. m <= n - y
    BY <1>2, <2>1, Zenon
  <2> QED BY <2>2, <1>3
<1> QED BY <1>4, Zenon DEF Max

LEMMA FirstIs ==
  ASSUME NEW ids, ids \subseteq UserIds
  PROVE  (ids = {} /\ First(ids) = None) \/ (First(ids) \in ids /\ First(ids) # None)
BY MinIs, IdNames DEF First

LEMMA NextNumber ==
  ASSUME NEW m \in Nat, NEW ids, ids \subseteq 1..m + 1, m + 1 \notin ids
  PROVE  NextId(ids) \in (1..m + 1) \ ids
<1>1. CASE ids = {}
  BY <1>1 DEF NextId
<1>2. CASE ids # {}
  <2>1. ids \subseteq 0..m
    OBVIOUS
  <2>2. PICK x : x = Max(ids)
    OBVIOUS
  <2>3. x \in ids /\ \A y \in ids : x >= y
    BY <1>2, <2>1, <2>2, MaxIs
  <2>4. NextId(ids) = x + 1
    BY <1>2, <2>2 DEF NextId
  <2>5. x + 1 \in 1..m + 1 /\ x + 1 \notin ids
    BY <2>1, <2>3
  <2> QED BY <2>4, <2>5
<1> QED BY <1>1, <1>2

LEMMA NextUser ==
  ASSUME NEW ids, ids \subseteq UserIds, MaxUsers + 1 \notin ids
  PROVE  NextId(ids) \in UserIds \ ids
BY NextNumber, IdAssumption DEF UserIds

LEMMA NextPilot ==
  ASSUME NEW ids, ids \subseteq PilotIds, MaxPilots + 1 \notin ids
  PROVE  NextId(ids) \in PilotIds \ ids
BY NextNumber, IdAssumption DEF PilotIds

-----------------------------------------------------------------------------
(* What the queries find.                                                  *)

LEMMA UserHas ==
  ASSUME NEW s, s \in Databases, NEW u \in UserIds
  PROVE  /\ s.user[u] \in UserRecords
         /\ s.user[u].row \in BOOLEAN
         /\ s.user[u].pilot \in PilotIds \cup {None}
         /\ s.user[u].row => s.user[u] \in [row : {TRUE}, name : Emails \cup {Slug}, role : {"pilot", "organizer"},
                                            active : BOOLEAN, pilot : PilotIds \cup {None},
                                            google : Emails \cup {None}]
         /\ ~s.user[u].row => s.user[u] = NoUser
<1>1. s.user[u] \in UserRecords
  BY DEF Databases
<1>2. CASE s.user[u] = NoUser
  <2>1. s.user[u].row = FALSE /\ s.user[u].pilot = None
    BY <1>2 DEF NoUser
  <2> QED BY <1>1, <1>2, <2>1
<1>3. CASE s.user[u] # NoUser
  <2> DEFINE r == s.user[u]
  <2>1. r \in [row : {TRUE}, name : Emails \cup {Slug}, role : {"pilot", "organizer"},
               active : BOOLEAN, pilot : PilotIds \cup {None}, google : Emails \cup {None}]
    BY <1>1, <1>3 DEF UserRecords
  <2>2. r.row = TRUE /\ r.pilot \in PilotIds \cup {None}
    BY <2>1
  <2> QED BY <1>1, <2>1, <2>2
<1> QED BY <1>2, <1>3

LEMMA PilotHas ==
  ASSUME NEW s, s \in Databases, NEW p \in PilotIds
  PROVE  /\ s.pilot[p] \in PilotRecords
         /\ s.pilot[p].row \in BOOLEAN
         /\ s.pilot[p].email \in Emails \cup {None}
         /\ s.pilot[p].num \in Numbers \cup {None}
         /\ s.pilot[p].row => s.pilot[p] \in [row : {TRUE}, email : Emails \cup {None}, num : Numbers \cup {None}]
         /\ ~s.pilot[p].row => s.pilot[p] = NoPilot
         /\ s.entered[p] \subseteq Events
<1>1. s.pilot[p] \in PilotRecords /\ s.entered[p] \subseteq Events
  BY DEF Databases
<1>2. CASE s.pilot[p] = NoPilot
  <2>1. s.pilot[p].row = FALSE /\ s.pilot[p].email = None /\ s.pilot[p].num = None
    BY <1>2 DEF NoPilot
  <2> QED BY <1>1, <1>2, <2>1
<1>3. CASE s.pilot[p] # NoPilot
  <2> DEFINE r == s.pilot[p]
  <2>1. r \in [row : {TRUE}, email : Emails \cup {None}, num : Numbers \cup {None}]
    BY <1>1, <1>3 DEF PilotRecords
  <2>2. r.row = TRUE /\ r.email \in Emails \cup {None} /\ r.num \in Numbers \cup {None}
    BY <2>1
  <2> QED BY <1>1, <2>1, <2>2
<1> QED BY <1>2, <1>3

LEMMA AliasHas ==
  ASSUME NEW s, s \in Databases, NEW e \in Emails
  PROVE  s.alias[e] \in UserIds \cup {None}
BY DEF Databases

LEMMA PilotUserIs ==
  ASSUME NEW s, s \in Databases, NEW e, PilotUser(s, e) # None
  PROVE  /\ PilotUser(s, e) \in UserRows(s)
         /\ s.user[PilotUser(s, e)].name = e /\ s.user[PilotUser(s, e)].role = "pilot"
<1> DEFINE T == {u \in UserRows(s) : s.user[u].name = e /\ s.user[u].role = "pilot" /\ s.user[u].active}
<1>1. PilotUser(s, e) = First(T)
  BY DEF PilotUser
<1>2. T \subseteq UserIds
  BY DEF UserRows
<1> HIDE DEF T
<1>3. First(T) \in T
  BY <1>1, <1>2, FirstIs
<1> QED BY <1>1, <1>3 DEF T

LEMMA LoginUserIs ==
  ASSUME NEW s, s \in Databases, NEW e \in Emails
  PROVE  /\ LoginUser(s, e) # None => LoginUser(s, e) \in UserRows(s)
         /\ LoginUser(s, e) = None => \A u \in UserRows(s) : s.user[u].name = e => ~s.user[u].active
<1> DEFINE T == {u \in UserRows(s) : s.user[u].name = e /\ s.user[u].active}
<1>1. LoginUser(s, e) = CASE T # {} -> Min(T)
          [] T = {} /\ AliasOwner(s, e) # None /\ s.user[AliasOwner(s, e)].active -> AliasOwner(s, e)
          [] OTHER -> None
  BY DEF LoginUser
<1>2. T \subseteq UserIds
  BY DEF UserRows
<1>3. AliasOwner(s, e) \in UserIds \cup {None}
  BY AliasHas, IdNames DEF AliasOwner
<1>4. CASE T # {}
  <2>1. Min(T) \in T /\ Min(T) # None
    <3> HIDE DEF T
    <3> QED BY <1>2, <1>4, MinIs, IdNames
  <2>2. LoginUser(s, e) = Min(T)
    BY <1>1, <1>4
  <2> QED BY <2>1, <2>2
<1>5. CASE T = {}
  <2>1. \A u \in UserRows(s) : s.user[u].name = e => ~s.user[u].active
    BY <1>5
  <2>2. CASE AliasOwner(s, e) # None /\ s.user[AliasOwner(s, e)].active
    <3>1. LoginUser(s, e) = AliasOwner(s, e)
      BY <1>1, <1>5, <2>2
    <3>2. s.user[AliasOwner(s, e)].row
      <4>1. PICK u \in UserIds : u = AliasOwner(s, e)
        BY <1>3, <2>2
      <4>2. s.user[u] # NoUser
        BY <2>2, <4>1 DEF NoUser
      <4> QED BY <4>1, <4>2, UserHas
    <3> QED BY <3>1, <3>2, <1>3, <2>1, <2>2 DEF UserRows
  <2>3. CASE ~(AliasOwner(s, e) # None /\ s.user[AliasOwner(s, e)].active)
    <3>1. LoginUser(s, e) = None
      BY <1>1, <1>5, <2>3
    <3> QED BY <3>1, <2>1
  <2> QED BY <2>2, <2>3
<1> QED BY <1>4, <1>5

LEMMA LinkedUserIs ==
  ASSUME NEW s, NEW p, LinkedUser(s, p) # None
  PROVE  LinkedUser(s, p) \in Linked(s, p)
<1> DEFINE T == {u \in Linked(s, p) : s.user[u].name = s.pilot[p].email}
<1>1. LinkedUser(s, p) = IF T # {} THEN Min(T) ELSE First(Linked(s, p))
  BY DEF LinkedUser
<1>2. T \subseteq UserIds /\ Linked(s, p) \subseteq UserIds
  BY DEF UserRows, Linked
<1>3. T \subseteq Linked(s, p)
  OBVIOUS
<1> HIDE DEF T
<1>4. CASE T # {}
  BY <1>1, <1>2, <1>3, <1>4, MinIs, IdNames
<1>5. CASE T = {}
  BY <1>1, <1>2, <1>5, FirstIs
<1> QED BY <1>4, <1>5

LEMMA BestIs ==
  ASSUME NEW s, s \in Databases, NEW ps, ps \subseteq PilotIds, NEW preferred
  PROVE  /\ ps = {} => Best(s, ps, preferred) = preferred
         /\ ps # {} => Best(s, ps, preferred) \in ps
<1> DEFINE n(p) == Cardinality(s.entered[p])
<1> DEFINE C == CHOOSE p \in ps : \A q \in ps : n(p) > n(q) \/ (n(p) = n(q) /\ p <= q)
<1>1. Best(s, ps, preferred) = CASE ps = {} -> preferred [] preferred \in ps -> preferred [] OTHER -> C
  BY DEF Best
<1>2. ASSUME ps # {} PROVE C \in ps
  <2>1. IsFiniteSet(Events) /\ Cardinality(Events) \in Nat
    BY IdAssumption, FS_CardinalityType
  <2>2. \A p \in ps : n(p) \in 0..Cardinality(Events)
    <3> TAKE p \in ps
    <3>1. s.entered[p] \subseteq Events
      BY PilotHas
    <3>2. IsFiniteSet(s.entered[p]) /\ n(p) <= Cardinality(Events)
      BY <2>1, <3>1, FS_Subset, Zenon
    <3>3. n(p) \in Nat
      BY <3>2, FS_CardinalityType, Zenon
    <3> QED BY <2>1, <3>2, <3>3
  <2> HIDE DEF n
  <2> DEFINE T == {n(p) : p \in ps}
  <2>3. T \subseteq 0..Cardinality(Events) /\ T # {}
    BY <1>2, <2>2
  <2>4. PICK m \in T : \A k \in T : m >= k
    <3> HIDE DEF T
    <3> QED BY <2>1, <2>3, MaxIs, Zenon
  <2> DEFINE U == {p \in ps : n(p) = m}
  <2>5. U \subseteq Nat /\ U # {}
    <3>1. \E p \in ps : n(p) = m
      BY <2>4
    <3> QED BY <3>1, IdNames
  <2>6. PICK p \in U : \A q \in U : p <= q
    <3> HIDE DEF U
    <3> QED BY <2>5, LeastNumber, Zenon
  <2>7. ASSUME NEW q \in ps PROVE n(p) > n(q) \/ (n(p) = n(q) /\ p <= q)
    <3>1. n(p) = m /\ n(q) \in T
      BY <2>6
    <3>2. m >= n(q)
      BY <2>4, <3>1, Zenon
    <3>3. n(q) = m => p <= q
      BY <2>6
    <3> QED BY <3>1, <3>2, <3>3, <2>2, <2>3
  <2>8. p \in ps
    BY <2>6
  <2>9. \E x \in ps : \A q \in ps : n(x) > n(q) \/ (n(x) = n(q) /\ x <= q)
    BY <2>7, <2>8, Zenon
  <2> HIDE DEF T, U
  <2> QED BY <2>9, Zenon
<1> HIDE DEF C
<1> QED BY <1>1, <1>2

LEMMA CanonicalIs ==
  ASSUME NEW s, WholeRows(s), NEW rows, SameRows(rows, s), NEW e \in Emails \cup {None}, NEW num,
         NEW preferred, preferred # None => Exists(s, preferred)
  PROVE  /\ Canonical(s, rows, e, num, preferred) # None => Exists(s, Canonical(s, rows, e, num, preferred))
         /\ preferred # None => Canonical(s, rows, e, num, preferred) # None
<1> DEFINE owner(u) == IF u = None THEN None ELSE s.user[u].pilot
           mailed == {p \in PilotIds : rows[p].row /\ rows[p].email = e} \ {preferred}
           numbered == {p \in PilotIds : rows[p].row /\ rows[p].num = num}
<1>1. Canonical(s, rows, e, num, preferred) =
        CASE e # None /\ owner(PilotUser(s, e)) # None -> owner(PilotUser(s, e))
          [] e # None /\ owner(AliasOwner(s, e)) # None -> owner(AliasOwner(s, e))
          [] e # None /\ mailed # {} -> Best(s, mailed, None)
          [] num # None /\ numbered # {} -> Best(s, numbered, preferred)
          [] OTHER -> preferred
  BY DEF Canonical
<1>2. s \in Databases
  BY DEF WholeRows
<1>3. \A u \in UserIds \cup {None} : owner(u) # None => Exists(s, owner(u))
  BY IdNames DEF WholeRows
<1>4. PilotUser(s, e) \in UserIds \cup {None}
  BY <1>2, PilotUserIs DEF UserRows
<1>5. e # None => AliasOwner(s, e) \in UserIds \cup {None}
  BY <1>2, AliasHas DEF AliasOwner
<1>6. mailed # {} => Exists(s, Best(s, mailed, None)) /\ Best(s, mailed, None) # None
  <2>1. mailed \subseteq PilotIds /\ \A p \in mailed : s.pilot[p].row
    BY DEF SameRows
  <2> HIDE DEF mailed
  <2> QED BY <1>2, <2>1, BestIs, IdNames DEF Exists
<1>7. numbered # {} => Exists(s, Best(s, numbered, preferred)) /\ Best(s, numbered, preferred) # None
  <2>1. numbered \subseteq PilotIds /\ \A p \in numbered : s.pilot[p].row
    BY DEF SameRows
  <2> HIDE DEF numbered
  <2> QED BY <1>2, <2>1, BestIs, IdNames DEF Exists
<1> HIDE DEF owner, mailed, numbered
<1>8. \A p : p = None \/ Exists(s, p) => p = None \/ p \in PilotIds
  BY DEF Exists
<1>9. \/ /\ e # None /\ owner(PilotUser(s, e)) # None
         /\ Canonical(s, rows, e, num, preferred) = owner(PilotUser(s, e))
      \/ /\ e # None /\ owner(AliasOwner(s, e)) # None
         /\ Canonical(s, rows, e, num, preferred) = owner(AliasOwner(s, e))
      \/ mailed # {} /\ Canonical(s, rows, e, num, preferred) = Best(s, mailed, None)
      \/ numbered # {} /\ Canonical(s, rows, e, num, preferred) = Best(s, numbered, preferred)
      \/ Canonical(s, rows, e, num, preferred) = preferred
  BY <1>1
<1> QED BY <1>3, <1>4, <1>5, <1>6, <1>7, <1>9

-----------------------------------------------------------------------------
(* What the changes leave.                                                 *)

\* The columns of the record a moved to b, table by table.
Moved(m, s, a, b) ==
  /\ m.user = [u \in UserIds |-> [s.user[u] EXCEPT !.pilot = IF s.user[u].pilot = a THEN b ELSE s.user[u].pilot]]
  /\ m.pilot = [p \in PilotIds |->
        IF p = a THEN NoPilot
        ELSE IF p = b THEN [s.pilot[b] EXCEPT !.email = Or(s.pilot[a].email, s.pilot[b].email),
                                              !.num = Or(s.pilot[a].num, s.pilot[b].num)]
        ELSE s.pilot[p]]
  /\ m.alias = s.alias
  /\ m.entered = [p \in PilotIds |-> IF p = a THEN {} ELSE IF p = b THEN s.entered[b] \cup s.entered[a]
                                     ELSE s.entered[p]]
  /\ m = [user |-> m.user, pilot |-> m.pilot, alias |-> m.alias, entered |-> m.entered]

LEMMA MergeIs ==
  ASSUME NEW s, s \in Databases, NEW a \in PilotIds, NEW b \in PilotIds, a # b
  PROVE  Moved(Merge(s, a, b), s, a, b)
<1> SUFFICES ASSUME NEW m, m = Merge(s, a, b) PROVE Moved(m, s, a, b)
  OBVIOUS
<1>1. s = [user |-> s.user, pilot |-> s.pilot, alias |-> s.alias, entered |-> s.entered]
      /\ s.user = [u \in UserIds |-> s.user[u]]
      /\ s.pilot = [p \in PilotIds |-> s.pilot[p]]
      /\ s.entered = [p \in PilotIds |-> s.entered[p]]
  BY DEF Databases
<1>2. \A u : PilotAfter(s, u, a, b) = IF s.user[u].pilot = a THEN b ELSE s.user[u].pilot
  BY DEF PilotAfter
<1>3. EntriesAfter(s, a, b) = s.entered[b] \cup s.entered[a]
  BY DEF EntriesAfter
<1>4. m = [s EXCEPT
            !.user = [u \in UserIds |->
                         [s.user[u] EXCEPT !.pilot = PilotAfter(s, u, a, b)]],
            !.pilot[b].email = Or(s.pilot[a].email, @),
            !.pilot[b].num = Or(s.pilot[a].num, @),
            !.pilot[a] = NoPilot,
            !.entered[b] = EntriesAfter(s, a, b),
            !.entered[a] = {}]
  BY Zenon DEF Merge
<1>5. m.user = [u \in UserIds |-> [s.user[u] EXCEPT !.pilot = PilotAfter(s, u, a, b)]]
  BY <1>1, <1>4
<1>6. m.alias = s.alias
  BY <1>1, <1>4
<1>7. m.entered = [[s.entered EXCEPT ![b] = EntriesAfter(s, a, b)] EXCEPT ![a] = {}]
  BY <1>1, <1>4
<1>8. m = [user |-> m.user, pilot |-> m.pilot, alias |-> m.alias, entered |-> m.entered]
  BY <1>1, <1>4
<1>9. m.pilot = [[s.pilot EXCEPT ![b] = [s.pilot[b] EXCEPT !.email = Or(s.pilot[a].email, s.pilot[b].email),
                                                          !.num = Or(s.pilot[a].num, s.pilot[b].num)]]
                 EXCEPT ![a] = NoPilot]
  <2> DEFINE x == Or(s.pilot[a].email, s.pilot[b].email)
             y == Or(s.pilot[a].num, s.pilot[b].num)
             r == s.pilot[b]
  <2>1. m.pilot = [[[s.pilot EXCEPT ![b].email = x] EXCEPT ![b].num = Or(s.pilot[a].num, @)] EXCEPT ![a] = NoPilot]
    BY <1>1, <1>4
  <2>2. [s.pilot EXCEPT ![b].email = x][b].num = r.num
    <3>1. r \in PilotRecords
      BY PilotHas
    <3>2. "num" \in DOMAIN r
      <4>1. CASE r = NoPilot
        BY <4>1 DEF NoPilot
      <4>2. CASE r # NoPilot
        <5>1. r \in [row : {TRUE}, email : Emails \cup {None}, num : Numbers \cup {None}]
          BY <3>1, <4>2 DEF PilotRecords
        <5> QED BY <5>1
      <4> QED BY <4>1, <4>2
    <3>3. [r EXCEPT !.email = x].num = r.num
      BY <3>2
    <3>4. [s.pilot EXCEPT ![b].email = x][b] = [r EXCEPT !.email = x]
      BY <1>1
    <3> QED BY <3>3, <3>4
  <2>3. [[s.pilot EXCEPT ![b].email = x] EXCEPT ![b].num = Or(s.pilot[a].num, @)]
          = [s.pilot EXCEPT ![b] = [[r EXCEPT !.email = x] EXCEPT !.num = y]]
    BY <1>1, <2>2
  <2> QED BY <2>1, <2>3
<1>10. m.pilot = [p \in PilotIds |->
          IF p = a THEN NoPilot
          ELSE IF p = b THEN [s.pilot[b] EXCEPT !.email = Or(s.pilot[a].email, s.pilot[b].email),
                                                !.num = Or(s.pilot[a].num, s.pilot[b].num)]
          ELSE s.pilot[p]]
  <2> DEFINE r == [s.pilot[b] EXCEPT !.email = Or(s.pilot[a].email, s.pilot[b].email),
                                     !.num = Or(s.pilot[a].num, s.pilot[b].num)]
  <2>1. m.pilot = [[s.pilot EXCEPT ![b] = r] EXCEPT ![a] = NoPilot]
    BY <1>9
  <2> HIDE DEF r
  <2>2. m.pilot = [p \in PilotIds |-> IF p = a THEN NoPilot ELSE IF p = b THEN r ELSE s.pilot[p]]
    BY <1>1, <2>1
  <2> QED BY <2>2 DEF r
<1>11. m.entered = [p \in PilotIds |-> IF p = a THEN {} ELSE IF p = b THEN s.entered[b] \cup s.entered[a]
                                       ELSE s.entered[p]]
  BY <1>1, <1>3, <1>7
<1>12. m.user = [u \in UserIds |-> [s.user[u] EXCEPT !.pilot = IF s.user[u].pilot = a THEN b ELSE s.user[u].pilot]]
  BY <1>2, <1>5
<1> QED BY <1>6, <1>8, <1>10, <1>11, <1>12 DEF Moved

LEMMA Relinked ==
  ASSUME NEW r \in UserRecords, NEW p \in PilotIds \cup {None}, p = None \/ r.row
  PROVE  /\ [r EXCEPT !.pilot = p] \in UserRecords
         /\ [r EXCEPT !.pilot = p].pilot = p
         /\ [r EXCEPT !.pilot = p].row = r.row /\ [r EXCEPT !.pilot = p].role = r.role
         /\ [r EXCEPT !.pilot = p].name = r.name /\ [r EXCEPT !.pilot = p].active = r.active
<1>1. CASE r = NoUser
  <2>1. r.row = FALSE
    BY <1>1 DEF NoUser
  <2>2. [r EXCEPT !.pilot = p] = NoUser
    <3>1. p = None
      BY <2>1
    <3>2. [NoUser EXCEPT !.pilot = None] = NoUser
      <4>1. "pilot" \in DOMAIN NoUser /\ NoUser["pilot"] = None /\ NoUser = [x \in DOMAIN NoUser |-> NoUser[x]]
        BY DEF NoUser
      <4> QED BY <4>1
    <3> QED BY <1>1, <3>1, <3>2
  <2> QED BY <1>1, <2>1, <2>2 DEF NoUser
<1>2. CASE r # NoUser
  <2>1. r \in [row : {TRUE}, name : Emails \cup {Slug}, role : {"pilot", "organizer"}, active : BOOLEAN,
               pilot : PilotIds \cup {None}, google : Emails \cup {None}]
    BY <1>2 DEF UserRecords
  <2> QED BY <2>1 DEF UserRecords
<1> QED BY <1>1, <1>2

LEMMA MergeWhole ==
  ASSUME NEW s, WholeRows(s), NEW a \in PilotIds, NEW b, Exists(s, b), NEW m, m = Merge(s, a, b)
  PROVE  /\ WholeRows(m)
         /\ UserRows(m) = UserRows(s)
         /\ \A u \in UserIds : m.user[u].name = s.user[u].name /\ m.user[u].role = s.user[u].role
         /\ \A p : Exists(m, p) <=> Exists(s, p) /\ (p = a => a = b)
         /\ m.alias = s.alias
<1>0. s \in Databases /\ b \in PilotIds /\ s.pilot[b].row
  BY DEF WholeRows, Exists
<1>1. CASE a = b
  <2>1. m = s
    BY <1>1 DEF Merge
  <2> QED BY <1>1, <2>1
<1>2. CASE a # b
  <2>1. Moved(m, s, a, b)
    BY <1>0, <1>2, MergeIs
  <2>2. ASSUME NEW u \in UserIds
        PROVE  /\ m.user[u] \in UserRecords
               /\ m.user[u].row = s.user[u].row
               /\ m.user[u].name = s.user[u].name /\ m.user[u].role = s.user[u].role
               /\ m.user[u].pilot = IF s.user[u].pilot = a THEN b ELSE s.user[u].pilot
    <3> DEFINE r == s.user[u]
               q == IF s.user[u].pilot = a THEN b ELSE s.user[u].pilot
    <3>1. r \in UserRecords /\ q \in PilotIds \cup {None} /\ (q = None \/ r.row)
      <4>1. r \in UserRecords /\ r.pilot \in PilotIds \cup {None} /\ (~r.row => r = NoUser)
        BY <1>0, UserHas, Zenon
      <4>2. r = NoUser => r.pilot = None
        BY DEF NoUser
      <4>3. r.row \in BOOLEAN
        BY <1>0, UserHas
      <4> QED BY <4>1, <4>2, <4>3, <1>0, IdNames
    <3>2. m.user[u] = [r EXCEPT !.pilot = q]
      BY <2>1 DEF Moved
    <3> HIDE DEF r, q
    <3>3. /\ [r EXCEPT !.pilot = q] \in UserRecords
          /\ [r EXCEPT !.pilot = q].pilot = q
          /\ [r EXCEPT !.pilot = q].row = r.row /\ [r EXCEPT !.pilot = q].role = r.role
          /\ [r EXCEPT !.pilot = q].name = r.name
      BY <3>1, Relinked
    <3> QED BY <3>2, <3>3, Zenon DEF r, q
  <2>3. ASSUME NEW p \in PilotIds
        PROVE  /\ m.pilot[p] \in PilotRecords
               /\ m.pilot[p].row <=> s.pilot[p].row /\ p # a
    <3>1. CASE p = a
      <4>1. m.pilot[p] = NoPilot
        BY <2>1, <3>1 DEF Moved
      <4> QED BY <4>1, <3>1 DEF PilotRecords, NoPilot
    <3>2. CASE p = b
      <4>1. m.pilot[p] = [s.pilot[b] EXCEPT !.email = Or(s.pilot[a].email, s.pilot[b].email),
                                            !.num = Or(s.pilot[a].num, s.pilot[b].num)]
        BY <2>1, <3>2, <1>2 DEF Moved
      <4>2. Or(s.pilot[a].email, s.pilot[b].email) \in Emails \cup {None}
            /\ Or(s.pilot[a].num, s.pilot[b].num) \in Numbers \cup {None}
        BY <1>0, PilotHas DEF Or
      <4>3. s.pilot[b] \in [row : {TRUE}, email : Emails \cup {None}, num : Numbers \cup {None}]
        BY <1>0, PilotHas
      <4>4. m.pilot[p] \in [row : {TRUE}, email : Emails \cup {None}, num : Numbers \cup {None}]
        BY <4>1, <4>2, <4>3
      <4>5. m.pilot[p].row = TRUE
        BY <4>4
      <4> QED BY <4>4, <4>5, <3>2, <1>0, <1>2 DEF PilotRecords
    <3>3. CASE p # a /\ p # b
      <4>1. m.pilot[p] = s.pilot[p]
        BY <2>1, <3>3 DEF Moved
      <4> QED BY <4>1, <3>3, <1>0, PilotHas
    <3> QED BY <3>1, <3>2, <3>3
  <2>4. m \in Databases
    <3>1. m.user \in [UserIds -> UserRecords]
      BY <2>1, <2>2 DEF Moved
    <3>2. m.pilot \in [PilotIds -> PilotRecords]
      BY <2>1, <2>3 DEF Moved
    <3>3. m.entered \in [PilotIds -> SUBSET Events]
      <4>1. \A p \in PilotIds : s.entered[p] \subseteq Events
        BY <1>0, PilotHas
      <4> QED BY <2>1, <4>1, <1>0 DEF Moved
    <3>4. m.alias \in [Emails -> UserIds \cup {None}]
      BY <2>1, <1>0 DEF Databases, Moved
    <3> QED BY <2>1, <3>1, <3>2, <3>3, <3>4 DEF Databases, Moved
  <2>5. \A p : Exists(m, p) <=> Exists(s, p) /\ p # a
    BY <2>3 DEF Exists
  <2>6. WholeRows(m)
    <3>1. \A u \in UserIds : m.user[u].pilot # None => Exists(m, m.user[u].pilot)
      <4> TAKE u \in UserIds
      <4>1. s.user[u].pilot # None => Exists(s, s.user[u].pilot)
        BY DEF WholeRows
      <4>2. Exists(s, b)
        OBVIOUS
      <4> QED BY <4>1, <4>2, <2>2, <2>5, <1>2
    <3> QED BY <3>1, <2>4 DEF WholeRows
  <2>7. UserRows(m) = UserRows(s)
    BY <2>2 DEF UserRows
  <2> QED BY <2>1, <2>2, <2>5, <2>6, <2>7, <1>2 DEF Moved
<1> QED BY <1>1, <1>2

\* A row of an account and of a record.
UserRow == [row : {TRUE}, name : Emails \cup {Slug}, role : {"pilot", "organizer"}, active : BOOLEAN,
            pilot : PilotIds \cup {None}, google : Emails \cup {None}]
PilotRow == [row : {TRUE}, email : Emails \cup {None}, num : Numbers \cup {None}]

Free(s, p) == p = None \/ Exists(s, p)

LEMMA Tables ==
  ASSUME NEW s, s \in Databases
  PROVE  /\ s = [user |-> s.user, pilot |-> s.pilot, alias |-> s.alias, entered |-> s.entered]
         /\ s.user \in [UserIds -> UserRecords] /\ s.user = [u \in UserIds |-> s.user[u]]
         /\ s.pilot \in [PilotIds -> PilotRecords] /\ s.pilot = [p \in PilotIds |-> s.pilot[p]]
         /\ s.alias \in [Emails -> UserIds \cup {None}] /\ s.entered \in [PilotIds -> SUBSET Events]
BY DEF Databases

WithUsers(s, us) == [s EXCEPT !.user = us]
WithUser(s, u, r) == [s EXCEPT !.user[u] = r]
WithLink(s, u, p) == [s EXCEPT !.user[u].pilot = p]

LEMMA UsersChange ==
  ASSUME NEW s, WholeRows(s), NEW us \in [UserIds -> UserRecords],
         \A u \in UserIds : Free(s, us[u].pilot), NEW t, t = WithUsers(s, us)
  PROVE  WholeRows(t) /\ t.user = us /\ t.pilot = s.pilot /\ t.alias = s.alias /\ t.entered = s.entered
<1>1. s \in Databases
  BY DEF WholeRows
<1>2. t.user = us /\ t.pilot = s.pilot /\ t.alias = s.alias /\ t.entered = s.entered
      /\ t = [user |-> us, pilot |-> s.pilot, alias |-> s.alias, entered |-> s.entered]
  <2>1. s = [user |-> s.user, pilot |-> s.pilot, alias |-> s.alias, entered |-> s.entered]
    BY <1>1, Tables
  <2> QED BY <2>1 DEF WithUsers
<1>3. t \in Databases
  BY <1>1, <1>2, Tables DEF Databases
<1>4. \A p : Exists(t, p) <=> Exists(s, p)
  BY <1>2 DEF Exists
<1> QED BY <1>2, <1>3, <1>4 DEF WholeRows, Free

\* One account's row is written.
LEMMA UserSet ==
  ASSUME NEW s, WholeRows(s), NEW u \in UserIds, NEW r \in UserRow, Free(s, r.pilot),
         NEW t, t = WithUser(s, u, r)
  PROVE  /\ WholeRows(t) /\ t.pilot = s.pilot /\ t.alias = s.alias /\ t.entered = s.entered
         /\ t.user[u] = r /\ \A v \in UserIds \ {u} : t.user[v] = s.user[v]
         /\ UserRows(t) = UserRows(s) \cup {u}
<1> DEFINE us == [s.user EXCEPT ![u] = r]
<1>1. s \in Databases
  BY DEF WholeRows
<1>2. r \in UserRecords /\ r.row = TRUE
  BY DEF UserRecords, UserRow
<1>3. us \in [UserIds -> UserRecords] /\ us[u] = r /\ \A v \in UserIds \ {u} : us[v] = s.user[v]
  BY <1>1, <1>2, Tables
<1>4. t = WithUsers(s, us)
  BY DEF WithUsers, WithUser
<1> HIDE DEF us
<1>5. \A v \in UserIds : Free(s, us[v].pilot)
  BY <1>3 DEF WholeRows, Free
<1>6. WholeRows(t) /\ t.user = us /\ t.pilot = s.pilot /\ t.alias = s.alias /\ t.entered = s.entered
  BY <1>3, <1>4, <1>5, UsersChange
<1>7. \A v \in UserIds : us[v].row <=> s.user[v].row \/ v = u
  <2> TAKE v \in UserIds
  <2>1. CASE v = u
    BY <2>1, <1>2, <1>3
  <2>2. CASE v # u
    BY <2>2, <1>3
  <2> QED BY <2>1, <2>2
<1>8. UserRows(t) = UserRows(s) \cup {u}
  BY <1>6, <1>7 DEF UserRows
<1> QED BY <1>3, <1>6, <1>8

LEMMA LinkWhole ==
  ASSUME NEW s, WholeRows(s), NEW u \in UserRows(s), NEW p, Free(s, p), NEW t, t = WithLink(s, u, p)
  PROVE  /\ WholeRows(t) /\ t.pilot = s.pilot /\ t.alias = s.alias /\ t.entered = s.entered
         /\ UserRows(t) = UserRows(s) /\ t.user[u].pilot = p
         /\ t.user[u].name = s.user[u].name /\ t.user[u].role = s.user[u].role
<1>1. s \in Databases /\ u \in UserIds /\ s.user[u].row
  BY DEF WholeRows, UserRows
<1> DEFINE r == [s.user[u] EXCEPT !.pilot = p]
<1>2. p \in PilotIds \cup {None}
  BY DEF Free, Exists
<1>3. s.user[u] \in UserRow
  BY <1>1, UserHas DEF UserRow
<1>4. r \in UserRow /\ r.pilot = p /\ r.name = s.user[u].name /\ r.role = s.user[u].role
  BY <1>2, <1>3 DEF UserRow
<1>5. t = WithUser(s, u, r)
  BY DEF WithUser, WithLink
<1> HIDE DEF r
<1>6. /\ WholeRows(t) /\ t.pilot = s.pilot /\ t.alias = s.alias /\ t.entered = s.entered
      /\ t.user[u] = r /\ UserRows(t) = UserRows(s) \cup {u}
  BY <1>1, <1>4, <1>5, UserSet
<1> QED BY <1>4, <1>6

LEMMA NewUserWhole ==
  ASSUME NEW s, WholeRows(s), MaxUsers + 1 \notin UserRows(s), NEW name \in Emails \cup {Slug},
         NEW role \in {"pilot", "organizer"}, NEW p, Free(s, p), NEW google \in Emails \cup {None},
         NEW t, t = NewUser(s, name, role, p, google)
  PROVE  /\ WholeRows(t) /\ t.pilot = s.pilot /\ t.entered = s.entered
         /\ NextId(UserRows(s)) \in UserIds \ UserRows(s)
         /\ UserRows(t) = UserRows(s) \cup {NextId(UserRows(s))}
         /\ \A v \in UserRows(s) : t.user[v] = s.user[v]
<1> DEFINE r == [row |-> TRUE, name |-> name, role |-> role, active |-> TRUE, pilot |-> p, google |-> google]
<1>1. r \in UserRow /\ Free(s, r.pilot)
  BY DEF UserRow, Free, Exists
<1>2. PICK u : u = NextId(UserRows(s))
  OBVIOUS
<1>3. UserRows(s) \subseteq UserIds
  BY DEF UserRows
<1>4. u \in UserIds \ UserRows(s)
  BY <1>2, <1>3, NextUser
<1>5. t = WithUser(s, u, r)
  BY <1>2 DEF NewUser, WithUser
<1> HIDE DEF r
<1>6. /\ WholeRows(t) /\ t.pilot = s.pilot /\ t.entered = s.entered
      /\ \A v \in UserIds \ {u} : t.user[v] = s.user[v]
      /\ UserRows(t) = UserRows(s) \cup {u}
  BY <1>1, <1>4, <1>5, UserSet
<1> QED BY <1>2, <1>3, <1>4, <1>6

WithPilot(s, p, r) == [s EXCEPT !.pilot[p] = r]
WithEvents(s, p, v) == [s EXCEPT !.entered[p] = v]

\* One record's row is written.
LEMMA PilotSet ==
  ASSUME NEW s, WholeRows(s), NEW p \in PilotIds, NEW r \in PilotRow, NEW t, t = WithPilot(s, p, r)
  PROVE  /\ WholeRows(t) /\ t.user = s.user /\ t.alias = s.alias /\ t.entered = s.entered
         /\ t.pilot[p] = r /\ \A q \in PilotIds \ {p} : t.pilot[q] = s.pilot[q]
         /\ \A q : Exists(t, q) <=> Exists(s, q) \/ q = p
         /\ UserRows(t) = UserRows(s)
<1>1. s \in Databases
  BY DEF WholeRows
<1> DEFINE ps == [s.pilot EXCEPT ![p] = r]
<1>2. t.user = s.user /\ t.pilot = ps /\ t.alias = s.alias /\ t.entered = s.entered
      /\ t = [user |-> s.user, pilot |-> ps, alias |-> s.alias, entered |-> s.entered]
  <2>1. s = [user |-> s.user, pilot |-> s.pilot, alias |-> s.alias, entered |-> s.entered]
    BY <1>1, Tables
  <2> QED BY <2>1 DEF WithPilot
<1>3. r \in PilotRecords /\ r.row = TRUE
  BY DEF PilotRecords, PilotRow
<1>4. ps \in [PilotIds -> PilotRecords] /\ ps[p] = r /\ \A q \in PilotIds \ {p} : ps[q] = s.pilot[q]
  BY <1>1, <1>3, Tables
<1> HIDE DEF ps
<1>5. t \in Databases
  BY <1>1, <1>2, <1>4, Tables DEF Databases
<1>6. \A q : Exists(t, q) <=> Exists(s, q) \/ q = p
  <2> TAKE q
  <2>1. CASE q = p
    BY <2>1, <1>2, <1>3, <1>4 DEF Exists
  <2>2. CASE q # p
    BY <2>2, <1>2, <1>4 DEF Exists
  <2> QED BY <2>1, <2>2
<1>7. \A u \in UserIds : t.user[u].pilot # None => Exists(t, t.user[u].pilot)
  BY <1>2, <1>6 DEF WholeRows
<1> QED BY <1>2, <1>4, <1>5, <1>6, <1>7 DEF WholeRows, UserRows

LEMMA EventsSet ==
  ASSUME NEW s, WholeRows(s), NEW p \in PilotIds, NEW v, v \subseteq Events, NEW t, t = WithEvents(s, p, v)
  PROVE  WholeRows(t) /\ t.user = s.user /\ t.pilot = s.pilot /\ t.alias = s.alias
<1>1. s \in Databases
  BY DEF WholeRows
<1> DEFINE es == [s.entered EXCEPT ![p] = v]
<1>2. t.user = s.user /\ t.pilot = s.pilot /\ t.alias = s.alias
      /\ t = [user |-> s.user, pilot |-> s.pilot, alias |-> s.alias, entered |-> es]
  <2>1. s = [user |-> s.user, pilot |-> s.pilot, alias |-> s.alias, entered |-> s.entered]
    BY <1>1, Tables
  <2> QED BY <2>1 DEF WithEvents
<1>3. es \in [PilotIds -> SUBSET Events]
  BY <1>1, Tables
<1> HIDE DEF es
<1>4. t \in Databases
  BY <1>1, <1>2, <1>3, Tables DEF Databases
<1> QED BY <1>2, <1>4 DEF WholeRows, Exists

LEMMA RetireWhole ==
  ASSUME NEW s, WholeRows(s), NEW p, NEW except, NEW t, t = Retire(s, p, except)
  PROVE  WholeRows(t) /\ t.pilot = s.pilot /\ t.alias = s.alias /\ UserRows(t) = UserRows(s)
<1>1. s \in Databases
  BY DEF WholeRows
<1> DEFINE us == [u \in UserIds |->
        IF u \in Linked(s, p) \ {except} /\ s.user[u].name = Slug
        THEN [s.user[u] EXCEPT !.active = FALSE, !.pilot = None]
        ELSE s.user[u]]
<1>2. t = WithUsers(s, us)
  BY DEF Retire, WithUsers
<1>3. ASSUME NEW u \in UserIds
      PROVE  us[u] \in UserRecords /\ Free(s, us[u].pilot) /\ us[u].row = s.user[u].row
  <2>1. CASE u \in Linked(s, p) \ {except} /\ s.user[u].name = Slug
    <3> DEFINE r == s.user[u]
    <3>1. r \in UserRow
      BY <1>1, <2>1, UserHas DEF UserRow, Linked, UserRows
    <3>2. us[u] = [[r EXCEPT !.active = FALSE] EXCEPT !.pilot = None]
      BY <2>1
    <3> HIDE DEF r
    <3>3. us[u] \in UserRow /\ us[u].pilot = None /\ us[u].row = r.row
      BY <3>1, <3>2 DEF UserRow
    <3> QED BY <3>3 DEF UserRecords, UserRow, Free, r
  <2>2. CASE ~(u \in Linked(s, p) \ {except} /\ s.user[u].name = Slug)
    <3>1. us[u] = s.user[u]
      BY <2>2
    <3> QED BY <1>1, <3>1, UserHas DEF WholeRows, Free
  <2> QED BY <2>1, <2>2
<1>4. us \in [UserIds -> UserRecords]
  BY <1>3
<1> HIDE DEF us
<1>5. \A u \in UserIds : Free(s, us[u].pilot)
  BY <1>3
<1>6. WholeRows(t) /\ t.user = us /\ t.pilot = s.pilot /\ t.alias = s.alias
  BY <1>2, <1>4, <1>5, UsersChange
<1> QED BY <1>3, <1>6 DEF UserRows

LEMMA PortalWhole ==
  ASSUME NEW s, WholeRows(s), NEW p, NEW create \in BOOLEAN, create => Exists(s, p) /\ MaxUsers + 1 \notin UserRows(s),
         NEW t, t = Portal(s, p, create)
  PROVE  WholeRows(t) /\ (~create => UserRows(t) = UserRows(s)) /\ t.pilot = s.pilot
<1>1. CASE LinkedUser(s, p) # None \/ ~create
  BY <1>1 DEF Portal
<1>2. CASE ~(LinkedUser(s, p) # None \/ ~create)
  <2>1. t = NewUser(s, Slug, "pilot", p, None) /\ Free(s, p)
    BY <1>2 DEF Portal, Free
  <2> QED BY <1>2, <2>1, NewUserWhole
<1> QED BY <1>1, <1>2

LEMMA EnsuredIs ==
  ASSUME NEW s, WholeRows(s), NEW rows, SameRows(rows, s), NEW p, Exists(s, p)
  PROVE  EnsuredPilot(s, rows, p) # None /\ Exists(s, EnsuredPilot(s, rows, p))
<1>1. p \in PilotIds /\ p # None
  BY IdNames DEF Exists
<1>2. CASE s.pilot[p].email = None
  BY <1>1, <1>2 DEF EnsuredPilot
<1>3. CASE s.pilot[p].email # None
  <2>1. EnsuredPilot(s, rows, p) = Canonical(s, rows, s.pilot[p].email, s.pilot[p].num, p)
    BY <1>3 DEF EnsuredPilot
  <2>2. s.pilot[p].email \in Emails \cup {None}
    BY <1>1, PilotHas DEF WholeRows
  <2> QED BY <1>1, <2>1, <2>2, CanonicalIs
<1> QED BY <1>2, <1>3

LEMMA EnsureWhole ==
  ASSUME NEW s, WholeRows(s), NEW rows, SameRows(rows, s), NEW p \in PilotIds, NEW create \in BOOLEAN,
         create \/ s.pilot[p].email # None => Exists(s, p),
         create => MaxUsers + 1 \notin UserRows(s),
         NEW t, t = Ensure(s, rows, p, create)
  PROVE  WholeRows(t) /\ (~create => UserRows(t) = UserRows(s))
<1>1. PICK e : e = s.pilot[p].email
  OBVIOUS
<1>2. PICK c : c = EnsuredPilot(s, rows, p)
  OBVIOUS
<1>3. PICK m : m = Merge(s, p, c)
  OBVIOUS
<1>4. PICK holder : holder = PilotUser(s, e)
  OBVIOUS
<1>5. PICK linked : linked = LinkedUser(m, c)
  OBVIOUS
<1>6. t = CASE e = None -> Portal(s, p, create)
            [] e # None /\ holder # None -> Retire([m EXCEPT !.user[holder].pilot = c], c, holder)
            [] e # None /\ holder = None /\ linked # None ->
                  IF m.user[linked].name = Slug
                  THEN [m EXCEPT !.user[linked].name = e, !.user[linked].role = "pilot"]
                  ELSE m
            [] OTHER -> IF create THEN NewUser(m, e, "pilot", c, None) ELSE m
  BY <1>1, <1>2, <1>3, <1>4, <1>5 DEF Ensure
<1>7. CASE e = None
  <2>1. t = Portal(s, p, create)
    BY <1>6, <1>7
  <2> QED BY <2>1, PortalWhole
<1>8. CASE e # None
  <2>1. Exists(s, c) /\ c # None
    BY <1>1, <1>2, <1>8, EnsuredIs
  <2>2. WholeRows(m) /\ UserRows(m) = UserRows(s) /\ Exists(m, c) /\ Free(m, c) /\ m \in Databases
    BY <1>3, <2>1, MergeWhole DEF Free, WholeRows
  <2>3. e \in Emails
    BY <1>1, <1>8, PilotHas DEF WholeRows
  <2>4. CASE holder # None
    <3>1. holder \in UserRows(m)
      BY <1>4, <2>2, <2>4, PilotUserIs DEF WholeRows
    <3>2. PICK l : l = WithLink(m, holder, c)
      OBVIOUS
    <3>3. WholeRows(l) /\ UserRows(l) = UserRows(m)
      BY <2>2, <3>1, <3>2, LinkWhole
    <3>4. t = Retire(l, c, holder)
      BY <1>6, <1>8, <2>4, <3>2 DEF WithLink
    <3> QED BY <2>2, <3>3, <3>4, RetireWhole
  <2>5. CASE holder = None /\ linked # None
    <3>1. CASE m.user[linked].name = Slug
      <4>1. linked \in UserRows(m) /\ linked \in UserIds /\ m.user[linked].row
        BY <1>5, <2>5, LinkedUserIs DEF Linked, UserRows
      <4> DEFINE r == [[m.user[linked] EXCEPT !.name = e] EXCEPT !.role = "pilot"]
      <4>2. m.user[linked] \in UserRow
        BY <2>2, <4>1, UserHas DEF UserRow
      <4>3. r \in UserRow /\ r.pilot = m.user[linked].pilot
        BY <2>3, <4>2 DEF UserRow
      <4>4. t = [[m EXCEPT !.user[linked].name = e] EXCEPT !.user[linked].role = "pilot"]
        BY <1>6, <1>8, <2>5, <3>1
      <4>5. [[m EXCEPT !.user[linked].name = e] EXCEPT !.user[linked].role = "pilot"]
              = [m EXCEPT !.user[linked] = r]
        <5>1. m = [user |-> m.user, pilot |-> m.pilot, alias |-> m.alias, entered |-> m.entered]
              /\ m.user = [u \in UserIds |-> m.user[u]]
          BY <2>2, Tables
        <5> QED BY <4>1, <5>1
      <4>6. t = WithUser(m, linked, r)
        BY <4>4, <4>5 DEF WithUser
      <4> HIDE DEF r
      <4>7. Free(m, r.pilot)
        BY <2>2, <4>1, <4>3 DEF WholeRows, Free
      <4>8. WholeRows(t) /\ UserRows(t) = UserRows(m) \cup {linked}
        BY <2>2, <4>1, <4>3, <4>6, <4>7, UserSet
      <4> QED BY <2>2, <4>1, <4>8
    <3>2. CASE m.user[linked].name # Slug
      <4>1. t = m
        BY <1>6, <1>8, <2>5, <3>2
      <4> QED BY <2>2, <4>1
    <3> QED BY <3>1, <3>2
  <2>6. CASE holder = None /\ linked = None
    <3>1. t = IF create THEN NewUser(m, e, "pilot", c, None) ELSE m
      BY <1>6, <1>8, <2>6
    <3>2. CASE create
      <4>1. t = NewUser(m, e, "pilot", c, None) /\ MaxUsers + 1 \notin UserRows(m)
        BY <3>1, <3>2, <2>2
      <4> QED BY <2>2, <2>3, <3>2, <4>1, NewUserWhole
    <3>3. CASE ~create
      BY <2>2, <3>1, <3>3
    <3> QED BY <3>2, <3>3
  <2> QED BY <2>4, <2>5, <2>6
<1> QED BY <1>7, <1>8

LEMMA OwnRows ==
  ASSUME NEW s, WholeRows(s)
  PROVE  SameRows(s.pilot, s)
BY Tables DEF WholeRows, SameRows

\* The address of a record is written.
WithEmail(s, p, e) == [s EXCEPT !.pilot[p].email = e]

LEMMA EmailSet ==
  ASSUME NEW s, WholeRows(s), NEW p, Exists(s, p), NEW e \in Emails \cup {None}, NEW t, t = WithEmail(s, p, e)
  PROVE  /\ WholeRows(t) /\ t.user = s.user /\ t.alias = s.alias /\ t.entered = s.entered
         /\ UserRows(t) = UserRows(s) /\ \A q : Exists(t, q) <=> Exists(s, q)
         /\ SameRows(s.pilot, t)
<1>1. s \in Databases /\ p \in PilotIds /\ s.pilot[p].row
  BY DEF WholeRows, Exists
<1> DEFINE r == [s.pilot[p] EXCEPT !.email = e]
<1>2. s.pilot[p] \in PilotRow
  BY <1>1, PilotHas DEF PilotRow
<1>3. r \in PilotRow /\ r.row = TRUE
  BY <1>2 DEF PilotRow
<1>4. t = WithPilot(s, p, r)
  BY DEF WithEmail, WithPilot
<1> HIDE DEF r
<1>5. /\ WholeRows(t) /\ t.user = s.user /\ t.alias = s.alias /\ t.entered = s.entered
      /\ t.pilot[p] = r /\ \A q \in PilotIds \ {p} : t.pilot[q] = s.pilot[q]
      /\ \A q : Exists(t, q) <=> Exists(s, q) \/ q = p
      /\ UserRows(t) = UserRows(s)
  BY <1>1, <1>3, <1>4, PilotSet
<1>6. SameRows(s.pilot, t)
  <2>1. \A q \in PilotIds : s.pilot[q].row = t.pilot[q].row
    <3> TAKE q \in PilotIds
    <3>1. s.pilot[p].row = TRUE
      BY <1>2 DEF PilotRow
    <3>2. CASE q = p
      BY <3>1, <3>2, <1>3, <1>5
    <3>3. CASE q # p
      BY <3>3, <1>5
    <3> QED BY <3>2, <3>3
  <2> QED BY <1>1, <2>1, Tables DEF SameRows
<1> QED BY <1>5, <1>6

LEMMA RepairUserWhole ==
  ASSUME NEW s, WholeRows(s), NEW u \in UserRows(s), NEW r, r = RepairUser(s, u)
  PROVE  WholeRows(r) /\ UserRows(r) = UserRows(s)
<1> DEFINE e == s.user[u].name
           own == s.user[u].pilot
           p == IF own # None THEN own ELSE Canonical(s, s.pilot, e, None, None)
           t == WithLink(s, u, p)
           c == Canonical(t, s.pilot, e, s.pilot[p].num, p)
           g == Merge(t, p, c)
           m == WithLink(g, u, c)
<1>1. r = IF s.user[u].role # "pilot" \/ e = Slug \/ p = None THEN s
          ELSE Ensure(WithEmail(m, c, e), m.pilot, c, FALSE)
  BY DEF RepairUser, WithLink, WithEmail
<1>2. (own # None => p = own) /\ (own = None => p = Canonical(s, s.pilot, e, None, None))
  OBVIOUS
<1>3. own = s.user[u].pilot /\ e = s.user[u].name
  OBVIOUS
<1>4. t = WithLink(s, u, p)
  OBVIOUS
<1>5. c = Canonical(t, s.pilot, e, s.pilot[p].num, p)
  OBVIOUS
<1>6. g = Merge(t, p, c)
  OBVIOUS
<1>7. m = WithLink(g, u, c)
  OBVIOUS
<1> HIDE DEF e, own, p, t, c, g, m
<1>9. CASE s.user[u].role # "pilot" \/ e = Slug \/ p = None
  BY <1>1, <1>9
<1>10. CASE ~(s.user[u].role # "pilot" \/ e = Slug \/ p = None)
  <2>1. s \in Databases /\ u \in UserIds /\ s.user[u].row
    BY DEF WholeRows, UserRows
  <2>2. e \in Emails /\ e # None
    <3>1. s.user[u] \in UserRow
      BY <2>1, UserHas DEF UserRow
    <3>2. e \in Emails \cup {Slug}
      BY <1>3, <3>1 DEF UserRow
    <3> QED BY <1>10, <3>2, IdNames
  <2>3. Exists(s, p) /\ p \in PilotIds
    <3>1. CASE own # None
      BY <1>2, <1>3, <2>1, <3>1 DEF WholeRows, Exists
    <3>2. CASE own = None
      <4>1. p = Canonical(s, s.pilot, e, None, None) /\ p # None
        BY <1>2, <1>10, <3>2
      <4>2. Exists(s, p)
        BY <2>2, <4>1, OwnRows, CanonicalIs
      <4> QED BY <4>2 DEF Exists
    <3> QED BY <3>1, <3>2
  <2>4. WholeRows(t) /\ t.pilot = s.pilot /\ UserRows(t) = UserRows(s) /\ Exists(t, p)
    BY <1>4, <2>3, LinkWhole DEF Free, Exists
  <2>5. Exists(t, c) /\ c # None /\ c \in PilotIds
    <3>1. SameRows(s.pilot, t) /\ p # None
      BY <1>10, <2>4, OwnRows
    <3> QED BY <1>5, <2>2, <2>4, <3>1, CanonicalIs DEF Exists
  <2>6. WholeRows(g) /\ UserRows(g) = UserRows(s) /\ Exists(g, c)
    BY <1>6, <2>3, <2>4, <2>5, MergeWhole
  <2>7. WholeRows(m) /\ UserRows(m) = UserRows(s) /\ Exists(m, c)
    BY <1>7, <2>6, LinkWhole DEF Free, Exists
  <2>8. PICK l : l = WithEmail(m, c, e)
    OBVIOUS
  <2>9. WholeRows(l) /\ UserRows(l) = UserRows(s) /\ Exists(l, c) /\ SameRows(m.pilot, l)
    BY <2>2, <2>7, <2>8, EmailSet
  <2>10. PICK create \in BOOLEAN : ~create /\ r = Ensure(l, m.pilot, c, create)
    <3>1. r = Ensure(l, m.pilot, c, FALSE)
      BY <1>1, <1>10, <2>8
    <3> QED BY <3>1
  <2> QED BY <2>5, <2>9, <2>10, EnsureWhole
<1> QED BY <1>9, <1>10

-----------------------------------------------------------------------------
(* One after the other.                                                    *)

\* f takes n steps from s.
RequestSteps(f, n, S, s, G) == f \in [0..n -> S] /\ f[0] = s /\ \A k \in 1..n : f[k] = G[k][f[k - 1]]

\* RequestSteps from a set into itself can be taken one after the other.
LEMMA StepsExist ==
  ASSUME NEW n \in Nat, NEW S, NEW s \in S, NEW G \in [1..n -> [S -> S]]
  PROVE  \E f : RequestSteps(f, n, S, s, G)
<1> DEFINE Upto(m, f) == f \in [0..m -> S] /\ f[0] = s /\ \A k \in 1..m : f[k] = G[k][f[k - 1]]
           T == {m \in 0..n : \E f : Upto(m, f)}
<1>1. 0 \in T
  <2>1. PICK f : f = [k \in 0..0 |-> s]
    OBVIOUS
  <2>2. Upto(0, f)
    BY <2>1
  <2> QED BY <2>2
<1>2. ASSUME NEW k \in 1..n, k - 1 \in T PROVE k \in T
  <2>1. PICK f : Upto(k - 1, f)
    BY <1>2
  <2> DEFINE h == [j \in 0..k |-> IF j = k THEN G[k][f[k - 1]] ELSE f[j]]
  <2>2. f[k - 1] \in S
    BY <2>1
  <2>3. G[k][f[k - 1]] \in S
    BY <2>2
  <2>4. \A j \in 0..k : j # k => j \in 0..k - 1
    OBVIOUS
  <2>5. \A j \in 0..k : h[j] = IF j = k THEN G[k][f[k - 1]] ELSE f[j]
    OBVIOUS
  <2>6. h \in [0..k -> S]
    BY <2>1, <2>3, <2>4
  <2> HIDE DEF h
  <2>7. h[0] = s
    BY <2>1, <2>5
  <2>8. ASSUME NEW j \in 1..k PROVE h[j] = G[j][h[j - 1]]
    <3>1. h[j - 1] = f[j - 1]
      BY <2>5
    <3>2. CASE j = k
      BY <2>5, <3>1, <3>2
    <3>3. CASE j # k
      <4>1. j \in 1..k - 1
        BY <3>3
      <4> QED BY <2>1, <2>5, <3>1, <3>3, <4>1
    <3> QED BY <3>2, <3>3
  <2>9. Upto(k, h)
    BY <2>6, <2>7, <2>8
  <2> QED BY <2>9
<1>3. 0..n \subseteq T
  <2> HIDE DEF T
  <2> QED BY <1>1, <1>2, CountUp
<1>4. n \in T
  BY <1>3
<1> QED BY <1>4 DEF RequestSteps

LEMMA MergedWhole ==
  ASSUME NEW s, WholeRows(s), NEW e, NEW p, Exists(s, p)
  PROVE  WholeRows(AllMerged(s, e, p)) /\ UserRows(AllMerged(s, e, p)) = UserRows(s) /\ Exists(AllMerged(s, e, p), p)
<1> DEFINE S == {x \in Databases : WholeRows(x) /\ UserRows(x) = UserRows(s) /\ Exists(x, p)}
           M == Mailed(s, e)
           Step(k, x) == IF k \in M THEN Merge(x, k, p) ELSE x
           G == [k \in 1..MaxPilots |-> [x \in S |-> Step(k, x)]]
           All(f) == f = [q \in 0..MaxPilots |-> IF q = 0 THEN s
                                                 ELSE IF q \in M THEN Merge(f[q - 1], q, p) ELSE f[q - 1]]
<1>1. s \in S
  BY DEF WholeRows
<1>2. ASSUME NEW k \in 1..MaxPilots, NEW x \in S PROVE Step(k, x) \in S
  <2>1. CASE k \in M
    <3>1. k \in PilotIds
      BY <2>1 DEF Mailed, PilotRows
    <3>2. PICK m : m = Merge(x, k, p)
      OBVIOUS
    <3>3. WholeRows(m) /\ UserRows(m) = UserRows(x) /\ Exists(m, p)
      BY <3>1, <3>2, MergeWhole
    <3> QED BY <2>1, <3>2, <3>3 DEF WholeRows
  <2>2. CASE k \notin M
    BY <2>2
  <2> QED BY <2>1, <2>2
<1>3. MaxPilots \in Nat
  BY IdAssumption
<1> HIDE DEF S, M
<1>4. G \in [1..MaxPilots -> [S -> S]]
  BY <1>2
<1>5. PICK f \in [0..MaxPilots -> S] : f[0] = s /\ \A k \in 1..MaxPilots : f[k] = G[k][f[k - 1]]
  <2> HIDE DEF G
  <2>1. PICK f : RequestSteps(f, MaxPilots, S, s, G)
    BY <1>1, <1>3, <1>4, StepsExist
  <2> QED BY <2>1 DEF RequestSteps
<1>6. All(f)
  <2>1. \A k \in 1..MaxPilots : f[k - 1] \in S
    BY <1>3, <1>5
  <2>2. \A k \in 1..MaxPilots : f[k] = IF k \in M THEN Merge(f[k - 1], k, p) ELSE f[k - 1]
    BY <1>5, <2>1
  <2> QED BY <1>3, <1>5, <2>2
<1> DEFINE h == CHOOSE x : All(x)
<1>7. All(h)
  BY <1>6, Zenon
<1>8. AllMerged(s, e, p) = h[MaxPilots]
  BY DEF AllMerged, M
<1> HIDE DEF h
<1> DEFINE T == {q \in 0..MaxPilots : h[q] \in S}
<1>9. 0 \in T
  BY <1>1, <1>3, <1>7
<1>10. ASSUME NEW k \in 1..MaxPilots, k - 1 \in T PROVE k \in T
  <2>1. h[k] = Step(k, h[k - 1])
    <3>1. k \in 0..MaxPilots /\ k # 0
      BY <1>3
    <3> QED BY <1>7, <3>1
  <2> QED BY <1>2, <1>10, <2>1
<1>11. 0..MaxPilots \subseteq T
  <2> HIDE DEF T
  <2> QED BY <1>3, <1>9, <1>10, CountUp
<1>12. h[MaxPilots] \in S
  BY <1>3, <1>11
<1> QED BY <1>8, <1>12 DEF S

LEMMA AccountsRepairedWhole ==
  ASSUME NEW s, WholeRows(s)
  PROVE  WholeRows(AccountsRepaired(s)) /\ UserRows(AccountsRepaired(s)) = UserRows(s)
<1> DEFINE S == {x \in Databases : WholeRows(x) /\ UserRows(x) = UserRows(s)}
           M == {u \in UserRows(s) : s.user[u].role = "pilot" /\ s.user[u].active}
           Step(k, x) == IF k \in M THEN RepairUser(x, k) ELSE x
           G == [k \in 1..MaxUsers |-> [x \in S |-> Step(k, x)]]
           All(f) == f = [q \in 0..MaxUsers |-> IF q = 0 THEN s ELSE Step(q, f[q - 1])]
<1>1. s \in S
  BY DEF WholeRows
<1>2. ASSUME NEW k \in 1..MaxUsers, NEW x \in S PROVE Step(k, x) \in S
  <2>1. CASE k \in M
    <3>1. k \in UserRows(x)
      BY <2>1
    <3>2. PICK m : m = RepairUser(x, k)
      OBVIOUS
    <3>3. WholeRows(m) /\ UserRows(m) = UserRows(x)
      BY <3>1, <3>2, RepairUserWhole
    <3> QED BY <2>1, <3>2, <3>3 DEF WholeRows
  <2>2. CASE k \notin M
    BY <2>2
  <2> QED BY <2>1, <2>2
<1>3. MaxUsers \in Nat
  BY IdAssumption
<1> HIDE DEF S, M
<1>4. G \in [1..MaxUsers -> [S -> S]]
  BY <1>2
<1>5. PICK f \in [0..MaxUsers -> S] : f[0] = s /\ \A k \in 1..MaxUsers : f[k] = G[k][f[k - 1]]
  <2> HIDE DEF G
  <2>1. PICK f : RequestSteps(f, MaxUsers, S, s, G)
    BY <1>1, <1>3, <1>4, StepsExist
  <2> QED BY <2>1 DEF RequestSteps
<1>6. All(f)
  <2>1. \A k \in 1..MaxUsers : f[k - 1] \in S
    BY <1>3, <1>5
  <2>2. \A k \in 1..MaxUsers : f[k] = Step(k, f[k - 1])
    BY <1>5, <2>1
  <2> HIDE DEF Step
  <2> QED BY <1>3, <1>5, <2>2
<1> DEFINE h == CHOOSE x : All(x)
<1>7. All(h)
  BY <1>6, Zenon
<1>8. AccountsRepaired(s) = h[MaxUsers]
  BY DEF AccountsRepaired, M
<1> HIDE DEF h, Step
<1> DEFINE T == {q \in 0..MaxUsers : h[q] \in S}
<1>9. 0 \in T
  BY <1>1, <1>3, <1>7
<1>10. ASSUME NEW k \in 1..MaxUsers, k - 1 \in T PROVE k \in T
  <2>1. h[k] = Step(k, h[k - 1])
    <3>1. k \in 0..MaxUsers /\ k # 0
      BY <1>3
    <3> QED BY <1>7, <3>1
  <2> QED BY <1>2, <1>10, <2>1
<1>11. 0..MaxUsers \subseteq T
  <2> HIDE DEF T
  <2> QED BY <1>3, <1>9, <1>10, CountUp
<1>12. h[MaxUsers] \in S
  BY <1>3, <1>11
<1> QED BY <1>8, <1>12 DEF S

LEMMA RecordsUnifiedWhole ==
  ASSUME NEW s, WholeRows(s)
  PROVE  WholeRows(RecordsUnified(s))
<1> DEFINE S == {x \in Databases : WholeRows(x)}
           M(k, x) == s.pilot[k].email = None \/ PilotUser(x, s.pilot[k].email) = None
           Step(k, x) == IF M(k, x) THEN x ELSE Ensure(x, x.pilot, k, FALSE)
           G == [k \in 1..MaxPilots |-> [x \in S |-> Step(k, x)]]
           All(f) == f = [q \in 0..MaxPilots |-> IF q = 0 THEN s ELSE Step(q, f[q - 1])]
<1>1. s \in S
  BY DEF WholeRows
<1>2. ASSUME NEW k \in 1..MaxPilots, NEW x \in S PROVE Step(k, x) \in S
  <2>1. CASE ~M(k, x)
    <3>1. k \in PilotIds
      BY IdAssumption DEF PilotIds
    <3>2. PICK create \in BOOLEAN : ~create /\ \E m : m = Ensure(x, x.pilot, k, create) /\ m = Ensure(x, x.pilot, k, FALSE)
      OBVIOUS
    <3>2a. PICK m : ~create /\ m = Ensure(x, x.pilot, k, create) /\ m = Ensure(x, x.pilot, k, FALSE)
      BY <3>2
    <3>3. create \/ x.pilot[k].email # None => Exists(x, k)
      <4>1. NoPilot.email = None
        BY DEF NoPilot
      <4> QED BY <3>1, <3>2a, <4>1, PilotHas DEF Exists
    <3>4. WholeRows(m)
      BY <3>1, <3>2a, <3>3, OwnRows, EnsureWhole
    <3>5. Step(k, x) = m
      BY <2>1, <3>2a
    <3> QED BY <3>4, <3>5 DEF WholeRows
  <2>2. CASE M(k, x)
    BY <2>2
  <2> QED BY <2>1, <2>2
<1>3. MaxPilots \in Nat
  BY IdAssumption
<1> HIDE DEF S, M
<1>4. G \in [1..MaxPilots -> [S -> S]]
  BY <1>2
<1>5. PICK f \in [0..MaxPilots -> S] : f[0] = s /\ \A k \in 1..MaxPilots : f[k] = G[k][f[k - 1]]
  <2> HIDE DEF G
  <2>1. PICK f : RequestSteps(f, MaxPilots, S, s, G)
    BY <1>1, <1>3, <1>4, StepsExist
  <2> QED BY <2>1 DEF RequestSteps
<1>6. All(f)
  <2>1. \A k \in 1..MaxPilots : f[k - 1] \in S
    BY <1>3, <1>5
  <2>2. \A k \in 1..MaxPilots : f[k] = Step(k, f[k - 1])
    BY <1>5, <2>1
  <2> HIDE DEF Step
  <2> QED BY <1>3, <1>5, <2>2
<1> DEFINE h == CHOOSE x : All(x)
<1>7. All(h)
  BY <1>6, Zenon
<1>8. RecordsUnified(s) = h[MaxPilots]
  BY DEF RecordsUnified, M
<1> HIDE DEF h, Step
<1> DEFINE T == {q \in 0..MaxPilots : h[q] \in S}
<1>9. 0 \in T
  BY <1>1, <1>3, <1>7
<1>10. ASSUME NEW k \in 1..MaxPilots, k - 1 \in T PROVE k \in T
  <2>1. h[k] = Step(k, h[k - 1])
    <3>1. k \in 0..MaxPilots /\ k # 0
      BY <1>3
    <3> QED BY <1>7, <3>1
  <2> QED BY <1>2, <1>10, <2>1
<1>11. 0..MaxPilots \subseteq T
  <2> HIDE DEF T
  <2> QED BY <1>3, <1>9, <1>10, CountUp
<1>12. h[MaxPilots] \in S
  BY <1>3, <1>11
<1> QED BY <1>8, <1>12 DEF S

-----------------------------------------------------------------------------
(* What the requests write.                                                *)

Room(s) == MaxUsers + 1 \notin UserRows(s) /\ MaxPilots + 1 \notin PilotRows(s)

LEMMA MailedExist ==
  ASSUME NEW s, NEW e
  PROVE  Mailed(s, e) \subseteq PilotIds /\ \A p \in Mailed(s, e) : Exists(s, p)
BY DEF Mailed, PilotRows, Exists

LEMMA RepairAliasWhole ==
  ASSUME NEW s, WholeRows(s), NEW u \in UserRows(s), NEW e, NEW r, r = RepairAlias(s, u, e)
  PROVE  WholeRows(r)
<1> DEFINE p == AliasTarget(s, u, e)
           name == s.user[u].name
           g == AllMerged(s, e, p)
           l == WithLink(g, u, p)
           x == IF name = Slug THEN l.pilot[p].email ELSE name
<1>1. CASE s.user[u].role # "pilot" \/ p = None
  BY <1>1 DEF RepairAlias
<1>2. CASE ~(s.user[u].role # "pilot" \/ p = None)
  <2>1. r = WithEmail(l, p, x)
    BY <1>2 DEF RepairAlias, WithEmail, WithLink
  <2>2. u \in UserIds /\ s.user[u].row /\ s \in Databases
    BY DEF UserRows, WholeRows
  <2>3. Exists(s, p)
    <3>1. CASE s.user[u].pilot # None
      BY <2>2, <3>1 DEF AliasTarget, WholeRows
    <3>2. CASE s.user[u].pilot = None
      <4>1. p = Best(s, Mailed(s, e), None)
        BY <3>2 DEF AliasTarget
      <4>2. Mailed(s, e) # {}
        BY <1>2, <2>2, <4>1, MailedExist, BestIs
      <4> QED BY <2>2, <4>1, <4>2, MailedExist, BestIs
    <3> QED BY <3>1, <3>2
  <2>4. name \in Emails \cup {Slug}
    <3>1. s.user[u] \in UserRow
      BY <2>2, UserHas DEF UserRow
    <3> QED BY <3>1 DEF UserRow
  <2> HIDE DEF p, name
  <2>5. WholeRows(g) /\ UserRows(g) = UserRows(s) /\ Exists(g, p)
    BY <2>3, MergedWhole
  <2> HIDE DEF g
  <2>6. WholeRows(l) /\ Exists(l, p)
    BY <2>5, LinkWhole DEF Free, Exists
  <2> HIDE DEF l
  <2>7. x \in Emails \cup {None}
    BY <2>4, <2>6, PilotHas DEF WholeRows, Exists
  <2> HIDE DEF x
  <2> QED BY <2>1, <2>6, <2>7, EmailSet
<1> QED BY <1>1, <1>2

LEMMA NewPilotWhole ==
  ASSUME NEW s, WholeRows(s), Room(s), NEW e \in Emails \cup {None}, NEW num \in Numbers \cup {None},
         NEW t, t = NewPilot(s, e, num)
  PROVE  WholeRows(t) /\ Exists(t, NextId(PilotRows(s))) /\ t.user = s.user /\ UserRows(t) = UserRows(s)
<1> DEFINE r == [row |-> TRUE, email |-> e, num |-> num]
<1>1. r \in PilotRow
  BY DEF PilotRow
<1>2. PICK p : p = NextId(PilotRows(s))
  OBVIOUS
<1>3. p \in PilotIds
  BY <1>2, NextPilot DEF PilotRows, Room
<1>4. t = WithPilot(s, p, r)
  BY <1>2 DEF NewPilot, WithPilot
<1> HIDE DEF r
<1> QED BY <1>1, <1>2, <1>3, <1>4, PilotSet

\* The record a request finds or makes.
LEMMA FoundIs ==
  ASSUME NEW s, WholeRows(s), Room(s), NEW e \in Emails \cup {None}, NEW num, NEW found,
         found = Canonical(s, s.pilot, e, num, None), NEW p, p = IF found # None THEN found ELSE NextId(PilotRows(s))
  PROVE  p \in PilotIds /\ (found # None => Exists(s, p))
<1>1. found # None => Exists(s, found)
  BY OwnRows, CanonicalIs
<1>2. NextId(PilotRows(s)) \in PilotIds
  BY NextPilot DEF PilotRows, Room
<1> QED BY <1>1, <1>2 DEF Exists

LEMMA WithEntryWhole ==
  ASSUME NEW s, WholeRows(s), Room(s), NEW e \in Emails \cup {None}, NEW num \in Numbers \cup {None}, NEW ev \in Events
  PROVE  WholeRows(WithEntry(s, e, num, ev))
<1> DEFINE found == Canonical(s, s.pilot, e, num, None)
           p == IF found # None THEN found ELSE NextId(PilotRows(s))
           r == [row |-> TRUE, email |-> e, num |-> num]
           t == WithPilot(s, p, r)
           c == EnsuredPilot(t, t.pilot, p)
           g == Ensure(t, t.pilot, p, TRUE)
           v == g.entered[c] \cup {ev}
<1>1. WithEntry(s, e, num, ev) = WithEvents(g, c, v)
  BY DEF WithEntry, WithPilot, WithEvents
<1>2. p \in PilotIds
  BY FoundIs
<1>3. r \in PilotRow
  BY DEF PilotRow
<1> HIDE DEF p, r
<1>4. WholeRows(t) /\ Exists(t, p) /\ UserRows(t) = UserRows(s)
  BY <1>2, <1>3, PilotSet
<1> HIDE DEF t
<1>5. c \in PilotIds
  BY <1>4, OwnRows, EnsuredIs DEF Exists
<1>6. PICK create \in BOOLEAN : create /\ g = Ensure(t, t.pilot, p, create)
  OBVIOUS
<1> HIDE DEF g, c
<1>7. WholeRows(g)
  BY <1>2, <1>4, <1>6, OwnRows, EnsureWhole DEF Room
<1>8. v \subseteq Events
  BY <1>5, <1>7, PilotHas DEF WholeRows
<1> HIDE DEF v
<1> QED BY <1>1, <1>5, <1>7, <1>8, EventsSet

LEMMA AdoptWhole ==
  ASSUME NEW s, WholeRows(s), MaxUsers + 1 \notin UserRows(s), NEW p, Exists(s, p), NEW e \in Emails, NEW role \in {"pilot", "organizer"},
         NEW google \in Emails \cup {None}, NEW t \in Adopt(s, p, e, role, google),
         \A u \in UserRows(s) : s.user[u].name = e => ~s.user[u].active
  PROVE  WholeRows(t) /\ \E v \in UserRows(t) : t.user[v] # s.user[v]
<1> DEFINE linked == {u \in UserRows(s) : s.user[u].pilot = p}
<1>1. p # None /\ Free(s, p)
  BY IdNames DEF Exists, Free
<1>2. CASE linked = {}
  <2>1. t = NewUser(s, e, role, p, google)
    BY <1>2 DEF Adopt
  <2>2. PICK n : n = NextId(UserRows(s))
    OBVIOUS
  <2>3. WholeRows(t) /\ UserRows(t) = UserRows(s) \cup {n} /\ n \in UserIds \ UserRows(s)
    BY <1>1, <2>1, <2>2, NewUserWhole DEF Room
  <2>4. t.user[n].row # s.user[n].row
    BY <2>3 DEF UserRows
  <2> QED BY <2>3, <2>4
<1>3. CASE linked # {}
  <2>1. PICK u \in linked : t = [s EXCEPT !.user[u].name = e, !.user[u].active = TRUE, !.user[u].google = Or(google, @)]
    BY <1>1, <1>3 DEF Adopt
  <2>2. s \in Databases /\ u \in UserIds /\ u \in UserRows(s) /\ s.user[u].row
    BY DEF WholeRows, UserRows
  <2> DEFINE o == s.user[u]
             r == [[[o EXCEPT !.name = e] EXCEPT !.active = TRUE] EXCEPT !.google = Or(google, o.google)]
  <2>3. o \in UserRow
    BY <2>2, UserHas DEF UserRow
  <2>4. r \in UserRow /\ r.name = e /\ r.active = TRUE /\ r.pilot = o.pilot
    <3>1. Or(google, o.google) \in Emails \cup {None}
      BY <2>3 DEF Or, UserRow
    <3> QED BY <2>3, <3>1 DEF UserRow
  <2>5. t = WithUser(s, u, r)
    <3>1. s = [user |-> s.user, pilot |-> s.pilot, alias |-> s.alias, entered |-> s.entered]
          /\ s.user = [x \in UserIds |-> s.user[x]]
      BY <2>2, Tables
    <3> DEFINE a == [s EXCEPT !.user[u].name = e]
               b == [a EXCEPT !.user[u].active = TRUE]
    <3>2. t = [b EXCEPT !.user[u].google = Or(google, @)]
      BY <2>1, Zenon
    <3>3. a = [s EXCEPT !.user[u] = [o EXCEPT !.name = e]]
      OBVIOUS
    <3>4. b = [s EXCEPT !.user[u] = [[o EXCEPT !.name = e] EXCEPT !.active = TRUE]]
      BY <2>2, <3>1, <3>3
    <3>5. b.user[u].google = o.google
      BY <2>2, <2>3, <3>1, <3>4 DEF UserRow
    <3>6. [b EXCEPT !.user[u].google = Or(google, @)] = [s EXCEPT !.user[u] = r]
      <4> DEFINE q == [[o EXCEPT !.name = e] EXCEPT !.active = TRUE]
                 x == Or(google, o.google)
      <4>1. [b EXCEPT !.user[u].google = Or(google, @)] = [b EXCEPT !.user[u].google = x]
        BY <3>5
      <4>2. b = [s EXCEPT !.user[u] = q]
        BY <3>4
      <4> HIDE DEF q, x, b
      <4>3. [b EXCEPT !.user[u].google = x] = [s EXCEPT !.user[u] = [q EXCEPT !.google = x]]
        BY <2>2, <3>1, <4>2
      <4> QED BY <4>1, <4>3 DEF q, x
    <3> QED BY <3>2, <3>6 DEF WithUser
  <2>6. Free(s, r.pilot)
    BY <2>2, <2>4 DEF WholeRows, Free
  <2> HIDE DEF r
  <2>7. WholeRows(t) /\ t.user[u] = r /\ UserRows(t) = UserRows(s) \cup {u}
    BY <2>2, <2>4, <2>5, <2>6, UserSet
  <2>8. t.user[u] # s.user[u]
    BY <2>2, <2>4, <2>7
  <2> QED BY <2>7, <2>8
<1> QED BY <1>2, <1>3

\* Links are whole, and there is room for the next account and record.
IdInv == WholeRows(Db) /\ Room(Db) /\ requests \in 0..MaxRequests

LEMMA CommitKeepsLinks ==
  ASSUME IdInv, NEW s, WholeRows(s), IdCommit(s)
  PROVE  IdInv'
<1>1. s = [user |-> s.user, pilot |-> s.pilot, alias |-> s.alias, entered |-> s.entered]
  BY Tables DEF WholeRows
<1>2. Db' = s
  BY <1>1 DEF IdCommit, Db
<1>3. Room(s)
  BY DEF IdCommit, Legal, Room
<1>4. requests' \in 0..MaxRequests
  BY IdAssumption DEF IdInv, IdCommit
<1>5. WholeRows(Db')
  BY <1>2
<1>6. Room(Db')
  BY <1>2, <1>3
<1> QED BY <1>4, <1>5, <1>6 DEF IdInv

LEMMA IdInitHolds == IdInit => IdInv
<1> SUFFICES ASSUME IdInit PROVE IdInv
  OBVIOUS
<1>1. PICK e \in Emails \cup {None}, num \in Numbers \cup {None}, ev \in Events :
         LET s == WithEntry(Empty, e, num, ev)
         IN  Legal(s) /\ users = s.user /\ pilots = s.pilot /\ alias = s.alias /\ entered = s.entered /\ requests = 0
  BY DEF IdInit
<1>2. PICK s : s = WithEntry(Empty, e, num, ev)
  OBVIOUS
<1>3. WholeRows(Empty)
  <2>1. Empty \in Databases
    BY DEF Empty, Databases, UserRecords, PilotRecords
  <2>2. \A u \in UserIds : Empty.user[u].pilot = None
    BY DEF Empty, NoUser
  <2> QED BY <2>1, <2>2 DEF WholeRows
<1>4. Room(Empty)
  BY DEF Room, UserRows, PilotRows, Empty, NoUser, NoPilot
<1>5. WholeRows(s)
  BY <1>2, <1>3, <1>4, WithEntryWhole
<1>6. s = [user |-> s.user, pilot |-> s.pilot, alias |-> s.alias, entered |-> s.entered]
  BY <1>5, Tables DEF WholeRows
<1>7. Db = s /\ Legal(s) /\ requests = 0
  BY <1>1, <1>2, <1>6 DEF Db
<1>8. WholeRows(Db)
  BY <1>5, <1>7
<1>9. Room(Db)
  BY <1>7 DEF Legal, Room
<1> QED BY <1>7, <1>8, <1>9, IdAssumption DEF IdInv

LEMMA DbIs ==
  ASSUME IdInv, NEW d, d = Db
  PROVE  WholeRows(d) /\ Room(d) /\ d.user = users /\ d.pilot = pilots /\ d.alias = alias /\ d.entered = entered
BY DEF IdInv, Db

LEMMA LoginKeeps ==
  ASSUME IdInv, NEW u \in UserIds, Login(u)
  PROVE  IdInv'
<1>1. PICK d : d = Db
  OBVIOUS
<1>2. WholeRows(d) /\ d.user = users
  BY <1>1, DbIs
<1>3. PICK s : s = RepairUser(d, u)
  OBVIOUS
<1>4. u \in UserRows(d)
  BY <1>2 DEF Login, SignedIn, UserRows
<1>5. WholeRows(s)
  BY <1>2, <1>3, <1>4, RepairUserWhole
<1>6. IdCommit(s)
  BY <1>1, <1>3 DEF Login
<1> QED BY <1>5, <1>6, CommitKeepsLinks

LEMMA DeleteKeepsLinks ==
  ASSUME IdInv, NEW u \in UserIds, DeleteUser(u)
  PROVE  IdInv'
<1>1. PICK d : d = Db
  OBVIOUS
<1>2. WholeRows(d) /\ d \in Databases /\ d.alias = alias
  BY <1>1, DbIs DEF WholeRows
<1>3. PICK al : al = [e \in Emails |-> IF alias[e] = u THEN None ELSE alias[e]]
  OBVIOUS
<1>4. PICK us : us = [d.user EXCEPT ![u] = NoUser]
  OBVIOUS
<1>5. PICK s : s = [[d EXCEPT !.user[u] = NoUser] EXCEPT !.alias = al]
  OBVIOUS
<1>6. IdCommit(s)
  BY <1>1, <1>3, <1>5 DEF DeleteUser
<1>7. s = [user |-> us, pilot |-> d.pilot, alias |-> al, entered |-> d.entered]
  <2>1. d = [user |-> d.user, pilot |-> d.pilot, alias |-> d.alias, entered |-> d.entered]
    BY <1>2, Tables
  <2> QED BY <1>4, <1>5, <2>1
<1>8. al \in [Emails -> UserIds \cup {None}]
  BY <1>2, <1>3, AliasHas
<1>9. us \in [UserIds -> UserRecords] /\ us[u] = NoUser /\ \A v \in UserIds \ {u} : us[v] = d.user[v]
  BY <1>2, <1>4, Tables DEF UserRecords
<1>10. s \in Databases
  BY <1>2, <1>7, <1>8, <1>9, Tables DEF Databases
<1>11. ASSUME NEW v \in UserIds, s.user[v].pilot # None PROVE Exists(s, s.user[v].pilot)
  <2>1. v # u
    BY <1>7, <1>9, <1>11 DEF NoUser
  <2> QED BY <1>2, <1>7, <1>9, <1>11, <2>1 DEF WholeRows, Exists
<1> QED BY <1>6, <1>10, <1>11, CommitKeepsLinks DEF WholeRows

\* A request that writes one account's row.
LEMMA RowKeeps ==
  ASSUME IdInv, NEW u \in UserIds, NEW r \in UserRow, NEW d, d = Db, Free(d, r.pilot), IdCommit(WithUser(d, u, r))
  PROVE  IdInv'
<1>1. WholeRows(d)
  BY DbIs
<1>2. PICK s : s = WithUser(d, u, r)
  OBVIOUS
<1>3. WholeRows(s)
  BY <1>1, <1>2, UserSet
<1> QED BY <1>2, <1>3, CommitKeepsLinks

LEMMA AdminKeeps ==
  ASSUME IdInv, NEW u \in UserIds
  PROVE  /\ \A role \in {"pilot", "organizer"}, active \in BOOLEAN : AdminUpdate(u, role, active) => IdInv'
         /\ \A name \in Emails \cup {Slug} : SetUsername(u, name) => IdInv'
<1>1. PICK d : d = Db
  OBVIOUS
<1>2. WholeRows(d) /\ d \in Databases /\ d.user = users
  BY <1>1, DbIs DEF WholeRows
<1>3. d = [user |-> d.user, pilot |-> d.pilot, alias |-> d.alias, entered |-> d.entered]
      /\ d.user = [v \in UserIds |-> d.user[v]]
  BY <1>2, Tables
<1>4. users[u].row => d.user[u] \in UserRow /\ Free(d, d.user[u].pilot)
  BY <1>2, UserHas DEF UserRow, WholeRows, Free
<1>5. ASSUME NEW role \in {"pilot", "organizer"}, NEW active \in BOOLEAN, AdminUpdate(u, role, active) PROVE IdInv'
  <2>1. PICK r : r = [[d.user[u] EXCEPT !.role = role] EXCEPT !.active = active]
    OBVIOUS
  <2>2. r \in UserRow /\ r.pilot = d.user[u].pilot
    BY <1>4, <1>5, <2>1 DEF UserRow, AdminUpdate
  <2>3. [[d EXCEPT !.user[u].role = role] EXCEPT !.user[u].active = active] = WithUser(d, u, r)
    BY <1>3, <2>1 DEF WithUser
  <2>4. IdCommit(WithUser(d, u, r))
    BY <1>1, <1>5, <2>3 DEF AdminUpdate
  <2> QED BY <1>1, <1>4, <1>5, <2>2, <2>4, RowKeeps DEF AdminUpdate
<1>6. ASSUME NEW name \in Emails \cup {Slug}, SetUsername(u, name) PROVE IdInv'
  <2>1. PICK r : r = [d.user[u] EXCEPT !.name = name]
    OBVIOUS
  <2>2. r \in UserRow /\ r.pilot = d.user[u].pilot
    BY <1>4, <1>6, <2>1 DEF UserRow, SetUsername
  <2>3. [d EXCEPT !.user[u].name = name] = WithUser(d, u, r)
    BY <2>1 DEF WithUser
  <2>4. IdCommit(WithUser(d, u, r))
    BY <1>1, <1>6, <2>3 DEF SetUsername
  <2> QED BY <1>1, <1>4, <1>6, <2>2, <2>4, RowKeeps DEF SetUsername
<1> QED BY <1>5, <1>6

WithAlias(s, e, x) == [s EXCEPT !.alias[e] = x]

LEMMA AliasSet ==
  ASSUME NEW s, WholeRows(s), NEW e \in Emails, NEW x \in UserIds \cup {None}, NEW t, t = WithAlias(s, e, x)
  PROVE  WholeRows(t) /\ t.user = s.user /\ t.pilot = s.pilot /\ t.entered = s.entered /\ UserRows(t) = UserRows(s)
<1>1. s \in Databases
  BY DEF WholeRows
<1> DEFINE al == [s.alias EXCEPT ![e] = x]
<1>2. t.user = s.user /\ t.pilot = s.pilot /\ t.entered = s.entered
      /\ t = [user |-> s.user, pilot |-> s.pilot, alias |-> al, entered |-> s.entered]
  <2>1. s = [user |-> s.user, pilot |-> s.pilot, alias |-> s.alias, entered |-> s.entered]
    BY <1>1, Tables
  <2> QED BY <2>1 DEF WithAlias
<1>3. al \in [Emails -> UserIds \cup {None}]
  BY <1>1, Tables
<1> HIDE DEF al
<1>4. t \in Databases
  BY <1>1, <1>2, <1>3, Tables DEF Databases
<1> QED BY <1>2, <1>4 DEF WholeRows, Exists, UserRows

LEMMA FreeAddress ==
  ASSUME NEW d, d = Db, WholeRows(d), NEW e \in Emails, AddressFree(e, None)
  PROVE  \A v \in UserRows(d) : d.user[v].name = e => ~d.user[v].active
<1>1. LoginUser(d, e) = None
  BY DEF AddressFree
<1> QED BY <1>1, LoginUserIs DEF WholeRows

LEMMA RegisterKeepsLinks ==
  ASSUME IdInv, NEW e \in Emails, NEW role \in {"pilot", "organizer"}, NEW num \in Numbers \cup {None},
         Register(e, role, num)
  PROVE  IdInv'
<1>1. PICK d : d = Db
  OBVIOUS
<1>2. WholeRows(d) /\ Room(d) /\ d \in Databases /\ d.pilot = pilots
  BY <1>1, DbIs DEF WholeRows
<1>3. \A u \in UserRows(d) : d.user[u].name = e => ~d.user[u].active
  BY <1>1, <1>2, FreeAddress DEF Register
<1>4. CASE role = "organizer"
  <2>1. PICK s, p, g : p = None /\ g = None /\ s = NewUser(d, e, role, p, g)
    OBVIOUS
  <2>2. WholeRows(s)
    BY <1>2, <2>1, NewUserWhole DEF Free, Room
  <2>3. IdCommit(s)
    BY <1>1, <1>4, <2>1 DEF Register
  <2> QED BY <2>2, <2>3, CommitKeepsLinks
<1>5. CASE role # "organizer"
  <2>1. PICK found : found = Canonical(d, d.pilot, e, num, None)
    OBVIOUS
  <2>2. PICK p : p = IF found # None THEN found ELSE NextId(PilotRows(d))
    OBVIOUS
  <2>3. PICK s : s = IF found = None THEN NewPilot(d, e, num)
                     ELSE [d EXCEPT !.pilot[p].email = e, !.pilot[p].num = Or(num, @)]
    OBVIOUS
  <2>4. PICK t \in Adopt(s, p, e, role, None) : IdCommit(t)
    BY <1>1, <1>2, <1>5, <2>1, <2>2, <2>3 DEF Register
  <2>5. p \in PilotIds /\ (found # None => Exists(d, p))
    BY <1>2, <2>1, <2>2, FoundIs
  <2>6. WholeRows(s) /\ Exists(s, p) /\ s.user = d.user /\ UserRows(s) = UserRows(d)
    <3>1. CASE found = None
      BY <1>2, <2>2, <2>3, <3>1, NewPilotWhole
    <3>2. CASE found # None
      <4>1. d.pilot[p] \in PilotRow
        BY <1>2, <2>5, <3>2, PilotHas DEF PilotRow, Exists
      <4> DEFINE r == [[d.pilot[p] EXCEPT !.email = e] EXCEPT !.num = Or(num, d.pilot[p].num)]
      <4>2. r \in PilotRow
        BY <4>1 DEF PilotRow, Or
      <4>3. s = WithPilot(d, p, r)
        <5>1. d = [user |-> d.user, pilot |-> d.pilot, alias |-> d.alias, entered |-> d.entered]
              /\ d.pilot = [q \in PilotIds |-> d.pilot[q]]
          BY <1>2, Tables
        <5> DEFINE o == [d.pilot[p] EXCEPT !.email = e]
                   b == [d EXCEPT !.pilot[p] = o]
        <5>2. s = [b EXCEPT !.pilot[p].num = Or(num, @)]
          BY <2>3, <3>2
        <5>3. o.num = d.pilot[p].num
          BY <4>1 DEF PilotRow
        <5>4. b.pilot[p].num = o.num
          BY <2>5, <5>1
        <5> HIDE DEF o
        <5>5. [b EXCEPT !.pilot[p].num = Or(num, o.num)] = [d EXCEPT !.pilot[p] = [o EXCEPT !.num = Or(num, o.num)]]
          BY <2>5, <5>1
        <5>6. s = [d EXCEPT !.pilot[p] = [o EXCEPT !.num = Or(num, o.num)]]
          BY <5>2, <5>4, <5>5
        <5> QED BY <5>3, <5>6 DEF o, WithPilot
      <4> HIDE DEF r
      <4> QED BY <1>2, <2>5, <4>2, <4>3, PilotSet
    <3> QED BY <3>1, <3>2
  <2>7. MaxUsers + 1 \notin UserRows(s)
    BY <1>2, <2>6 DEF Room
  <2>8. WholeRows(t)
    <3>1. \A u \in UserRows(s) : s.user[u].name = e => ~s.user[u].active
      BY <1>3, <2>6
    <3> QED BY <2>4, <2>6, <2>7, <3>1, AdoptWhole
  <2> QED BY <2>4, <2>8, CommitKeepsLinks
<1> QED BY <1>4, <1>5

LEMMA GoogleKeepsLinks ==
  ASSUME IdInv, NEW e \in Emails, Google(e)
  PROVE  IdInv'
<1>1. PICK d : d = Db
  OBVIOUS
<1>2. WholeRows(d) /\ Room(d) /\ d \in Databases /\ d.pilot = pilots /\ d.user = users
  BY <1>1, DbIs DEF WholeRows
<1>3. PICK known : known = {u \in UserRows(d) : SignedIn(u) /\ users[u].google = e}
  OBVIOUS
<1>4. PICK holder : holder = LoginUser(d, e)
  OBVIOUS
<1>5. PICK found : found = Canonical(d, d.pilot, e, None, None)
  OBVIOUS
<1>6. PICK p : p = IF found # None THEN found ELSE NextId(PilotRows(d))
  OBVIOUS
<1>7. PICK s : s = IF found = None THEN NewPilot(d, e, None) ELSE d
  OBVIOUS
<1>8. CASE known # {}
  <2>1. PICK u \in known : IdCommit(RepairUser(d, u))
    BY <1>1, <1>3, <1>8 DEF Google
  <2>2. PICK r : r = RepairUser(d, u)
    OBVIOUS
  <2>3. WholeRows(r)
    BY <1>2, <1>3, <2>1, <2>2, RepairUserWhole
  <2> QED BY <2>1, <2>2, <2>3, CommitKeepsLinks
<1>9. CASE known = {} /\ holder # None
  <2> DEFINE x == IF users[holder].name = e THEN d.alias[e] ELSE Or(d.alias[e], holder)
             a == [d EXCEPT !.user[holder].google = e]
             b == WithAlias(a, e, x)
  <2>1. holder \in UserRows(d) /\ holder \in UserIds
    BY <1>2, <1>4, <1>9, LoginUserIs DEF UserRows
  <2>2. d = [user |-> d.user, pilot |-> d.pilot, alias |-> d.alias, entered |-> d.entered]
    BY <1>2, Tables
  <2>3. a.alias = d.alias
    BY <2>2
  <2>4. IdCommit(RepairUser(b, holder))
    <3>1. IdCommit(RepairUser(
              [d EXCEPT !.user[holder].google = e,
                         !.alias[e] = IF users[holder].name = e THEN @ ELSE Or(@, holder)], holder))
      BY <1>1, <1>3, <1>4, <1>9 DEF Google
    <3>2. [a EXCEPT !.alias[e] = IF users[holder].name = e THEN @ ELSE Or(@, holder)] = b
      BY <2>3 DEF WithAlias
    <3> QED BY <3>1, <3>2
  <2>5. x \in UserIds \cup {None}
    BY <1>2, <2>1, AliasHas DEF Or
  <2> DEFINE r == [d.user[holder] EXCEPT !.google = e]
  <2>6. d.user[holder] \in UserRow
    BY <1>2, <2>1, UserHas DEF UserRow, UserRows
  <2>7. r \in UserRow /\ r.pilot = d.user[holder].pilot
    BY <2>6 DEF UserRow
  <2>8. Free(d, r.pilot)
    BY <1>2, <2>1, <2>7 DEF Free, WholeRows
  <2>9. a = WithUser(d, holder, r)
    BY DEF WithUser
  <2> HIDE DEF a, r, x
  <2>10. WholeRows(a) /\ UserRows(a) = UserRows(d)
    <3>1. WholeRows(a) /\ UserRows(a) = UserRows(d) \cup {holder}
      BY <1>2, <2>1, <2>7, <2>8, <2>9, UserSet
    <3> QED BY <2>1, <3>1
  <2>11. WholeRows(b) /\ UserRows(b) = UserRows(a)
    BY <2>5, <2>10, AliasSet
  <2> HIDE DEF b
  <2>12. PICK g : g = RepairUser(b, holder)
    OBVIOUS
  <2>13. WholeRows(g)
    BY <2>1, <2>10, <2>11, <2>12, RepairUserWhole
  <2> QED BY <2>4, <2>12, <2>13, CommitKeepsLinks
<1>10. CASE known = {} /\ holder = None
  <2>1. PICK t \in Adopt(s, p, e, "pilot", e) :
           IdCommit(RepairUser(t, CHOOSE v \in UserRows(t) : t.user[v] # users[v]))
    BY <1>1, <1>2, <1>3, <1>4, <1>5, <1>6, <1>7, <1>10 DEF Google
  <2>2. p \in PilotIds /\ (found # None => Exists(d, p))
    BY <1>2, <1>5, <1>6, FoundIs
  <2>3. WholeRows(s) /\ Exists(s, p) /\ s.user = d.user /\ UserRows(s) = UserRows(d)
    <3>1. CASE found = None
      BY <1>2, <1>6, <1>7, <3>1, NewPilotWhole
    <3>2. CASE found # None
      BY <1>2, <1>7, <2>2, <3>2
    <3> QED BY <3>1, <3>2
  <2>4. \A u \in UserRows(s) : s.user[u].name = e => ~s.user[u].active
    BY <1>2, <1>4, <1>10, <2>3, LoginUserIs
  <2>5. WholeRows(t) /\ \E v \in UserRows(t) : t.user[v] # s.user[v]
    BY <1>2, <2>1, <2>3, <2>4, AdoptWhole DEF Room
  <2>6. PICK u : u = CHOOSE v \in UserRows(t) : t.user[v] # users[v]
    OBVIOUS
  <2>7. u \in UserRows(t)
    BY <1>2, <2>3, <2>5, <2>6
  <2>8. PICK g : g = RepairUser(t, u)
    OBVIOUS
  <2>9. WholeRows(g)
    BY <2>5, <2>7, <2>8, RepairUserWhole
  <2> QED BY <2>1, <2>6, <2>8, <2>9, CommitKeepsLinks
<1> QED BY <1>8, <1>9, <1>10

LEMMA SettingsKeepsLinks ==
  ASSUME IdInv, NEW u \in UserIds, NEW e \in Emails \cup {None}, NEW role \in {"pilot", "organizer"},
         NEW num \in Numbers \cup {None}, Settings(u, e, role, num)
  PROVE  IdInv'
<1>1. PICK d : d = Db
  OBVIOUS
<1>2. WholeRows(d) /\ Room(d) /\ d \in Databases /\ d.pilot = pilots /\ d.user = users
  BY <1>1, DbIs DEF WholeRows
<1>3. u \in UserRows(d) /\ d.user[u] \in UserRow
  BY <1>2, UserHas DEF Settings, SignedIn, UserRows, UserRow
<1>4. PICK name : name = IF e = None THEN users[u].name ELSE e
  OBVIOUS
<1>5. PICK p : p = users[u].pilot
  OBVIOUS
<1>6. PICK s : s = [d EXCEPT !.user[u].name = name, !.user[u].role = role]
  OBVIOUS
<1>7. PICK others : others = Mailed(s, e) \ {p}
  OBVIOUS
<1> DEFINE profile(t) == [t EXCEPT !.pilot[p].email = e, !.pilot[p].num = num]
<1>8. \/ p = None /\ IdCommit(s)
      \/ p # None /\ IdCommit(profile(s))
      \/ p # None /\ \E q \in others : IdCommit(profile(Merge(s, q, p)))
  BY <1>1, <1>4, <1>5, <1>6, <1>7 DEF Settings
<1>9. WholeRows(s) /\ s.pilot = d.pilot
  <2> DEFINE r == [[d.user[u] EXCEPT !.name = name] EXCEPT !.role = role]
  <2>1. name \in Emails \cup {Slug}
    BY <1>2, <1>3, <1>4 DEF UserRow
  <2>2. r \in UserRow /\ r.pilot = d.user[u].pilot
    BY <1>3, <2>1 DEF UserRow
  <2>3. Free(d, r.pilot)
    BY <1>2, <2>2 DEF Free, WholeRows
  <2>4. s = WithUser(d, u, r)
    <3>1. d = [user |-> d.user, pilot |-> d.pilot, alias |-> d.alias, entered |-> d.entered]
          /\ d.user = [v \in UserIds |-> d.user[v]]
      BY <1>2, Tables
    <3> QED BY <1>6, <3>1 DEF WithUser
  <2> HIDE DEF r
  <2> QED BY <1>2, <2>2, <2>3, <2>4, UserSet
<1>10. p # None => Exists(s, p)
  BY <1>2, <1>5, <1>9 DEF WholeRows, Exists
<1>11. ASSUME NEW t, WholeRows(t), Exists(t, p) PROVE WholeRows(profile(t))
  <2> DEFINE r == [[t.pilot[p] EXCEPT !.email = e] EXCEPT !.num = num]
  <2>1. t \in Databases /\ p \in PilotIds /\ t.pilot[p] \in PilotRow
    BY <1>11, PilotHas DEF WholeRows, Exists, PilotRow
  <2>2. r \in PilotRow
    BY <2>1 DEF PilotRow
  <2>3. profile(t) = WithPilot(t, p, r)
    <3>1. t = [user |-> t.user, pilot |-> t.pilot, alias |-> t.alias, entered |-> t.entered]
          /\ t.pilot = [q \in PilotIds |-> t.pilot[q]]
      BY <2>1, Tables
    <3> QED BY <2>1, <3>1 DEF WithPilot
  <2> HIDE DEF profile, r
  <2> QED BY <1>11, <2>1, <2>2, <2>3, PilotSet
<1>12. CASE p = None /\ IdCommit(s)
  BY <1>9, <1>12, CommitKeepsLinks
<1>13. CASE p # None /\ IdCommit(profile(s))
  <2>1. PICK t : t = profile(s)
    OBVIOUS
  <2> HIDE DEF profile
  <2> QED BY <1>9, <1>10, <1>11, <1>13, <2>1, CommitKeepsLinks
<1>14. CASE p # None /\ \E q \in others : IdCommit(profile(Merge(s, q, p)))
  <2>1. PICK q \in others : IdCommit(profile(Merge(s, q, p)))
    BY <1>14
  <2>2. q \in PilotIds
    BY <1>7, MailedExist
  <2>3. PICK m : m = Merge(s, q, p)
    OBVIOUS
  <2>4. WholeRows(m) /\ Exists(m, p)
    BY <1>9, <1>10, <1>14, <2>2, <2>3, MergeWhole
  <2>5. PICK t : t = profile(m)
    OBVIOUS
  <2> HIDE DEF profile
  <2> QED BY <1>11, <2>1, <2>3, <2>4, <2>5, CommitKeepsLinks
<1> QED BY <1>8, <1>12, <1>13, <1>14

LEMMA AddressesKeep ==
  ASSUME IdInv, NEW u \in UserIds, NEW e \in Emails, AddEmail(u, e) \/ RemoveEmail(u, e)
  PROVE  IdInv'
<1>1. PICK d : d = Db
  OBVIOUS
<1>2. WholeRows(d) /\ d.user = users
  BY <1>1, DbIs
<1>3. CASE AddEmail(u, e)
  <2>1. PICK a : a = WithAlias(d, e, u)
    OBVIOUS
  <2>2. WholeRows(a) /\ UserRows(a) = UserRows(d)
    BY <1>2, <2>1, AliasSet
  <2>3. u \in UserRows(a)
    BY <1>2, <1>3, <2>2 DEF AddEmail, SignedIn, UserRows
  <2>4. PICK r : r = RepairAlias(a, u, e)
    OBVIOUS
  <2>5. WholeRows(r)
    BY <2>2, <2>3, <2>4, RepairAliasWhole
  <2>6. IdCommit(r)
    BY <1>1, <1>3, <2>1, <2>4 DEF AddEmail, WithAlias
  <2> QED BY <2>5, <2>6, CommitKeepsLinks
<1>4. CASE RemoveEmail(u, e)
  <2>1. PICK a, x : x = None /\ a = WithAlias(d, e, x)
    OBVIOUS
  <2>2. WholeRows(a)
    BY <1>2, <2>1, AliasSet
  <2>3. IdCommit(a)
    BY <1>1, <1>4, <2>1 DEF RemoveEmail, WithAlias
  <2> QED BY <2>2, <2>3, CommitKeepsLinks
<1> QED BY <1>3, <1>4

LEMMA ClaimKeepsLinks ==
  ASSUME IdInv, NEW u \in UserIds, NEW p \in PilotIds, NEW byNumber, ClaimPilot(u, p, byNumber)
  PROVE  IdInv'
<1>1. PICK d : d = Db
  OBVIOUS
<1>2. WholeRows(d) /\ d.user = users /\ d.pilot = pilots /\ d \in Databases
  BY <1>1, DbIs DEF WholeRows
<1>3. u \in UserRows(d) /\ Exists(d, p) /\ p # None
  BY <1>2, IdNames DEF ClaimPilot, SignedIn, UserRows, Exists
<1> DEFINE own == users[u].pilot
           retire(v) == [d EXCEPT !.user[v].active = FALSE, !.user[v].pilot = None]
<1>4. \/ IdCommit(WithLink(Merge(d, IF own = None THEN p ELSE own, p), u, p))
      \/ \E v \in Linked(d, p) :
            \/ own # None /\ IdCommit(WithLink(Merge(d, own, p), u, p))
            \/ v # u /\ IdCommit(WithLink(retire(v), u, p))
            \/ IdCommit(WithLink(d, u, p))
  BY <1>1 DEF ClaimPilot, WithLink
<1>5. own \in PilotIds \cup {None}
  BY <1>2, UserHas
<1>6. ASSUME NEW m, WholeRows(m), u \in UserRows(m), Exists(m, p), IdCommit(WithLink(m, u, p)) PROVE IdInv'
  <2>1. PICK l : l = WithLink(m, u, p)
    OBVIOUS
  <2>2. WholeRows(l)
    BY <1>6, <2>1, LinkWhole DEF Free
  <2> QED BY <1>6, <2>1, <2>2, CommitKeepsLinks
<1>7. ASSUME NEW a \in PilotIds, IdCommit(WithLink(Merge(d, a, p), u, p)) PROVE IdInv'
  <2>1. PICK m : m = Merge(d, a, p)
    OBVIOUS
  <2>2. WholeRows(m) /\ UserRows(m) = UserRows(d) /\ Exists(m, p)
    BY <1>2, <1>3, <2>1, MergeWhole
  <2> QED BY <1>3, <1>6, <1>7, <2>1, <2>2
<1>8. ASSUME NEW v \in Linked(d, p), IdCommit(WithLink(retire(v), u, p)) PROVE IdInv'
  <2>1. v \in UserIds /\ v \in UserRows(d) /\ d.user[v] \in UserRow
    BY <1>2, UserHas DEF Linked, UserRows, UserRow
  <2> DEFINE r == [[d.user[v] EXCEPT !.active = FALSE] EXCEPT !.pilot = None]
  <2>2. r \in UserRow /\ r.pilot = None
    BY <2>1 DEF UserRow
  <2>3. retire(v) = WithUser(d, v, r)
    <3>1. d = [user |-> d.user, pilot |-> d.pilot, alias |-> d.alias, entered |-> d.entered]
          /\ d.user = [x \in UserIds |-> d.user[x]]
      BY <1>2, Tables
    <3> QED BY <2>1, <3>1 DEF WithUser
  <2>4. PICK m : m = retire(v)
    OBVIOUS
  <2>5. Free(d, r.pilot)
    BY <2>2 DEF Free
  <2> HIDE DEF r
  <2>6. WholeRows(m) /\ m.pilot = d.pilot /\ UserRows(m) = UserRows(d) \cup {v}
    BY <1>2, <2>1, <2>2, <2>3, <2>4, <2>5, UserSet
  <2>7. Exists(m, p) /\ u \in UserRows(m)
    BY <1>3, <2>6 DEF Exists
  <2> HIDE DEF retire
  <2> QED BY <1>6, <1>8, <2>4, <2>6, <2>7
<1> HIDE DEF own, retire
<1>9. CASE IdCommit(WithLink(Merge(d, IF own = None THEN p ELSE own, p), u, p))
  BY <1>5, <1>7, <1>9
<1>10. CASE \E v \in Linked(d, p) :
            \/ own # None /\ IdCommit(WithLink(Merge(d, own, p), u, p))
            \/ v # u /\ IdCommit(WithLink(retire(v), u, p))
            \/ IdCommit(WithLink(d, u, p))
  BY <1>2, <1>3, <1>5, <1>6, <1>7, <1>8, <1>10
<1> QED BY <1>4, <1>9, <1>10

LEMMA EntriesKeep ==
  ASSUME IdInv, NEW e \in Emails \cup {None}, NEW num \in Numbers \cup {None}, NEW ev \in Events, NEW p \in PilotIds,
         \/ EnterPilot(e, num, ev) \/ AssignPilot(p, ev) \/ RemovePilot(p, ev)
  PROVE  IdInv'
<1>1. PICK d : d = Db
  OBVIOUS
<1>2. WholeRows(d) /\ Room(d) /\ d.pilot = pilots /\ d.entered = entered /\ d \in Databases
  BY <1>1, DbIs DEF WholeRows
<1>3. CASE EnterPilot(e, num, ev)
  <2>1. PICK s : s = WithEntry(d, e, num, ev)
    OBVIOUS
  <2>2. WholeRows(s)
    BY <1>2, <2>1, WithEntryWhole
  <2>3. IdCommit(s)
    BY <1>1, <1>3, <2>1 DEF EnterPilot
  <2> QED BY <2>2, <2>3, CommitKeepsLinks
<1>4. CASE AssignPilot(p, ev)
  <2>1. PICK c : c = EnsuredPilot(d, d.pilot, p)
    OBVIOUS
  <2>2. PICK create \in BOOLEAN : create /\ \E g : g = Ensure(d, d.pilot, p, create) /\ g = Ensure(d, d.pilot, p, TRUE)
    OBVIOUS
  <2>2a. PICK g : create /\ g = Ensure(d, d.pilot, p, create) /\ g = Ensure(d, d.pilot, p, TRUE)
    BY <2>2
  <2>3. PICK v : v = g.entered[c] \cup {ev}
    OBVIOUS
  <2>4. Exists(d, p)
    BY <1>2, <1>4 DEF AssignPilot, Exists
  <2>5. c \in PilotIds
    BY <1>2, <2>1, <2>4, OwnRows, EnsuredIs DEF Exists
  <2>6. WholeRows(g)
    BY <1>2, <2>2a, <2>4, OwnRows, EnsureWhole DEF Room
  <2>7. v \subseteq Events
    BY <2>3, <2>5, <2>6, PilotHas DEF WholeRows
  <2>8. PICK s : s = WithEvents(g, c, v)
    OBVIOUS
  <2>9. WholeRows(s)
    BY <2>5, <2>6, <2>7, <2>8, EventsSet
  <2>10. IdCommit(s)
    BY <1>1, <1>2, <1>4, <2>1, <2>2a, <2>3, <2>8 DEF AssignPilot, WithEvents
  <2> QED BY <2>9, <2>10, CommitKeepsLinks
<1>5. CASE RemovePilot(p, ev)
  <2>1. PICK v : v = d.entered[p] \ {ev}
    OBVIOUS
  <2>2. PICK s : s = WithEvents(d, p, v)
    OBVIOUS
  <2>3. v \subseteq Events
    BY <1>2, <2>1, PilotHas
  <2>4. WholeRows(s)
    BY <1>2, <2>2, <2>3, EventsSet
  <2>5. IdCommit(s)
    BY <1>1, <1>5, <2>1, <2>2 DEF RemovePilot, WithEvents
  <2> QED BY <2>4, <2>5, CommitKeepsLinks
<1> QED BY <1>3, <1>4, <1>5

LEMMA UpdateKeepsLinks ==
  ASSUME IdInv, NEW p \in PilotIds, NEW e \in Emails \cup {None}, NEW num \in Numbers \cup {None}, UpdatePilot(p, e, num)
  PROVE  IdInv'
<1>1. PICK d : d = Db
  OBVIOUS
<1>2. WholeRows(d) /\ Room(d) /\ d.pilot = pilots /\ d \in Databases
  BY <1>1, DbIs DEF WholeRows
<1>3. Exists(d, p) /\ d.pilot[p] \in PilotRow /\ d.pilot[p].row
  BY <1>2, PilotHas DEF UpdatePilot, Exists, PilotRow
<1>4. PICK r : r = [[d.pilot[p] EXCEPT !.email = e] EXCEPT !.num = num]
  OBVIOUS
<1>5. r \in PilotRow /\ r.row
  BY <1>3, <1>4 DEF PilotRow
<1>6. PICK t : t = WithPilot(d, p, r)
  OBVIOUS
<1>7. t = [[d EXCEPT !.pilot[p].email = e] EXCEPT !.pilot[p].num = num]
  <2>1. d = [user |-> d.user, pilot |-> d.pilot, alias |-> d.alias, entered |-> d.entered]
        /\ d.pilot = [q \in PilotIds |-> d.pilot[q]]
    BY <1>2, Tables
  <2> QED BY <1>4, <1>6, <2>1 DEF WithPilot
<1>8. WholeRows(t) /\ Exists(t, p) /\ UserRows(t) = UserRows(d) /\ t.pilot[p] = r
      /\ \A q \in PilotIds \ {p} : t.pilot[q] = d.pilot[q]
  BY <1>2, <1>5, <1>6, PilotSet
<1>9. SameRows(d.pilot, t)
  <2>1. \A q \in PilotIds : d.pilot[q].row = t.pilot[q].row
    <3>1. d.pilot[p].row = TRUE /\ r.row = TRUE
      BY <1>3, <1>5 DEF PilotRow
    <3> QED BY <1>8, <3>1
  <2> QED BY <1>2, <2>1, Tables DEF SameRows
<1>10. PICK create \in BOOLEAN : create /\ \E g : g = Ensure(t, d.pilot, p, create) /\ g = Ensure(t, d.pilot, p, TRUE)
  OBVIOUS
<1>10a. PICK g : create /\ g = Ensure(t, d.pilot, p, create) /\ g = Ensure(t, d.pilot, p, TRUE)
  BY <1>10
<1>11. WholeRows(g)
  BY <1>2, <1>8, <1>9, <1>10a, EnsureWhole DEF Room
<1>12. IdCommit(g)
  BY <1>1, <1>2, <1>7, <1>10a DEF UpdatePilot
<1> QED BY <1>11, <1>12, CommitKeepsLinks

LEMMA StartupKeepsLinks == IdInv /\ Startup => IdInv'
<1> SUFFICES ASSUME IdInv, Startup PROVE IdInv'
  OBVIOUS
<1>1. PICK d : d = Db
  OBVIOUS
<1>2. WholeRows(d)
  BY <1>1, DbIs
<1>3. PICK s : s = AccountsRepaired(d)
  OBVIOUS
<1>4. PICK t : t = RecordsUnified(s)
  OBVIOUS
<1>5. WholeRows(t)
  BY <1>2, <1>3, <1>4, AccountsRepairedWhole, RecordsUnifiedWhole
<1>6. IdCommit(t)
  BY <1>1, <1>3, <1>4 DEF Startup
<1> QED BY <1>5, <1>6, CommitKeepsLinks

LEMMA MergeByHandKeeps ==
  ASSUME IdInv, NEW a \in PilotIds, NEW b \in PilotIds, MergeByHand(a, b)
  PROVE  IdInv'
<1>1. PICK d : d = Db
  OBVIOUS
<1>2. WholeRows(d) /\ d.pilot = pilots
  BY <1>1, DbIs
<1>3. PICK m : m = Merge(d, a, b)
  OBVIOUS
<1>4. WholeRows(m)
  BY <1>2, <1>3, MergeWhole DEF MergeByHand, Exists
<1>5. IdCommit(m)
  BY <1>1, <1>3 DEF MergeByHand
<1> QED BY <1>4, <1>5, CommitKeepsLinks

LEMMA IdStutter == IdInv /\ UNCHANGED idvars => IdInv'
<1> SUFFICES ASSUME IdInv, UNCHANGED idvars PROVE IdInv'
  OBVIOUS
<1>1. Db' = Db /\ requests' = requests
  BY DEF idvars, Db
<1>2. PICK d : d = Db
  OBVIOUS
<1>3. WholeRows(d) /\ Room(d) /\ d = Db'
  BY <1>1, <1>2 DEF IdInv
<1>4. WholeRows(Db') /\ Room(Db')
  BY <1>3
<1> QED BY <1>1, <1>4 DEF IdInv

LEMMA IdNextKeeps == IdInv /\ [IdNext]_idvars => IdInv'
<1> SUFFICES ASSUME IdInv, [IdNext]_idvars PROVE IdInv'
  OBVIOUS
<1>1. CASE UNCHANGED idvars
  BY <1>1, IdStutter
<1>2. CASE IdNext
  <2>1. CASE \E u \in UserIds : Login(u) \/ DeleteUser(u)
    BY <2>1, LoginKeeps, DeleteKeepsLinks
  <2>2. CASE \E e \in Emails : Google(e) \/ Register(e, "organizer", None)
                               \/ \E n \in Numbers \cup {None} : Register(e, "pilot", n)
    <3>1. PICK e \in Emails : Google(e) \/ Register(e, "organizer", None)
                              \/ \E n \in Numbers \cup {None} : Register(e, "pilot", n)
      BY <2>2
    <3>2. ASSUME NEW role \in {"pilot", "organizer"}, NEW n \in Numbers \cup {None}, Register(e, role, n) PROVE IdInv'
      BY <3>2, RegisterKeepsLinks
    <3>3. "pilot" \in {"pilot", "organizer"} /\ "organizer" \in {"pilot", "organizer"} /\ None \in Numbers \cup {None}
      OBVIOUS
    <3> QED BY <3>1, <3>2, <3>3, GoogleKeepsLinks, Zenon
  <2>3. CASE \E u \in UserIds, r \in {"pilot", "organizer"} :
                \/ \E e \in Emails \cup {None}, n \in Numbers \cup {None} : Settings(u, e, r, n)
                \/ \E active \in BOOLEAN : AdminUpdate(u, r, active)
    BY <2>3, SettingsKeepsLinks, AdminKeeps, Zenon
  <2>4. CASE \E u \in UserIds, e \in Emails : AddEmail(u, e) \/ RemoveEmail(u, e)
    BY <2>4, AddressesKeep
  <2>5. CASE \E u \in UserIds, name \in Emails \cup {Slug} : SetUsername(u, name)
    BY <2>5, AdminKeeps
  <2>6. CASE \E u \in UserIds, p \in PilotIds, b \in BOOLEAN : ClaimPilot(u, p, b)
    BY <2>6, ClaimKeepsLinks, Zenon
  <2>7. CASE \E e \in Emails \cup {None}, n \in Numbers \cup {None} :
                \/ \E v \in Events : EnterPilot(e, n, v)
                \/ \E p \in PilotIds : UpdatePilot(p, e, n)
    <3>1. CASE \E e \in Emails \cup {None}, n \in Numbers \cup {None}, v \in Events : EnterPilot(e, n, v)
      <4>1. PICK p \in PilotIds : TRUE
        BY IdAssumption DEF PilotIds
      <4> QED BY <3>1, <4>1, EntriesKeep
    <3>2. CASE \E e \in Emails \cup {None}, n \in Numbers \cup {None}, p \in PilotIds : UpdatePilot(p, e, n)
      BY <3>2, UpdateKeepsLinks
    <3> QED BY <2>7, <3>1, <3>2
  <2>8. CASE \E p \in PilotIds, v \in Events : AssignPilot(p, v) \/ RemovePilot(p, v)
    BY <2>8, EntriesKeep
  <2>9. CASE Startup
    BY <2>9, StartupKeepsLinks
  <2>10. CASE \E a, b \in PilotIds : MergeByHand(a, b)
    BY <2>10, MergeByHandKeeps
  <2> QED BY <1>2, <2>1, <2>2, <2>3, <2>4, <2>5, <2>6, <2>7, <2>8, <2>9, <2>10 DEF IdNext
<1> QED BY <1>1, <1>2

LEMMA IdInvHolds == IdInv => IdentitiesHold
<1> SUFFICES ASSUME IdInv PROVE IdentitiesHold
  OBVIOUS
<1>1. Db \in Databases /\ \A u \in UserIds : users[u].pilot # None => pilots[users[u].pilot].row
  BY DEF IdInv, WholeRows, Exists, Db
<1>2. /\ users \in [UserIds -> UserRecords] /\ pilots \in [PilotIds -> PilotRecords]
      /\ alias \in [Emails -> UserIds \cup {None}] /\ entered \in [PilotIds -> SUBSET Events]
  BY <1>1 DEF Db, Databases
<1>3. IdTypeOK
  BY <1>2 DEF IdTypeOK, IdInv, UserRecords, PilotRecords
<1>4. LinksHold
  BY <1>1 DEF LinksHold, UserRows
<1> QED BY <1>3, <1>4 DEF IdentitiesHold

\* Whatever requests come, in whatever order, no account is left behind on a
\* record that is gone (pilot_identity.py: each function that merges records
\* moves the accounts first), and every row is whole.
THEOREM IdentitiesAlwaysHold == IdSpec => []IdentitiesHold
<1>1. IdInit => IdInv
  BY IdInitHolds
<1>2. IdInv /\ [IdNext]_idvars => IdInv'
  BY IdNextKeeps
<1>3. IdInv => IdentitiesHold
  BY IdInvHolds
<1> QED BY <1>1, <1>2, <1>3, PTL DEF IdSpec

-----------------------------------------------------------------------------
(* The MQTT subscriber                                                     *)

\* The client is there from connecting to stopping, and up only after it was
\* asked to connect.
ClientOfThread ==
    /\ thread \in {"reading", "disabled", "pause", "dead"} => client = "none"
    /\ thread = "connecting" => client = "offline"

MqttInv == MqttTypeOK /\ ClientOfThread /\ ChangeAnnounced /\ ShownConnected

\* A subscriber that starts keeps MqttInv.
LEMMA MqttInitInv == ASSUME MqttInit PROVE MqttInv
<1>1. 0 \in 0..MaxChanges /\ 0 \in 0..MaxFaults
  BY MqttAssumption
<1>2. MqttTypeOK
  BY <1>1 DEF MqttInit, MqttTypeOK
<1> QED
  BY <1>2 DEF MqttInit, MqttInv, ClientOfThread, ChangeAnnounced, ShownConnected

\* So does each step of the requests, the loop, the client and the network.
LEMMA MqttStep == ASSUME MqttInv, MqttNext PROVE MqttInv'
<1> USE MqttAssumption DEF MqttInv, MqttTypeOK, ClientOfThread, ChangeAnnounced, ShownConnected
<1>1. ASSUME NEW b \in Brokers \cup {None}, SaveSettings(b) PROVE MqttInv'
  BY <1>1 DEF SaveSettings
<1>2. CASE RequestReconnect
  BY <1>2 DEF RequestReconnect
<1>3. CASE ReadConfig
  BY <1>3 DEF ReadConfig
<1>4. CASE DatabaseFails
  BY <1>4 DEF DatabaseFails
<1>5. CASE Connect
  BY <1>5 DEF Connect, KeptEvent
<1>6. CASE GetAck
  BY <1>6 DEF GetAck
<1>7. CASE TimeOut
  BY <1>7 DEF TimeOut
<1>8. CASE Monitor
  BY <1>8 DEF Monitor
<1>9. CASE Stop
  BY <1>9 DEF Stop, Disconnected
<1>10. CASE Sleep
  BY <1>10 DEF Sleep
<1>11. CASE OnConnect
  BY <1>11 DEF OnConnect
<1>12. ASSUME NEW b \in Brokers, BreakDown(b) PROVE MqttInv'
  <2>1. faults' \in 0..MaxFaults /\ reachable' \subseteq Brokers
    BY <1>12 DEF BreakDown
  <2>2. CASE client = "up" /\ using = b
    BY <1>12, <2>1, <2>2 DEF BreakDown
  <2>3. CASE ~(client = "up" /\ using = b)
    BY <1>12, <2>1, <2>3 DEF BreakDown
  <2> QED
    BY <2>2, <2>3
<1>13. ASSUME NEW b \in Brokers, Recover(b) PROVE MqttInv'
  BY <1>13 DEF Recover
<1> QED
  BY <1>1, <1>2, <1>3, <1>4, <1>5, <1>6, <1>7, <1>8, <1>9, <1>10, <1>11, <1>12, <1>13 DEF MqttNext, Loop

-----------------------------------------------------------------------------
(* The dynamic DNS                                                         *)

\* A check knows the address before it finds a record to correct.
FoundWithAddress ==
    \A r \in Requests : check[r] # None /\ check[r].found # None => check[r].ip # None

\* A check that nothing crossed is the only one; it knows the address as it is,
\* and the records it has looked at are at that address but those that failed.
SoleCheck ==
    \A r \in Requests \ stirred : check[r] # None =>
        /\ \A q \in Requests : check[q] # None => q = r
        /\ check[r].ip # None => check[r].ip = address
        /\ check[r].ip = None /\ ~check[r].dead => check[r].left = check[r].all
        /\ ~check[r].dead =>
              \A n \in check[r].all \ (check[r].left \cup check[r].failed) : record[n] = address

DdnsInv == DdnsTypeOK /\ FoundWithAddress /\ SoleCheck

\* A server that starts keeps DdnsInv.
LEMMA DdnsInitInv == DdnsInit => DdnsInv
BY DdnsAssumption
   DEF DdnsInit, DdnsInv, DdnsTypeOK, FoundWithAddress, SoleCheck

\* The fields of a check, for the provers.
LEMMA CheckFields ==
    ASSUME NEW c \in Check
    PROVE  /\ c.left \subseteq Names /\ c.all \subseteq Names /\ c.failed \subseteq Names
           /\ c.ip \in Addresses \cup {None} /\ c.found \in Names \cup {None} /\ c.dead \in BOOLEAN
           /\ c = [left |-> c.left, all |-> c.all, ip |-> c.ip, found |-> c.found,
                   failed |-> c.failed, dead |-> c.dead]
BY DEF Check

\* Only the check of r changes, from c to d, and d is still SoleCheck's.
LEMMA OneCheckMoves ==
    ASSUME DdnsInv, NEW r \in Requests, NEW d \in Check \cup {None},
           check[r] # None,
           check' = [check EXCEPT ![r] = d],
           d # None /\ d.found # None => d.ip # None,
           UNCHANGED <<enabled, names, address, stirred>>,
           record' \in [Names -> Addresses], shown' = shown, troubles' \in 0..MaxTroubles,
           r \notin stirred /\ d # None =>
              /\ d.ip # None => d.ip = address
              /\ d.ip = None /\ ~d.dead => d.left = d.all
              /\ ~d.dead => \A n \in d.all \ (d.left \cup d.failed) : record'[n] = address
    PROVE  DdnsInv'
<1>1. DdnsTypeOK'
  BY DEF DdnsInv, DdnsTypeOK
<1>2. /\ check'[r] = d
      /\ \A q \in Requests : q # r => check'[q] = check[q]
  BY DEF DdnsInv, DdnsTypeOK
<1>3. FoundWithAddress'
  BY <1>2 DEF DdnsInv, FoundWithAddress
<1>4. SoleCheck'
  <2> SUFFICES ASSUME NEW q \in Requests \ stirred, check'[q] # None
               PROVE  /\ \A p \in Requests : check'[p] # None => p = q
                      /\ check'[q].ip # None => check'[q].ip = address
                      /\ check'[q].ip = None /\ ~check'[q].dead => check'[q].left = check'[q].all
                      /\ ~check'[q].dead =>
                            \A n \in check'[q].all \ (check'[q].left \cup check'[q].failed) :
                               record'[n] = address
    BY DEF SoleCheck
  <2>1. q = r
    BY <1>2 DEF DdnsInv, SoleCheck
  <2> QED
    BY <1>2, <2>1 DEF DdnsInv, SoleCheck
<1> QED
  BY <1>1, <1>3, <1>4 DEF DdnsInv

\* One more failure, restart or change is within the bound.
LEMMA OneTrouble == ASSUME DdnsTypeOK, Trouble PROVE troubles' \in 0..MaxTroubles
BY DdnsAssumption DEF DdnsTypeOK, Trouble

\* A check that begins alone is the only one; one that does not crosses the others.
LEMMA BeginCheckKeeps == ASSUME DdnsInv, NEW r \in Requests, BeginCheck(r) PROVE DdnsInv'
<1>1. CASE ~enabled
  BY <1>1 DEF BeginCheck, DdnsInv, DdnsTypeOK, FoundWithAddress, SoleCheck
<1>2. CASE enabled
  <2> DEFINE c == [left |-> names, all |-> names, ip |-> None,
                   found |-> None, failed |-> {}, dead |-> FALSE]
  <2>1. c \in Check
    BY DEF Check, DdnsInv, DdnsTypeOK
  <2>2. check' = [check EXCEPT ![r] = c]
    BY <1>2 DEF BeginCheck
  <2>3. /\ check' \in [Requests -> Check \cup {None}] /\ check'[r] = c
        /\ \A q \in Requests : q # r => check'[q] = check[q]
    BY <2>1, <2>2 DEF DdnsInv, DdnsTypeOK
  <2>4. stirred' = IF Busy = {} THEN stirred \ {r} ELSE stirred \cup Busy \cup {r}
    BY <1>2 DEF BeginCheck
  <2>5. DdnsTypeOK'
    BY <1>2, <2>3, <2>4 DEF BeginCheck, DdnsInv, DdnsTypeOK, Busy
  <2>6. FoundWithAddress'
    BY <2>3 DEF DdnsInv, FoundWithAddress
  <2>7. SoleCheck'
    <3> SUFFICES ASSUME NEW q \in Requests \ stirred', check'[q] # None
                 PROVE  /\ \A p \in Requests : check'[p] # None => p = q
                        /\ check'[q].ip # None => check'[q].ip = address'
                        /\ check'[q].ip = None /\ ~check'[q].dead => check'[q].left = check'[q].all
                        /\ ~check'[q].dead =>
                              \A n \in check'[q].all \ (check'[q].left \cup check'[q].failed) :
                                 record'[n] = address'
      BY DEF SoleCheck
    <3>1. Busy = {} /\ q = r
      BY <2>3, <2>4 DEF Busy
    <3> QED
      BY <2>3, <3>1 DEF Busy
  <2> QED
    BY <2>5, <2>6, <2>7 DEF DdnsInv
<1> QED
  BY <1>1, <1>2

\* What the answers to a check do.
LEMMA GoesKeeps == ASSUME DdnsInv, NEW r \in Requests, Goes(r) PROVE DdnsInv'
<1> DEFINE c == check[r]
<1>0. CASE c = None
  BY <1>0 DEF Goes, LookUp, Find, Patch, FinishCheck
<1> SUFFICES ASSUME c # None PROVE DdnsInv'
  BY <1>0
<1>1. /\ c \in Check
      /\ c.found # None => c.ip # None
      /\ record \in [Names -> Addresses] /\ address \in Addresses /\ troubles \in 0..MaxTroubles
      /\ check \in [Requests -> Check \cup {None}]
  BY DEF DdnsInv, DdnsTypeOK, FoundWithAddress
<1>2. /\ c.left \subseteq Names /\ c.all \subseteq Names /\ c.failed \subseteq Names
      /\ c.ip \in Addresses \cup {None} /\ c.found \in Names \cup {None} /\ c.dead \in BOOLEAN
  BY <1>1, CheckFields
<1>3. r \notin stirred =>
        /\ c.ip # None => c.ip = address
        /\ c.ip = None /\ ~c.dead => c.left = c.all
        /\ ~c.dead => \A n \in c.all \ (c.left \cup c.failed) : record[n] = address
  BY DEF DdnsInv, SoleCheck
<1>4. CASE LookUp(r)
  <2>1. CASE check' = [check EXCEPT ![r].ip = address] /\ UNCHANGED troubles
    <3> DEFINE d == [c EXCEPT !.ip = address]
    <3>1. /\ check' = [check EXCEPT ![r] = d] /\ d \in Check /\ d.ip = address /\ d.left = c.left
          /\ d.all = c.all /\ d.failed = c.failed /\ d.dead = c.dead /\ d.found = c.found
      BY <1>1, <2>1 DEF Check
    <3> HIDE DEF d
    <3>5. d.found # None => d.ip # None
      BY <1>1, <1>2, <1>3, <1>4, <3>1 DEF LookUp
    <3>6. r \notin stirred =>
             /\ d.ip # None => d.ip = address
             /\ d.ip = None /\ ~d.dead => d.left = d.all
             /\ ~d.dead => \A n \in d.all \ (d.left \cup d.failed) : record'[n] = address
      BY <1>1, <1>2, <1>3, <1>4, <3>1 DEF LookUp
    <3>7. /\ UNCHANGED <<enabled, names, address, stirred>> /\ shown' = shown
           /\ record' \in [Names -> Addresses] /\ troubles' \in 0..MaxTroubles
      BY <1>1, <1>4, <2>1 DEF LookUp
    <3> QED
      BY <1>1, <3>1, <3>5, <3>6, <3>7, OneCheckMoves
  <2>2. CASE Trouble /\ check' = [check EXCEPT ![r].dead = TRUE, ![r].left = {}]
    <3> DEFINE d == [c EXCEPT !.dead = TRUE, !.left = {}]
    <3>1. /\ check' = [check EXCEPT ![r] = d] /\ d \in Check /\ d.ip = c.ip
          /\ d.dead = TRUE /\ d.found = c.found
      BY <1>1, <2>2 DEF Check
    <3>2. troubles' \in 0..MaxTroubles
      BY <2>2, OneTrouble DEF DdnsInv
    <3> HIDE DEF d
    <3> QED
      BY <1>1, <1>2, <1>3, <1>4, <3>1, <3>2, OneCheckMoves DEF LookUp, DdnsInv, DdnsTypeOK
  <2> QED
    BY <1>4, <2>1, <2>2 DEF LookUp
<1>5. ASSUME NEW n \in Names, Find(r, n) PROVE DdnsInv'
  <2>0. /\ c.ip # None /\ c.found = None /\ n \in c.left
        /\ UNCHANGED <<enabled, names, shown, address, record, stirred>>
    BY <1>5 DEF Find
  <2>1. CASE check' = [check EXCEPT ![r] = [c EXCEPT !.left = @ \ {n}]]
             /\ Current(n, c.ip) /\ UNCHANGED troubles
    <3> DEFINE d == [c EXCEPT !.left = @ \ {n}]
    <3>1. /\ d \in Check /\ d.ip = c.ip /\ d.left = c.left \ {n}
          /\ d.all = c.all /\ d.failed = c.failed /\ d.dead = c.dead /\ d.found = c.found
      BY <1>1 DEF Check
    <3>2. check' = [check EXCEPT ![r] = d]
      BY <2>1
    <3> HIDE DEF d
    <3>3. r \notin stirred => record[n] = address
      BY <1>3, <2>0, <2>1 DEF Current
    <3>5. d.found # None => d.ip # None
      BY <1>3, <2>0, <3>1, <3>3
    <3>6. r \notin stirred =>
             /\ d.ip # None => d.ip = address
             /\ d.ip = None /\ ~d.dead => d.left = d.all
             /\ ~d.dead => \A n1 \in d.all \ (d.left \cup d.failed) : record'[n1] = address
      BY <1>3, <2>0, <3>1, <3>3
    <3>7. /\ UNCHANGED <<enabled, names, address, stirred>> /\ shown' = shown
           /\ record' \in [Names -> Addresses] /\ troubles' \in 0..MaxTroubles
      BY <1>1, <2>0, <2>1
    <3> QED
      BY <3>1, <3>2, <3>5, <3>6, <3>7, OneCheckMoves
  <2>2. CASE check' = [check EXCEPT ![r] = [c EXCEPT !.found = n]] /\ UNCHANGED troubles
    <3> DEFINE d == [c EXCEPT !.found = n]
    <3>1. /\ d \in Check /\ d.ip = c.ip /\ d.left = c.left
          /\ d.all = c.all /\ d.failed = c.failed /\ d.dead = c.dead /\ d.found = n
      BY <1>1 DEF Check
    <3>2. check' = [check EXCEPT ![r] = d]
      BY <2>2
    <3> HIDE DEF d
    <3>5. d.found # None => d.ip # None
      BY <1>3, <2>0, <3>1
    <3>6. r \notin stirred =>
             /\ d.ip # None => d.ip = address
             /\ d.ip = None /\ ~d.dead => d.left = d.all
             /\ ~d.dead => \A n1 \in d.all \ (d.left \cup d.failed) : record'[n1] = address
      BY <1>3, <2>0, <3>1
    <3>7. /\ UNCHANGED <<enabled, names, address, stirred>> /\ shown' = shown
           /\ record' \in [Names -> Addresses] /\ troubles' \in 0..MaxTroubles
      BY <1>1, <2>0, <2>2
    <3> QED
      BY <3>1, <3>2, <3>5, <3>6, <3>7, OneCheckMoves
  <2>3. CASE Trouble /\ check' = [check EXCEPT ![r] = Skip(c, n)]
    <3> DEFINE d == Skip(c, n)
    <3>1. /\ d \in Check /\ d.ip = c.ip /\ d.left = c.left \ {n}
          /\ d.all = c.all /\ d.failed = c.failed \cup {n} /\ d.dead = c.dead /\ d.found = None
      BY <1>1 DEF Check, Skip
    <3>2. check' = [check EXCEPT ![r] = d] /\ troubles' \in 0..MaxTroubles
      BY <2>3, OneTrouble DEF DdnsInv
    <3> HIDE DEF d
    <3> QED
      BY <1>1, <1>2, <1>3, <2>0, <3>1, <3>2, OneCheckMoves
  <2> QED
    BY <1>5, <2>1, <2>2, <2>3 DEF Find
<1>6. CASE Patch(r)
  <2>0. /\ c.found # None /\ c.found \in Names /\ c.ip # None /\ c.ip \in Addresses
        /\ UNCHANGED <<enabled, names, shown, address, stirred>>
    BY <1>1, <1>2, <1>6 DEF Patch
  <2> DEFINE corrected == [record EXCEPT ![c.found] = c.ip]
  <2>1. /\ corrected \in [Names -> Addresses] /\ corrected[c.found] = c.ip
        /\ \A n \in Names \ {c.found} : corrected[n] = record[n]
    BY <1>1, <2>0
  <2>2. CASE record' = corrected /\ UNCHANGED troubles
             /\ check' = [check EXCEPT ![r] = [c EXCEPT !.left = @ \ {c.found}, !.found = None]]
    <3> DEFINE d == [c EXCEPT !.left = @ \ {c.found}, !.found = None]
    <3>1. /\ d \in Check /\ d.ip = c.ip /\ d.left = c.left \ {c.found}
          /\ d.all = c.all /\ d.failed = c.failed /\ d.dead = c.dead /\ d.found = None
      BY <1>1 DEF Check
    <3>2. check' = [check EXCEPT ![r] = d]
      BY <2>2
    <3> HIDE DEF d, corrected
    <3>5. d.found # None => d.ip # None
      BY <1>2, <1>3, <2>0, <2>1, <2>2, <3>1
    <3>6. r \notin stirred =>
             /\ d.ip # None => d.ip = address
             /\ d.ip = None /\ ~d.dead => d.left = d.all
             /\ ~d.dead => \A n \in d.all \ (d.left \cup d.failed) : record'[n] = address
      BY <1>2, <1>3, <2>0, <2>1, <2>2, <3>1
    <3>7. /\ UNCHANGED <<enabled, names, address, stirred>> /\ shown' = shown
           /\ record' \in [Names -> Addresses] /\ troubles' \in 0..MaxTroubles
      BY <2>0, <2>1, <2>2, <1>1
    <3> QED
      BY <3>1, <3>2, <3>5, <3>6, <3>7, OneCheckMoves
  <2>3. CASE Trouble /\ record' \in {record, corrected} /\ check' = [check EXCEPT ![r] = Skip(c, c.found)]
    <3> DEFINE d == Skip(c, c.found)
    <3>1. /\ d \in Check /\ d.ip = c.ip /\ d.left = c.left \ {c.found}
          /\ d.all = c.all /\ d.failed = c.failed \cup {c.found} /\ d.dead = c.dead /\ d.found = None
      BY <1>1, <2>0 DEF Check, Skip
    <3>2. check' = [check EXCEPT ![r] = d] /\ troubles' \in 0..MaxTroubles
      BY <2>3, OneTrouble DEF DdnsInv
    <3> HIDE DEF d, corrected
    <3>5. d.found # None => d.ip # None
      BY <1>2, <1>3, <2>0, <2>1, <2>3, <3>1
    <3>6. r \notin stirred =>
             /\ d.ip # None => d.ip = address
             /\ d.ip = None /\ ~d.dead => d.left = d.all
             /\ ~d.dead => \A n \in d.all \ (d.left \cup d.failed) : record'[n] = address
      BY <1>2, <1>3, <2>0, <2>1, <2>3, <3>1
    <3>7. /\ UNCHANGED <<enabled, names, address, stirred>> /\ shown' = shown
           /\ record' \in [Names -> Addresses] /\ troubles' \in 0..MaxTroubles
      BY <1>1, <2>0, <2>1, <2>3, <3>2
    <3> QED
      BY <3>1, <3>2, <3>5, <3>6, <3>7, OneCheckMoves
  <2> QED
    BY <1>6, <2>2, <2>3 DEF Patch
<1>7. CASE FinishCheck(r)
  <2>1. /\ Marked(c) = shown' /\ check' = [check EXCEPT ![r] = None]
        /\ UNCHANGED <<enabled, names, address, record, troubles, stirred>>
    BY <1>7 DEF FinishCheck
  <2>2. shown' \in [ip : Addresses \cup {None}, result : {"none", "disabled", "failed", "updated"}]
    BY <1>2, <2>1 DEF Marked, DdnsInv, DdnsTypeOK
  <2>3. /\ check' \in [Requests -> Check \cup {None}] /\ check'[r] = None
        /\ \A q \in Requests : q # r => check'[q] = check[q]
    BY <1>1, <2>1
  <2>4. DdnsTypeOK'
    BY <2>1, <2>2, <2>3 DEF DdnsInv, DdnsTypeOK
  <2>5. FoundWithAddress' /\ SoleCheck'
    BY <2>1, <2>3 DEF DdnsInv, FoundWithAddress, SoleCheck
  <2> QED
    BY <2>4, <2>5 DEF DdnsInv
<1> QED
  BY <1>4, <1>5, <1>6, <1>7 DEF Goes

\* So do the changes around the checks.
LEMMA DdnsStep == ASSUME DdnsInv, DdnsNext PROVE DdnsInv'
<1>1. ASSUME NEW r \in Requests, BeginCheck(r) PROVE DdnsInv'
  BY <1>1, BeginCheckKeeps
<1>2. ASSUME NEW r \in Requests, Goes(r) PROVE DdnsInv'
  BY <1>2, GoesKeeps
<1>3. CASE ChangeAddress
  BY <1>3, OneTrouble DEF ChangeAddress, DdnsInv, DdnsTypeOK, FoundWithAddress, SoleCheck, Busy
<1>4. CASE SaveDdns
  BY <1>4, OneTrouble DEF SaveDdns, DdnsInv, DdnsTypeOK, FoundWithAddress, SoleCheck
<1>5. CASE Restart
  BY <1>5, OneTrouble DEF Restart, DdnsInv, DdnsTypeOK, FoundWithAddress, SoleCheck
<1> QED
  BY <1>1, <1>2, <1>3, <1>4, <1>5 DEF DdnsNext

\* A check that ends and was not crossed has looked at all its records.
LEMMA EndsCorrected ==
    ASSUME DdnsInv, NEW r \in Requests, FinishCheck(r), r \notin stirred, ~check[r].dead
    PROVE  \A n \in check[r].all \ check[r].failed : record[n] = address
BY DEF DdnsInv, SoleCheck, FinishCheck

-----------------------------------------------------------------------------
(* The start of the server                                                 *)

\* What the transactions have done so far: the i-th is through.
Through(i) == step = None \/ i < step

\* Its columns are there; the legacy columns have gone with the sixth.
ColumnsSoFar ==
    /\ \A i \in DOMAIN Steps : Through(i) => Adds(Steps[i]) \subseteq columns
    /\ Through(6) => columns \subseteq Schema

\* The mode is one of the two from the second on, a visibility is kept where the
\* column is, and a challenge without its column has been hidden.
DataSoFar ==
    /\ Through(2) => mode \in Modes
    /\ meet.vis = None <=> "visibility" \notin columns
    /\ "event_kind" \notin columns /\ meet.kind = "challenge" /\ ~meet.listed => meet.vis # "public"

\* Choices are remembered of a server that had come up, and stand from then on.
ChosenStands ==
    chosen # None =>
        /\ columns = Schema
        /\ mode \in Modes
        /\ mode = chosen.mode /\ meet.vis = chosen.vis /\ slot \ owned = chosen.slot \ owned

StartInv == StartTypeOK /\ ColumnsSoFar /\ DataSoFar /\ ChosenStands

\* The transactions by number, and what each adds.
LEMMA StepsAre ==
    /\ DOMAIN Steps = 1..8 /\ Len(Steps) = 8 /\ Range(Steps) = {Steps[i] : i \in 1..8}
    /\ Steps[1] = "users" /\ Steps[2] = "settings" /\ Steps[3] = "devices" /\ Steps[4] = "passkeys"
    /\ Steps[5] = "library" /\ Steps[6] = "challenges" /\ Steps[7] = "events" /\ Steps[8] = "seed"
BY DEF Steps, Range

LEMMA AddsAre ==
    /\ Adds("users") = UserColumns /\ Adds("settings") = SettingsColumns
    /\ Adds("devices") = DeviceColumns /\ Adds("passkeys") = {} /\ Adds("library") = {}
    /\ Adds("challenges") = {} /\ Adds("events") = EventColumns /\ Adds("seed") = {}
    /\ Schema = UserColumns \cup SettingsColumns \cup DeviceColumns \cup EventColumns
    /\ "event_kind" \notin Schema /\ "visibility" \in EventColumns /\ Legacy = {"event_kind"}
BY DEF Adds, Schema, UserColumns, SettingsColumns, DeviceColumns, PasskeyColumns, EventColumns, Legacy

\* The first start, of whatever release, keeps StartInv.
LEMMA StartInitInv == ASSUME StartInit PROVE StartInv
<1>1. None \notin 1..8 /\ None \notin Visibilities /\ 0 \in 0..MaxKills /\ 0 \in 0..MaxChoices
  BY StartAssumption, StepsAre
<1>2. meet.vis = IF "visibility" \in columns THEN meet.vis ELSE None
  BY DEF StartInit
<1>3. StartTypeOK
  BY <1>1, StepsAre DEF StartInit, StartTypeOK
<1>4. ColumnsSoFar
  BY <1>1, StepsAre DEF StartInit, ColumnsSoFar, Through
<1>5. DataSoFar
  BY <1>1 DEF StartInit, DataSoFar, Through, Visibilities
<1> QED
  BY <1>3, <1>4, <1>5 DEF StartInit, StartInv, ChosenStands

\* At the end of the transactions the schema is the current one.
LEMMA UpWithSchema == ASSUME StartInv, step = None PROVE columns = Schema /\ mode \in Modes /\ meet.vis \in Visibilities
<1>1. \A i \in 1..8 : Adds(Steps[i]) \subseteq columns
  BY StepsAre DEF StartInv, ColumnsSoFar, Through
<1>2. columns \subseteq Schema
  BY DEF StartInv, ColumnsSoFar, Through
<1>3. /\ UserColumns \subseteq columns /\ SettingsColumns \subseteq columns
      /\ DeviceColumns \subseteq columns /\ EventColumns \subseteq columns
  <2>1. /\ Adds(Steps[1]) \subseteq columns /\ Adds(Steps[2]) \subseteq columns
        /\ Adds(Steps[3]) \subseteq columns /\ Adds(Steps[7]) \subseteq columns
    BY <1>1
  <2> QED
    BY <2>1, StepsAre, AddsAre
<1>4. columns = Schema
  BY <1>2, <1>3, AddsAre
<1> QED
  BY <1>4, AddsAre DEF StartInv, StartTypeOK, DataSoFar, Through

\* A transaction adds its columns and those before stay.
LEMMA MigrateColumns ==
    ASSUME StartInv, NEW s \in Range(Steps), Migrate(s)
    PROVE  ColumnsSoFar' /\ columns' \subseteq Schema \cup Legacy
<1>1. /\ step \in 1..8 /\ Steps[step] = s
      /\ step' = (IF step = 8 THEN None ELSE step + 1)
      /\ columns' = (columns \cup Adds(s)) \ (IF s = "challenges" THEN Legacy ELSE {})
  BY StepsAre DEF Migrate, Doing, StartInv, StartTypeOK
<1>2. None \notin 1..8
  BY StartAssumption, StepsAre
<1>3. Adds(s) \subseteq Schema
  BY <1>1, AddsAre, StepsAre
<1>4. \A i \in 1..8 : Adds(Steps[i]) \cap Legacy = {}
  BY AddsAre, StepsAre
<1>5. \A i \in 1..8 : Through(i)' => Through(i) \/ i = step
  BY <1>1, <1>2 DEF Through
<1>6. \A i \in DOMAIN Steps : Through(i)' => Adds(Steps[i]) \subseteq columns'
  <2> SUFFICES ASSUME NEW i \in 1..8, Through(i)' PROVE Adds(Steps[i]) \subseteq columns'
    BY StepsAre
  <2>1. CASE Through(i)
    BY <1>1, <1>4, <2>1, StepsAre DEF StartInv, ColumnsSoFar
  <2>2. CASE i = step
    BY <1>1, <1>4, <2>2
  <2> QED
    BY <1>5, <2>1, <2>2
<1>7. columns' \subseteq Schema \cup Legacy
  BY <1>1, <1>3 DEF StartInv, StartTypeOK
<1>8. Through(6)' => columns' \subseteq Schema
  <2>1. CASE Through(6)
    BY <1>1, <1>3, <2>1 DEF StartInv, ColumnsSoFar
  <2>2. CASE step = 6
    BY <1>1, <1>7, <2>2, StepsAre
  <2> QED
    BY <1>5, <2>1, <2>2
<1> QED
  BY <1>6, <1>7, <1>8 DEF ColumnsSoFar

\* What a transaction does to mode, event and selection.
LEMMA MigrateData ==
    ASSUME StartInv, NEW s \in Range(Steps), Migrate(s)
    PROVE  /\ DataSoFar' /\ ChosenStands'
           /\ mode' \in Modes \cup {"private", None} /\ slot' \subseteq Files
           /\ meet' \in [kind : {"challenge", "competition"}, listed : BOOLEAN, vis : Visibilities \cup {None}]
<1>1. /\ step \in 1..8 /\ Steps[step] = s
      /\ step' = (IF step = 8 THEN None ELSE step + 1)
      /\ columns' = (columns \cup Adds(s)) \ (IF s = "challenges" THEN Legacy ELSE {})
  BY StepsAre DEF Migrate, Doing, StartInv, StartTypeOK
<1>2. None \notin 1..8 /\ None \notin Visibilities
  BY StartAssumption, StepsAre
<1>3. \A i \in 1..8 : Through(i)' => Through(i) \/ i = step
  BY <1>1, <1>2 DEF Through
<1>4. /\ meet \in [kind : {"challenge", "competition"}, listed : BOOLEAN, vis : Visibilities \cup {None}]
      /\ meet.vis = None <=> "visibility" \notin columns
      /\ mode \in Modes \cup {"private", None}
      /\ slot \subseteq Files /\ owned \subseteq Files /\ disabled \subseteq owned
  BY DEF StartInv, StartTypeOK, DataSoFar
<1>5. NormalMode \in Modes /\ (mode \in Modes => NormalMode = mode)
  BY DEF NormalMode, Modes
<1>6. /\ mode' = IF s = "settings" THEN NormalMode ELSE mode
      /\ mode' \in Modes \cup {"private", None}
  BY <1>4, <1>5 DEF Migrate
<1>7. Through(2)' => mode' \in Modes
  BY <1>1, <1>3, <1>5, <1>6, StepsAre DEF StartInv, DataSoFar
<1>8. slot' \subseteq Files /\ slot' \ owned = slot \ owned
  BY <1>4 DEF Migrate, BackfilledSlots
<1>9. ("visibility" \in columns') <=> ("visibility" \in columns \/ s = "events")
  BY <1>1, AddsAre, StepsAre DEF UserColumns, SettingsColumns, DeviceColumns, EventColumns
<1>10. /\ meet' \in [kind : {"challenge", "competition"}, listed : BOOLEAN, vis : Visibilities \cup {None}]
       /\ meet'.vis = None <=> "visibility" \notin columns'
       /\ meet'.kind = meet.kind /\ meet'.listed = meet.listed
  <2>1. CASE s = "challenges"
    BY <1>2, <1>4, <1>9, <2>1 DEF Migrate, Hidden, Visibilities
  <2>2. CASE s = "events"
    BY <1>2, <1>4, <1>9, <2>2 DEF Migrate, WithDefaults, Visibilities
  <2>3. CASE s \notin {"challenges", "events"}
    BY <1>4, <1>9, <2>3 DEF Migrate
  <2> QED
    BY <2>1, <2>2, <2>3
<1>11. "event_kind" \notin columns' /\ meet'.kind = "challenge" /\ ~meet'.listed => meet'.vis # "public"
  <2>1. CASE s = "challenges"
    <3>1. meet' = Hidden
      BY <2>1 DEF Migrate
    <3>2. CASE "event_kind" \in columns
      BY <1>2, <1>4, <3>1, <3>2 DEF Hidden, Visibilities
    <3>3. CASE "event_kind" \notin columns
      BY <1>4, <3>1, <3>3 DEF Hidden, StartInv, DataSoFar
    <3> QED
      BY <3>2, <3>3
  <2>2. CASE s # "challenges"
    <3>1. "event_kind" \notin columns' => "event_kind" \notin columns
      BY <1>1, <2>2
    <3>2. CASE s = "events"
      BY <1>4, <1>10, <3>1, <3>2 DEF Migrate, WithDefaults, StartInv, DataSoFar
    <3>3. CASE s # "events"
      BY <1>10, <2>2, <3>1, <3>3 DEF Migrate, StartInv, DataSoFar
    <3> QED
      BY <3>2, <3>3
  <2> QED
    BY <2>1, <2>2
<1>12. ChosenStands'
  <2> SUFFICES ASSUME chosen # None
               PROVE  /\ columns' = Schema /\ mode' \in Modes /\ mode' = chosen.mode
                      /\ meet'.vis = chosen.vis /\ slot' \ owned = chosen.slot \ owned
    BY DEF ChosenStands, Migrate
  <2>1. /\ columns = Schema /\ mode \in Modes /\ mode = chosen.mode
        /\ meet.vis = chosen.vis /\ slot \ owned = chosen.slot \ owned
    BY DEF StartInv, ChosenStands
  <2>2. columns' = Schema
    BY <1>1, <2>1, AddsAre, StepsAre
  <2>3. mode' = mode
    BY <1>5, <1>6, <2>1
  <2>4. meet' = meet
    BY <1>4, <2>1, AddsAre DEF Migrate, Hidden, WithDefaults
  <2> QED
    BY <1>8, <2>1, <2>2, <2>3, <2>4
<1> QED
  BY <1>6, <1>7, <1>8, <1>10, <1>11, <1>12 DEF DataSoFar

LEMMA StartStep == ASSUME StartInv, StartNext PROVE StartInv'
<1>0. None \notin 1..8 /\ DOMAIN Steps = 1..8
  BY StartAssumption, StepsAre
<1>1. ASSUME NEW s \in Range(Steps), Migrate(s) PROVE StartInv'
  <2>1. step' \in 1..8 \cup {None}
    BY <1>1, StepsAre DEF Migrate, Doing, StartInv, StartTypeOK
  <2>2. UNCHANGED <<owned, disabled, kills, choices, chosen>>
    BY <1>1 DEF Migrate
  <2>3. StartTypeOK'
    BY <1>0, <1>1, <2>1, <2>2, MigrateColumns, MigrateData DEF StartInv, StartTypeOK
  <2> QED
    BY <1>1, <2>3, MigrateColumns, MigrateData DEF StartInv
<1>2. CASE Kill
  <2>1. /\ step' = 1 /\ kills' \in 0..MaxKills
        /\ UNCHANGED <<columns, mode, meet, owned, disabled, slot, choices>>
    BY <1>2, StartAssumption DEF Kill, StartInv, StartTypeOK
  <2>2. ChosenStands' /\ chosen' \in Selections \cup {None}
    <3>1. CASE step = None
      <4>1. columns = Schema /\ mode \in Modes /\ meet.vis \in Visibilities /\ slot \subseteq Files
        BY <3>1, UpWithSchema DEF StartInv, StartTypeOK
      <4>2. chosen' = [mode |-> mode, vis |-> meet.vis, slot |-> slot]
        BY <1>2, <3>1 DEF Kill
      <4> QED
        BY <2>1, <4>1, <4>2 DEF ChosenStands, Selections
    <3>2. CASE step # None
      BY <1>2, <2>1, <3>2 DEF Kill, StartInv, StartTypeOK, ChosenStands
    <3> QED
      BY <3>1, <3>2
  <2>3. StartTypeOK'
    BY <1>0, <2>1, <2>2 DEF StartInv, StartTypeOK
  <2>4. \A i \in 1..8 : ~Through(i)'
    BY <1>0, <2>1 DEF Through
  <2>5. ColumnsSoFar' /\ DataSoFar'
    BY <1>0, <2>1, <2>4 DEF StartInv, ColumnsSoFar, DataSoFar
  <2> QED
    BY <2>2, <2>3, <2>5 DEF StartInv
<1>3. ASSUME Choice,
             mode' \in Modes, slot' \subseteq Files,
             meet' \in [kind : {"challenge", "competition"}, listed : BOOLEAN, vis : Visibilities],
             meet' = meet \/ meet'.kind = "competition"
      PROVE  StartInv'
  <2>1. /\ step = None /\ chosen' = None /\ choices' \in 0..MaxChoices
        /\ UNCHANGED <<step, columns, owned, disabled, kills>>
    BY <1>3, StartAssumption DEF Choice, StartInv, StartTypeOK
  <2>2. columns = Schema
    BY <2>1, UpWithSchema
  <2>3. StartTypeOK'
    BY <1>0, <1>3, <2>1 DEF StartInv, StartTypeOK
  <2>4. ColumnsSoFar'
    BY <2>1 DEF StartInv, ColumnsSoFar, Through
  <2>5. DataSoFar'
    BY <1>0, <1>3, <2>1, <2>2, AddsAre, StartAssumption DEF StartInv, DataSoFar, Through
  <2> QED
    BY <2>1, <2>3, <2>4, <2>5 DEF StartInv, ChosenStands
<1>4. Choice => mode \in Modes /\ slot \subseteq Files
                /\ meet \in [kind : {"challenge", "competition"}, listed : BOOLEAN, vis : Visibilities]
  BY UpWithSchema DEF Choice, StartInv, StartTypeOK
<1>5. CASE SetMode
  BY <1>3, <1>4, <1>5 DEF SetMode
<1>6. CASE SetVisibility
  <2>1. PICK v \in Visibilities : meet' = [meet EXCEPT !.vis = v, !.kind = "competition"]
    BY <1>6 DEF SetVisibility
  <2> QED
    BY <1>3, <1>4, <1>6, <2>1 DEF SetVisibility
<1>7. ASSUME NEW f \in Files, SelectFile(f) \/ DeselectFile(f) PROVE StartInv'
  BY <1>3, <1>4, <1>7 DEF SelectFile, DeselectFile
<1> QED
  BY <1>1, <1>2, <1>5, <1>6, <1>7 DEF StartNext

\* A server that serves has the schema, hides what was hidden and keeps choices.
LEMMA StartHolds ==
    ASSUME StartInv PROVE StartTypeOK /\ ServesCurrent /\ UnlistedStaysHidden /\ ChoicesStand
<1>1. step = None => columns = Schema
  BY UpWithSchema
<1> QED
  BY <1>1, AddsAre DEF StartInv, ServesCurrent, UnlistedStaysHidden, DataSoFar, ChoicesStand, ChosenStands

-----------------------------------------------------------------------------
(* The airspace of the FAA                                                 *)

\* What a job has read of its source, unless that was edited since: a page, then
\* both, as they are there.  It knows no date that is still to come.
JobFits(d) ==
    LET s == Head(d.todo)
    IN  /\ d.todo # <<>>
        /\ d.date # None => d.date <= remote[s].ver
        /\ ~d.edited =>
              /\ d.step = "second" => d.read = <<Page(s), None>>
              /\ d.step \in {"date", "import"} => d.read = <<Page(s), Page(s)>>

JobsFit == job \in [Jobs -> Job \cup {None}] /\ \A j \in AtWork : JobFits(job[j])

\* The date of what is stored is none that is still to come either.
NoLaterDate == \A s \in Feeds : meta[s] # None /\ meta[s].date # None => meta[s].date <= remote[s].ver

TablesHold ==
    /\ remote \in [Feeds -> [ver : Versions, has : Kinds]]
    /\ imported \in [Feeds -> Pages]
    /\ meta \in [Feeds -> [date : Versions \cup {None}, any : BOOLEAN] \cup {None}]
    /\ overtaken \subseteq Feeds
    /\ \A s \in Feeds : imported[s] # Nothing <=> meta[s] # None /\ meta[s].any
    /\ NoLaterDate /\ DatedAsRead

RestTyped ==
    /\ broken \in BOOLEAN /\ cache \in [Feeds -> Pages] /\ up \in BOOLEAN
    /\ outages \in 0..MaxOutages /\ refreshes \in 0..MaxRefreshes /\ unloaded \in BOOLEAN

FaaInv == TablesHold /\ JobsFit /\ RestTyped

\* No version is None, nor is a line.
LEMMA NoneApart ==
    /\ None \notin Versions /\ Versions \subseteq Nat /\ 0 \in Versions /\ Bare \notin Versions \cup {None}
    /\ None \notin [date : Versions \cup {None}, any : BOOLEAN]
    /\ MaxOutages \in Nat /\ MaxRefreshes \in Nat /\ MaxRevisions \in Nat
BY RefreshAssumption DEF Versions

LEMMA PagesAre ==
    /\ Nothing \in Pages /\ Nothing \in Reads
    /\ \A a, b \in Versions \cup {None, Bare} :
          <<a, b>> \in Reads /\ (<<a, b>> = Nothing <=> a = None /\ b = None)
    /\ \A a \in Versions \cup {None, Bare} : [p \in 1..2 |-> a] = <<a, a>>
<1>1. \A a, b \in Versions \cup {None, Bare} : <<a, b>> \in Reads /\ (<<a, b>> = Nothing <=> a = None /\ b = None)
  BY DEF Reads, Nothing
<1>2. ASSUME NEW a \in Versions \cup {None, Bare} PROVE [p \in 1..2 |-> a] = <<a, a>>
  OBVIOUS
<1> QED
  BY <1>1, <1>2 DEF Pages, Reads, Nothing

\* What is stored of pages that were read: nothing just when neither has a geometry.
LEMMA StoredAre ==
    ASSUME NEW r \in Reads
    PROVE  /\ Stored(r) \in Pages
           /\ Stored(r) = Nothing <=> r[1] \in {None, Bare} /\ r[2] \in {None, Bare}
<1>1. r[1] \in Versions \cup {None, Bare} /\ r[2] \in Versions \cup {None, Bare}
  BY DEF Reads
<1>2. /\ Stored(r)[1] = IF r[1] = Bare THEN None ELSE r[1]
      /\ Stored(r)[2] = IF r[2] = Bare THEN None ELSE r[2]
      /\ Stored(r) = [p \in 1..2 |-> Stored(r)[p]]
  BY DEF Stored
<1>3. Stored(r)[1] \in Versions \cup {None} /\ Stored(r)[2] \in Versions \cup {None}
  BY <1>1, <1>2
<1>4. Stored(r) \in Pages
  <2>1. \A p \in 1..2 : p = 1 \/ p = 2
    OBVIOUS
  <2> QED
    BY <1>2, <1>3, <2>1 DEF Pages
<1>5. Stored(r) = Nothing <=> Stored(r)[1] = None /\ Stored(r)[2] = None
  BY <1>4 DEF Pages, Nothing
<1> QED
  BY <1>2, <1>4, <1>5, NoneApart

\* What a source has is a matter of the source.
LEMMA WholeStays ==
    ASSUME NEW f \in Feeds, remote'[f] = remote[f] PROVE Page(f)' = Page(f) /\ Whole(f)' = Whole(f)
<1>1. Page(f)' = Page(f)
  BY DEF Page
<1> QED
  BY <1>1 DEF Whole, Stored

\* A database new or filled keeps FaaInv.
LEMMA FaaInitInv == ASSUME FaaInit PROVE FaaInv
<1>0. [p \in 1..2 |-> 0] = <<0, 0>> /\ <<0, 0>> \in Reads
  BY PagesAre, NoneApart
<1>1. /\ \A s \in Feeds : remote[s].ver = 0 /\ Whole(s) = Stored(<<0, 0>>)
      /\ remote \in [Feeds -> [ver : Versions, has : Kinds]]
  <2>1. \A s \in Feeds : remote[s].ver = 0 /\ Page(s) = 0
    BY DEF FaaInit, Page
  <2>2. \A s \in Feeds : Whole(s) = Stored(<<0, 0>>)
    BY <1>0, <2>1 DEF Whole
  <2> QED
    BY <2>1, <2>2, NoneApart DEF FaaInit, Kinds
<1>2. Nothing \in Pages /\ Stored(<<0, 0>>) \in Pages /\ Stored(<<0, 0>>) # Nothing
  BY <1>0, PagesAre, NoneApart, StoredAre
<1>3. TablesHold
  <2>1. CASE imported = [s \in Feeds |-> Nothing] /\ meta = [s \in Feeds |-> None]
    BY <1>1, <1>2, <2>1 DEF FaaInit, TablesHold, NoLaterDate, DatedAsRead
  <2>2. CASE imported = [s \in Feeds |-> Whole(s)] /\ meta = [s \in Feeds |-> [date |-> 0, any |-> TRUE]]
    <3>1. \A s \in Feeds : imported[s] = Whole(s) /\ meta[s] = [date |-> 0, any |-> TRUE]
      BY <2>2
    <3>2. [date |-> 0, any |-> TRUE] \in [date : Versions \cup {None}, any : BOOLEAN]
      BY NoneApart
    <3>3. imported \in [Feeds -> Pages] /\ meta \in [Feeds -> [date : Versions \cup {None}, any : BOOLEAN] \cup {None}]
      BY <1>1, <1>2, <2>2, <3>2
    <3>4. \A s \in Feeds : imported[s] # Nothing /\ meta[s] # None /\ meta[s].any
      BY <1>1, <1>2, <3>1, <3>2, NoneApart
    <3>5. NoLaterDate /\ DatedAsRead
      BY <1>1, <3>1 DEF NoLaterDate, DatedAsRead
    <3> QED
      BY <1>1, <3>3, <3>4, <3>5 DEF FaaInit, TablesHold
  <2> QED
    BY <2>1, <2>2 DEF FaaInit
<1>4. JobsFit
  BY DEF FaaInit, JobsFit, AtWork
<1>5. RestTyped
  <2>1. 0 \in 0..MaxOutages /\ 0 \in 0..MaxRefreshes
    BY NoneApart
  <2> QED
    BY <1>2, <2>1 DEF FaaInit, RestTyped
<1> QED
  BY <1>3, <1>4, <1>5 DEF FaaInv

\* A job that has begun fits: it has read nothing yet.
LEMMA BeginFits ==
    ASSUME NEW todo \in Seq(Feeds), todo # <<>>, NEW step0 \in {"check", "first"},
           NEW force \in BOOLEAN, NEW ok \in SUBSET Feeds
    PROVE  /\ [Begin(todo, step0, force) EXCEPT !.ok = ok] \in Job
           /\ JobFits([Begin(todo, step0, force) EXCEPT !.ok = ok])
           /\ Begin(todo, step0, force) \in Job /\ JobFits(Begin(todo, step0, force))
BY PagesAre DEF Begin, Job, JobFits

\* One job moves on, and the sources stay.
LEMMA OneJobMoves ==
    ASSUME JobsFit, NEW j \in Jobs, NEW d \in Job \cup {None}, job' = [job EXCEPT ![j] = d],
           d # None => JobFits(d), remote' = remote
    PROVE  JobsFit'
<1>1. /\ job' \in [Jobs -> Job \cup {None}] /\ job'[j] = d
      /\ \A q \in Jobs : q # j => job'[q] = job[q]
  BY DEF JobsFit
<1>2. ASSUME NEW e PROVE JobFits(e)' <=> JobFits(e)
  BY DEF JobFits, Page
<1>3. ASSUME NEW q \in Jobs, job'[q] # None PROVE JobFits(job[q])'
  <2>1. CASE q = j
    BY <1>1, <1>2, <1>3, <2>1 DEF JobFits, Page
  <2>2. CASE q # j
    BY <1>1, <1>2, <1>3, <2>2 DEF JobsFit, AtWork, JobFits, Page
  <2> QED
    BY <2>1, <2>2
<1> QED
  BY <1>1, <1>3 DEF JobsFit, AtWork

\* The fields of a job.
LEMMA JobFields ==
    ASSUME JobsFit, NEW j \in AtWork
    PROVE  /\ j \in Jobs /\ job[j] \in Job /\ job \in [Jobs -> Job \cup {None}] /\ JobFits(job[j])
           /\ job[j].todo \in Seq(Feeds) /\ job[j].todo # <<>> /\ Feed(j) \in Feeds
           /\ job[j].read \in Reads /\ job[j].date \in Versions \cup {None}
           /\ job[j].edited \in BOOLEAN /\ job[j].force \in BOOLEAN /\ job[j].ok \in SUBSET Feeds
           /\ Got(j) \in SUBSET Feeds /\ Missed(j) \in SUBSET Feeds
<1>1. j \in Jobs /\ job[j] \in Job /\ JobFits(job[j]) /\ job[j].todo \in Seq(Feeds) /\ job[j].todo # <<>>
  BY DEF JobsFit, AtWork, Job, JobFits
<1>2. Feed(j) \in Feeds
  BY <1>1 DEF Feed
<1>3. job[j].ok \in SUBSET Feeds
  BY <1>1 DEF Job
<1>4. Got(j) \in SUBSET Feeds /\ Missed(j) \in SUBSET Feeds
  BY <1>2, <1>3 DEF Got, Missed
<1> QED
  BY <1>1, <1>2, <1>3, <1>4 DEF JobsFit, Job

\* What is left of a list that is not of one.
LEMMA TailOfLonger ==
    ASSUME NEW S, NEW list \in Seq(S), list # <<>>, Len(list) # 1
    PROVE  Tail(list) \in Seq(S) /\ Tail(list) # <<>>
<1>1. Len(list) \in Nat /\ Len(list) # 0
  OBVIOUS
<1>2. Tail(list) \in Seq(S) /\ Len(Tail(list)) = Len(list) - 1
  BY <1>1
<1>3. Len(Tail(list)) # 0
  BY <1>1, <1>2
<1>4. Len(<<>>) = 0
  OBVIOUS
<1> QED
  BY <1>2, <1>3, <1>4

\* Going on with the next source, or ending, keeps the jobs,
LEMMA GoesOnFits ==
    ASSUME JobsFit, NEW j \in AtWork, NEW ok \in SUBSET Feeds, job' = GoesOn(j, ok), remote' = remote
    PROVE  JobsFit'
<1>1. CASE LastFeed(j)
  BY <1>1, JobFields, OneJobMoves DEF GoesOn
<1>2. CASE ~LastFeed(j)
  <2>1. Tail(job[j].todo) \in Seq(Feeds) /\ Tail(job[j].todo) # <<>>
    BY <1>2, JobFields, TailOfLonger DEF LastFeed
  <2> DEFINE d == [Begin(Tail(job[j].todo), FirstStep(j), job[j].force) EXCEPT !.ok = ok]
  <2>2. FirstStep(j) \in {"check", "first"}
    BY DEF FirstStep
  <2>3. d \in Job /\ JobFits(d)
    BY <2>1, <2>2, JobFields, BeginFits
  <2>4. job' = [job EXCEPT ![j] = d]
    BY <1>2 DEF GoesOn
  <2> HIDE DEF d
  <2> QED
    BY <2>3, <2>4, JobFields, OneJobMoves
<1> QED
  BY <1>1, <1>2

\* and so does the end of a pass that failed.
LEMMA FailedFits ==
    ASSUME JobsFit, NEW j \in AtWork, job' = Failed(j), remote' = remote PROVE JobsFit'
<1>1. CASE j \in {"boot", "manual"}
  BY <1>1, JobFields, GoesOnFits DEF Failed
<1>2. CASE j \notin {"boot", "manual"}
  BY <1>2, JobFields, OneJobMoves DEF Failed
<1> QED
  BY <1>1, <1>2

\* The cache has the pages of the tables.
LEMMA LoadTyped ==
    ASSUME RestTyped, TablesHold', NEW j, NEW ok,
           CacheKept(j, ok) \/ (Load /\ up' = up) \/ UNCHANGED <<cache, up, unloaded>>
    PROVE  cache' \in [Feeds -> Pages] /\ up' \in BOOLEAN /\ unloaded' \in BOOLEAN
<1>1. CASE CacheKept(j, ok)
  <2>1. CASE Load /\ up' = (up \/ j = "boot")
    BY <2>1 DEF RestTyped, TablesHold, Load
  <2>2. CASE UNCHANGED <<cache, up>> /\ unloaded' = (unloaded \/ ~(job[j].ok \subseteq ok))
    BY <2>2 DEF RestTyped
  <2> QED
    BY <1>1, <2>1, <2>2 DEF CacheKept
<1>2. CASE (Load /\ up' = up) \/ UNCHANGED <<cache, up, unloaded>>
  BY <1>2 DEF RestTyped, TablesHold, Load
<1> QED
  BY <1>1, <1>2

\* Tables that nobody touches stay as they are.
LEMMA TablesStay ==
    ASSUME TablesHold, UNCHANGED <<remote, imported, meta, overtaken>> PROVE TablesHold'
<1>1. \A f \in Feeds : Whole(f)' = Whole(f)
  BY WholeStays
<1> QED
  BY <1>1 DEF TablesHold, NoLaterDate, DatedAsRead

\* One more outage is within the bound.
LEMMA OneOutage ==
    ASSUME RestTyped, outages < MaxOutages, outages' = outages + 1 PROVE outages' \in 0..MaxOutages
BY NoneApart DEF RestTyped

\* A page of a source is a version or nothing.
LEMMA PageTyped ==
    ASSUME TablesHold, NEW s \in Feeds PROVE Page(s) \in Versions \cup {None, Bare} /\ remote[s].ver \in Versions
BY DEF TablesHold, Page, Kinds

\* Starting, waking and asking.
LEMMA StartKeeps == ASSUME FaaInv, Start PROVE FaaInv'
<1>1. /\ UNCHANGED <<remote, broken, imported, meta, outages, refreshes, overtaken>> /\ Load
      /\ up' \in BOOLEAN
  BY DEF Start
<1>2. TablesHold'
  BY <1>1, TablesStay DEF FaaInv
<1>3. RestTyped'
  BY <1>1 DEF FaaInv, RestTyped, Load, TablesHold
<1>4. JobsFit'
  <2>1. CASE job' = job
    BY <1>1, <2>1 DEF FaaInv, JobsFit, AtWork, JobFits, Page
  <2>2. CASE job' = [job EXCEPT !["boot"] = Begin(<<"class", "sua", "tfr">>, "first", FALSE)]
    <3> DEFINE d == Begin(<<"class", "sua", "tfr">>, "first", FALSE)
    <3>1. <<"class", "sua", "tfr">> \in Seq(Feeds) /\ <<"class", "sua", "tfr">> # <<>> /\ "boot" \in Jobs
      BY DEF Feeds, Jobs
    <3>2. d \in Job /\ JobFits(d)
      BY <3>1, BeginFits
    <3> HIDE DEF d
    <3> QED
      BY <1>1, <2>2, <3>1, <3>2, OneJobMoves DEF FaaInv, d
  <2> QED
    BY <2>1, <2>2 DEF Start
<1> QED
  BY <1>2, <1>3, <1>4 DEF FaaInv

LEMMA WakeKeeps == ASSUME FaaInv, NEW j \in Jobs, Wake(j) PROVE FaaInv'
<1>1. UNCHANGED <<remote, broken, imported, meta, cache, up, outages, refreshes, overtaken, unloaded>>
  BY DEF Wake
<1>2. TablesHold' /\ RestTyped'
  BY <1>1, TablesStay DEF FaaInv, RestTyped
<1>3. PICK todo \in {<<"class", "sua">>, <<"tfr">>} : job' = [job EXCEPT ![j] = Begin(todo, "check", FALSE)]
  BY DEF Wake
<1>4. todo \in Seq(Feeds) /\ todo # <<>>
  <2>1. <<"class", "sua">> \in Seq(Feeds) /\ <<"tfr">> \in Seq(Feeds)
    BY DEF Feeds
  <2>2. <<"class", "sua">> # <<>> /\ <<"tfr">> # <<>>
    OBVIOUS
  <2> QED
    BY <2>1, <2>2
<1>5. PICK d : d = Begin(todo, "check", FALSE)
  OBVIOUS
<1>6. d \in Job /\ JobFits(d)
  BY <1>4, <1>5, BeginFits
<1>7. JobsFit'
  BY <1>1, <1>3, <1>5, <1>6, OneJobMoves DEF FaaInv
<1> QED
  BY <1>2, <1>7 DEF FaaInv

LEMMA RefreshKeeps ==
    ASSUME FaaInv, NEW todo \in Chosen, NEW force \in BOOLEAN, Refresh(todo, force) PROVE FaaInv'
<1>1. /\ UNCHANGED <<remote, broken, imported, meta, cache, up, outages, overtaken, unloaded>>
      /\ refreshes' \in 0..MaxRefreshes
  BY NoneApart DEF Refresh, FaaInv, RestTyped
<1>2. TablesHold' /\ RestTyped'
  BY <1>1, TablesStay DEF FaaInv, RestTyped
<1>3. todo \in Seq(Feeds) /\ todo # <<>>
  BY RefreshAssumption DEF Feeds
<1>4. PICK d : d = Begin(todo, "check", force)
  OBVIOUS
<1>5. d \in Job /\ JobFits(d)
  BY <1>3, <1>4, BeginFits
<1>6. JobsFit'
  BY <1>1, <1>4, <1>5, OneJobMoves DEF FaaInv, Refresh, Jobs
<1> QED
  BY <1>2, <1>6 DEF FaaInv

\* The steps of a job before the import.
LEMMA CheckKeeps == ASSUME FaaInv, NEW j \in Jobs, CheckFeed(j) PROVE FaaInv'
<1> DEFINE s == Feed(j)
<1>1. /\ UNCHANGED <<remote, broken, imported, outages, refreshes, overtaken>>
      /\ j \in AtWork /\ job[j].step = "check"
  BY DEF CheckFeed, At
<1>2. /\ job[j] \in Job /\ JobFits(job[j]) /\ s \in Feeds /\ Missed(j) \in SUBSET Feeds
      /\ job \in [Jobs -> Job \cup {None}]
  BY <1>1, JobFields DEF FaaInv
<1>3. TablesHold'
  <2>1. CASE meta' = meta
    BY <1>1, <2>1, TablesStay DEF FaaInv
  <2>2. CASE meta[s] = None /\ meta' = [meta EXCEPT ![s] = [date |-> None, any |-> FALSE]]
    <3> DEFINE line == [date |-> None, any |-> FALSE]
    <3>1. line \in [date : Versions \cup {None}, any : BOOLEAN] /\ line.date = None /\ ~line.any
      OBVIOUS
    <3>2. /\ meta' \in [Feeds -> [date : Versions \cup {None}, any : BOOLEAN] \cup {None}]
          /\ meta'[s] = line /\ \A f \in Feeds : f # s => meta'[f] = meta[f]
      BY <1>2, <2>2, <3>1 DEF FaaInv, TablesHold
    <3>3. imported[s] = Nothing
      BY <1>2, <2>2 DEF FaaInv, TablesHold
    <3>4. \A f \in Feeds : imported'[f] # Nothing <=> meta'[f] # None /\ meta'[f].any
      BY <1>1, <3>1, <3>2, <3>3 DEF FaaInv, TablesHold
    <3>5. NoLaterDate'
      BY <1>1, <3>1, <3>2 DEF FaaInv, TablesHold, NoLaterDate
    <3>6. DatedAsRead'
      <4>1. \A f \in Feeds : Whole(f)' = Whole(f)
        BY <1>1, WholeStays
      <4> QED
        BY <1>1, <3>1, <3>2, <4>1, NoneApart, PageTyped DEF FaaInv, TablesHold, DatedAsRead
    <3> QED
      BY <1>1, <3>2, <3>4, <3>5, <3>6 DEF FaaInv, TablesHold
  <2> QED
    BY <2>1, <2>2 DEF CheckFeed
<1>4. CASE job' = [job EXCEPT ![j].step = "first"] /\ UNCHANGED <<cache, up, unloaded>>
  <2>1. PICK d : d = [job[j] EXCEPT !.step = "first"]
    OBVIOUS
  <2>2. d \in Job /\ JobFits(d) /\ job' = [job EXCEPT ![j] = d]
    BY <1>2, <1>4, <2>1 DEF Job, JobFits
  <2>3. JobsFit'
    BY <1>1, <2>2, OneJobMoves DEF FaaInv
  <2> QED
    BY <1>1, <1>3, <1>4, <2>3 DEF FaaInv, RestTyped
<1>5. CASE job' = GoesOn(j, Missed(j)) /\ CacheKept(j, Missed(j))
  <2>1. JobsFit'
    BY <1>1, <1>2, <1>5, GoesOnFits DEF FaaInv
  <2>2. cache' \in [Feeds -> Pages] /\ up' \in BOOLEAN /\ unloaded' \in BOOLEAN
    BY <1>3, <1>5, LoadTyped DEF FaaInv
  <2> QED
    BY <1>1, <1>3, <2>1, <2>2 DEF FaaInv, RestTyped
<1> QED
  BY <1>4, <1>5 DEF CheckFeed

LEMMA CheckFailsKeeps == ASSUME FaaInv, NEW j \in Jobs, CheckFails(j) PROVE FaaInv'
<1>1. /\ UNCHANGED <<remote, broken, imported, meta, refreshes, overtaken>>
      /\ j \in AtWork /\ job[j].step = "check" /\ outages' \in 0..MaxOutages
  BY OneOutage DEF CheckFails, At, FaaInv
<1>2. /\ job[j] \in Job /\ JobFits(job[j]) /\ Missed(j) \in SUBSET Feeds
      /\ job \in [Jobs -> Job \cup {None}]
  BY <1>1, JobFields DEF FaaInv
<1>3. TablesHold'
  BY <1>1, TablesStay DEF FaaInv
<1>4. CASE job' = [job EXCEPT ![j].step = "first"] /\ UNCHANGED <<cache, up, unloaded>>
  <2>1. PICK d : d = [job[j] EXCEPT !.step = "first"]
    OBVIOUS
  <2>2. d \in Job /\ JobFits(d) /\ job' = [job EXCEPT ![j] = d]
    BY <1>2, <1>4, <2>1 DEF Job, JobFits
  <2>3. JobsFit'
    BY <1>1, <2>2, OneJobMoves DEF FaaInv
  <2> QED
    BY <1>1, <1>3, <1>4, <2>3 DEF FaaInv, RestTyped
<1>5. CASE job' = GoesOn(j, Missed(j)) /\ CacheKept(j, Missed(j))
  <2>1. JobsFit'
    BY <1>1, <1>2, <1>5, GoesOnFits DEF FaaInv
  <2>2. cache' \in [Feeds -> Pages] /\ up' \in BOOLEAN /\ unloaded' \in BOOLEAN
    BY <1>3, <1>5, LoadTyped DEF FaaInv
  <2> QED
    BY <1>1, <1>3, <2>1, <2>2 DEF FaaInv, RestTyped
<1> QED
  BY <1>4, <1>5 DEF CheckFails

\* The steps of a fetch change the job alone.
LEMMA FetchMoves ==
    ASSUME FaaInv, NEW j \in AtWork, NEW d \in Job, JobFits(d), job' = [job EXCEPT ![j] = d],
           UNCHANGED <<remote, broken, imported, meta, cache, up, refreshes, overtaken, unloaded>>,
           outages' \in 0..MaxOutages
    PROVE  FaaInv'
<1>1. JobsFit'
  BY JobFields, OneJobMoves DEF FaaInv
<1> QED
  BY <1>1, TablesStay DEF FaaInv, RestTyped

LEMMA FetchFirstKeeps == ASSUME FaaInv, NEW j \in Jobs, FetchFirst(j) PROVE FaaInv'
<1> DEFINE s == Feed(j)
<1>1. j \in AtWork /\ job[j].step = "first"
  BY DEF FetchFirst, At
<1>2. /\ job[j] \in Job /\ JobFits(job[j]) /\ s \in Feeds /\ job \in [Jobs -> Job \cup {None}]
  BY <1>1, JobFields DEF FaaInv
<1>3. <<Page(s), None>> \in Reads
  BY <1>2, PageTyped, PagesAre DEF FaaInv
<1>4. PICK d : d = [job[j] EXCEPT !.step = "second", !.read = <<Page(s), None>>, !.edited = FALSE]
  OBVIOUS
<1>5. d \in Job /\ JobFits(d) /\ job' = [job EXCEPT ![j] = d]
  BY <1>2, <1>3, <1>4 DEF FetchFirst, Job, JobFits, Feed
<1> QED
  BY <1>1, <1>5, FetchMoves DEF FetchFirst, FaaInv, RestTyped

LEMMA FetchSecondKeeps == ASSUME FaaInv, NEW j \in Jobs, FetchSecond(j) PROVE FaaInv'
<1> DEFINE s == Feed(j)
<1>1. j \in AtWork /\ job[j].step = "second"
  BY DEF FetchSecond, At
<1>2. /\ job[j] \in Job /\ JobFits(job[j]) /\ s \in Feeds /\ job \in [Jobs -> Job \cup {None}]
      /\ job[j].read \in Reads /\ Page(s) \in Versions \cup {None, Bare}
  BY <1>1, JobFields, PageTyped DEF FaaInv
<1> DEFINE read == [job[j].read EXCEPT ![2] = Page(s)]
<1>3. read \in Reads /\ (job[j].read = <<Page(s), None>> => read = <<Page(s), Page(s)>>)
  BY <1>2 DEF Reads
<1>4. PICK d : d = [job[j] EXCEPT !.step = "date", !.read = read]
  OBVIOUS
<1>5. job' = [job EXCEPT ![j] = d]
  BY <1>2, <1>4 DEF FetchSecond, Job
<1>6. d \in Job /\ JobFits(d)
  BY <1>1, <1>2, <1>3, <1>4 DEF Job, JobFits, Feed
<1> QED
  BY <1>1, <1>5, <1>6, FetchMoves DEF FetchSecond, FaaInv, RestTyped

LEMMA AskDateKeeps == ASSUME FaaInv, NEW j \in Jobs, AskDate(j) PROVE FaaInv'
<1> DEFINE s == Feed(j)
<1>1. j \in AtWork /\ job[j].step = "date"
  BY DEF AskDate, At
<1>2. /\ job[j] \in Job /\ JobFits(job[j]) /\ s \in Feeds /\ job \in [Jobs -> Job \cup {None}]
      /\ remote[s].ver \in Versions
  BY <1>1, JobFields, PageTyped DEF FaaInv
<1>3. /\ UNCHANGED <<remote, broken, imported, meta, cache, up, refreshes, overtaken, unloaded>>
      /\ outages' \in 0..MaxOutages
  BY OneOutage DEF AskDate, FaaInv, RestTyped
<1>4. CASE job' = [job EXCEPT ![j].step = "import", ![j].date = remote[s].ver]
  <2>1. PICK d : d = [job[j] EXCEPT !.step = "import", !.date = remote[s].ver]
    OBVIOUS
  <2>2. job' = [job EXCEPT ![j] = d]
    BY <1>2, <1>4, <2>1
  <2>3. /\ d \in Job /\ d.todo = job[j].todo /\ d.read = job[j].read /\ d.edited = job[j].edited
        /\ d.step = "import" /\ d.date = remote[s].ver
    BY <1>2, <2>1 DEF Job
  <2>4. remote[s].ver <= remote[s].ver
    <3>1. \A n \in Nat : n <= n
      OBVIOUS
    <3> QED
      BY <1>2, <3>1, NoneApart
  <2>5. JobFits(d)
    BY <1>1, <1>2, <2>3, <2>4 DEF JobFits, Feed
  <2> QED
    BY <1>1, <1>3, <2>2, <2>3, <2>5, FetchMoves
<1>5. CASE job' = [job EXCEPT ![j].step = "import"]
  <2>1. PICK d : d = [job[j] EXCEPT !.step = "import"]
    OBVIOUS
  <2>2. job' = [job EXCEPT ![j] = d]
    BY <1>2, <1>5, <2>1
  <2>3. d \in Job /\ JobFits(d)
    BY <1>1, <1>2, <2>1 DEF Job, JobFits
  <2> QED
    BY <1>1, <1>3, <2>2, <2>3, FetchMoves
<1> QED
  BY <1>4, <1>5 DEF AskDate

LEMMA FetchFailsKeeps == ASSUME FaaInv, NEW j \in Jobs, FetchFails(j) PROVE FaaInv'
<1>1. /\ j \in AtWork /\ job' = Failed(j)
      /\ UNCHANGED <<remote, broken, imported, meta, refreshes, overtaken>>
      /\ outages' \in 0..MaxOutages /\ CacheKept(j, Missed(j))
  BY OneOutage DEF FetchFails, PageLost, At, FaaInv, RestTyped
<1>2. TablesHold' /\ JobsFit'
  BY <1>1, TablesStay, FailedFits DEF FaaInv
<1>3. cache' \in [Feeds -> Pages] /\ up' \in BOOLEAN /\ unloaded' \in BOOLEAN
  BY <1>1, <1>2, LoadTyped DEF FaaInv
<1> QED
  BY <1>1, <1>2, <1>3 DEF FaaInv, RestTyped

\* An import leaves what it has read, with the date it knows of it.
LEMMA ImportedHolds ==
    ASSUME FaaInv, NEW j \in AtWork, job[j].step = "import", Imported(j), remote' = remote
    PROVE  /\ TablesHold'
           /\ \A s \in Feeds : imported[s] # Nothing /\ imported'[s] = Nothing =>
                 Feed(j) = s /\ Bare \in {job[j].read[1], job[j].read[2]}
<1> DEFINE s == Feed(j)
<1> DEFINE b == job[j]
<1>1. /\ b \in Job /\ JobFits(b) /\ s \in Feeds /\ b.read \in Reads
      /\ b.date \in Versions \cup {None} /\ b.edited \in BOOLEAN
  BY JobFields DEF FaaInv
<1>2. CASE b.read = Nothing
  <2>1. UNCHANGED <<imported, meta, overtaken>>
    BY <1>2 DEF Imported, Kept
  <2> QED
    BY <2>1, TablesStay DEF FaaInv
<1>3. CASE b.read # Nothing
  <2> DEFINE line == [date |-> b.date, any |-> Stored(b.read) # Nothing]
  <2>0. /\ Stored(b.read) \in Pages
        /\ Stored(b.read) = Nothing <=> b.read[1] \in {None, Bare} /\ b.read[2] \in {None, Bare}
    BY <1>1, StoredAre
  <2>1. /\ imported' = [imported EXCEPT ![s] = Stored(b.read)] /\ meta' = [meta EXCEPT ![s] = line]
        /\ overtaken' = IF b.edited THEN overtaken \cup {s} ELSE overtaken \ {s}
    BY <1>3 DEF Imported, Kept, Counted
  <2>2. line \in [date : Versions \cup {None}, any : BOOLEAN] /\ line.date = b.date /\ line.any = (Stored(b.read) # Nothing)
        /\ line # None
    <3>1. line \in [date : Versions \cup {None}, any : BOOLEAN]
      BY <1>1
    <3> QED
      BY <3>1, NoneApart
  <2> HIDE DEF line
  <2>3. /\ imported' \in [Feeds -> Pages] /\ imported'[s] = Stored(b.read)
        /\ \A f \in Feeds : f # s => imported'[f] = imported[f]
    BY <1>1, <2>0, <2>1 DEF FaaInv, TablesHold
  <2>4. /\ meta' \in [Feeds -> [date : Versions \cup {None}, any : BOOLEAN] \cup {None}]
        /\ meta'[s] = line /\ \A f \in Feeds : f # s => meta'[f] = meta[f]
    BY <1>1, <2>1, <2>2 DEF FaaInv, TablesHold
  <2>5. overtaken' \subseteq Feeds /\ (s \notin overtaken' => ~b.edited)
        /\ \A f \in Feeds \ overtaken' : f # s => f \notin overtaken
    BY <1>1, <2>1 DEF FaaInv, TablesHold
  <2>6. \A f \in Feeds : imported'[f] # Nothing <=> meta'[f] # None /\ meta'[f].any
    BY <1>3, <2>2, <2>3, <2>4 DEF FaaInv, TablesHold
  <2>7. NoLaterDate'
    <3>1. b.date # None => b.date <= remote[s].ver
      BY <1>1 DEF JobFits, Feed
    <3> QED
      BY <2>2, <2>4, <3>1 DEF FaaInv, TablesHold, NoLaterDate
  <2>8. ~b.edited => Stored(b.read) = Whole(s)
    <3>1. ~b.edited => b.read = <<Page(s), Page(s)>>
      BY <1>1 DEF JobFits, Feed
    <3>2. <<Page(s), Page(s)>> = [p \in 1..2 |-> Page(s)]
      BY <1>1, PageTyped, PagesAre DEF FaaInv
    <3> QED
      BY <3>1, <3>2 DEF Whole
  <2>9. DatedAsRead'
    <3> SUFFICES ASSUME NEW f \in Feeds \ overtaken', meta'[f] # None, meta'[f].date = remote'[f].ver
                 PROVE  imported'[f] = Whole(f)'
      BY DEF DatedAsRead
    <3>0. Whole(f)' = Whole(f)
      BY WholeStays
    <3>1. CASE f = s
      BY <2>3, <2>5, <2>8, <3>0, <3>1
    <3>2. CASE f # s
      BY <2>3, <2>4, <2>5, <3>0, <3>2 DEF FaaInv, TablesHold, DatedAsRead
    <3> QED
      BY <3>1, <3>2
  <2>10. Stored(b.read) = Nothing => Bare \in {b.read[1], b.read[2]}
    <3>1. b.read # <<None, None>> /\ b.read = <<b.read[1], b.read[2]>>
      BY <1>1, <1>3 DEF Nothing, Reads
    <3> QED
      BY <2>0, <3>1
  <2> QED
    BY <1>3, <2>3, <2>4, <2>5, <2>6, <2>7, <2>9, <2>10 DEF FaaInv, TablesHold
<1> QED
  BY <1>2, <1>3

LEMMA ImportKeeps == ASSUME FaaInv, NEW j \in Jobs, Import(j) PROVE FaaInv'
<1>1. /\ j \in AtWork /\ job[j].step = "import" /\ Imported(j) /\ job' = GoesOn(j, Got(j))
      /\ UNCHANGED <<remote, broken, outages, refreshes>>
      /\ (Load /\ up' = up) \/ CacheKept(j, Got(j))
  BY DEF Import, At
<1>2. TablesHold' /\ JobsFit'
  BY <1>1, ImportedHolds, GoesOnFits, JobFields DEF FaaInv
<1>3. cache' \in [Feeds -> Pages] /\ up' \in BOOLEAN /\ unloaded' \in BOOLEAN
  BY <1>1, <1>2, LoadTyped DEF FaaInv
<1> QED
  BY <1>1, <1>2, <1>3 DEF FaaInv, RestTyped

LEMMA ImportFailsKeeps == ASSUME FaaInv, NEW j \in Jobs, ImportFails(j) PROVE FaaInv'
<1>1. /\ j \in AtWork /\ job' = Failed(j)
      /\ UNCHANGED <<remote, broken, imported, meta, refreshes, overtaken>>
      /\ outages' \in 0..MaxOutages /\ CacheKept(j, Missed(j))
  BY OneOutage DEF ImportFails, At, FaaInv
<1>2. TablesHold' /\ JobsFit'
  BY <1>1, TablesStay, FailedFits DEF FaaInv
<1>3. cache' \in [Feeds -> Pages] /\ up' \in BOOLEAN /\ unloaded' \in BOOLEAN
  BY <1>1, <1>2, LoadTyped DEF FaaInv
<1> QED
  BY <1>1, <1>2, <1>3 DEF FaaInv, RestTyped

LEMMA LoadFailsKeeps == ASSUME FaaInv, NEW j \in Jobs, LoadFails(j) PROVE FaaInv'
<1>1. /\ j \in AtWork /\ job[j].step = "import" /\ Imported(j) /\ job' = [job EXCEPT ![j] = None]
      /\ UNCHANGED <<remote, broken, cache, up, refreshes>> /\ unloaded' = TRUE
      /\ outages' \in 0..MaxOutages
  BY OneOutage DEF LoadFails, At, FaaInv
<1>2. TablesHold' /\ JobsFit'
  BY <1>1, ImportedHolds, OneJobMoves DEF FaaInv
<1> QED
  BY <1>1, <1>2 DEF FaaInv, RestTyped

\* An edit is after every date that is known, and is noted by who reads.
LEMMA ReviseKeeps ==
    ASSUME FaaInv, NEW s \in Feeds, NEW has \in Kinds, Revise(s, has) PROVE FaaInv'
<1>1. /\ remote' = [remote EXCEPT ![s] = [ver |-> remote[s].ver + 1, has |-> has]]
      /\ UNCHANGED <<broken, imported, meta, cache, up, outages, refreshes, overtaken, unloaded>>
  BY DEF Revise, FaaInv, TablesHold
<1>2. \A f \in Feeds : remote[f].ver \in Nat /\ remote[f] \in [ver : Versions, has : Kinds]
  BY NoneApart DEF FaaInv, TablesHold
<1>3. remote[s].ver + 1 \in Versions
  <2>1. remote["class"].ver \in Nat /\ remote["sua"].ver \in Nat /\ remote["tfr"].ver \in Nat
    BY <1>2 DEF Feeds
  <2>2. remote["class"].ver + remote["sua"].ver + remote["tfr"].ver < MaxRevisions
    BY DEF Revise
  <2>3. s \in {"class", "sua", "tfr"}
    BY DEF Feeds
  <2> QED
    BY <2>1, <2>2, <2>3, NoneApart DEF Versions
<1>4. /\ remote' \in [Feeds -> [ver : Versions, has : Kinds]]
      /\ remote'[s].ver = remote[s].ver + 1
      /\ \A f \in Feeds : f # s => remote'[f] = remote[f]
  BY <1>1, <1>3 DEF FaaInv, TablesHold
<1>5. \A f \in Feeds : meta[f] # None => meta[f].date \in Versions \cup {None}
  BY DEF FaaInv, TablesHold
<1>6. NoLaterDate'
  BY <1>1, <1>2, <1>4, <1>5, NoneApart DEF FaaInv, TablesHold, NoLaterDate
<1>7. DatedAsRead'
  <2> SUFFICES ASSUME NEW f \in Feeds \ overtaken, meta[f] # None, meta[f].date = remote'[f].ver
               PROVE  imported[f] = Whole(f)'
    BY <1>1 DEF DatedAsRead
  <2>1. f # s
    <3>1. meta[s] # None /\ meta[s].date # None => meta[s].date <= remote[s].ver
      BY DEF FaaInv, TablesHold, NoLaterDate
    <3> QED
      BY <1>2, <1>3, <1>4, <3>1, NoneApart
  <2>2. Whole(f)' = Whole(f) /\ remote'[f] = remote[f]
    BY <1>4, <2>1, WholeStays
  <2> QED
    BY <2>2 DEF FaaInv, TablesHold, DatedAsRead
<1>8. TablesHold'
  BY <1>1, <1>4, <1>6, <1>7 DEF FaaInv, TablesHold
<1>9. JobsFit'
  <2>1. job' = [q \in Jobs |-> IF q \in At("second") \cup At("date") \cup At("import") /\ Feed(q) = s
                                 THEN [job[q] EXCEPT !.edited = TRUE] ELSE job[q]]
    BY DEF Revise
  <2>2. ASSUME NEW q \in Jobs, job'[q] # None
        PROVE  job'[q] \in Job /\ JobFits(job[q])'
    <3> SUFFICES ASSUME q \in AtWork PROVE job'[q] \in Job /\ JobFits(job[q])'
      BY <2>1, <2>2 DEF AtWork, At
    <3>1. /\ job[q] \in Job /\ JobFits(job[q]) /\ Feed(q) \in Feeds
          /\ job[q].date \in Versions \cup {None}
      BY JobFields DEF FaaInv
    <3>2. /\ job'[q] \in Job /\ job'[q].todo = job[q].todo /\ job'[q].date = job[q].date
          /\ job'[q].step = job[q].step /\ job'[q].read = job[q].read
          /\ ~job'[q].edited => ~job[q].edited
          /\ Feed(q) = s /\ job[q].step \in {"second", "date", "import"} => job'[q].edited
      BY <2>1, <3>1 DEF Job, At
    <3>3. job[q].date # None => job[q].date <= remote'[Feed(q)].ver
      <4>1. job[q].date # None => job[q].date <= remote[Feed(q)].ver
        BY <3>1 DEF JobFits, Feed
      <4>2. /\ remote[Feed(q)].ver \in Nat
            /\ remote'[Feed(q)].ver = remote[Feed(q)].ver \/ remote'[Feed(q)].ver = remote[Feed(q)].ver + 1
        BY <1>2, <1>4, <3>1
      <4>3. job[q].date # None => job[q].date \in Nat
        BY <3>1, NoneApart
      <4>4. \A k, m, n \in Nat : k <= m /\ (n = m \/ n = m + 1) => k <= n
        OBVIOUS
      <4> QED
        BY <4>1, <4>2, <4>3, <4>4
    <3>4. Feed(q) # s => remote'[Feed(q)] = remote[Feed(q)]
      BY <1>4, <3>1
    <3> QED
      BY <3>1, <3>2, <3>3, <3>4 DEF JobFits, Feed, Page
  <2>3. job' \in [Jobs -> Job \cup {None}]
    BY <2>1, <2>2
  <2> QED
    BY <2>2, <2>3 DEF JobsFit, AtWork
<1> QED
  BY <1>1, <1>8, <1>9 DEF FaaInv, RestTyped

LEMMA KillTasksKeeps == ASSUME FaaInv, KillTasks PROVE FaaInv'
<1>1. TablesHold'
  BY TablesStay DEF KillTasks, FaaInv
<1>2. JobsFit'
  BY DEF KillTasks, JobsFit, AtWork
<1>3. RestTyped'
  BY OneOutage, PagesAre DEF KillTasks, FaaInv, RestTyped
<1> QED
  BY <1>1, <1>2, <1>3 DEF FaaInv

\* Every step of the airspace keeps FaaInv.
LEMMA FaaStep == ASSUME FaaInv, FaaNext PROVE FaaInv'
<1>1. CASE Start
  BY <1>1, StartKeeps
<1>2. ASSUME NEW j \in Jobs, Proceed(j) PROVE FaaInv'
  BY <1>2, WakeKeeps, CheckKeeps, FetchFirstKeeps, FetchSecondKeeps, AskDateKeeps, ImportKeeps, FetchFailsKeeps
     DEF Proceed
<1>3. ASSUME NEW j \in Jobs, CheckFails(j) \/ FetchFails(j) \/ ImportFails(j) \/ LoadFails(j) PROVE FaaInv'
  BY <1>3, CheckFailsKeeps, FetchFailsKeeps, ImportFailsKeeps, LoadFailsKeeps
<1>4. ASSUME NEW todo \in Chosen, NEW force \in BOOLEAN, Refresh(todo, force) PROVE FaaInv'
  BY <1>4, RefreshKeeps
<1>5. ASSUME NEW s \in Feeds, NEW has \in Kinds, Revise(s, has) PROVE FaaInv'
  BY <1>5, ReviseKeeps
<1>6. CASE KillTasks
  BY <1>6, KillTasksKeeps
<1> QED
  BY <1>1, <1>2, <1>3, <1>4, <1>5, <1>6 DEF FaaNext

\* Only an import writes; it empties a source if it has read features without geometry.
LEMMA StepEmptiesNothing ==
    ASSUME FaaInv, FaaNext
    PROVE  \A s \in Feeds : imported[s] # Nothing /\ imported'[s] = Nothing =>
              \E j \in At("import") : Feed(j) = s /\ Bare \in {job[j].read[1], job[j].read[2]}
<1>1. ASSUME NEW j \in Jobs, Import(j) \/ LoadFails(j)
      PROVE  \A s \in Feeds : imported[s] # Nothing /\ imported'[s] = Nothing =>
                j \in At("import") /\ Feed(j) = s /\ Bare \in {job[j].read[1], job[j].read[2]}
  <2>1. /\ j \in AtWork /\ job[j].step = "import" /\ Imported(j) /\ remote' = remote
        /\ j \in At("import")
    BY <1>1 DEF Import, LoadFails, At
  <2> QED
    BY <2>1, ImportedHolds
<1>2. CASE Start \/ KillTasks
  BY <1>2 DEF Start, KillTasks
<1>3. ASSUME NEW j \in Jobs,
             \/ Wake(j) \/ CheckFeed(j) \/ FetchFirst(j) \/ FetchSecond(j) \/ AskDate(j)
             \/ CheckFails(j) \/ FetchFails(j) \/ ImportFails(j)
      PROVE  imported' = imported
  BY <1>3 DEF Wake, CheckFeed, FetchFirst, FetchSecond, AskDate, CheckFails, FetchFails, ImportFails
<1>4. ASSUME NEW todo \in Chosen, NEW force \in BOOLEAN, Refresh(todo, force) PROVE imported' = imported
  BY <1>4 DEF Refresh
<1>5. ASSUME NEW s \in Feeds, NEW has \in Kinds, Revise(s, has) PROVE imported' = imported
  BY <1>5 DEF Revise
<1> QED
  BY <1>1, <1>2, <1>3, <1>4, <1>5 DEF FaaNext, Proceed

-----------------------------------------------------------------------------
(* All of them                                                             *)

BackInv == MqttInv /\ DdnsInv /\ StartInv /\ FaaInv

LEMMA BackInit == Init => BackInv
BY MqttInitInv, DdnsInitInv, StartInitInv, FaaInitInv DEF Init, BackInv

\* Each part keeps its own, and the others rest.
LEMMA BackStep == ASSUME BackInv, [Next]_vars PROVE BackInv'
<1>1. MqttInv'
  <2>1. CASE MqttNext
    BY <2>1, MqttStep DEF BackInv
  <2>2. CASE UNCHANGED mqttvars
    BY <2>2 DEF mqttvars, BackInv, MqttInv, MqttTypeOK, ClientOfThread, ChangeAnnounced, ShownConnected
  <2> QED
    BY <2>1, <2>2 DEF Next, vars
<1>2. DdnsInv'
  <2>1. CASE DdnsNext
    BY <2>1, DdnsStep DEF BackInv
  <2>2. CASE UNCHANGED ddnsvars
    BY <2>2 DEF ddnsvars, BackInv, DdnsInv, DdnsTypeOK, FoundWithAddress, SoleCheck
  <2> QED
    BY <2>1, <2>2 DEF Next, vars
<1>3. StartInv'
  <2>1. CASE StartNext
    BY <2>1, StartStep DEF BackInv
  <2>2. CASE UNCHANGED startvars
    BY <2>2 DEF startvars, BackInv, StartInv, StartTypeOK, ColumnsSoFar, DataSoFar, ChosenStands, Through
  <2> QED
    BY <2>1, <2>2 DEF Next, vars
<1>4. FaaInv'
  <2>1. CASE FaaNext
    BY <2>1, FaaStep DEF BackInv
  <2>2. CASE UNCHANGED faavars
    <3>1. TablesHold'
      BY <2>2, TablesStay DEF faavars, BackInv, FaaInv
    <3>2. JobsFit'
      BY <2>2 DEF faavars, BackInv, FaaInv, JobsFit, AtWork, JobFits, Page
    <3> QED
      BY <2>2, <3>1, <3>2 DEF faavars, BackInv, FaaInv, RestTyped
  <2> QED
    BY <2>1, <2>2 DEF Next, vars
<1> QED
  BY <1>1, <1>2, <1>3, <1>4 DEF BackInv

\* FaaTypeOK from its parts.
LEMMA FaaTyped == FaaInv => FaaTypeOK /\ DatedAsRead
BY DEF FaaInv, TablesHold, RestTyped, JobsFit, FaaTypeOK

\* What the background tasks say is so, for any brokers, records, releases and
\* sources, however often they fail, cross or are killed: the subscriber shows a
\* connection only while there is one (mqtt_subscriber.py), a check of the dynamic
\* DNS that nothing crossed corrects every record it can (cloudflare_ddns.py), a
\* server that serves has its schema and the choices made before (main.py,
\* schema.py), and airspace dated as the FAA's is the FAA's (faa_airspace.py).
THEOREM BackgroundAlwaysHolds == Spec => BackgroundHolds
<1>1. Init => BackInv
  BY BackInit
<1>2. BackInv /\ [Next]_vars => BackInv'
  BY BackStep
<1>3. BackInv => /\ MqttTypeOK /\ ChangeAnnounced /\ ShownConnected
                 /\ StartTypeOK /\ ServesCurrent /\ UnlistedStaysHidden /\ ChoicesStand
                 /\ DdnsTypeOK /\ FaaTypeOK /\ DatedAsRead
  BY StartHolds, FaaTyped DEF BackInv, MqttInv, DdnsInv
<1>4. BackInv /\ [Next]_vars =>
         [\A r \in Requests :
             FinishCheck(r) /\ r \notin stirred /\ ~check[r].dead =>
                \A n \in check[r].all \ check[r].failed : record[n] = address]_ddnsvars
  BY EndsCorrected DEF BackInv
<1>5. BackInv /\ [Next]_vars =>
         [\A s \in Feeds : imported[s] # Nothing /\ imported'[s] = Nothing =>
             \E j \in At("import") : Feed(j) = s /\ Bare \in {job[j].read[1], job[j].read[2]}]_imported
  <2>1. CASE FaaNext
    BY <2>1, StepEmptiesNothing DEF BackInv
  <2>2. CASE UNCHANGED faavars
    BY <2>2 DEF faavars
  <2> QED
    BY <2>1, <2>2 DEF Next, vars
<1> QED
  BY <1>1, <1>2, <1>3, <1>4, <1>5, PTL DEF Spec, BackgroundHolds, OthersCorrected, NeverEmptied
=============================================================================
