--------------------------- MODULE AccountAccess ---------------------------
(***************************************************************************)
(* Roles, queued preferences and passkeys of accounts                      *)
(* (backend/app/routers/auth.py, deps.py).                                 *)
(*                                                                         *)
(* A request reads the account it changes, checks, and writes the columns  *)
(* it changed when it commits.  Requests run side by side, so a check may  *)
(* no longer hold when the request writes.  A passkey ceremony reads its   *)
(* challenge, marks it used in one UPDATE that says whether it was the     *)
(* first, and then stores or checks a credential.                          *)
(***************************************************************************)
EXTENDS Naturals, FiniteSets, Database

CONSTANTS Users, Keys, Challenges,
          MaxClock,   \* bound on the clock, and on the stamps of devices
          MaxCount    \* bound on an authenticator's signature counter

ASSUME AccessAssumption == MaxClock \in Nat /\ MaxCount \in Nat

Roles == {"admin", "organizer", "pilot"}
Types == {"pilot", "driver"}

VARIABLES account,     \* table users
          clock,       \* the server's clock
          plan,        \* the columns each request under way will write
          crossed,     \* history: requests whose account, or the set of
                       \* administrators, changed since they read it
          careless,    \* history: an administrator was changed by such a request
          deactivated, \* history: an administrator was deactivated
          challenge,   \* table passkey_challenges
          passkey,     \* table passkey_credentials
          device,      \* the counter of each authenticator
          ceremony,    \* the verification each request is in
          answered     \* history: how often each challenge was accepted

rolevars == <<account, clock, plan, crossed, careless, deactivated>>
keyvars == <<challenge, passkey, device, ceremony, answered>>
accvars == <<rolevars, keyvars>>

Gone == [role |-> "none", active |-> FALSE, ptype |-> "none", stamp |-> 0]
Account == [role : Roles, active : BOOLEAN, ptype : Types, stamp : 0..MaxClock]
Columns == {"role", "active", "ptype", "stamp"}
NoPlan == [kind |-> "none"]
NoChallenge == [purpose |-> "none", user |-> None, used |-> FALSE, late |-> FALSE]
NoKey == [user |-> None, count |-> 0]
NoCeremony == [step |-> "none"]

AccTypeOK ==
    /\ account \in [Users -> Account \cup {Gone}]
    /\ clock \in 0..MaxClock
    /\ \A r \in Requests :
          plan[r] = NoPlan \/ /\ plan[r].kind \in {"write", "choice", "delete"}
                              /\ plan[r].target \in Users
                              /\ DOMAIN plan[r].cols \subseteq Columns
    /\ crossed \subseteq Requests
    /\ careless \in BOOLEAN /\ deactivated \in BOOLEAN
    /\ challenge \in [Challenges -> {NoChallenge} \cup
          [purpose : {"register", "login"}, user : Users \cup {None},
           used : BOOLEAN, late : BOOLEAN]]
    /\ passkey \in [Keys -> {NoKey} \cup [user : Users, count : 0..MaxCount]]
    /\ device \in [Keys -> 0..MaxCount]
    /\ \A r \in Requests :
          ceremony[r] = NoCeremony \/ ceremony[r].step \in {"read", "verify", "verified"}
    /\ answered \in [Challenges -> 0..2]

\* The first administrator exists from the first start of the server.
AccInit ==
    /\ \E a \in Users : account = [u \in Users |->
          [role |-> IF u = a THEN "admin" ELSE "pilot", active |-> TRUE,
           ptype |-> "pilot", stamp |-> 0]]
    /\ clock = 0
    /\ plan = [r \in Requests |-> NoPlan]
    /\ crossed = {}
    /\ careless = FALSE /\ deactivated = FALSE
    /\ challenge = [c \in Challenges |-> NoChallenge]
    /\ passkey = [k \in Keys |-> NoKey]
    /\ device = [k \in Keys |-> 0]
    /\ ceremony = [r \in Requests |-> NoCeremony]
    /\ answered = [c \in Challenges |-> 0]

-----------------------------------------------------------------------------
(* Roles and preferences                                                   *)

\* get_current_user and require_admin
CanAct(u) == account[u].active
IsAdmin(u) == CanAct(u) /\ account[u].role = "admin"
Admins == {u \in Users : IsAdmin(u)}

AccBegin(r, kind, t, new) ==
    /\ plan[r] = NoPlan
    /\ plan' = [plan EXCEPT ![r] =
          [kind |-> kind, target |-> t,
           cols |-> [c \in {x \in Columns : new[x] # account[t][x]} |-> new[c]]]]
    /\ crossed' = crossed \ {r}
    /\ UNCHANGED <<account, clock, careless, deactivated, keyvars>>

\* A mutant of MayDemote, and the guard: an active administrator remains.
AnyDemotion(a, t) == Cardinality(Admins) > 0
MayDemote(a, t) == t # a /\ (account[t].role = "admin" => Cardinality(Admins) > 1)

\* update_user_account
UpdateAccount(r, a, t, role, active, ptype) ==
    /\ IsAdmin(a)
    /\ account[t] # Gone
    /\ role # "admin" /\ account[t].role = "admin" => MayDemote(a, t)
    /\ AccBegin(r, "write", t,
             [role |-> role, active |-> active, ptype |-> ptype,
              stamp |-> IF account[t].ptype = ptype THEN account[t].stamp ELSE clock])

\* delete_user_account
DeleteAccount(r, a, t) ==
    /\ IsAdmin(a)
    /\ account[t] # Gone
    /\ MayDemote(a, t)
    /\ AccBegin(r, "delete", t, account[t])

\* update_settings: role is NULL, or the one that was asked for.
UpdateSettings(r, u, role, ptype) ==
    /\ CanAct(u)
    /\ role # None => account[u].role # "admin"
    /\ AccBegin(r, "write", u,
             [account[u] EXCEPT !.role = IF role = None THEN @ ELSE role,
                                !.ptype = ptype,
                                !.stamp = IF account[u].ptype = ptype THEN @ ELSE clock])

\* The choice made on a device at the time s replaces the one in the account.
\* The first is a mutant.
AnyIsNewer(u, s) == TRUE
IsNewer(u, s) == s >= account[u].stamp

\* update_preferences, with the choice of a device that may have waited for long.
UpdatePreferences(r, u, ptype, s) ==
    /\ CanAct(u)
    /\ AccBegin(r, "choice", u,
             IF IsNewer(u, s) THEN [account[u] EXCEPT !.ptype = ptype, !.stamp = s]
             ELSE account[u])

\* The account that a plan leaves.
AccWritten(p) ==
    [c \in Columns |-> IF c \in DOMAIN p.cols THEN p.cols[c] ELSE account[p.target][c]]

AccCommit(r) ==
    LET p == plan[r]
        new == IF p.kind = "delete" THEN Gone ELSE AccWritten(p)
        admin == account[p.target].role = "admin"
    IN  /\ p # NoPlan
        /\ account[p.target] # Gone
        /\ account' = [account EXCEPT ![p.target] = new]
        /\ plan' = [plan EXCEPT ![r] = NoPlan]
        /\ crossed' = crossed \cup
              {q \in Requests \ {r} : /\ plan[q] # NoPlan
                                      /\ \/ plan[q].target = p.target
                                         \/ admin /\ new.role # "admin"}
        /\ careless' = (careless \/ (admin /\ r \in crossed))
        /\ deactivated' = (deactivated \/ (new.role = "admin" /\ ~new.active))
        /\ passkey' = [k \in Keys |-> IF new = Gone /\ passkey[k].user = p.target
                                      THEN NoKey ELSE passkey[k]]
        /\ challenge' = [c \in Challenges |->
                            IF new = Gone /\ challenge[c].user = p.target
                            THEN NoChallenge ELSE challenge[c]]
        /\ UNCHANGED <<clock, device, ceremony, answered>>

\* The account was deleted since: StaleDataError.
AccFail(r) ==
    /\ plan[r] # NoPlan
    /\ account[plan[r].target] = Gone
    /\ plan' = [plan EXCEPT ![r] = NoPlan]
    /\ UNCHANGED <<account, clock, crossed, careless, deactivated, keyvars>>

Tick ==
    /\ clock < MaxClock
    /\ clock' = clock + 1
    /\ UNCHANGED <<account, plan, crossed, careless, deactivated, keyvars>>

-----------------------------------------------------------------------------
(* Passkeys                                                                *)

\* _issue_passkey_challenge: those that are used or late are deleted first.
Pruned == [x \in Challenges |-> IF challenge[x].used \/ challenge[x].late THEN NoChallenge ELSE challenge[x]]

IssueChallenge(c, purpose, u) ==
    /\ purpose = "login" <=> u = None
    /\ u # None => CanAct(u)
    /\ challenge[c] = NoChallenge /\ answered[c] = 0
    /\ challenge' = [Pruned EXCEPT ![c] = [purpose |-> purpose, user |-> u, used |-> FALSE, late |-> FALSE]]
    /\ UNCHANGED <<rolevars, passkey, device, ceremony, answered>>

\* Five minutes pass.
Expire(c) ==
    /\ challenge[c] # NoChallenge /\ ~challenge[c].late
    /\ challenge' = [challenge EXCEPT ![c].late = TRUE]
    /\ UNCHANGED <<rolevars, passkey, device, ceremony, answered>>

\* The answer is signed by an authenticator, whose counter grows.
Answer(r, c, purpose, u, k) ==
    /\ ceremony[r] = NoCeremony
    /\ purpose = "login" <=> u = None
    /\ u # None => CanAct(u)
    /\ challenge[c].purpose = purpose /\ challenge[c].user = u
    /\ device[k] < MaxCount
    /\ device' = [device EXCEPT ![k] = @ + 1]
    /\ ceremony' = [ceremony EXCEPT ![r] =
          [step |-> "read", ch |-> c, user |-> u, key |-> k,
           sign |-> device[k] + 1, seen |-> 0]]
    /\ UNCHANGED <<rolevars, challenge, passkey, answered>>

\* The WHERE of the UPDATE.
Fresh(c) == challenge[c] # NoChallenge /\ ~challenge[c].used /\ ~challenge[c].late

\* _consume_passkey_challenge
Consume(r) ==
    LET c == ceremony[r].ch
    IN  /\ ceremony[r] # NoCeremony /\ ceremony[r].step = "read"
        /\ IF Fresh(c)
           THEN /\ challenge' = [challenge EXCEPT ![c].used = TRUE]
                /\ ceremony' = [ceremony EXCEPT ![r].step = "verify"]
                /\ answered' = [answered EXCEPT ![c] = IF @ < 2 THEN @ + 1 ELSE @]
           ELSE /\ ceremony' = [ceremony EXCEPT ![r] = NoCeremony]
                /\ UNCHANGED <<challenge, answered>>
        /\ UNCHANGED <<rolevars, passkey, device>>

\* passkey_registration_verify, after the challenge: the unique constraint
\* decides when two requests found the credential unknown.
StoreKey(r) ==
    LET v == ceremony[r]
    IN  /\ v # NoCeremony /\ v.step = "verify" /\ v.user # None
        /\ passkey' = IF passkey[v.key] = NoKey /\ account[v.user] # Gone
                      THEN [passkey EXCEPT ![v.key] = [user |-> v.user, count |-> v.sign]]
                      ELSE passkey
        /\ ceremony' = [ceremony EXCEPT ![r] = NoCeremony]
        /\ UNCHANGED <<rolevars, challenge, device, answered>>

\* The check of verify_authentication_response.
CountGrows(v) == v.sign > passkey[v.key].count

\* passkey_login_verify: the credential is read and verified, ...
VerifyKey(r) ==
    LET v == ceremony[r]
        owner == passkey[v.key].user
    IN  /\ v # NoCeremony /\ v.step = "verify" /\ v.user = None
        /\ ceremony' = [ceremony EXCEPT ![r] =
              IF owner # None /\ account[owner].active /\ CountGrows(v)
              THEN [v EXCEPT !.step = "verified", !.user = owner,
                             !.seen = passkey[v.key].count]
              ELSE NoCeremony]
        /\ UNCHANGED <<rolevars, challenge, passkey, device, answered>>

\* ... and its counter is written.
StoreCount(r) ==
    LET v == ceremony[r]
    IN  /\ v # NoCeremony /\ v.step = "verified"
        /\ passkey' = IF passkey[v.key] = NoKey THEN passkey
                      ELSE [passkey EXCEPT ![v.key].count = v.sign]
        /\ ceremony' = [ceremony EXCEPT ![r] = NoCeremony]
        /\ UNCHANGED <<rolevars, challenge, device, answered>>

\* delete_passkey
DeleteKey(k) ==
    /\ passkey[k] # NoKey /\ CanAct(passkey[k].user)
    /\ passkey' = [passkey EXCEPT ![k] = NoKey]
    /\ UNCHANGED <<rolevars, challenge, device, ceremony, answered>>

RoleNext ==
    \/ \E r \in Requests, a, t \in Users :
          \/ \E role \in Roles, active \in BOOLEAN, ptype \in Types :
                UpdateAccount(r, a, t, role, active, ptype)
          \/ DeleteAccount(r, a, t)
    \/ \E r \in Requests, u \in Users, ptype \in Types :
          \/ \E role \in {None, "organizer", "pilot"} : UpdateSettings(r, u, role, ptype)
          \/ \E s \in 0..MaxClock : UpdatePreferences(r, u, ptype, s)
    \/ \E r \in Requests : AccCommit(r) \/ AccFail(r)
    \/ Tick

KeyNext ==
    \/ \E c \in Challenges, p \in {"register", "login"}, u \in Users \cup {None} :
          \/ IssueChallenge(c, p, u)
          \/ \E r \in Requests, k \in Keys : Answer(r, c, p, u, k)
    \/ \E c \in Challenges : Expire(c)
    \/ \E r \in Requests : Consume(r) \/ StoreKey(r) \/ VerifyKey(r) \/ StoreCount(r)
    \/ \E k \in Keys : DeleteKey(k)

AccNext == RoleNext \/ KeyNext

AccSpec == AccInit /\ [][AccNext]_accvars

-----------------------------------------------------------------------------
(* Properties                                                              *)

\* An active administrator remains, but for the two cases that the count in
\* update_user_account and delete_user_account does not see: an administrator
\* who is deactivated and keeps the role, and two requests that count at once.
AdminRemains == Admins # {} \/ careless \/ deactivated

\* A choice that waited in a device never replaces a later one, unless another
\* request changed the account between the reading and the writing.
LatestChoiceStands ==
    [][\A r \in Requests :
         plan[r].kind = "choice" /\ plan'[r] = NoPlan =>
            LET t == plan[r].target
            IN  account'[t].stamp >= account[t].stamp \/ r \in crossed]_accvars

\* However requests interleave, one challenge is accepted once.
AnsweredOnce == \A c \in Challenges : answered[c] <= 1

\* The stored counter of a credential moves back only where two logins with it
\* were verified against the same counter.
CounterMovesBackOnlyOnOverlap ==
    [][\A k \in Keys :
         passkey'[k] # NoKey /\ passkey'[k].count < passkey[k].count =>
            \E r \in Requests :
               /\ ceremony[r] # NoCeremony /\ ceremony'[r] = NoCeremony
               /\ ceremony[r].seen # passkey[k].count]_accvars

\* Accounts are whole, one of them administers, and a passkey's challenge signs
\* in once.
AccountsHold == AccTypeOK /\ AdminRemains /\ AnsweredOnce

\* A request that comes late replaces neither a later choice nor a higher
\* counter, unless it crossed the one that wrote it.
LateRequestsYield == LatestChoiceStands /\ CounterMovesBackOnlyOnOverlap
=============================================================================
