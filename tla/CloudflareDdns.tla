--------------------------- MODULE CloudflareDdns ---------------------------
(***************************************************************************)
(* The server's dynamic DNS (backend/app/services/cloudflare_ddns.py): a   *)
(* background loop and the administrator's requests look up the public     *)
(* address and correct the records at Cloudflare, one after the other,     *)
(* awaiting each answer.  Checks run side by side, the address may change  *)
(* during one, and the server may be restarted.                            *)
(***************************************************************************)
EXTENDS Naturals, FiniteSets, Database

CONSTANTS Names,
          Addresses,
          Timer,        \* among Requests: the background loop, others are the administrator's
          MaxTroubles  \* bound on failures, restarts and changes of address or settings

ASSUME DdnsAssumption == Timer \in Requests /\ Names # {} /\ MaxTroubles \in Nat

VARIABLES enabled, names,  \* the settings
          shown,           \* what the administrator sees of the last check
          address,         \* the public address
          record,          \* the A records at Cloudflare
          check,           \* the checks under way
          troubles,
          stirred          \* history: the checks that another one or a change crossed

ddnsvars == <<enabled, names, shown, address, record, check, troubles, stirred>>

Check == [left : SUBSET Names, all : SUBSET Names, ip : Addresses \cup {None},
          found : Names \cup {None}, failed : SUBSET Names, dead : BOOLEAN]

DdnsTypeOK ==
    /\ enabled \in BOOLEAN
    /\ names \in (SUBSET Names) \ {{}}
    /\ shown \in [ip : Addresses \cup {None}, result : {"none", "disabled", "failed", "updated"}]
    /\ address \in Addresses
    /\ record \in [Names -> Addresses]
    /\ check \in [Requests -> Check \cup {None}]
    /\ troubles \in 0..MaxTroubles
    /\ stirred \subseteq Requests

DdnsInit ==
    /\ enabled \in BOOLEAN
    /\ names = Names
    /\ shown = [ip |-> None, result |-> "none"]
    /\ address \in Addresses
    /\ record \in [Names -> Addresses]
    /\ check = [r \in Requests |-> None]
    /\ troubles = 0
    /\ stirred = {}

Busy == {r \in Requests : check[r] # None}

Trouble == troubles < MaxTroubles /\ troubles' = troubles + 1

\* run_cloudflare_ddns_check, until the first answer is awaited.
BeginCheck(r) ==
    /\ check[r] = None
    /\ IF enabled
       THEN /\ check' = [check EXCEPT ![r] = [left |-> names, all |-> names, ip |-> None,
                                              found |-> None, failed |-> {}, dead |-> FALSE]]
            /\ stirred' = IF Busy = {} THEN stirred \ {r} ELSE stirred \cup Busy \cup {r}
            /\ UNCHANGED shown
       ELSE /\ shown' = [shown EXCEPT !.result = "disabled"]
            /\ UNCHANGED <<check, stirred>>
    /\ UNCHANGED <<enabled, names, address, record, troubles>>

\* _fetch_public_ipv4: when it fails no record is looked at.
LookUp(r) ==
    /\ check[r] # None /\ check[r].ip = None /\ ~check[r].dead
    /\ \/ check' = [check EXCEPT ![r].ip = address] /\ UNCHANGED troubles
       \/ Trouble /\ check' = [check EXCEPT ![r].dead = TRUE, ![r].left = {}]
    /\ UNCHANGED <<enabled, names, shown, address, record, stirred>>

\* The error of a record is noted and the next one is taken.
Skip(c, n) == [c EXCEPT !.left = @ \ {n}, !.found = None, !.failed = @ \cup {n}]

Current(n, ip) == record[n] = ip

\* _find_cloudflare_a_record
Find(r, n) ==
    LET c == check[r]
    IN  /\ c # None /\ c.ip # None /\ c.found = None /\ n \in c.left
        /\ \/ /\ check' = [check EXCEPT ![r] = IF Current(n, c.ip) THEN [c EXCEPT !.left = @ \ {n}]
                                               ELSE [c EXCEPT !.found = n]]
              /\ UNCHANGED troubles
           \/ Trouble /\ check' = [check EXCEPT ![r] = Skip(c, n)]
        /\ UNCHANGED <<enabled, names, shown, address, record, stirred>>

\* _patch_cloudflare_a_record; a request whose answer is lost may have been done.
Patch(r) ==
    LET c == check[r]
    IN  /\ c # None /\ c.found # None
        /\ \/ /\ record' = [record EXCEPT ![c.found] = c.ip]
              /\ check' = [check EXCEPT ![r] = [c EXCEPT !.left = @ \ {c.found}, !.found = None]]
              /\ UNCHANGED troubles
           \/ /\ Trouble
              /\ record' \in {record, [record EXCEPT ![c.found] = c.ip]}
              /\ check' = [check EXCEPT ![r] = Skip(c, c.found)]
        /\ UNCHANGED <<enabled, names, shown, address, stirred>>

\* _mark_check_result
Marked(c) ==
    [ip |-> IF c.ip # None THEN c.ip ELSE shown.ip,
     result |-> IF c.failed # {} \/ c.dead THEN "failed" ELSE "updated"]

FinishCheck(r) ==
    /\ check[r] # None /\ check[r].left = {} /\ (check[r].ip # None \/ check[r].dead)
    /\ shown' = Marked(check[r])
    /\ check' = [check EXCEPT ![r] = None]
    /\ UNCHANGED <<enabled, names, address, record, troubles, stirred>>

ChangeAddress ==
    /\ Trouble
    /\ address' \in Addresses \ {address}
    /\ stirred' = stirred \cup Busy
    /\ UNCHANGED <<enabled, names, shown, record, check>>

\* update_site_settings
SaveDdns ==
    /\ Trouble
    /\ enabled' \in BOOLEAN
    /\ names' \in (SUBSET Names) \ {{}}
    /\ UNCHANGED <<shown, address, record, check, stirred>>

Restart ==
    /\ Busy # {}
    /\ Trouble
    /\ check' = [r \in Requests |-> None]
    /\ UNCHANGED <<enabled, names, shown, address, record, stirred>>

Goes(r) == LookUp(r) \/ (\E n \in Names : Find(r, n)) \/ Patch(r) \/ FinishCheck(r)

DdnsNext ==
    \/ \E r \in Requests : BeginCheck(r) \/ Goes(r)
    \/ ChangeAddress \/ SaveDdns \/ Restart

\* The loop checks again and again; answers come or their time is over.
DdnsFairness == WF_ddnsvars(BeginCheck(Timer)) /\ \A r \in Requests : WF_ddnsvars(Goes(r))

-----------------------------------------------------------------------------
(* Properties                                                              *)

\* A check that nothing crossed leaves every record that it did not report as
\* failed at the public address, whatever failed before that record.
OthersCorrected ==
    [][\A r \in Requests :
         FinishCheck(r) /\ r \notin stirred /\ ~check[r].dead =>
            \A n \in check[r].all \ check[r].failed : record[n] = address]_ddnsvars

\* While dynamic DNS stays enabled, the records named in the settings come to the
\* public address and stay there, though checks overlap, fail or are killed and
\* one that knows an older address may write last.
RecordsCatchUp == <>[]enabled => <>[](\A n \in names : record[n] = address)
=============================================================================
