----------------------------- MODULE MCAccounts -----------------------------
(***************************************************************************)
(* PilotIdentity, DeviceOwnership and AccountAccess, which share no state. *)
(* Each is explored on its own, from its initial states and with one state *)
(* of the others; AccountAccess in three parts, whose requests meet in     *)
(* AccCommit.                                                              *)
(***************************************************************************)
EXTENDS PilotIdentity, DeviceOwnership, AccountAccess, TLC

VARIABLE part

Init ==
    /\ part \in {"identity", "devices", "roles", "choices", "passkeys"}
    /\ IdInit /\ DevInit /\ AccInit
    /\ part # "identity" => pilots[1].email = None /\ pilots[1].num = None
    /\ part # "devices" => tracker = [u \in Accounts |-> None]

Only(p) == part = p /\ UNCHANGED part

Finish == \E r \in Requests : AccCommit(r) \/ AccFail(r)

Next ==
    \/ Only("identity") /\ IdNext /\ UNCHANGED <<devvars, accvars>>
    \/ Only("devices") /\ DevNext /\ UNCHANGED <<idvars, accvars>>
    \/ /\ Only("roles")
       /\ UNCHANGED <<idvars, devvars>>
       /\ \/ \E r \in Requests, a, t \in Users :
                \/ \E role \in {"admin", "pilot"}, active \in BOOLEAN :
                      UpdateAccount(r, a, t, role, active, account[t].ptype)
                \/ DeleteAccount(r, a, t)
                \/ \E role \in {None, "pilot"} :
                      UpdateSettings(r, t, role, account[t].ptype)
          \/ Finish
    \/ /\ Only("choices")
       /\ UNCHANGED <<idvars, devvars>>
       /\ \/ \E r \in Requests, t \in Users, ptype \in Types :
                \/ \E a \in Users :
                      UpdateAccount(r, a, t, account[t].role, account[t].active, ptype)
                \/ UpdateSettings(r, t, None, ptype)
                \/ \E s \in 0..MaxClock : UpdatePreferences(r, t, ptype, s)
          \/ Finish \/ Tick
    \/ /\ Only("passkeys")
       /\ UNCHANGED <<idvars, devvars>>
       /\ KeyNext

\* Nothing is said of a device after requests have crossed, nor of the request
\* that was crossed, which would only write or fail.
Uncrossed == ~raced /\ \A r \in Requests : writing[r] # Idle => r \in alone

Symmetry == Permutations(Requests) \cup Permutations(Users)
              \cup Permutations(Devices) \cup Permutations(Challenges)
=============================================================================
