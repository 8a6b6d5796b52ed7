--------------------------- MODULE PositionUplink ---------------------------
(***************************************************************************)
(* The position uplink of the mobile app                                   *)
(* (mobile/lib/services/tracking_service.dart): every GPS fix of a flight  *)
(* is POSTed to the server by its own asynchronous call of _sendPosition;  *)
(* a fix whose POST fails is kept in the in-memory _positionBuffer, and    *)
(* every POST that succeeds drains up to 20 buffered fixes before it ends. *)
(* The GPS stream does not wait for the call it started, so calls, and the *)
(* drains inside them, interleave at every await.                          *)
(*                                                                         *)
(* A worker is one such asynchronous call: the fix itself names the call   *)
(* of _sendPosition that carries it, a member of Stops names a call of     *)
(* stopTracking, whose last await is a drain of the whole buffer.  A fix   *)
(* that is finished with may be taken again as a new fix, so flights of    *)
(* any length are behaviours of a finite model.                            *)
(***************************************************************************)
EXTENDS Integers, Sequences

CONSTANTS Fixes,        \* fixes that can be under way at the same time
          Stops,        \* calls of stopTracking that can be under way
          BufferCap,    \* _maxBufferSize
          DrainLimit,   \* fixes drained after one successful send
          NoFix,        \* "no request": not a fix
          Poison        \* fixes the server refuses for good (404, 422)

ASSUME BufferCapAssumption == BufferCap \in Nat \ {0}
ASSUME DrainLimitAssumption == DrainLimit \in Nat \ {0}
ASSUME WorkersAssumption == Fixes \cap Stops = {}
ASSUME NoFixAssumption == NoFix \notin Fixes
ASSUME PoisonAssumption == Poison \subseteq Fixes

Workers == Fixes \cup Stops

VARIABLES
    tracking,    \* _trackingState is inFlight: fixes are sent
    net,         \* "up"; "down": requests fail; "erring": 401 or 5xx
    buffer,      \* _positionBuffer
    pc,          \* where each worker is suspended
    item,        \* the fix in the request a worker awaits
    req,         \* what became of that request
    left,        \* fixes this drain may still send: limit - sent
    copies,      \* rows the server stored for a fix: 0, 1, or 2 for "more"
    fate,        \* "taken" once posted; "dropped": buffer full; "crashed"
    ackLost,     \* the answer to a stored request was lost
    overlapped   \* draining workers that have shared the buffer

vars == <<tracking, net, buffer, pc, item, req, left, copies, fate, ackLost,
          overlapped>>

TypeOK ==
    /\ tracking \in BOOLEAN
    /\ net \in {"up", "down", "erring"}
    /\ buffer \in Seq(Fixes) /\ Len(buffer) <= BufferCap
    /\ pc \in [Workers -> {"idle", "sending", "stopping", "draining"}]
    /\ item \in [Workers -> Fixes \cup {NoFix}]
    /\ req \in [Workers -> {"none", "inflight", "stored", "refused"}]
    /\ left \in [Workers -> Nat]
    /\ copies \in [Fixes -> 0..2]
    /\ fate \in [Fixes -> {"new", "taken", "dropped", "crashed"}]
    /\ ackLost \in [Fixes -> BOOLEAN]
    /\ overlapped \subseteq Workers

Init ==
    /\ tracking = FALSE
    /\ net = "up"
    /\ buffer = <<>>
    /\ pc = [w \in Workers |-> "idle"]
    /\ item = [w \in Workers |-> NoFix]
    /\ req = [w \in Workers |-> "none"]
    /\ left = [w \in Workers |-> 0]
    /\ copies = [f \in Fixes |-> 0]
    /\ fate = [f \in Fixes |-> "new"]
    /\ ackLost = [f \in Fixes |-> FALSE]
    /\ overlapped = {}

-----------------------------------------------------------------------------
Buffered(f) == \E i \in 1..Len(buffer) : buffer[i] = f
Carried(f) == Buffered(f) \/ \E w \in Workers : item[w] = f

\* Taken, never stored, not given up for a stated reason, and held nowhere.
Vanished(f) == fate[f] = "taken" /\ copies[f] = 0 /\ ~Carried(f)

\* A fix not under way: never taken, or over with.
Free(f) ==
    /\ ~Carried(f)
    /\ pc[f] = "idle"

Draining == {w \in Workers : pc[w] = "draining"}

\* The worker returns, or stops draining.
Finish(w) ==
    /\ pc' = [pc EXCEPT ![w] = "idle"]
    /\ item' = [item EXCEPT ![w] = NoFix]
    /\ req' = [req EXCEPT ![w] = "none"]
    /\ left' = [left EXCEPT ![w] = 0]
    /\ overlapped' = overlapped \ {w}

\* The loop test of _drainPositionBuffer, and the POST of the buffer's head.
DrainFrom(w, buf, n) ==
    IF buf # <<>> /\ n > 0
    THEN /\ pc' = [pc EXCEPT ![w] = "draining"]
         /\ item' = [item EXCEPT ![w] = Head(buf)]
         /\ req' = [req EXCEPT ![w] = "inflight"]
         /\ left' = [left EXCEPT ![w] = n]
         /\ overlapped' = IF Draining \ {w} = {} THEN overlapped
                          ELSE overlapped \cup Draining \cup {w}
    ELSE Finish(w)

\* Mutants of Keep, RemoveFirst and PerSend, below.
KeepAtFront(f) == <<f>> \o buffer
RemoveLast(buf) == SubSeq(buf, 1, Len(buf) - 1)
RemoveNothing(buf) == buf
PerSendNothing == 0

\* _positionBuffer.length < _maxBufferSize, add, removeAt(0), and the default
\* limit of _drainPositionBuffer.
HasRoom == Len(buffer) < BufferCap
Keep(f) == Append(buffer, f)
RemoveFirst(buf) == Tail(buf)
PerSend == DrainLimit

\* The await on a POST throws: an error answer, or no answer at all.
RequestFails(w) ==
    \/ req[w] = "refused"
    \/ net = "down" /\ req[w] \in {"inflight", "stored"}

\* The app is told the request failed although the server stored the fix.
NoteLostAck(w) ==
    ackLost' = IF req[w] = "stored" THEN [ackLost EXCEPT ![item[w]] = TRUE]
               ELSE ackLost

-----------------------------------------------------------------------------
StartTracking ==
    /\ ~tracking
    /\ tracking' = TRUE
    /\ UNCHANGED <<net, buffer, pc, item, req, left, copies, fate, ackLost,
                   overlapped>>

\* _onPositionUpdate in flight: a new call of _sendPosition posts the fix.
SendPosition(f) ==
    /\ tracking
    /\ Free(f)
    /\ pc' = [pc EXCEPT ![f] = "sending"]
    /\ item' = [item EXCEPT ![f] = f]
    /\ req' = [req EXCEPT ![f] = "inflight"]
    /\ copies' = [copies EXCEPT ![f] = 0]
    /\ fate' = [fate EXCEPT ![f] = "taken"]
    /\ ackLost' = [ackLost EXCEPT ![f] = FALSE]
    /\ UNCHANGED <<tracking, net, buffer, left, overlapped>>

\* post_position stores a row and commits; the server keeps no sequence
\* number, so a fix posted twice is stored twice.
Store(w) ==
    /\ net = "up"
    /\ req[w] = "inflight"
    /\ item[w] \notin Poison
    /\ req' = [req EXCEPT ![w] = "stored"]
    /\ copies' = [copies EXCEPT ![item[w]] = IF @ = 0 THEN 1 ELSE 2]
    /\ UNCHANGED <<tracking, net, buffer, pc, item, left, fate, ackLost,
                   overlapped>>

\* The server answers 4xx or 5xx: an ApiException in the app.
Refuse(w) ==
    /\ req[w] = "inflight"
    /\ net = "erring" \/ (net = "up" /\ item[w] \in Poison)
    /\ req' = [req EXCEPT ![w] = "refused"]
    /\ UNCHANGED <<tracking, net, buffer, pc, item, left, copies, fate,
                   ackLost, overlapped>>

\* _sendPosition after a successful POST: go on to drain the buffer.
SendOk(f) ==
    /\ pc[f] = "sending"
    /\ req[f] = "stored"
    /\ DrainFrom(f, buffer, PerSend)
    /\ UNCHANGED <<tracking, net, buffer, copies, fate, ackLost>>

\* Either catch clause of _sendPosition: keep the payload if there is room.
SendFailed(f) ==
    /\ pc[f] = "sending"
    /\ RequestFails(f)
    /\ IF HasRoom
       THEN /\ buffer' = Keep(f)
            /\ UNCHANGED fate
       ELSE /\ fate' = [fate EXCEPT ![f] = "dropped"]
            /\ UNCHANGED buffer
    /\ NoteLostAck(f)
    /\ Finish(f)
    /\ UNCHANGED <<tracking, net, copies>>

\* _drainPositionBuffer after a successful POST.  removeAt(0) takes whatever
\* is at the head by now; on an empty list it throws, which ends the drain.
DrainOk(w) ==
    /\ pc[w] = "draining"
    /\ req[w] = "stored"
    /\ IF buffer = <<>>
       THEN /\ Finish(w)
            /\ UNCHANGED buffer
       ELSE /\ buffer' = RemoveFirst(buffer)
            /\ DrainFrom(w, RemoveFirst(buffer), left[w] - 1)
    /\ UNCHANGED <<tracking, net, copies, fate, ackLost>>

\* _drainPositionBuffer, catch clause: stop, and leave the fix in the buffer.
DrainFailed(w) ==
    /\ pc[w] = "draining"
    /\ RequestFails(w)
    /\ NoteLostAck(w)
    /\ Finish(w)
    /\ UNCHANGED <<tracking, net, buffer, copies, fate>>

\* stopTracking up to its first await.
StopTracking(s) ==
    /\ tracking
    /\ pc[s] = "idle"
    /\ tracking' = FALSE
    /\ pc' = [pc EXCEPT ![s] = "stopping"]
    /\ UNCHANGED <<net, buffer, item, req, left, copies, fate, ackLost,
                   overlapped>>

\* stopTracking after its awaits: the final drain, of the whole buffer.
StopDrain(s) ==
    /\ pc[s] = "stopping"
    /\ DrainFrom(s, buffer, Len(buffer))
    /\ UNCHANGED <<tracking, net, buffer, copies, fate, ackLost>>

\* The OS kills the app: the buffer and every pending call are in memory only.
Crash ==
    /\ tracking' = FALSE
    /\ buffer' = <<>>
    /\ pc' = [w \in Workers |-> "idle"]
    /\ item' = [w \in Workers |-> NoFix]
    /\ req' = [w \in Workers |-> "none"]
    /\ left' = [w \in Workers |-> 0]
    /\ fate' = [f \in Fixes |-> IF Carried(f) THEN "crashed" ELSE fate[f]]
    /\ overlapped' = {}
    /\ UNCHANGED <<net, copies, ackLost>>

NetChanges(v) ==
    /\ net # v
    /\ net' = v
    /\ UNCHANGED <<tracking, buffer, pc, item, req, left, copies, fate,
                   ackLost, overlapped>>

-----------------------------------------------------------------------------
Next ==
    \/ StartTracking
    \/ \E f \in Fixes : SendPosition(f) \/ SendOk(f) \/ SendFailed(f)
    \/ \E w \in Workers : Store(w) \/ Refuse(w) \/ DrainOk(w) \/ DrainFailed(w)
    \/ \E s \in Stops : StopTracking(s) \/ StopDrain(s)
    \/ Crash
    \/ \E v \in {"up", "down", "erring"} : NetChanges(v)

Spec == Init /\ [][Next]_vars

\* GPS fixes keep coming while tracking, requests are answered, and the event
\* loop runs every continuation.  Nothing is assumed of stopping, of crashes
\* or of the network.
Fairness ==
    /\ WF_vars(\E f \in Fixes : SendPosition(f))
    /\ \A f \in Fixes : WF_vars(SendOk(f) \/ SendFailed(f))
    /\ \A w \in Workers : /\ WF_vars(Store(w) \/ Refuse(w))
                          /\ WF_vars(DrainOk(w) \/ DrainFailed(w))
    /\ \A s \in Stops : WF_vars(StopDrain(s))

FairSpec == Spec /\ Fairness

-----------------------------------------------------------------------------
(* Properties *)

\* A drain that has had the buffer to itself since it began holds the very
\* fix that removeAt(0) will take (tracking_service.dart 1764-1767).
SoleDrainHoldsHead ==
    \A w \in Draining \ overlapped :
        /\ Draining = {w}
        /\ buffer # <<>>
        /\ item[w] = Head(buffer)

\* A fix never sent leaves the app only when the buffer is full, in a crash,
\* or under the hands of drains that overlap: no other interleaving of the
\* asynchronous calls loses one (tracking_service.dart 1677-1774).
LossOnlyWhenDrainsOverlap ==
    [][\A f \in Fixes : ~Vanished(f) /\ Vanished(f)' => overlapped # {}]_vars

\* The server stores a fix a second time only if the answer to the first POST
\* was lost or two drains posted the same head; overlapping calls of
\* _sendPosition alone never duplicate one (1677-1774, tracking.py 739-853).
DuplicateOnlyAfterLostAck ==
    [][\A w \in Workers :
         Store(w) /\ copies[item[w]] > 0
            => ackLost[item[w]] \/ w \in overlapped]_vars

\* The comment on _drainPositionBuffer, "Stops on the first failure so we
\* don't reorder or lose positions" (tracking_service.dart 1760): a fix is
\* stored, still held, or given up for a reason the code names.
NoFixVanishes == \A f \in Fixes : ~Vanished(f)

\* While tracking goes on, the server stays reachable and answers, and none
\* of the fixes under way is one it refuses for good, a buffered fix does not
\* stay in the buffer for ever (1688-1689).  A refused fix at the head stops
\* every drain at once and the fixes behind it stay: hence the last conjunct.
BufferDrains ==
    <>[](tracking /\ net = "up" /\ \A p \in Poison : ~Carried(p))
        => \A f \in Fixes : Buffered(f) ~> ~Buffered(f)
=============================================================================
