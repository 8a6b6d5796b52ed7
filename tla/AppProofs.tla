------------------------------ MODULE AppProofs ------------------------------
(***************************************************************************)
(* Proofs about the two services of the mobile app, PositionUplink and     *)
(* FlightRecorder: for any number of fixes and stop calls and any buffer   *)
(* capacity and drain limit; for any number of flights of the day, of      *)
(* updates and starts under way, and of calls that save.                   *)
(*                                                                         *)
(* The recorder's numbers need little: a flight is numbered because a      *)
(* take-off is only detected after a start or in monitoring, and a save    *)
(* that ends leaves the flying states or keeps the number.  The files need *)
(* the invariant Calm, which holds until something disturbs a save: a      *)
(* single save is under way, the track holds the flight that is flown, and *)
(* every file written since the start has a smaller number than the flight.*)
(***************************************************************************)
EXTENDS PositionUplink, FlightRecorder, FiniteSetTheorems, TLAPS

-----------------------------------------------------------------------------
(* The uplink                                                              *)

\* What each worker holds, by where it is suspended.
WorkerShape ==
    \A w \in Workers :
        /\ pc[w] \in {"idle", "stopping"} => item[w] = NoFix /\ req[w] = "none"
        /\ pc[w] = "sending" => w \in Fixes /\ item[w] = w /\ req[w] # "none"
        /\ pc[w] = "draining" => item[w] \in Fixes /\ req[w] # "none"
        /\ w \in overlapped => pc[w] = "draining"

\* A request the app may take for a success has a row behind it.
StoredHasRow ==
    \A w \in Workers : req[w] = "stored" => copies[item[w]] > 0

IInv == TypeOK /\ WorkerShape /\ StoredHasRow /\ SoleDrainHoldsHead

\* The variables of a worker, and their types.
WorkerTypes ==
    /\ pc \in [Workers -> {"idle", "sending", "stopping", "draining"}]
    /\ item \in [Workers -> Fixes \cup {NoFix}]
    /\ req \in [Workers -> {"none", "inflight", "stored", "refused"}]
    /\ left \in [Workers -> Nat]
    /\ overlapped \subseteq Workers

-----------------------------------------------------------------------------
\* The buffer after an append: the head stays, and so does every element.
LEMMA AppendFacts ==
  ASSUME NEW buf \in Seq(Fixes), NEW f \in Fixes
  PROVE  /\ Append(buf, f) \in Seq(Fixes)
         /\ Len(Append(buf, f)) = Len(buf) + 1
         /\ Append(buf, f) # <<>>
         /\ buf # <<>> => Head(Append(buf, f)) = Head(buf)
         /\ \A i \in 1..Len(buf) : Append(buf, f)[i] = buf[i]
         /\ Append(buf, f)[Len(buf) + 1] = f
  OBVIOUS

\* The buffer after removeAt(0).
LEMMA TailFacts ==
  ASSUME NEW buf \in Seq(Fixes), buf # <<>>
  PROVE  /\ Tail(buf) \in Seq(Fixes)
         /\ Len(buf) > 0
         /\ Len(Tail(buf)) = Len(buf) - 1
         /\ Head(buf) \in Fixes
         /\ Head(buf) = buf[1]
         /\ \A i \in 1..Len(Tail(buf)) : Tail(buf)[i] = buf[i + 1]
  OBVIOUS

\* ackLost stays a Boolean function when the app is told of a failure.
LEMMA NoteLostAckType ==
  ASSUME ackLost \in [Fixes -> BOOLEAN], NEW w \in Workers, NoteLostAck(w)
  PROVE  ackLost' \in [Fixes -> BOOLEAN]
  <1>1. [ackLost EXCEPT ![item[w]] = TRUE] \in [Fixes -> BOOLEAN]
    <2>1. [ackLost EXCEPT ![item[w]] = TRUE]
            = [f \in Fixes |-> IF f = item[w] THEN TRUE ELSE ackLost[f]]
      OBVIOUS
    <2>2. \A f \in Fixes :
            (IF f = item[w] THEN TRUE ELSE ackLost[f]) \in BOOLEAN
      OBVIOUS
    <2>3. QED
      BY <2>1, <2>2, Zenon
  <1>2. QED
    BY <1>1 DEF NoteLostAck

-----------------------------------------------------------------------------
\* A worker that finishes, and one that drains, keep the types.
LEMMA FinishTypes ==
  ASSUME WorkerTypes, NEW w \in Workers, Finish(w)
  PROVE  WorkerTypes'
  BY DEF WorkerTypes, Finish

LEMMA DrainFromTypes ==
  ASSUME WorkerTypes, NEW w \in Workers, NEW buf \in Seq(Fixes),
         NEW n \in Int, DrainFrom(w, buf, n)
  PROVE  WorkerTypes'
  <1>1. CASE buf # <<>> /\ n > 0
    <2>1. Head(buf) \in Fixes
      BY <1>1, TailFacts
    <2>2. n \in Nat
      BY <1>1
    <2>3. /\ pc' \in [Workers -> {"idle", "sending", "stopping", "draining"}]
          /\ item' \in [Workers -> Fixes \cup {NoFix}]
          /\ req' \in [Workers -> {"none", "inflight", "stored", "refused"}]
          /\ left' \in [Workers -> Nat]
      BY <1>1, <2>1, <2>2 DEF WorkerTypes, DrainFrom
    <2>4. overlapped' \subseteq Workers
      BY <1>1 DEF WorkerTypes, DrainFrom, Draining
    <2>5. QED
      BY <2>3, <2>4 DEF WorkerTypes
  <1>2. CASE ~(buf # <<>> /\ n > 0)
    BY <1>2, FinishTypes DEF DrainFrom
  <1>3. QED
    BY <1>1, <1>2

LEMMA InitType == Init => TypeOK
  <1>1. SUFFICES ASSUME Init PROVE TypeOK
    OBVIOUS
  <1>2. buffer \in Seq(Fixes) /\ Len(buffer) <= BufferCap
    BY <1>1, BufferCapAssumption DEF Init
  <1>3. WorkerTypes
    BY <1>1 DEF Init, WorkerTypes
  <1>4. tracking \in BOOLEAN /\ net \in {"up", "down", "erring"}
    BY <1>1 DEF Init
  <1>5. copies \in [Fixes -> 0..2]
    BY <1>1 DEF Init
  <1>6. fate \in [Fixes -> {"new", "taken", "dropped", "crashed"}]
    BY <1>1 DEF Init
  <1>7. ackLost \in [Fixes -> BOOLEAN]
    BY <1>1 DEF Init
  <1>8. QED
    BY <1>2, <1>3, <1>4, <1>5, <1>6, <1>7 DEF TypeOK, WorkerTypes

LEMMA NextType == TypeOK /\ [Next]_vars => TypeOK'
  <1> SUFFICES ASSUME TypeOK, [Next]_vars PROVE TypeOK'
    OBVIOUS
  <1>0. WorkerTypes
    BY DEF TypeOK, WorkerTypes
  <1>1. CASE StartTracking
    BY <1>1 DEF StartTracking, TypeOK
  <1>2. ASSUME NEW f \in Fixes, SendPosition(f) PROVE TypeOK'
    <2>1. f \in Workers
      BY DEF Workers
    <2>2. WorkerTypes'
      BY <1>0, <1>2, <2>1 DEF WorkerTypes, SendPosition
    <2>3. QED
      BY <1>2, <2>2 DEF SendPosition, TypeOK, WorkerTypes
  <1>3. ASSUME NEW f \in Fixes, SendOk(f) PROVE TypeOK'
    <2>1. f \in Workers /\ buffer \in Seq(Fixes) /\ PerSend \in Int
      BY DrainLimitAssumption DEF Workers, TypeOK, PerSend
    <2>2. WorkerTypes'
      BY <1>0, <1>3, <2>1, DrainFromTypes DEF SendOk
    <2>3. QED
      BY <1>3, <2>2 DEF SendOk, TypeOK, WorkerTypes
  <1>4. ASSUME NEW f \in Fixes, SendFailed(f) PROVE TypeOK'
    <2>1. f \in Workers
      BY DEF Workers
    <2>2. WorkerTypes'
      BY <1>0, <1>4, <2>1, FinishTypes DEF SendFailed
    <2>3. buffer' \in Seq(Fixes) /\ Len(buffer') <= BufferCap
      <3>1. buffer \in Seq(Fixes) /\ Len(buffer) \in Nat
        BY DEF TypeOK
      <3>2. CASE HasRoom
        <4>1. buffer' = Append(buffer, f) /\ Len(buffer) < BufferCap
          BY <1>4, <3>2 DEF SendFailed, HasRoom, Keep
        <4>2. QED
          BY <3>1, <4>1, AppendFacts, BufferCapAssumption
      <3>3. CASE ~HasRoom
        BY <1>4, <3>3 DEF SendFailed, TypeOK
      <3>4. QED
        BY <3>2, <3>3
    <2>4. fate' \in [Fixes -> {"new", "taken", "dropped", "crashed"}]
      BY <1>4 DEF SendFailed, TypeOK
    <2>5. ackLost' \in [Fixes -> BOOLEAN]
      BY <1>4, <2>1, NoteLostAckType DEF SendFailed, TypeOK
    <2>6. QED
      BY <1>4, <2>2, <2>3, <2>4, <2>5 DEF SendFailed, TypeOK, WorkerTypes
  <1>5. ASSUME NEW w \in Workers, Store(w) PROVE TypeOK'
    <2>1. copies' \in [Fixes -> 0..2]
      <3>1. copies' = [f \in Fixes |-> IF f = item[w]
                                       THEN IF copies[f] = 0 THEN 1 ELSE 2
                                       ELSE copies[f]]
        BY <1>5 DEF Store, TypeOK
      <3>2. \A f \in Fixes : copies[f] \in 0..2
        BY DEF TypeOK
      <3>3. QED
        BY <3>1, <3>2
    <2>2. WorkerTypes'
      BY <1>0, <1>5 DEF WorkerTypes, Store
    <2>3. QED
      BY <1>5, <2>1, <2>2 DEF Store, TypeOK, WorkerTypes
  <1>6. ASSUME NEW w \in Workers, Refuse(w) PROVE TypeOK'
    <2>1. WorkerTypes'
      BY <1>0, <1>6 DEF WorkerTypes, Refuse
    <2>2. QED
      BY <1>6, <2>1 DEF Refuse, TypeOK, WorkerTypes
  <1>7. ASSUME NEW w \in Workers, DrainOk(w) PROVE TypeOK'
    <2>1. CASE buffer = <<>>
      <3>1. WorkerTypes'
        BY <1>0, <1>7, <2>1, FinishTypes DEF DrainOk
      <3>2. QED
        BY <1>7, <2>1, <3>1 DEF DrainOk, TypeOK, WorkerTypes
    <2>2. CASE buffer # <<>>
      <3>1. /\ Tail(buffer) \in Seq(Fixes)
            /\ Len(Tail(buffer)) <= BufferCap
            /\ left[w] - 1 \in Int
        BY <2>2, TailFacts, BufferCapAssumption DEF TypeOK
      <3>2. WorkerTypes'
        BY <1>0, <1>7, <2>2, <3>1, DrainFromTypes DEF DrainOk, RemoveFirst
      <3>3. QED
        BY <1>7, <2>2, <3>1, <3>2 DEF DrainOk, RemoveFirst, TypeOK, WorkerTypes
    <2>3. QED
      BY <2>1, <2>2
  <1>8. ASSUME NEW w \in Workers, DrainFailed(w) PROVE TypeOK'
    <2>1. WorkerTypes'
      BY <1>0, <1>8, FinishTypes DEF DrainFailed
    <2>2. ackLost' \in [Fixes -> BOOLEAN]
      BY <1>8, NoteLostAckType DEF DrainFailed, TypeOK
    <2>3. QED
      BY <1>8, <2>1, <2>2 DEF DrainFailed, TypeOK, WorkerTypes
  <1>9. ASSUME NEW s \in Stops, StopTracking(s) PROVE TypeOK'
    <2>1. WorkerTypes'
      BY <1>0, <1>9 DEF WorkerTypes, StopTracking
    <2>2. QED
      BY <1>9, <2>1 DEF StopTracking, TypeOK, WorkerTypes
  <1>10. ASSUME NEW s \in Stops, StopDrain(s) PROVE TypeOK'
    <2>1. s \in Workers /\ buffer \in Seq(Fixes) /\ Len(buffer) \in Int
      BY DEF Workers, TypeOK
    <2>2. WorkerTypes'
      BY <1>0, <1>10, <2>1, DrainFromTypes DEF StopDrain
    <2>3. QED
      BY <1>10, <2>2 DEF StopDrain, TypeOK, WorkerTypes
  <1>11. CASE Crash
    <2>1. WorkerTypes'
      BY <1>11 DEF Crash, WorkerTypes
    <2>2. fate' \in [Fixes -> {"new", "taken", "dropped", "crashed"}]
      BY <1>11 DEF Crash, TypeOK
    <2>3. buffer' \in Seq(Fixes) /\ Len(buffer') <= BufferCap
      BY <1>11, BufferCapAssumption DEF Crash
    <2>4. QED
      BY <1>11, <2>1, <2>2, <2>3 DEF Crash, TypeOK, WorkerTypes
  <1>12. ASSUME NEW v \in {"up", "down", "erring"}, NetChanges(v) PROVE TypeOK'
    BY <1>12 DEF NetChanges, TypeOK
  <1>13. CASE UNCHANGED vars
    BY <1>13 DEF vars, TypeOK
  <1>14. QED
    BY <1>1, <1>2, <1>3, <1>4, <1>5, <1>6, <1>7, <1>8, <1>9, <1>10, <1>11,
       <1>12, <1>13 DEF Next

\* Type correctness of the uplink: in particular _positionBuffer never holds
\* more than _maxBufferSize fixes, however many calls append to it.
THEOREM TypeCorrect == Spec => []TypeOK
  BY InitType, NextType, PTL DEF Spec

-----------------------------------------------------------------------------
\* WorkerShape, when one worker finishes and when one drains.
LEMMA FinishShape ==
  ASSUME WorkerTypes, WorkerShape, NEW w \in Workers, Finish(w)
  PROVE  WorkerShape'
  BY DEF WorkerTypes, WorkerShape, Finish

LEMMA DrainFromShape ==
  ASSUME WorkerTypes, WorkerShape, NEW w \in Workers, NEW buf \in Seq(Fixes),
         NEW n \in Int, DrainFrom(w, buf, n)
  PROVE  WorkerShape'
  <1>1. CASE buf # <<>> /\ n > 0
    <2>1. Head(buf) \in Fixes
      BY <1>1, TailFacts
    <2>2. /\ pc' = [pc EXCEPT ![w] = "draining"]
          /\ item' = [item EXCEPT ![w] = Head(buf)]
          /\ req' = [req EXCEPT ![w] = "inflight"]
          /\ overlapped' \subseteq overlapped \cup Draining \cup {w}
      BY <1>1 DEF DrainFrom
    <2>3. \A v \in Workers : v \in overlapped' => pc'[v] = "draining"
      BY <2>2 DEF WorkerTypes, WorkerShape, Draining
    <2>4. QED
      BY <2>1, <2>2, <2>3 DEF WorkerTypes, WorkerShape
  <1>2. CASE ~(buf # <<>> /\ n > 0)
    BY <1>2, FinishShape DEF DrainFrom
  <1>3. QED
    BY <1>1, <1>2

LEMMA ShapeStep == TypeOK /\ WorkerShape /\ [Next]_vars => WorkerShape'
  <1> SUFFICES ASSUME TypeOK, WorkerShape, [Next]_vars PROVE WorkerShape'
    OBVIOUS
  <1>0. /\ WorkerTypes
        /\ buffer \in Seq(Fixes)
        /\ Fixes \subseteq Workers
        /\ Stops \subseteq Workers
    BY DEF TypeOK, WorkerTypes, Workers
  <1>1. CASE StartTracking
    BY <1>1 DEF StartTracking, WorkerShape
  <1>2. ASSUME NEW f \in Fixes, SendPosition(f) PROVE WorkerShape'
    BY <1>0, <1>2 DEF SendPosition, Free, WorkerShape, WorkerTypes
  <1>3. ASSUME NEW f \in Fixes, SendOk(f) PROVE WorkerShape'
    BY <1>0, <1>3, DrainFromShape, DrainLimitAssumption DEF SendOk, PerSend
  <1>4. ASSUME NEW f \in Fixes, SendFailed(f) PROVE WorkerShape'
    BY <1>0, <1>4, FinishShape DEF SendFailed
  <1>5. ASSUME NEW w \in Workers, Store(w) PROVE WorkerShape'
    BY <1>0, <1>5 DEF Store, WorkerShape, WorkerTypes
  <1>6. ASSUME NEW w \in Workers, Refuse(w) PROVE WorkerShape'
    BY <1>0, <1>6 DEF Refuse, WorkerShape, WorkerTypes
  <1>7. ASSUME NEW w \in Workers, DrainOk(w) PROVE WorkerShape'
    <2>1. CASE buffer = <<>>
      BY <1>0, <1>7, <2>1, FinishShape DEF DrainOk
    <2>2. CASE buffer # <<>>
      <3>1. Tail(buffer) \in Seq(Fixes) /\ left[w] - 1 \in Int
        BY <1>0, <2>2, TailFacts DEF TypeOK
      <3>2. QED
        BY <1>0, <1>7, <2>2, <3>1, DrainFromShape DEF DrainOk, RemoveFirst
    <2>3. QED
      BY <2>1, <2>2
  <1>8. ASSUME NEW w \in Workers, DrainFailed(w) PROVE WorkerShape'
    BY <1>0, <1>8, FinishShape DEF DrainFailed
  <1>9. ASSUME NEW s \in Stops, StopTracking(s) PROVE WorkerShape'
    BY <1>0, <1>9 DEF StopTracking, WorkerShape, WorkerTypes
  <1>10. ASSUME NEW s \in Stops, StopDrain(s) PROVE WorkerShape'
    <2>1. Len(buffer) \in Int
      BY <1>0
    <2>2. QED
      BY <1>0, <1>10, <2>1, DrainFromShape DEF StopDrain
  <1>11. CASE Crash
    BY <1>11 DEF Crash, WorkerShape
  <1>12. ASSUME NEW v \in {"up", "down", "erring"}, NetChanges(v)
         PROVE  WorkerShape'
    BY <1>12 DEF NetChanges, WorkerShape
  <1>13. CASE UNCHANGED vars
    BY <1>13 DEF vars, WorkerShape
  <1>14. QED
    BY <1>1, <1>2, <1>3, <1>4, <1>5, <1>6, <1>7, <1>8, <1>9, <1>10, <1>11,
       <1>12, <1>13 DEF Next

-----------------------------------------------------------------------------
\* StoredHasRow, when a worker ends its request or begins another.
LEMMA DrainFromStored ==
  ASSUME WorkerTypes, StoredHasRow, NEW w \in Workers, NEW buf, NEW n,
         DrainFrom(w, buf, n) \/ Finish(w), UNCHANGED copies
  PROVE  StoredHasRow'
  BY DEF WorkerTypes, StoredHasRow, DrainFrom, Finish

LEMMA StoredStep ==
  TypeOK /\ WorkerShape /\ StoredHasRow /\ [Next]_vars => StoredHasRow'
  <1> SUFFICES ASSUME TypeOK, WorkerShape, StoredHasRow, [Next]_vars
               PROVE  StoredHasRow'
    OBVIOUS
  <1>0. /\ WorkerTypes
        /\ Fixes \subseteq Workers
        /\ Stops \subseteq Workers
    BY DEF TypeOK, WorkerTypes, Workers
  <1>1. CASE StartTracking
    BY <1>1 DEF StartTracking, StoredHasRow
  <1>2. ASSUME NEW f \in Fixes, SendPosition(f) PROVE StoredHasRow'
    <2>1. \A w \in Workers : item[w] # f
      BY <1>2 DEF SendPosition, Free, Carried
    <2>2. SUFFICES ASSUME NEW w \in Workers, req'[w] = "stored"
                   PROVE  copies'[item'[w]] > 0
      BY DEF StoredHasRow
    <2>3. w # f /\ req[w] = "stored" /\ item'[w] = item[w]
      BY <1>0, <1>2, <2>2 DEF SendPosition, WorkerTypes
    <2>4. item[w] \in Fixes
      <3>1. pc[w] \in {"idle", "stopping", "sending", "draining"} /\ w \in Workers
        BY <1>0 DEF WorkerTypes
      <3>2. pc[w] \notin {"idle", "stopping"}
        BY <2>3 DEF WorkerShape
      <3> QED
        BY <3>1, <3>2 DEF WorkerShape
    <2>5. copies'[item[w]] = copies[item[w]]
      BY <1>2, <2>1, <2>4 DEF SendPosition, TypeOK
    <2>6. QED
      BY <2>3, <2>5 DEF StoredHasRow
  <1>3. ASSUME NEW f \in Fixes, SendOk(f) PROVE StoredHasRow'
    BY <1>0, <1>3, DrainFromStored DEF SendOk
  <1>4. ASSUME NEW f \in Fixes, SendFailed(f) PROVE StoredHasRow'
    BY <1>0, <1>4, DrainFromStored DEF SendFailed
  <1>5. ASSUME NEW w \in Workers, Store(w) PROVE StoredHasRow'
    <2>1. item[w] \in Fixes
      <3>1. req[w] = "inflight"
        BY <1>5 DEF Store
      <3>2. pc[w] \in {"idle", "sending", "stopping", "draining"}
        BY DEF TypeOK
      <3>3. QED
        BY <3>1, <3>2 DEF WorkerShape
    <2>2. /\ copies'[item[w]] > 0
          /\ \A f \in Fixes : copies[f] > 0 => copies'[f] > 0
      BY <1>5, <2>1 DEF Store, TypeOK
    <2>3. SUFFICES ASSUME NEW v \in Workers, req'[v] = "stored"
                   PROVE  copies'[item'[v]] > 0
      BY DEF StoredHasRow
    <2>4. CASE v = w
      BY <1>5, <2>2, <2>4 DEF Store
    <2>5. CASE v # w
      <3>1. req[v] = "stored" /\ item'[v] = item[v]
        BY <1>5, <2>3, <2>5 DEF Store, TypeOK
      <3>2. item[v] \in Fixes
        <4>1. pc[v] \in {"idle", "sending", "stopping", "draining"}
          BY <1>0 DEF WorkerTypes
        <4>2. req[v] # "none"
          BY <3>1
        <4>3. QED
          BY <4>1, <4>2 DEF WorkerShape
      <3>3. QED
        BY <2>2, <3>1, <3>2 DEF StoredHasRow
    <2>6. QED
      BY <2>4, <2>5
  <1>6. ASSUME NEW w \in Workers, Refuse(w) PROVE StoredHasRow'
    BY <1>0, <1>6 DEF Refuse, StoredHasRow, WorkerTypes
  <1>7. ASSUME NEW w \in Workers, DrainOk(w) PROVE StoredHasRow'
    BY <1>0, <1>7, DrainFromStored DEF DrainOk
  <1>8. ASSUME NEW w \in Workers, DrainFailed(w) PROVE StoredHasRow'
    BY <1>0, <1>8, DrainFromStored DEF DrainFailed
  <1>9. ASSUME NEW s \in Stops, StopTracking(s) PROVE StoredHasRow'
    BY <1>9 DEF StopTracking, StoredHasRow
  <1>10. ASSUME NEW s \in Stops, StopDrain(s) PROVE StoredHasRow'
    BY <1>0, <1>10, DrainFromStored DEF StopDrain
  <1>11. CASE Crash
    BY <1>11 DEF Crash, StoredHasRow
  <1>12. ASSUME NEW v \in {"up", "down", "erring"}, NetChanges(v)
         PROVE  StoredHasRow'
    BY <1>12 DEF NetChanges, StoredHasRow
  <1>13. CASE UNCHANGED vars
    BY <1>13 DEF vars, StoredHasRow
  <1>14. QED
    BY <1>1, <1>2, <1>3, <1>4, <1>5, <1>6, <1>7, <1>8, <1>9, <1>10, <1>11,
       <1>12, <1>13 DEF Next

-----------------------------------------------------------------------------
\* The buffer's sole user, when a worker stops using it: nobody else drained
\* alone beside it, so nobody is left to claim the head.
LEMMA FinishSole ==
  ASSUME WorkerTypes, WorkerShape, SoleDrainHoldsHead, NEW w \in Workers,
         pc[w] = "draining", Finish(w)
  PROVE  Draining' \ overlapped' = {}
  <1>1. Draining' \subseteq Draining \ {w}
    BY DEF Finish, WorkerTypes, Draining
  <1>2. overlapped' = overlapped \ {w}
    BY DEF Finish
  <1>3. w \in Draining
    BY DEF Draining
  <1>4. SUFFICES ASSUME NEW v \in Draining' \ overlapped' PROVE FALSE
    OBVIOUS
  <1>5. v \in Draining \ overlapped /\ v # w
    BY <1>1, <1>2, <1>4
  <1>6. QED
    BY <1>3, <1>5 DEF SoleDrainHoldsHead

\* A worker that was not draining and returns changes no claim to the head.
LEMMA FinishOther ==
  ASSUME WorkerTypes, WorkerShape, NEW w \in Workers,
         pc[w] # "draining", Finish(w)
  PROVE  /\ Draining' = Draining /\ overlapped' = overlapped
         /\ \A v \in Draining : item'[v] = item[v]
  <1>1. Draining' = Draining
    BY DEF Finish, WorkerTypes, Draining
  <1>2. overlapped' = overlapped
    BY DEF Finish, WorkerShape
  <1>3. \A v \in Draining : item'[v] = item[v]
    BY DEF Finish, WorkerTypes, Draining
  <1>4. QED
    BY <1>1, <1>2, <1>3

\* A worker that begins or goes on draining either is alone with the head of
\* the buffer it is left with, or puts every drain among the overlapped ones.
LEMMA DrainFromSole ==
  ASSUME WorkerTypes, WorkerShape, SoleDrainHoldsHead, NEW w \in Workers,
         buffer' \in Seq(Fixes), NEW n \in Int, DrainFrom(w, buffer', n),
         pc[w] # "draining" => buffer' = buffer
  PROVE  SoleDrainHoldsHead'
  <1>1. CASE buffer' # <<>> /\ n > 0
    <2>1. /\ Draining' = Draining \cup {w}
          /\ item'[w] = Head(buffer')
      BY <1>1 DEF DrainFrom, WorkerTypes, Draining
    <2>2. CASE Draining \ {w} = {}
      BY <1>1, <2>1, <2>2 DEF SoleDrainHoldsHead
    <2>3. CASE Draining \ {w} # {}
      <3>1. overlapped' = overlapped \cup Draining \cup {w}
        BY <1>1, <2>3 DEF DrainFrom
      <3>2. Draining' \ overlapped' = {}
        BY <2>1, <3>1
      <3>3. QED
        BY <3>2 DEF SoleDrainHoldsHead
    <2>4. QED
      BY <2>2, <2>3
  <1>2. CASE ~(buffer' # <<>> /\ n > 0)
    <2>1. Finish(w)
      BY <1>2 DEF DrainFrom
    <2>2. CASE pc[w] = "draining"
      BY <2>1, <2>2, FinishSole DEF SoleDrainHoldsHead
    <2>3. CASE pc[w] # "draining"
      BY <2>1, <2>3, FinishOther DEF SoleDrainHoldsHead
    <2>4. QED
      BY <2>2, <2>3
  <1>3. QED
    BY <1>1, <1>2

LEMMA SoleStep ==
  TypeOK /\ WorkerShape /\ SoleDrainHoldsHead /\ [Next]_vars
    => SoleDrainHoldsHead'
  <1> SUFFICES ASSUME TypeOK, WorkerShape, SoleDrainHoldsHead, [Next]_vars
               PROVE  SoleDrainHoldsHead'
    OBVIOUS
  <1>0. /\ WorkerTypes
        /\ buffer \in Seq(Fixes)
        /\ Fixes \subseteq Workers
        /\ Stops \subseteq Workers
    BY DEF TypeOK, WorkerTypes, Workers
  <1>1. CASE StartTracking
    BY <1>1 DEF StartTracking, SoleDrainHoldsHead, Draining
  <1>2. ASSUME NEW f \in Fixes, SendPosition(f) PROVE SoleDrainHoldsHead'
    <2>1. Draining' = Draining
      BY <1>0, <1>2 DEF SendPosition, Free, Draining, WorkerTypes
    <2>2. \A v \in Draining : item'[v] = item[v]
      BY <1>0, <1>2 DEF SendPosition, Free, Draining, WorkerTypes
    <2>3. UNCHANGED <<buffer, overlapped>>
      BY <1>2 DEF SendPosition
    <2>4. QED
      BY <2>1, <2>2, <2>3 DEF SoleDrainHoldsHead
  <1>3. ASSUME NEW f \in Fixes, SendOk(f) PROVE SoleDrainHoldsHead'
    <2>1. /\ f \in Workers
          /\ buffer' = buffer
          /\ buffer' \in Seq(Fixes)
          /\ PerSend \in Int
          /\ DrainFrom(f, buffer', PerSend)
      BY <1>0, <1>3, DrainLimitAssumption DEF SendOk, PerSend
    <2>2. QED
      BY <1>0, <2>1, DrainFromSole
  <1>4. ASSUME NEW f \in Fixes, SendFailed(f) PROVE SoleDrainHoldsHead'
    <2>1. /\ Draining' = Draining /\ overlapped' = overlapped
          /\ \A v \in Draining : item'[v] = item[v]
      <3>1. f \in Workers /\ pc[f] # "draining" /\ Finish(f)
        BY <1>0, <1>4 DEF SendFailed
      <3>2. QED
        BY <1>0, <3>1, FinishOther
    <2>2. buffer # <<>> => buffer' # <<>> /\ Head(buffer') = Head(buffer)
      BY <1>0, <1>4, AppendFacts DEF SendFailed, Keep
    <2>3. QED
      BY <2>1, <2>2 DEF SoleDrainHoldsHead
  <1>5. ASSUME NEW w \in Workers, Store(w) PROVE SoleDrainHoldsHead'
    BY <1>5 DEF Store, SoleDrainHoldsHead, Draining
  <1>6. ASSUME NEW w \in Workers, Refuse(w) PROVE SoleDrainHoldsHead'
    BY <1>6 DEF Refuse, SoleDrainHoldsHead, Draining
  <1>7. ASSUME NEW w \in Workers, DrainOk(w) PROVE SoleDrainHoldsHead'
    <2>1. CASE buffer = <<>>
      BY <1>0, <1>7, <2>1, FinishSole DEF DrainOk, SoleDrainHoldsHead
    <2>2. CASE buffer # <<>>
      <3>1. /\ buffer' = Tail(buffer)
            /\ DrainFrom(w, Tail(buffer), left[w] - 1)
            /\ pc[w] = "draining"
        BY <1>7, <2>2 DEF DrainOk, RemoveFirst
      <3>2. buffer' \in Seq(Fixes) /\ left[w] - 1 \in Int
        BY <1>0, <2>2, <3>1, TailFacts DEF WorkerTypes
      <3>3. DrainFrom(w, buffer', left[w] - 1)
        BY <3>1
      <3>4. QED
        BY <1>0, <3>1, <3>2, <3>3, DrainFromSole
    <2>3. QED
      BY <2>1, <2>2
  <1>8. ASSUME NEW w \in Workers, DrainFailed(w) PROVE SoleDrainHoldsHead'
    BY <1>0, <1>8, FinishSole DEF DrainFailed, SoleDrainHoldsHead
  <1>9. ASSUME NEW s \in Stops, StopTracking(s) PROVE SoleDrainHoldsHead'
    <2>1. Draining' = Draining
      BY <1>0, <1>9 DEF StopTracking, Draining, WorkerTypes
    <2>2. QED
      BY <1>9, <2>1 DEF StopTracking, SoleDrainHoldsHead
  <1>10. ASSUME NEW s \in Stops, StopDrain(s) PROVE SoleDrainHoldsHead'
    <2>1. /\ s \in Workers
          /\ buffer' = buffer
          /\ buffer' \in Seq(Fixes)
          /\ Len(buffer') \in Int
          /\ DrainFrom(s, buffer', Len(buffer'))
      BY <1>0, <1>10 DEF StopDrain
    <2>2. QED
      BY <1>0, <2>1, DrainFromSole
  <1>11. CASE Crash
    BY <1>11 DEF Crash, SoleDrainHoldsHead, Draining
  <1>12. ASSUME NEW v \in {"up", "down", "erring"}, NetChanges(v)
         PROVE  SoleDrainHoldsHead'
    BY <1>12 DEF NetChanges, SoleDrainHoldsHead, Draining
  <1>13. CASE UNCHANGED vars
    BY <1>13 DEF vars, SoleDrainHoldsHead, Draining
  <1>14. QED
    BY <1>1, <1>2, <1>3, <1>4, <1>5, <1>6, <1>7, <1>8, <1>9, <1>10, <1>11,
       <1>12, <1>13 DEF Next

-----------------------------------------------------------------------------
LEMMA InitInv == Init => IInv
  <1> SUFFICES ASSUME Init PROVE IInv
    OBVIOUS
  <1>1. TypeOK
    BY InitType
  <1>2. WorkerShape /\ StoredHasRow
    BY DEF Init, WorkerShape, StoredHasRow
  <1>3. SoleDrainHoldsHead
    BY DEF Init, SoleDrainHoldsHead, Draining
  <1>4. QED
    BY <1>1, <1>2, <1>3 DEF IInv

LEMMA NextInv == IInv /\ [Next]_vars => IInv'
  BY NextType, ShapeStep, StoredStep, SoleStep DEF IInv

\* A drain that has had the buffer to itself since it began holds the fix
\* that removeAt(0) takes: what makes a sole drain safe.
THEOREM SoleDrainSafe == Spec => []SoleDrainHoldsHead
  <1>1. IInv => SoleDrainHoldsHead
    BY DEF IInv
  <1>2. QED
    BY InitInv, NextInv, <1>1, PTL DEF Spec

-----------------------------------------------------------------------------
\* A fix held in the buffer stays there when the buffer only grows, and one
\* held by another call stays there when only one call moves on.
LEMMA StillCarried ==
  ASSUME TypeOK, NEW f \in Fixes, Carried(f), NEW w \in Workers, item[w] # f,
         buffer' \in Seq(Fixes), Len(buffer') >= Len(buffer),
         \A i \in 1..Len(buffer) : buffer'[i] = buffer[i],
         \A v \in Workers \ {w} : item'[v] = item[v]
  PROVE  Carried(f)'
  <1>1. CASE Buffered(f)
    <2>1. PICK i \in 1..Len(buffer) : buffer[i] = f
      BY <1>1 DEF Buffered
    <2>2. i \in 1..Len(buffer') /\ buffer'[i] = f
      BY <2>1 DEF TypeOK
    <2>3. QED
      BY <2>2 DEF Carried, Buffered
  <1>2. CASE ~Buffered(f)
    <2>1. PICK v \in Workers : item[v] = f
      BY <1>2 DEF Carried
    <2>2. QED
      BY <2>1 DEF Carried
  <1>3. QED
    BY <1>1, <1>2

\* A fix that is not vanished does not vanish while it is carried, stored or
\* given up.
LEMMA NotVanished ==
  ASSUME NEW f \in Fixes, Carried(f)' \/ copies'[f] # 0 \/ fate'[f] # "taken"
  PROVE  ~Vanished(f)'
  BY DEF Vanished

\* Every step of a drain-free worker that leaves the buffer alone.
LEMMA OneMovesOn ==
  ASSUME TypeOK, NEW f \in Fixes, ~Vanished(f), NEW w \in Workers,
         item[w] # f, UNCHANGED <<buffer, copies, fate>>,
         \A v \in Workers \ {w} : item'[v] = item[v]
  PROVE  ~Vanished(f)'
  <1>1. CASE Carried(f)
    <2>1. /\ buffer' \in Seq(Fixes)
          /\ Len(buffer') >= Len(buffer)
          /\ \A i \in 1..Len(buffer) : buffer'[i] = buffer[i]
      BY DEF TypeOK
    <2>2. Carried(f)'
      BY <1>1, <2>1, StillCarried
    <2>3. QED
      BY <2>2, NotVanished
  <1>2. CASE ~Carried(f)
    BY <1>2, NotVanished DEF Vanished
  <1>3. QED
    BY <1>1, <1>2

LEMMA DrainFromMoves ==
  ASSUME WorkerTypes, NEW w \in Workers, NEW buf, NEW n,
         DrainFrom(w, buf, n) \/ Finish(w)
  PROVE  \A v \in Workers \ {w} : item'[v] = item[v]
  BY DEF WorkerTypes, DrainFrom, Finish

\* No step loses a fix while no two drains share the buffer.
LEMMA LossStep ==
  ASSUME IInv, [Next]_vars, NEW f \in Fixes, ~Vanished(f), overlapped = {}
  PROVE  ~Vanished(f)'
  <1>0. /\ TypeOK /\ WorkerShape /\ StoredHasRow /\ SoleDrainHoldsHead
        /\ WorkerTypes
        /\ buffer \in Seq(Fixes)
        /\ Fixes \subseteq Workers
        /\ Stops \subseteq Workers
    BY DEF IInv, TypeOK, WorkerTypes, Workers
  <1>1. CASE StartTracking
    BY <1>1 DEF StartTracking, Vanished, Carried, Buffered
  <1>2. ASSUME NEW g \in Fixes, SendPosition(g) PROVE ~Vanished(f)'
    <2>1. CASE f = g
      BY <1>0, <1>2, <2>1, NotVanished
      DEF SendPosition, WorkerTypes, Carried
    <2>2. CASE f # g
      <3>1. /\ fate'[f] = fate[f] /\ copies'[f] = copies[f]
            /\ \A v \in Workers \ {g} : item'[v] = item[v]
            /\ item[g] # f
            /\ buffer' = buffer
        BY <1>0, <1>2, <2>2, NoFixAssumption
        DEF SendPosition, Free, WorkerShape, TypeOK
      <3>2. Carried(f) => Carried(f)'
        BY <3>1 DEF Carried, Buffered
      <3>3. QED
        BY <3>1, <3>2 DEF Vanished
    <2>3. QED
      BY <2>1, <2>2
  <1>3. ASSUME NEW g \in Fixes, SendOk(g) PROVE ~Vanished(f)'
    <2>1. /\ item[g] = g /\ copies[g] > 0
          /\ UNCHANGED <<buffer, copies, fate>>
      BY <1>0, <1>3 DEF SendOk, WorkerShape, StoredHasRow
    <2>2. CASE f = g
      BY <2>1, <2>2, NotVanished DEF IInv, TypeOK
    <2>3. CASE f # g
      <3>1. \A v \in Workers \ {g} : item'[v] = item[v]
        BY <1>0, <1>3, DrainFromMoves DEF SendOk
      <3>2. QED
        BY <1>0, <2>1, <2>3, <3>1, OneMovesOn
    <2>4. QED
      BY <2>2, <2>3
  <1>4. ASSUME NEW g \in Fixes, SendFailed(g) PROVE ~Vanished(f)'
    <2>1. /\ item[g] = g
          /\ \A v \in Workers \ {g} : item'[v] = item[v]
          /\ UNCHANGED copies
      BY <1>0, <1>4, DrainFromMoves DEF SendFailed, WorkerShape
    <2>2. CASE ~HasRoom
      <3>1. CASE f = g
        BY <1>0, <1>4, <2>2, <3>1, NotVanished DEF SendFailed, TypeOK
      <3>2. CASE f # g
        <4>1. buffer' = buffer /\ fate'[f] = fate[f]
          BY <1>0, <1>4, <2>2, <3>2 DEF SendFailed, TypeOK
        <4>2. Carried(f) => Carried(f)'
          BY <2>1, <3>2, <4>1 DEF Carried, Buffered
        <4>3. QED
          BY <2>1, <4>1, <4>2 DEF Vanished
      <3>3. QED
        BY <3>1, <3>2
    <2>3. CASE HasRoom
      <3>1. buffer' = Append(buffer, g) /\ fate' = fate
        BY <1>4, <2>3 DEF SendFailed, Keep
      <3>2. /\ buffer' \in Seq(Fixes)
            /\ Len(buffer') = Len(buffer) + 1
            /\ \A i \in 1..Len(buffer) : buffer'[i] = buffer[i]
            /\ buffer'[Len(buffer) + 1] = g
        BY <1>0, <3>1, AppendFacts
      <3>3. CASE f = g
        <4>1. Buffered(f)'
          <5>1. Len(buffer) + 1 \in 1..Len(buffer')
            BY <1>0, <3>2
          <5>2. QED
            BY <3>2, <3>3, <5>1 DEF Buffered
        <4>2. QED
          BY <4>1, NotVanished DEF Carried
      <3>4. CASE f # g
        <4>1. Len(buffer') >= Len(buffer)
          BY <1>0, <3>2
        <4>2. Carried(f) => Carried(f)'
          BY <1>0, <2>1, <3>2, <3>4, <4>1, StillCarried
        <4>3. QED
          BY <2>1, <3>1, <4>2 DEF Vanished
      <3>5. QED
        BY <3>3, <3>4
    <2>4. QED
      BY <2>2, <2>3
  <1>5. ASSUME NEW w \in Workers, Store(w) PROVE ~Vanished(f)'
    <2>1. copies'[f] = 0 => copies[f] = 0
      BY <1>0, <1>5 DEF Store, TypeOK
    <2>2. UNCHANGED <<fate, buffer, item>>
      BY <1>5 DEF Store
    <2>3. QED
      BY <2>1, <2>2 DEF Vanished, Carried, Buffered
  <1>6. ASSUME NEW w \in Workers, Refuse(w) PROVE ~Vanished(f)'
    BY <1>6 DEF Refuse, Vanished, Carried, Buffered
  <1>7. ASSUME NEW w \in Workers, DrainOk(w) PROVE ~Vanished(f)'
    <2>1. /\ buffer # <<>> /\ item[w] = Head(buffer)
      BY <1>0, <1>7 DEF DrainOk, SoleDrainHoldsHead, Draining
    <2>2. /\ buffer' = Tail(buffer)
          /\ UNCHANGED <<copies, fate>>
          /\ copies[item[w]] > 0
          /\ \A v \in Workers \ {w} : item'[v] = item[v]
      BY <1>0, <1>7, <2>1, DrainFromMoves
      DEF DrainOk, RemoveFirst, StoredHasRow
    <2>3. CASE f = item[w]
      BY <2>2, <2>3, NotVanished DEF IInv, TypeOK
    <2>4. CASE f # item[w]
      <3>1. Buffered(f) => Buffered(f)'
        <4>1. SUFFICES ASSUME NEW i \in 1..Len(buffer), buffer[i] = f
                       PROVE  Buffered(f)'
          BY DEF Buffered
        <4>2. i # 1
          BY <1>0, <2>1, <2>4, <4>1, TailFacts
        <4>3. /\ i - 1 \in 1..Len(Tail(buffer))
              /\ Tail(buffer)[i - 1] = buffer[i]
          BY <1>0, <2>1, <4>1, <4>2, TailFacts
        <4>4. QED
          BY <2>2, <4>1, <4>3 DEF Buffered
      <3>2. Carried(f) => Carried(f)'
        BY <2>2, <2>4, <3>1 DEF Carried
      <3>3. QED
        BY <2>2, <3>2 DEF Vanished
    <2>5. QED
      BY <2>3, <2>4
  <1>8. ASSUME NEW w \in Workers, DrainFailed(w) PROVE ~Vanished(f)'
    <2>1. /\ buffer # <<>> /\ item[w] = Head(buffer)
          /\ UNCHANGED <<buffer, copies, fate>>
          /\ \A v \in Workers \ {w} : item'[v] = item[v]
      BY <1>0, <1>8, DrainFromMoves
      DEF DrainFailed, SoleDrainHoldsHead, Draining
    <2>2. Buffered(item[w])
      <3>1. 1 \in 1..Len(buffer) /\ buffer[1] = item[w]
        BY <1>0, <2>1, TailFacts
      <3>2. QED
        BY <3>1 DEF Buffered
    <2>3. Carried(f) => Carried(f)'
      BY <2>1, <2>2 DEF Carried, Buffered
    <2>4. QED
      BY <2>1, <2>3 DEF Vanished
  <1>9. ASSUME NEW s \in Stops, StopTracking(s) PROVE ~Vanished(f)'
    BY <1>9 DEF StopTracking, Vanished, Carried, Buffered
  <1>10. ASSUME NEW s \in Stops, StopDrain(s) PROVE ~Vanished(f)'
    <2>1. item[s] # f
      BY <1>0, <1>10, NoFixAssumption DEF StopDrain, WorkerShape
    <2>2. \A v \in Workers \ {s} : item'[v] = item[v]
      BY <1>0, <1>10, DrainFromMoves DEF StopDrain
    <2>3. QED
      BY <1>0, <1>10, <2>1, <2>2, OneMovesOn DEF StopDrain
  <1>11. CASE Crash
    <2>1. fate'[f] = IF Carried(f) THEN "crashed" ELSE fate[f]
      BY <1>11 DEF Crash
    <2>2. UNCHANGED copies
      BY <1>11 DEF Crash
    <2>3. CASE Carried(f)
      BY <2>1, <2>3, NotVanished
    <2>4. CASE ~Carried(f)
      BY <2>1, <2>2, <2>4 DEF Vanished
    <2>5. QED
      BY <2>3, <2>4
  <1>12. ASSUME NEW v \in {"up", "down", "erring"}, NetChanges(v)
         PROVE  ~Vanished(f)'
    BY <1>12 DEF NetChanges, Vanished, Carried, Buffered
  <1>13. CASE UNCHANGED vars
    BY <1>13 DEF vars, Vanished, Carried, Buffered
  <1>14. QED
    BY <1>1, <1>2, <1>3, <1>4, <1>5, <1>6, <1>7, <1>8, <1>9, <1>10, <1>11,
       <1>12, <1>13 DEF Next

\* Overlapping drains are the only way the uplink loses a fix it was given,
\* for any number of fixes, calls and buffer capacity.
THEOREM LossNeedsOverlap == Spec => LossOnlyWhenDrainsOverlap
  <1>1. IInv /\ [Next]_vars
          => [\A f \in Fixes : ~Vanished(f) /\ Vanished(f)'
                                 => overlapped # {}]_vars
    BY LossStep
  <1>2. QED
    BY InitInv, NextInv, <1>1, PTL DEF Spec, LossOnlyWhenDrainsOverlap

-----------------------------------------------------------------------------
(* Duplicates: which fix may be stored a second time. *)

Held(buf, f) == \E i \in 1..Len(buf) : buf[i] = f
NoRepeats(buf) == \A i, j \in 1..Len(buf) : buf[i] = buf[j] => i = j

\* A fix is in one place only while its first POST is awaited, and once in
\* the buffer at most.
HeldApart ==
    /\ NoRepeats(buffer)
    /\ \A f \in Fixes : pc[f] = "sending" =>
          /\ ~Buffered(f)
          /\ \A w \in Workers \ {f} : item[w] # f
          /\ req[f] # "stored" => copies[f] = 0

\* What a drain has posted is the head of the buffer, or has left it.
HeadOrGone ==
    \A w \in Draining : Buffered(item[w]) => item[w] = Head(buffer)

\* A buffered fix with a row on the server is known for it: its answer was
\* lost, or a drain is about to be told.
StoredIsClaimed ==
    \A f \in Fixes : Buffered(f) /\ copies[f] > 0 =>
        ackLost[f] \/ \E w \in Draining : item[w] = f /\ req[w] = "stored"

\* A fix under way again after it was stored is known for it.
RepeatIsKnown ==
    \A w \in Workers : req[w] = "inflight" /\ copies[item[w]] > 0 =>
        ackLost[item[w]] \/ w \in overlapped

DupInv == HeldApart /\ HeadOrGone /\ StoredIsClaimed /\ RepeatIsKnown

\* Worker w returns, or posts the head of the buffer it leaves behind.
MovesOn(w) ==
    /\ \A v \in Workers \ {w} :
          pc'[v] = pc[v] /\ item'[v] = item[v] /\ req'[v] = req[v]
    /\ overlapped \ {w} \subseteq overlapped'
    /\ \/ pc'[w] = "idle" /\ item'[w] = NoFix /\ req'[w] = "none"
       \/ /\ pc'[w] = "draining" /\ req'[w] = "inflight"
          /\ buffer' # <<>> /\ item'[w] = Head(buffer')
          /\ Draining \ {w} # {} => w \in overlapped'

\* What the five steps that end a request have in common.
Turn(w) ==
    /\ MovesOn(w)
    /\ buffer' \in Seq(Fixes)
    /\ UNCHANGED copies
    /\ \A f \in Fixes : ackLost[f] => ackLost'[f]
    /\ req[w] = "stored" /\ Held(buffer', item[w]) => ackLost'[item[w]]
    /\ \/ buffer' = buffer
       \/ w \in Fixes /\ pc[w] = "sending" /\ buffer' = Append(buffer, w)
       \/ pc[w] = "draining" /\ buffer # <<>> /\ buffer' = Tail(buffer)

\* Appending a fix that is not there, and removing the head.
LEMMA AppendHolds ==
  ASSUME NEW buf \in Seq(Fixes), NEW f \in Fixes, NoRepeats(buf), ~Held(buf, f)
  PROVE  /\ NoRepeats(Append(buf, f))
         /\ \A g : Held(Append(buf, f), g) <=> Held(buf, g) \/ g = f
  <1>1. /\ Len(Append(buf, f)) = Len(buf) + 1
        /\ \A i \in 1..Len(buf) : Append(buf, f)[i] = buf[i]
        /\ Append(buf, f)[Len(buf) + 1] = f
    BY AppendFacts
  <1>2. Len(buf) \in Nat
    OBVIOUS
  <1>3. NoRepeats(Append(buf, f))
    <2>1. SUFFICES ASSUME NEW i \in 1..Len(Append(buf, f)),
                          NEW j \in 1..Len(Append(buf, f)),
                          Append(buf, f)[i] = Append(buf, f)[j]
                   PROVE  i = j
      BY DEF NoRepeats
    <2>2. CASE i \in 1..Len(buf) /\ j \in 1..Len(buf)
      BY <1>1, <2>1, <2>2 DEF NoRepeats
    <2>3. CASE i = Len(buf) + 1 \/ j = Len(buf) + 1
      BY <1>1, <1>2, <2>1, <2>3 DEF Held
    <2>4. QED
      BY <1>1, <1>2, <2>2, <2>3
  <1>4. ASSUME NEW g, Held(Append(buf, f), g) PROVE Held(buf, g) \/ g = f
    BY <1>1, <1>2, <1>4 DEF Held
  <1>5. ASSUME NEW g, Held(buf, g) \/ g = f PROVE Held(Append(buf, f), g)
    <2>1. CASE Held(buf, g)
      BY <1>1, <1>2, <2>1 DEF Held
    <2>2. CASE g = f
      <3>1. Len(buf) + 1 \in 1..Len(Append(buf, f))
        BY <1>1, <1>2
      <3>2. QED
        BY <1>1, <2>2, <3>1 DEF Held
    <2>3. QED
      BY <1>5, <2>1, <2>2
  <1>6. QED
    BY <1>3, <1>4, <1>5

LEMMA TailHolds ==
  ASSUME NEW buf \in Seq(Fixes), buf # <<>>, NoRepeats(buf)
  PROVE  /\ NoRepeats(Tail(buf))
         /\ \A g : Held(Tail(buf), g) <=> Held(buf, g) /\ g # Head(buf)
         /\ Held(buf, Head(buf))
  <1>1. /\ Len(buf) \in Nat /\ Len(buf) > 0
        /\ Len(Tail(buf)) = Len(buf) - 1
        /\ Head(buf) = buf[1]
        /\ \A i \in 1..Len(Tail(buf)) : Tail(buf)[i] = buf[i + 1]
    BY TailFacts
  <1>2. NoRepeats(Tail(buf))
    <2>1. SUFFICES ASSUME NEW i \in 1..Len(Tail(buf)),
                          NEW j \in 1..Len(Tail(buf)),
                          Tail(buf)[i] = Tail(buf)[j]
                   PROVE  i = j
      BY DEF NoRepeats
    <2>2. i + 1 \in 1..Len(buf) /\ j + 1 \in 1..Len(buf)
      BY <1>1
    <2>3. buf[i + 1] = buf[j + 1]
      BY <1>1, <2>1
    <2>4. i + 1 = j + 1
      BY <2>2, <2>3 DEF NoRepeats
    <2>5. QED
      BY <2>4
  <1>3. ASSUME NEW g, Held(Tail(buf), g) PROVE Held(buf, g) /\ g # Head(buf)
    <2>1. PICK i \in 1..Len(Tail(buf)) : Tail(buf)[i] = g
      BY <1>3 DEF Held
    <2>2. i + 1 \in 1..Len(buf) /\ 1 \in 1..Len(buf) /\ i + 1 # 1
      BY <1>1
    <2>3. buf[i + 1] = g
      BY <1>1, <2>1
    <2>4. buf[1] # g
      BY <2>2, <2>3 DEF NoRepeats
    <2>5. QED
      BY <1>1, <2>2, <2>3, <2>4 DEF Held
  <1>4. ASSUME NEW g, Held(buf, g), g # Head(buf) PROVE Held(Tail(buf), g)
    <2>1. PICK i \in 1..Len(buf) : buf[i] = g
      BY <1>4 DEF Held
    <2>2. i # 1
      BY <1>1, <1>4, <2>1
    <2>3. i - 1 \in 1..Len(Tail(buf)) /\ (i - 1) + 1 = i
      BY <1>1, <2>2
    <2>4. Tail(buf)[i - 1] = g
      BY <1>1, <2>1, <2>3
    <2>5. QED
      BY <2>3, <2>4 DEF Held
  <1>5. Held(buf, Head(buf))
    <2>1. 1 \in 1..Len(buf)
      BY <1>1
    <2>2. QED
      BY <1>1, <2>1 DEF Held
  <1>6. QED
    BY <1>2, <1>3, <1>4, <1>5

LEMMA MovesOnOf ==
  ASSUME WorkerTypes, WorkerShape, NEW w \in Workers, NEW n,
         DrainFrom(w, buffer', n) \/ Finish(w)
  PROVE  MovesOn(w)
  <1>1. CASE Finish(w)
    BY <1>1 DEF Finish, MovesOn, WorkerTypes
  <1>2. CASE DrainFrom(w, buffer', n) /\ ~(buffer' # <<>> /\ n > 0)
    BY <1>1, <1>2 DEF DrainFrom
  <1>3. CASE DrainFrom(w, buffer', n) /\ buffer' # <<>> /\ n > 0
    <2>1. overlapped \subseteq overlapped'
      BY <1>3 DEF DrainFrom
    <2>2. Draining \ {w} # {} => w \in overlapped'
      BY <1>3 DEF DrainFrom
    <2>3. QED
      BY <1>3, <2>1, <2>2 DEF DrainFrom, MovesOn, WorkerTypes
  <1>4. QED
    BY <1>1, <1>2, <1>3

\* NoteLostAck forgets no lost answer and notes this one.
LEMMA LostAckNoted ==
  ASSUME TypeOK, NEW w \in Workers, item[w] \in Fixes, NoteLostAck(w)
  PROVE  /\ \A f \in Fixes : ackLost[f] => ackLost'[f]
         /\ req[w] = "stored" => ackLost'[item[w]]
  BY DEF TypeOK, NoteLostAck

\* Each step that ends a request, and the first of the final drain, is a turn.
LEMMA TurnOf ==
  ASSUME IInv, DupInv, NEW w \in Workers,
         \/ w \in Fixes /\ (SendOk(w) \/ SendFailed(w))
         \/ DrainOk(w) \/ DrainFailed(w)
         \/ w \in Stops /\ StopDrain(w)
  PROVE  Turn(w)
  <1>0. /\ TypeOK /\ WorkerShape /\ WorkerTypes
        /\ HeldApart /\ HeadOrGone
        /\ buffer \in Seq(Fixes)
    BY DEF IInv, DupInv, TypeOK, WorkerTypes
  <1>1. CASE w \in Fixes /\ SendOk(w)
    <2>1. DrainFrom(w, buffer', PerSend) /\ buffer' = buffer
      BY <1>1 DEF SendOk
    <2>2. MovesOn(w)
      BY <1>0, <2>1, MovesOnOf
    <2>3. ~Buffered(w) /\ item[w] = w
      BY <1>0, <1>1 DEF SendOk, HeldApart, WorkerShape
    <2>4. ~Held(buffer', item[w])
      BY <2>1, <2>3 DEF Buffered, Held
    <2>5. QED
      BY <1>0, <1>1, <2>1, <2>2, <2>4 DEF SendOk, Turn
  <1>2. CASE w \in Fixes /\ SendFailed(w)
    <2>1. MovesOn(w)
      BY <1>0, <1>2, MovesOnOf DEF SendFailed
    <2>2. item[w] = w /\ pc[w] = "sending"
      BY <1>0, <1>2 DEF SendFailed, WorkerShape
    <2>3. /\ \A f \in Fixes : ackLost[f] => ackLost'[f]
          /\ req[w] = "stored" => ackLost'[item[w]]
      BY <1>0, <1>2, <2>2, LostAckNoted DEF SendFailed
    <2>4. buffer' = buffer \/ buffer' = Append(buffer, w)
      BY <1>2 DEF SendFailed, Keep
    <2>5. buffer' \in Seq(Fixes)
      BY <1>0, <1>2, <2>4, AppendFacts
    <2>6. QED
      BY <1>2, <2>1, <2>2, <2>3, <2>4, <2>5 DEF SendFailed, Turn
  <1>3. CASE DrainOk(w)
    <2>1. MovesOn(w)
      BY <1>0, <1>3, MovesOnOf DEF DrainOk
    <2>2. CASE buffer = <<>>
      <3>1. buffer' = buffer
        BY <1>3, <2>2 DEF DrainOk
      <3>2. ~Held(buffer', item[w])
        BY <2>2, <3>1 DEF Held
      <3>3. QED
        BY <1>0, <1>3, <2>1, <3>1, <3>2 DEF DrainOk, Turn
    <2>3. CASE buffer # <<>>
      <3>1. buffer' = Tail(buffer)
        BY <1>3, <2>3 DEF DrainOk, RemoveFirst
      <3>2. Buffered(item[w]) => item[w] = Head(buffer)
        BY <1>0, <1>3 DEF DrainOk, HeadOrGone, Draining
      <3>3. ~Held(Tail(buffer), item[w])
        BY <1>0, <2>3, <3>2, TailHolds DEF HeldApart, Buffered, Held
      <3>4. ~Held(buffer', item[w])
        BY <3>1, <3>3
      <3>5. buffer' \in Seq(Fixes)
        BY <1>0, <2>3, <3>1, TailFacts
      <3>6. QED
        BY <1>3, <2>1, <2>3, <3>1, <3>4, <3>5 DEF DrainOk, Turn
    <2>4. QED
      BY <2>2, <2>3
  <1>4. CASE DrainFailed(w)
    <2>1. MovesOn(w)
      BY <1>0, <1>4, MovesOnOf DEF DrainFailed
    <2>2. item[w] \in Fixes
      BY <1>0, <1>4 DEF DrainFailed, WorkerShape
    <2>3. /\ \A f \in Fixes : ackLost[f] => ackLost'[f]
          /\ req[w] = "stored" => ackLost'[item[w]]
      BY <1>0, <1>4, <2>2, LostAckNoted DEF DrainFailed
    <2>4. QED
      BY <1>0, <1>4, <2>1, <2>3 DEF DrainFailed, Turn
  <1>5. CASE w \in Stops /\ StopDrain(w)
    <2>1. DrainFrom(w, buffer', Len(buffer)) /\ buffer' = buffer
      BY <1>5 DEF StopDrain
    <2>2. MovesOn(w)
      BY <1>0, <2>1, MovesOnOf
    <2>3. req[w] # "stored"
      BY <1>0, <1>5 DEF StopDrain, WorkerShape
    <2>4. QED
      BY <1>0, <1>5, <2>1, <2>2, <2>3 DEF StopDrain, Turn
  <1>6. QED
    BY <1>1, <1>2, <1>3, <1>4, <1>5

\* Who holds what after a turn: only worker w changed, and a fix enters the
\* buffer only from the call that first posted it.
LEMMA TurnBuffer ==
  ASSUME TypeOK, HeldApart, NEW w \in Workers, Turn(w)
  PROVE  /\ NoRepeats(buffer')
         /\ \A f \in Fixes : Held(buffer', f)
               => Buffered(f) \/ (f = w /\ pc[w] = "sending")
         /\ \A f : Buffered(f) /\ ~Held(buffer', f) => f = Head(buffer)
         /\ \A f : Held(buffer', f) /\ Buffered(f) /\ f = Head(buffer)
               => f = Head(buffer')
         /\ pc[w] = "sending" /\ buffer # <<>>
               => buffer' # <<>> /\ Head(buffer') = Head(buffer)
  <1>0. buffer \in Seq(Fixes) /\ NoRepeats(buffer)
    BY DEF TypeOK, HeldApart
  <1>1. CASE buffer' = buffer
    BY <1>0, <1>1 DEF Held, Buffered
  <1>2. CASE w \in Fixes /\ pc[w] = "sending" /\ buffer' = Append(buffer, w)
    <2>1. ~Held(buffer, w)
      BY <1>2 DEF HeldApart, Held, Buffered
    <2>2. /\ NoRepeats(buffer')
          /\ \A g : Held(buffer', g) <=> Held(buffer, g) \/ g = w
      BY <1>0, <1>2, <2>1, AppendHolds
    <2>3. buffer # <<>> => buffer' # <<>> /\ Head(buffer') = Head(buffer)
      BY <1>0, <1>2, AppendFacts
    <2>4. \A g : Buffered(g) <=> Held(buffer, g)
      BY DEF Buffered, Held
    <2>5. \A g : Buffered(g) => buffer # <<>>
      BY DEF Buffered
    <2>6. QED
      BY <1>2, <2>2, <2>3, <2>4, <2>5
  <1>3. CASE pc[w] = "draining" /\ buffer # <<>> /\ buffer' = Tail(buffer)
    <2>1. /\ NoRepeats(buffer')
          /\ \A g : Held(buffer', g) <=> Held(buffer, g) /\ g # Head(buffer)
      BY <1>0, <1>3, TailHolds
    <2>2. \A g : Buffered(g) <=> Held(buffer, g)
      BY DEF Buffered, Held
    <2>3. QED
      BY <1>3, <2>1, <2>2
  <1>4. QED
    BY <1>1, <1>2, <1>3 DEF Turn

LEMMA TurnHeldApart ==
  ASSUME IInv, DupInv, NEW w \in Workers, Turn(w)
  PROVE  HeldApart'
  <1>0. TypeOK /\ HeldApart /\ WorkerShape
    BY DEF IInv, DupInv
  <1>1. NoRepeats(buffer') /\ NoRepeats(buffer)'
    BY <1>0, TurnBuffer DEF NoRepeats
  <1>2. SUFFICES ASSUME NEW f \in Fixes, pc'[f] = "sending"
                 PROVE  /\ ~Held(buffer', f)
                        /\ \A v \in Workers \ {f} : item'[v] # f
                        /\ req'[f] # "stored" => copies'[f] = 0
    BY <1>1 DEF HeldApart, Buffered, Held
  <1>3. f # w /\ f \in Workers
    BY <1>2 DEF Turn, MovesOn, Workers
  <1>4. pc[f] = "sending" /\ req'[f] = req[f]
    BY <1>2, <1>3 DEF Turn, MovesOn
  <1>5. ~Held(buffer', f)
    BY <1>0, <1>3, <1>4, TurnBuffer DEF HeldApart
  <1>6. ASSUME NEW v \in Workers \ {f} PROVE item'[v] # f
    <2>1. CASE v # w
      BY <1>0, <1>4, <2>1 DEF Turn, MovesOn, HeldApart
    <2>2. CASE v = w /\ item'[w] = NoFix
      BY <2>2, NoFixAssumption
    <2>3. CASE v = w /\ buffer' # <<>> /\ item'[w] = Head(buffer')
      <3>1. /\ buffer' \in Seq(Fixes)
            /\ Len(buffer') > 0 /\ Head(buffer') = buffer'[1]
        BY <2>3, TailFacts DEF Turn
      <3>2. 1 \in 1..Len(buffer')
        BY <3>1
      <3>3. Held(buffer', Head(buffer'))
        BY <3>1, <3>2 DEF Held
      <3>4. QED
        BY <1>5, <2>3, <3>3
    <2>4. QED
      BY <2>1, <2>2, <2>3 DEF Turn, MovesOn
  <1>7. QED
    BY <1>0, <1>4, <1>5, <1>6 DEF Turn, HeldApart

LEMMA TurnHeadOrGone ==
  ASSUME IInv, DupInv, NEW w \in Workers, Turn(w)
  PROVE  HeadOrGone'
  <1>0. TypeOK /\ HeldApart /\ HeadOrGone /\ WorkerShape
    BY DEF IInv, DupInv
  <1>1. SUFFICES ASSUME NEW v \in Workers, pc'[v] = "draining",
                        Held(buffer', item'[v])
                 PROVE  item'[v] = Head(buffer')
    BY DEF HeadOrGone, Draining, Buffered, Held
  <1>2. CASE v = w
    BY <1>1, <1>2 DEF Turn, MovesOn
  <1>3. CASE v # w
    <2>1. pc[v] = "draining" /\ item'[v] = item[v] /\ item[v] \in Fixes
      BY <1>0, <1>1, <1>3 DEF Turn, MovesOn, WorkerShape
    <2>2. Buffered(item[v])
      BY <1>0, <1>1, <1>3, <2>1, TurnBuffer DEF HeldApart, Turn
    <2>3. item[v] = Head(buffer)
      BY <1>0, <2>1, <2>2 DEF HeadOrGone, Draining
    <2>4. QED
      BY <1>0, <1>1, <2>1, <2>2, <2>3, TurnBuffer
  <1>4. QED
    BY <1>2, <1>3

LEMMA TurnStored ==
  ASSUME IInv, DupInv, NEW w \in Workers, Turn(w)
  PROVE  StoredIsClaimed'
  <1>0. TypeOK /\ HeldApart /\ StoredIsClaimed /\ WorkerShape
    BY DEF IInv, DupInv
  <1>1. SUFFICES ASSUME NEW f \in Fixes, Held(buffer', f), copies[f] > 0,
                        ~ackLost'[f]
                 PROVE  \E v \in Workers : /\ pc'[v] = "draining"
                                           /\ item'[v] = f /\ req'[v] = "stored"
    BY DEF StoredIsClaimed, Draining, Buffered, Held, Turn
  <1>2. CASE Buffered(f)
    <2>1. ~ackLost[f]
      BY <1>1 DEF Turn
    <2>2. PICK v \in Draining : item[v] = f /\ req[v] = "stored"
      BY <1>0, <1>1, <1>2, <2>1 DEF StoredIsClaimed
    <2>3. v # w
      BY <1>1, <2>2 DEF Turn
    <2>4. QED
      BY <2>2, <2>3 DEF Turn, MovesOn, Draining
  <1>3. CASE ~Buffered(f)
    <2>1. f = w /\ pc[w] = "sending"
      BY <1>0, <1>1, <1>3, TurnBuffer
    <2>2. req[w] = "stored" /\ item[w] = f
      BY <1>0, <1>1, <2>1 DEF HeldApart, WorkerShape, TypeOK
    <2>3. QED
      BY <1>1, <2>2 DEF Turn
  <1>4. QED
    BY <1>2, <1>3

LEMMA TurnRepeat ==
  ASSUME IInv, DupInv, NEW w \in Workers, Turn(w), StoredIsClaimed'
  PROVE  RepeatIsKnown'
  <1>0. TypeOK /\ RepeatIsKnown /\ WorkerShape
    BY DEF IInv, DupInv
  <1>1. SUFFICES ASSUME NEW v \in Workers, req'[v] = "inflight",
                        copies[item'[v]] > 0, v \notin overlapped'
                 PROVE  ackLost'[item'[v]]
    BY DEF RepeatIsKnown, Turn
  <1>2. CASE v = w
    <2>1. /\ pc'[w] = "draining" /\ buffer' # <<>>
          /\ item'[w] = Head(buffer')
          /\ Draining \ {w} = {}
      BY <1>1, <1>2 DEF Turn, MovesOn
    <2>2. item'[w] \in Fixes /\ Held(buffer', item'[w])
      <3>1. /\ Head(buffer') \in Fixes
            /\ Len(buffer') > 0 /\ Head(buffer') = buffer'[1]
        BY <2>1, TailFacts DEF Turn
      <3>2. 1 \in 1..Len(buffer')
        BY <3>1 DEF Turn
      <3>3. QED
        BY <2>1, <3>1, <3>2 DEF Held
    <2>3. \A u \in Workers : pc'[u] = "draining" => req'[u] # "stored"
      <3>1. SUFFICES ASSUME NEW u \in Workers, pc'[u] = "draining",
                            req'[u] = "stored"
                     PROVE  FALSE
        OBVIOUS
      <3>2. u # w
        BY <1>1, <1>2, <3>1
      <3>3. QED
        BY <2>1, <3>1, <3>2 DEF Turn, MovesOn, Draining
    <2>4. QED
      BY <1>1, <1>2, <2>2, <2>3
      DEF StoredIsClaimed, Draining, Buffered, Held, Turn
  <1>3. CASE v # w
    <2>1. /\ req[v] = "inflight" /\ item'[v] = item[v]
          /\ v \notin overlapped
      BY <1>1, <1>3 DEF Turn, MovesOn
    <2>2. item[v] \in Fixes
      BY <1>0, <2>1, SMTT(20) DEF WorkerShape, TypeOK
    <2>3. QED
      BY <1>0, <1>1, <2>1, <2>2 DEF RepeatIsKnown, Turn
  <1>4. QED
    BY <1>2, <1>3

LEMMA TurnKeeps ==
  ASSUME IInv, DupInv, NEW w \in Workers, Turn(w)
  PROVE  DupInv'
  BY TurnHeldApart, TurnHeadOrGone, TurnStored, TurnRepeat DEF DupInv

\* A call with a request of its own is posting a fix.
LEMMA RequestHolds ==
  ASSUME TypeOK, WorkerShape, NEW w \in Workers, req[w] # "none"
  PROVE  pc[w] \in {"sending", "draining"} /\ item[w] \in Fixes
  <1>1. pc[w] \in {"idle", "sending", "stopping", "draining"}
    BY DEF TypeOK
  <1>2. QED
    BY <1>1 DEF WorkerShape

\* A new fix is taken: it was nowhere, and it has no row and no lost answer.
LEMMA SendKeeps ==
  ASSUME IInv, DupInv, NEW f \in Fixes, SendPosition(f)
  PROVE  DupInv'
  <1>0. /\ TypeOK /\ WorkerShape /\ WorkerTypes
        /\ HeldApart /\ HeadOrGone /\ StoredIsClaimed /\ RepeatIsKnown
        /\ f \in Workers
    BY DEF IInv, DupInv, TypeOK, WorkerTypes, Workers
  <1>1. /\ ~Buffered(f) /\ \A w \in Workers : item[w] # f
        /\ pc[f] = "idle"
        /\ UNCHANGED <<buffer, overlapped>>
    BY DEF SendPosition, Free, Carried
  <1>2. /\ \A w \in Workers \ {f} :
              pc'[w] = pc[w] /\ item'[w] = item[w] /\ req'[w] = req[w]
        /\ pc'[f] = "sending" /\ item'[f] = f /\ req'[f] = "inflight"
    BY <1>0 DEF SendPosition, WorkerTypes
  <1>3. /\ \A g \in Fixes \ {f} : copies'[g] = copies[g]
                                  /\ ackLost'[g] = ackLost[g]
        /\ copies'[f] = 0
    BY <1>0 DEF SendPosition, TypeOK
  <1>4. \A g : Buffered(g)' <=> Buffered(g)
    BY <1>1 DEF Buffered
  <1>5. Draining' = Draining /\ f \notin Draining
    BY <1>1, <1>2 DEF Draining
  <1>6. HeldApart'
    <2>1. NoRepeats(buffer)'
      BY <1>0, <1>1 DEF HeldApart, NoRepeats
    <2>2. ASSUME NEW g \in Fixes, pc'[g] = "sending"
          PROVE  /\ ~Buffered(g)'
                 /\ \A w \in Workers \ {g} : item'[w] # g
                 /\ req'[g] # "stored" => copies'[g] = 0
      <3>1. CASE g = f
        BY <1>1, <1>2, <1>3, <1>4, <3>1
      <3>2. CASE g # f
        <4>1. g \in Workers /\ pc[g] = "sending" /\ req'[g] = req[g]
          BY <1>2, <2>2, <3>2 DEF Workers
        <4>2. QED
          BY <1>0, <1>2, <1>3, <1>4, <3>2, <4>1 DEF HeldApart
      <3>3. QED
        BY <3>1, <3>2
    <2>3. QED
      BY <2>1, <2>2 DEF HeldApart
  <1>7. HeadOrGone'
    BY <1>0, <1>1, <1>2, <1>4, <1>5 DEF HeadOrGone, Draining, Buffered
  <1>8. StoredIsClaimed'
    BY <1>0, <1>1, <1>2, <1>3, <1>4, <1>5 DEF StoredIsClaimed, Draining
  <1>9. RepeatIsKnown'
    <2>1. SUFFICES ASSUME NEW w \in Workers, req'[w] = "inflight",
                          copies'[item'[w]] > 0
                   PROVE  ackLost'[item'[w]] \/ w \in overlapped'
      BY DEF RepeatIsKnown
    <2>2. w # f
      BY <1>2, <1>3, <2>1
    <2>3. req[w] = "inflight" /\ item'[w] = item[w]
      BY <1>2, <2>1, <2>2
    <2>4. item[w] \in Fixes \ {f}
      BY <1>0, <1>1, <2>3, RequestHolds
    <2>5. QED
      BY <1>0, <1>1, <1>3, <2>1, <2>3, <2>4 DEF RepeatIsKnown
  <1>10. QED
    BY <1>6, <1>7, <1>8, <1>9 DEF DupInv

\* A row is stored: two calls that hold one fix are overlapping drains.
LEMMA StoreKeeps ==
  ASSUME IInv, DupInv, NEW w \in Workers, Store(w)
  PROVE  DupInv'
  <1>0. /\ TypeOK /\ WorkerShape /\ SoleDrainHoldsHead
        /\ HeldApart /\ HeadOrGone /\ StoredIsClaimed /\ RepeatIsKnown
    BY DEF IInv, DupInv
  <1>1. /\ UNCHANGED <<buffer, pc, item, ackLost, overlapped>>
        /\ req[w] = "inflight" /\ req'[w] = "stored"
        /\ \A v \in Workers \ {w} : req'[v] = req[v]
    BY <1>0 DEF Store, TypeOK
  <1>2. pc[w] \in {"sending", "draining"} /\ item[w] \in Fixes
    BY <1>0, <1>1 DEF WorkerShape, TypeOK
  <1>3. \A g \in Fixes : g # item[w] => copies'[g] = copies[g]
    BY <1>0 DEF Store, TypeOK
  <1>4. /\ \A g : Buffered(g)' <=> Buffered(g)
        /\ Draining' = Draining
    BY <1>1 DEF Buffered, Draining
  <1>5. HeldApart'
    <2>1. NoRepeats(buffer)'
      BY <1>0, <1>1 DEF HeldApart, NoRepeats
    <2>2. ASSUME NEW g \in Fixes, pc[g] = "sending", req'[g] # "stored"
          PROVE  copies'[g] = 0
      <3>1. g # w /\ w \in Workers \ {g}
        BY <1>1, <2>2
      <3>2. g \in Workers /\ req[g] # "stored" /\ item[w] # g
        BY <1>0, <1>1, <2>2, <3>1 DEF HeldApart, Workers
      <3>3. QED
        BY <1>0, <1>3, <2>2, <3>2 DEF HeldApart
    <2>3. QED
      BY <1>0, <1>1, <1>4, <2>1, <2>2 DEF HeldApart
  <1>6. HeadOrGone'
    BY <1>0, <1>1, <1>4 DEF HeadOrGone
  <1>7. StoredIsClaimed'
    <2>1. SUFFICES ASSUME NEW g \in Fixes, Buffered(g), copies'[g] > 0,
                          ~ackLost[g]
                   PROVE  \E v \in Draining : item[v] = g /\ req'[v] = "stored"
      BY <1>1, <1>4 DEF StoredIsClaimed
    <2>2. CASE g = item[w]
      <3>1. pc[w] # "sending"
        BY <1>0, <2>1, <2>2 DEF HeldApart, WorkerShape
      <3>2. QED
        BY <1>1, <1>2, <2>2, <3>1 DEF Draining
    <2>3. CASE g # item[w]
      <3>1. PICK v \in Draining : item[v] = g /\ req[v] = "stored"
        BY <1>0, <1>3, <2>1, <2>3 DEF StoredIsClaimed
      <3>2. v \in Workers \ {w}
        BY <1>1, <3>1 DEF Draining
      <3>3. QED
        BY <1>1, <3>1, <3>2
    <2>4. QED
      BY <2>2, <2>3
  <1>8. RepeatIsKnown'
    <2>1. SUFFICES ASSUME NEW v \in Workers, req'[v] = "inflight",
                          copies'[item[v]] > 0
                   PROVE  ackLost[item[v]] \/ v \in overlapped
      BY <1>1 DEF RepeatIsKnown
    <2>2. v # w /\ req[v] = "inflight"
      BY <1>1, <2>1
    <2>3. pc[v] \in {"sending", "draining"} /\ item[v] \in Fixes
      BY <1>0, <2>2, RequestHolds
    <2>4. CASE item[v] # item[w]
      BY <1>0, <1>3, <2>1, <2>2, <2>3, <2>4 DEF RepeatIsKnown
    <2>5. CASE item[v] = item[w]
      <3>1. pc[v] # "sending"
        <4>1. SUFFICES ASSUME pc[v] = "sending" PROVE FALSE
          OBVIOUS
        <4>2. v \in Fixes /\ item[v] = v
          BY <1>0, <4>1 DEF WorkerShape
        <4>3. QED
          BY <1>0, <2>2, <2>5, <4>1, <4>2 DEF HeldApart
      <3>2. pc[w] # "sending"
        <4>1. SUFFICES ASSUME pc[w] = "sending" PROVE FALSE
          OBVIOUS
        <4>2. w \in Fixes /\ item[w] = w
          BY <1>0, <4>1 DEF WorkerShape
        <4>3. QED
          BY <1>0, <2>2, <2>5, <4>1, <4>2 DEF HeldApart
      <3>3. v \in Draining /\ w \in Draining
        BY <1>2, <2>3, <3>1, <3>2 DEF Draining
      <3>4. QED
        BY <1>0, <2>2, <3>3 DEF SoleDrainHoldsHead
    <2>6. QED
      BY <2>4, <2>5
  <1>9. QED
    BY <1>5, <1>6, <1>7, <1>8 DEF DupInv

LEMMA DupStep == IInv /\ DupInv /\ [Next]_vars => DupInv'
  <1> SUFFICES ASSUME IInv, DupInv, [Next]_vars PROVE DupInv'
    OBVIOUS
  <1>0. /\ HeldApart /\ HeadOrGone /\ StoredIsClaimed /\ RepeatIsKnown
        /\ TypeOK /\ WorkerTypes /\ WorkerShape
        /\ Fixes \subseteq Workers /\ Stops \subseteq Workers
    BY DEF IInv, DupInv, TypeOK, WorkerTypes, Workers
  <1>1. CASE StartTracking
    BY <1>0, <1>1 DEF StartTracking, DupInv, HeldApart, NoRepeats, HeadOrGone,
                 StoredIsClaimed, RepeatIsKnown, Buffered, Draining
  <1>2. ASSUME NEW f \in Fixes, SendPosition(f) PROVE DupInv'
    BY <1>2, SendKeeps
  <1>3. ASSUME NEW f \in Fixes, SendOk(f) \/ SendFailed(f) PROVE DupInv'
    BY <1>0, <1>3, TurnOf, TurnKeeps
  <1>4. ASSUME NEW w \in Workers, Store(w) PROVE DupInv'
    BY <1>4, StoreKeeps
  <1>5. ASSUME NEW w \in Workers, Refuse(w) PROVE DupInv'
    <2>1. /\ UNCHANGED <<buffer, pc, item, copies, ackLost, overlapped>>
          /\ req[w] = "inflight" /\ req'[w] = "refused"
          /\ \A v \in Workers \ {w} : req'[v] = req[v]
      BY <1>0, <1>5 DEF Refuse, WorkerTypes
    <2>2. HeldApart'
      BY <1>0, <2>1 DEF HeldApart, NoRepeats, Buffered
    <2>3. HeadOrGone'
      BY <1>0, <2>1 DEF HeadOrGone, Buffered, Draining
    <2>4. StoredIsClaimed'
      BY <1>0, <2>1 DEF StoredIsClaimed, Buffered, Draining
    <2>5. RepeatIsKnown'
      BY <1>0, <2>1 DEF RepeatIsKnown
    <2>6. QED
      BY <2>2, <2>3, <2>4, <2>5 DEF DupInv
  <1>6. ASSUME NEW w \in Workers, DrainOk(w) \/ DrainFailed(w) PROVE DupInv'
    BY <1>6, TurnOf, TurnKeeps
  <1>7. ASSUME NEW s \in Stops, StopTracking(s) PROVE DupInv'
    <2>1. /\ UNCHANGED <<buffer, item, req, copies, ackLost, overlapped>>
          /\ pc[s] = "idle" /\ pc'[s] = "stopping"
          /\ \A v \in Workers \ {s} : pc'[v] = pc[v]
      BY <1>0, <1>7 DEF StopTracking, WorkerTypes
    <2>2. Draining' = Draining
      BY <2>1 DEF Draining
    <2>3. HeldApart'
      BY <1>0, <2>1 DEF HeldApart, NoRepeats, Buffered
    <2>4. HeadOrGone'
      BY <1>0, <2>1, <2>2 DEF HeadOrGone, Buffered
    <2>5. StoredIsClaimed'
      BY <1>0, <2>1, <2>2 DEF StoredIsClaimed, Buffered
    <2>6. RepeatIsKnown'
      BY <1>0, <2>1 DEF RepeatIsKnown
    <2>7. QED
      BY <2>3, <2>4, <2>5, <2>6 DEF DupInv
  <1>8. ASSUME NEW s \in Stops, StopDrain(s) PROVE DupInv'
    BY <1>0, <1>8, TurnOf, TurnKeeps
  <1>9. CASE Crash
    BY <1>9 DEF Crash, DupInv, HeldApart, NoRepeats, HeadOrGone,
                 StoredIsClaimed, RepeatIsKnown, Buffered, Draining, Workers
  <1>10. ASSUME NEW v \in {"up", "down", "erring"}, NetChanges(v) PROVE DupInv'
    BY <1>0, <1>10 DEF NetChanges, DupInv, HeldApart, NoRepeats, HeadOrGone,
                 StoredIsClaimed, RepeatIsKnown, Buffered, Draining
  <1>11. CASE UNCHANGED vars
    BY <1>0, <1>11 DEF vars, DupInv, HeldApart, NoRepeats, HeadOrGone,
                 StoredIsClaimed, RepeatIsKnown, Buffered, Draining
  <1>12. QED
    BY <1>1, <1>2, <1>3, <1>4, <1>5, <1>6, <1>7, <1>8, <1>9, <1>10, <1>11
    DEF Next

\* The server stores a fix again only after an answer was lost, or from one
\* of several drains of the same buffer; no other interleaving of the
\* asynchronous calls of _sendPosition makes a duplicate row.
THEOREM DuplicateNeedsCause == Spec => DuplicateOnlyAfterLostAck
  <1>1. Init => DupInv
    BY DEF Init, DupInv, HeldApart, NoRepeats, HeadOrGone, StoredIsClaimed,
           RepeatIsKnown, Buffered, Draining, Workers
  <1>2. IInv /\ DupInv /\ [Next]_vars
          => [\A w \in Workers : Store(w) /\ copies[item[w]] > 0
                => ackLost[item[w]] \/ w \in overlapped]_vars
    BY DEF DupInv, RepeatIsKnown, Store
  <1>3. QED
    BY InitInv, NextInv, DupStep, <1>1, <1>2, PTL
    DEF Spec, DuplicateOnlyAfterLostAck

-----------------------------------------------------------------------------
(* The recorder                                                            *)

\* Each flight and each start adds at most one to the number.
NumberBound == number <= flight + 1

OneSaver == \A s, t \in Savers : at[s] # "idle" /\ at[t] # "idle" => s = t

\* A stop goes on with nobody flying, a landing with its flight still on.
StopWhenIdle ==
    \A s \in Savers : at[s] # "idle" /\ kind[s] # "landing" => mode = "idle"

LandingInFlight ==
    \A s \in Savers : at[s] # "idle" /\ kind[s] = "landing"
                        => mode = "inFlight" /\ at[s] # "clear"

TrackOfFlight == \A f \in Flights : track[f] > 0 => f = flight

TrackSaved == ~Busy /\ mode # "inFlight" => track = NoTrack

ContentOfFlight == \A s \in Savers : at[s] = "write" => content[s] \subseteq {flight}

FileOfFlight ==
    \A n \in Numbers : \E f \in 0..MaxFlights : files[n] \subseteq {f}

NamedByNumber ==
    \A s \in Savers : at[s] \in {"dir", "write"} /\ kind[s] = "landing"
                        => name[s] = number

WrittenBefore ==
    /\ mode \in {"preFlight", "inFlight"} => \A n \in written : n < number
    /\ mode = "monitoring" => \A n \in written : n <= number

Calm ==
    /\ OneSaver /\ StopWhenIdle /\ LandingInFlight
    /\ TrackOfFlight /\ TrackSaved /\ ContentOfFlight /\ FileOfFlight
    /\ NamedByNumber /\ WrittenBefore

NumberInv == RecTypeOK /\ NumberBound /\ FlyingIsNumbered

RecInv == NumberInv /\ (~disturbed => Calm)

-----------------------------------------------------------------------------
(* The numbers *)

\* What the saves share: the end of one, and the beginning of one.
LEMMA AfterSaveTypes ==
    ASSUME NumberInv, NEW s \in Savers, AfterSave(s),
           kind' \in [Savers -> {"landing", "stop", "stopFlight"}]
    PROVE  /\ mode' \in {"idle", "preFlight", "inFlight", "monitoring"}
           /\ number' \in {0} \cup Numbers
           /\ number' <= flight + 1
           /\ at' \in [Savers -> {"idle", "clear", "dir", "write"}]
           /\ mode' \in {"preFlight", "inFlight"} => number' > 0
  BY DEF AfterSave, NumberInv, RecTypeOK, NumberBound, FlyingIsNumbered, Numbers,
         Flights

LEMMA BeginSaveTypes ==
    ASSUME NumberInv, NEW s \in Savers, BeginSave(s),
           kind' \in [Savers -> {"landing", "stop", "stopFlight"}]
    PROVE  /\ mode' \in {"idle", "preFlight", "inFlight", "monitoring"}
           /\ number' \in {0} \cup Numbers
           /\ number' <= flight + 1
           /\ at' \in [Savers -> {"idle", "clear", "dir", "write"}]
           /\ mode' \in {"preFlight", "inFlight"} => number' > 0
           /\ track' \in [Flights -> 0..2]
           /\ name' \in [Savers -> Numbers]
<1>1. CASE TooShort
  <2>1. track' = NoTrack /\ AfterSave(s) /\ name' = name
    BY <1>1 DEF BeginSave
  <2>2. track' \in [Flights -> 0..2]
    BY <2>1 DEF NoTrack
  <2>3. QED BY <2>1, <2>2, AfterSaveTypes DEF NumberInv, RecTypeOK
<1>2. CASE ~TooShort
  <2>1. FileNumber \in Numbers
    BY MaxFlightsAssumption DEF FileNumber, NumberInv, RecTypeOK, Numbers
  <2>2. QED
    BY <1>2, <2>1 DEF BeginSave, NumberInv, RecTypeOK, NumberBound,
                      FlyingIsNumbered
<1>3. QED BY <1>1, <1>2

LEMMA AddPointsTypes ==
    ASSUME NumberInv, NEW f \in Flights \cup {0}, NEW n \in 0..2, AddPoints(f, n)
    PROVE  track' \in [Flights -> 0..2]
<1>1. \A v \in 0..2 : (IF v + n > 2 THEN 2 ELSE v + n) \in 0..2
  OBVIOUS
<1>2. QED BY <1>1 DEF AddPoints, NumberInv, RecTypeOK

LEMMA NumberInit == ASSUME RecInit PROVE NumberInv
<1>1. track \in [Flights -> 0..2] /\ files \in [Numbers -> SUBSET Flights]
  BY DEF RecInit, NoTrack
<1>2. /\ at \in [Savers -> {"idle", "clear", "dir", "write"}]
      /\ kind \in [Savers -> {"landing", "stop", "stopFlight"}]
      /\ name \in [Savers -> Numbers]
      /\ content \in [Savers -> SUBSET Flights]
  BY MaxFlightsAssumption DEF RecInit, Numbers
<1>3. /\ handlers \in 0..MaxHandlers /\ starting \in 0..MaxStarts
      /\ NumberBound /\ FlyingIsNumbered
  BY MaxHandlersAssumption, MaxStartsAssumption
     DEF RecInit, NumberBound, FlyingIsNumbered
<1>4. /\ mode = "idle" /\ number = 0 /\ flight = 0 /\ landing = "none"
      /\ written = {} /\ disturbed = FALSE
  BY DEF RecInit
<1>5. QED BY <1>1, <1>2, <1>3, <1>4 DEF NumberInv, RecTypeOK

LEMMA NumberStep == ASSUME NumberInv, [RecNext]_recvars PROVE NumberInv'
<1>. USE MaxFlightsAssumption, MaxHandlersAssumption, MaxStartsAssumption
     DEF NumberInv
<1>1. CASE RequestStart \/ PermissionDenied
  BY <1>1 DEF RequestStart, PermissionDenied, savers, RecTypeOK, NumberBound,
              FlyingIsNumbered
<1>2. CASE StartRecording
  BY <1>2 DEF StartRecording, Disturb, Busy, FirstNumber, savers, RecTypeOK,
              NumberBound, FlyingIsNumbered, Numbers, Flights
<1>3. ASSUME NEW n \in 0..2, TakeOff(n) PROVE NumberInv'
  <2>1. flight + 1 \in Flights
    BY <1>3 DEF TakeOff, RecTypeOK, Flights
  <2>2. track' \in [Flights -> 0..2]
    BY <1>3, <2>1, AddPointsTypes DEF TakeOff
  <2>3. QED
    BY <1>3, <2>1, <2>2 DEF TakeOff, savers, RecTypeOK, NumberBound,
                            FlyingIsNumbered, Flights, Numbers
<1>4. ASSUME NEW n \in 0..1, GpsUpdate(n) PROVE NumberInv'
  <2>1. track' \in [Flights -> 0..2]
    BY <1>4, AddPointsTypes DEF GpsUpdate, RecTypeOK
  <2>2. QED
    BY <1>4, <2>1 DEF GpsUpdate, savers, RecTypeOK, NumberBound,
                      FlyingIsNumbered
<1>5. ASSUME NEW to \in {"none", "slow", "countdown"}, CheckLanding(to)
      PROVE  NumberInv'
  BY <1>5 DEF CheckLanding, savers, RecTypeOK, NumberBound, FlyingIsNumbered
<1>6. ASSUME NEW s \in Savers, ConfirmLanding(s) PROVE NumberInv'
  <2>1. kind' \in [Savers -> {"landing", "stop", "stopFlight"}]
    BY <1>6 DEF ConfirmLanding, RecTypeOK
  <2>2. BeginSave(s)
    BY <1>6 DEF ConfirmLanding
  <2>3. QED
    BY <1>6, <2>1, <2>2, BeginSaveTypes
       DEF ConfirmLanding, Disturb, Busy, RecTypeOK, NumberBound,
           FlyingIsNumbered
<1>7. ASSUME NEW s \in Savers, StopRecording(s) PROVE NumberInv'
  BY <1>7 DEF StopRecording, Disturb, Busy, RecTypeOK, NumberBound,
              FlyingIsNumbered, Numbers, Flights
<1>8. ASSUME NEW s \in Savers, SaveOrDiscard(s) PROVE NumberInv'
  <2>1. CASE kind[s] = "stopFlight"
    <3>1. BeginSave(s) /\ kind' = kind
      BY <1>8, <2>1 DEF SaveOrDiscard
    <3>2. QED
      BY <1>8, <3>1, BeginSaveTypes
         DEF SaveOrDiscard, RecTypeOK, NumberBound, FlyingIsNumbered
  <2>2. CASE kind[s] # "stopFlight"
    BY <1>8, <2>2 DEF SaveOrDiscard, NoTrack, RecTypeOK, NumberBound,
                      FlyingIsNumbered
  <2>3. QED BY <2>1, <2>2
<1>9. ASSUME NEW s \in Savers, BuildFile(s) PROVE NumberInv'
  <2>1. CASE track = NoTrack
    BY <1>9, <2>1, AfterSaveTypes
       DEF BuildFile, RecTypeOK, NumberBound, FlyingIsNumbered
  <2>2. CASE track # NoTrack
    BY <1>9, <2>2 DEF BuildFile, Recorded, RecTypeOK, NumberBound,
                      FlyingIsNumbered
  <2>3. QED BY <2>1, <2>2
<1>10. ASSUME NEW s \in Savers, FileWritten(s) PROVE NumberInv'
  <2>1. files' \in [Numbers -> SUBSET Flights] /\ written' \subseteq Numbers
    BY <1>10 DEF FileWritten, RecTypeOK
  <2>2. QED
    BY <1>10, <2>1, AfterSaveTypes
       DEF FileWritten, AfterWrite, NoTrack, RecTypeOK, NumberBound,
           FlyingIsNumbered
<1>11. ASSUME NEW s \in Savers, WriteFails(s) PROVE NumberInv'
  BY <1>11, AfterSaveTypes
     DEF WriteFails, Disturb, RecTypeOK, NumberBound, FlyingIsNumbered
<1>12. ASSUME NEW n \in 1..2, Relaunch(n) PROVE NumberInv'
  <2>1. flight + 1 \in Flights
    BY <1>12 DEF Relaunch, RecTypeOK, Flights
  <2>2. track' \in [Flights -> 0..2]
    BY <1>12, <2>1, AddPointsTypes DEF Relaunch
  <2>3. number' \in Numbers /\ number' <= flight + 2
    BY <1>12 DEF Relaunch, NextNumber, RecTypeOK, NumberBound, Flights, Numbers
  <2>4. QED
    BY <1>12, <2>1, <2>2, <2>3 DEF Relaunch, savers, RecTypeOK, NumberBound,
                                   FlyingIsNumbered, Flights, Numbers
<1>13. CASE MonitoringEnds
  BY <1>13 DEF MonitoringEnds, savers, RecTypeOK, NumberBound,
               FlyingIsNumbered, Numbers, Flights
<1>14. CASE UNCHANGED recvars
  BY <1>14 DEF recvars, RecTypeOK, NumberBound, FlyingIsNumbered
<1>15. QED
  BY <1>1, <1>2, <1>3, <1>4, <1>5, <1>6, <1>7, <1>8, <1>9, <1>10, <1>11,
     <1>12, <1>13, <1>14 DEF RecNext

-----------------------------------------------------------------------------
(* The files *)

LEMMA CalmInit == ASSUME RecInit PROVE Calm
<1>1. FileOfFlight
  BY MaxFlightsAssumption DEF RecInit, FileOfFlight
<1>2. OneSaver /\ StopWhenIdle /\ LandingInFlight /\ ContentOfFlight /\ NamedByNumber
  BY DEF RecInit, OneSaver, StopWhenIdle, LandingInFlight, ContentOfFlight,
         NamedByNumber
<1>3. TrackOfFlight /\ TrackSaved /\ WrittenBefore
  BY DEF RecInit, TrackOfFlight, TrackSaved, NoTrack, WrittenBefore
<1>4. QED BY <1>1, <1>2, <1>3 DEF Calm

\* Nothing is saved before the flight: the savers and the track are at rest.
LEMMA AtRest ==
    ASSUME NumberInv, Calm, mode \in {"preFlight", "monitoring"}
    PROVE  ~Busy /\ track = NoTrack
<1>1. \A s \in Savers : at[s] = "idle"
  BY DEF Calm, StopWhenIdle, LandingInFlight
<1>2. ~Busy
  BY <1>1 DEF Busy
<1>3. QED BY <1>2 DEF Calm, TrackSaved

\* A flight begins with an empty track.
LEMMA NewFlightTrack ==
    ASSUME NumberInv, track = NoTrack, NEW f \in Flights, NEW n \in 0..2,
           AddPoints(f, n)
    PROVE  \A g \in Flights : track'[g] > 0 => g = f
  BY DEF AddPoints, NoTrack

\* A save begins with nothing else under way, of the flight that is flown.
LEMMA BeginSaveCalm ==
    ASSUME NumberInv, NEW s \in Savers, BeginSave(s),
           \A t \in Savers : t # s => at[t] = "idle",
           TrackOfFlight, FileOfFlight, WrittenBefore,
           flight' = flight, content' = content, files' = files,
           written' = written,
           kind' \in [Savers -> {"landing", "stop", "stopFlight"}],
           kind'[s] = "landing" => mode = "inFlight",
           kind'[s] # "landing" => mode = "idle"
    PROVE  Calm'
<1>. USE DEF NumberInv
<1>1. FileOfFlight'
  BY DEF FileOfFlight
<1>2. at'[s] \in {"idle", "dir"} /\ \A t \in Savers : t # s => at'[t] = "idle"
  BY DEF BeginSave, AfterSave, RecTypeOK
<1>3. OneSaver' /\ ContentOfFlight'
  BY <1>2 DEF OneSaver, ContentOfFlight
<1>4. CASE TooShort
  <2>1. track' = NoTrack /\ AfterSave(s)
    BY <1>4 DEF BeginSave
  <2>2. \A t \in Savers : at'[t] = "idle"
    BY <1>2, <2>1 DEF AfterSave, RecTypeOK
  <2>3. StopWhenIdle' /\ LandingInFlight' /\ NamedByNumber'
    BY <2>2 DEF StopWhenIdle, LandingInFlight, NamedByNumber
  <2>4. TrackOfFlight' /\ TrackSaved'
    BY <2>1 DEF TrackOfFlight, TrackSaved, NoTrack
  <2>5. WrittenBefore'
    BY <2>1 DEF AfterSave, WrittenBefore, RecTypeOK, Numbers
  <2>6. QED BY <1>1, <1>3, <2>3, <2>4, <2>5 DEF Calm
<1>5. CASE ~TooShort
  <2>1. /\ at' = [at EXCEPT ![s] = "dir"]
        /\ name' = [name EXCEPT ![s] = FileNumber]
        /\ mode' = mode /\ number' = number /\ track' = track
    BY <1>5 DEF BeginSave
  <2>2. StopWhenIdle' /\ LandingInFlight'
    BY <1>2, <2>1 DEF StopWhenIdle, LandingInFlight, RecTypeOK
  <2>3. kind'[s] = "landing" => name'[s] = number
    BY <2>1 DEF FileNumber, FlyingIsNumbered, RecTypeOK
  <2>4. NamedByNumber'
    BY <1>2, <2>1, <2>3 DEF NamedByNumber
  <2>5. Busy'
    BY <2>1 DEF Busy, RecTypeOK
  <2>6. TrackOfFlight' /\ TrackSaved' /\ WrittenBefore'
    BY <2>1, <2>5 DEF TrackOfFlight, TrackSaved, WrittenBefore
  <2>7. QED BY <1>1, <1>3, <2>2, <2>4, <2>6 DEF Calm
<1>6. QED BY <1>4, <1>5

\* A save ends with an empty track; a landing has written its own number.
LEMMA AfterSaveCalm ==
    ASSUME NumberInv, NEW s \in Savers, AfterSave(s), Calm, at[s] # "idle",
           flight' = flight, content' = content, kind' = kind,
           track' = NoTrack, FileOfFlight',
           written' \subseteq written \cup {number} \/ mode = "idle"
    PROVE  Calm'
<1>. USE DEF NumberInv
<1>1. \A t \in Savers : at'[t] = "idle"
  BY DEF AfterSave, RecTypeOK, Calm, OneSaver
<1>2. /\ OneSaver' /\ StopWhenIdle' /\ LandingInFlight' /\ ContentOfFlight'
      /\ NamedByNumber'
  BY <1>1 DEF OneSaver, StopWhenIdle, LandingInFlight, ContentOfFlight,
              NamedByNumber
<1>3. TrackOfFlight' /\ TrackSaved'
  BY DEF TrackOfFlight, TrackSaved, NoTrack
<1>4. WrittenBefore'
  <2>1. CASE kind[s] = "landing"
    <3>1. mode = "inFlight"
      BY <2>1 DEF Calm, LandingInFlight
    <3>2. \A n \in written : n < number
      BY <3>1 DEF Calm, WrittenBefore
    <3>3. written' \subseteq written \cup {number} /\ number \in Int
      BY <3>1, MaxFlightsAssumption DEF RecTypeOK, Numbers
    <3>4. written \subseteq Int
      BY MaxFlightsAssumption DEF RecTypeOK, Numbers
    <3>5. \A n \in written' : n <= number
      BY <3>2, <3>3, <3>4
    <3>6. QED
      BY <2>1, <3>5 DEF AfterSave, WrittenBefore
  <2>2. CASE kind[s] # "landing"
    BY <2>2 DEF AfterSave, WrittenBefore, Calm, StopWhenIdle
  <2>3. QED BY <2>1, <2>2
<1>5. QED BY <1>2, <1>3, <1>4 DEF Calm

-----------------------------------------------------------------------------
\* Every step, one by one: what is not disturbed afterwards was not before.
LEMMA CalmStep ==
    ASSUME NumberInv, NumberInv', ~disturbed => Calm, [RecNext]_recvars, ~disturbed'
    PROVE  Calm'
<1>. USE DEF NumberInv
<1>0. ~disturbed /\ Calm
  BY DEF RecNext, recvars, RequestStart, PermissionDenied, StartRecording, TakeOff,
         GpsUpdate, CheckLanding, ConfirmLanding, StopRecording,
         SaveOrDiscard, BuildFile, FileWritten, WriteFails, Relaunch,
         MonitoringEnds, Disturb, RecTypeOK
<1>1. CASE RequestStart \/ PermissionDenied
  <2>1. /\ UNCHANGED <<mode, number, flight, track, at, kind, name, content>>
        /\ UNCHANGED <<files, written>>
    BY <1>1 DEF RequestStart, PermissionDenied, savers
  <2>2. QED
    BY <1>0, <2>1
       DEF Calm, OneSaver, StopWhenIdle, LandingInFlight, TrackOfFlight,
           TrackSaved, Busy, ContentOfFlight, FileOfFlight, NamedByNumber,
           WrittenBefore
<1>2. CASE StartRecording
  <2>1. ~Busy /\ mode \notin {"preFlight", "inFlight"}
    BY <1>2 DEF StartRecording, Disturb
  <2>2. track = NoTrack /\ \A s \in Savers : at[s] = "idle"
    BY <1>0, <2>1 DEF Calm, TrackSaved, Busy
  <2>3. track' = NoTrack /\ \A s \in Savers : at'[s] = "idle"
    BY <1>2, <2>2 DEF StartRecording, savers
  <2>4. /\ OneSaver' /\ StopWhenIdle' /\ LandingInFlight'
        /\ ContentOfFlight' /\ NamedByNumber'
    BY <2>3 DEF OneSaver, StopWhenIdle, LandingInFlight, ContentOfFlight,
                NamedByNumber
  <2>5. TrackOfFlight' /\ TrackSaved'
    BY <2>3 DEF TrackOfFlight, TrackSaved, NoTrack
  <2>6. FileOfFlight' /\ WrittenBefore'
    BY <1>0, <1>2 DEF StartRecording, Calm, FileOfFlight, WrittenBefore
  <2>7. QED BY <2>4, <2>5, <2>6 DEF Calm
<1>3. ASSUME NEW n \in 0..2, TakeOff(n) \/ (n > 0 /\ Relaunch(n)) PROVE Calm'
  <2>1. ~Busy /\ track = NoTrack
    BY <1>0, <1>3, AtRest DEF TakeOff, Relaunch
  <2>2. /\ mode' = "inFlight" /\ flight' = flight + 1 /\ flight' \in Flights
        /\ AddPoints(flight + 1, n)
        /\ UNCHANGED <<at, kind, name, content, files, written>>
    BY <1>3 DEF TakeOff, Relaunch, savers, RecTypeOK, Flights
  <2>3. \A s \in Savers : at'[s] = "idle"
    BY <2>1, <2>2 DEF Busy
  <2>4. /\ OneSaver' /\ StopWhenIdle' /\ LandingInFlight'
        /\ ContentOfFlight' /\ NamedByNumber'
    BY <2>3 DEF OneSaver, StopWhenIdle, LandingInFlight, ContentOfFlight,
                NamedByNumber
  <2>5. TrackOfFlight' /\ TrackSaved'
    BY <2>1, <2>2, NewFlightTrack DEF TrackOfFlight, TrackSaved
  <2>6. FileOfFlight'
    BY <1>0, <2>2 DEF Calm, FileOfFlight
  <2>7. written \subseteq Int /\ number \in Int
    BY MaxFlightsAssumption DEF RecTypeOK, Numbers
  <2>8. WrittenBefore'
    <3>1. CASE TakeOff(n)
      BY <1>0, <2>2, <3>1 DEF TakeOff, Calm, WrittenBefore
    <3>2. CASE Relaunch(n)
      <4>1. mode = "monitoring" /\ number' = number + 1
        BY <3>2 DEF Relaunch, NextNumber
      <4>2. \A k \in written : k <= number
        BY <1>0, <4>1 DEF Calm, WrittenBefore
      <4>3. \A k \in written' : k < number'
        BY <2>2, <2>7, <4>1, <4>2
      <4>4. QED BY <2>2, <4>3 DEF WrittenBefore
    <3>3. QED BY <1>3, <3>1, <3>2
  <2>9. QED BY <2>4, <2>5, <2>6, <2>8 DEF Calm
<1>4. ASSUME NEW n \in 0..1, GpsUpdate(n) PROVE Calm'
  <2>1. /\ mode = "inFlight" /\ AddPoints(flight, n)
        /\ UNCHANGED <<mode, number, flight, at, kind, name, content>>
        /\ UNCHANGED <<files, written>>
    BY <1>4 DEF GpsUpdate, savers
  <2>2. TrackOfFlight' /\ TrackSaved'
    BY <1>0, <2>1
       DEF AddPoints, Calm, TrackOfFlight, TrackSaved, RecTypeOK
  <2>3. QED
    BY <1>0, <2>1, <2>2
       DEF Calm, OneSaver, StopWhenIdle, LandingInFlight, ContentOfFlight,
           FileOfFlight, NamedByNumber, WrittenBefore
<1>5. ASSUME NEW to \in {"none", "slow", "countdown"}, CheckLanding(to)
      PROVE  Calm'
  <2>1. /\ UNCHANGED <<mode, number, flight, track, at, kind, name, content>>
        /\ UNCHANGED <<files, written>>
    BY <1>5 DEF CheckLanding, savers
  <2>2. QED
    BY <1>0, <2>1
       DEF Calm, OneSaver, StopWhenIdle, LandingInFlight, TrackOfFlight,
           TrackSaved, Busy, ContentOfFlight, FileOfFlight, NamedByNumber,
           WrittenBefore
<1>6. ASSUME NEW s \in Savers, ConfirmLanding(s) PROVE Calm'
  <2>1. ~Busy /\ mode = "inFlight" /\ kind'[s] = "landing" /\ BeginSave(s)
    BY <1>6 DEF ConfirmLanding, Disturb, RecTypeOK
  <2>2. \A t \in Savers : t # s => at[t] = "idle"
    BY <2>1 DEF Busy
  <2>3. /\ TrackOfFlight /\ FileOfFlight /\ WrittenBefore
        /\ UNCHANGED <<flight, content, files, written>>
        /\ kind' \in [Savers -> {"landing", "stop", "stopFlight"}]
    BY <1>0, <1>6 DEF ConfirmLanding, Calm, RecTypeOK
  <2>4. QED BY <2>1, <2>2, <2>3, BeginSaveCalm
<1>7. ASSUME NEW s \in Savers, StopRecording(s) PROVE Calm'
  <2>1. ~Busy
    BY <1>7 DEF StopRecording, Disturb
  <2>2. /\ at' = [at EXCEPT ![s] = "clear"]
        /\ mode' = "idle" /\ kind'[s] \in {"stop", "stopFlight"}
        /\ UNCHANGED <<flight, track, name, content, files, written>>
    BY <1>7 DEF StopRecording, RecTypeOK
  <2>3. at'[s] = "clear" /\ \A t \in Savers : t # s => at'[t] = "idle"
    BY <2>1, <2>2 DEF Busy, RecTypeOK
  <2>4. OneSaver' /\ ContentOfFlight' /\ NamedByNumber'
    BY <2>3 DEF OneSaver, ContentOfFlight, NamedByNumber
  <2>5. StopWhenIdle' /\ LandingInFlight'
    BY <2>2, <2>3 DEF StopWhenIdle, LandingInFlight
  <2>6. TrackOfFlight' /\ FileOfFlight' /\ WrittenBefore'
    BY <1>0, <2>2 DEF Calm, TrackOfFlight, FileOfFlight, WrittenBefore
  <2>7. TrackSaved'
    BY <2>3 DEF TrackSaved, Busy
  <2>8. QED BY <2>4, <2>5, <2>6, <2>7 DEF Calm
<1>8. ASSUME NEW s \in Savers, SaveOrDiscard(s) PROVE Calm'
  <2>1. at[s] = "clear" /\ kind[s] # "landing" /\ mode = "idle"
    BY <1>0, <1>8 DEF SaveOrDiscard, Calm, LandingInFlight, StopWhenIdle
  <2>2. \A t \in Savers : t # s => at[t] = "idle"
    BY <1>0, <2>1 DEF Calm, OneSaver
  <2>3. UNCHANGED <<flight, content, files, written>>
    BY <1>8 DEF SaveOrDiscard
  <2>4. CASE kind[s] = "stopFlight"
    <3>1. BeginSave(s) /\ kind' = kind
      BY <1>8, <2>4 DEF SaveOrDiscard
    <3>2. TrackOfFlight /\ FileOfFlight /\ WrittenBefore
      BY <1>0 DEF Calm
    <3>3. kind' \in [Savers -> {"landing", "stop", "stopFlight"}]
      BY DEF RecTypeOK
    <3>4. QED BY <2>1, <2>2, <2>3, <3>1, <3>2, <3>3, BeginSaveCalm
  <2>5. CASE kind[s] # "stopFlight"
    <3>1. /\ track' = NoTrack /\ at' = [at EXCEPT ![s] = "idle"]
          /\ UNCHANGED <<mode, number, kind, name>>
      BY <1>8, <2>5 DEF SaveOrDiscard
    <3>2. \A t \in Savers : at'[t] = "idle"
      BY <2>2, <3>1 DEF RecTypeOK
    <3>3. /\ OneSaver' /\ StopWhenIdle' /\ LandingInFlight'
          /\ ContentOfFlight' /\ NamedByNumber'
      BY <3>2 DEF OneSaver, StopWhenIdle, LandingInFlight, ContentOfFlight,
                  NamedByNumber
    <3>4. TrackOfFlight' /\ TrackSaved'
      BY <3>1 DEF TrackOfFlight, TrackSaved, NoTrack
    <3>5. FileOfFlight' /\ WrittenBefore'
      BY <1>0, <2>3, <3>1 DEF Calm, FileOfFlight, WrittenBefore
    <3>6. QED BY <3>3, <3>4, <3>5 DEF Calm
  <2>6. QED BY <2>4, <2>5
<1>9. ASSUME NEW s \in Savers, BuildFile(s) PROVE Calm'
  <2>1. at[s] = "dir" /\ UNCHANGED <<flight, track, kind, name, files, written>>
    BY <1>9 DEF BuildFile
  <2>2. FileOfFlight'
    BY <1>0, <2>1 DEF Calm, FileOfFlight
  <2>3. CASE track = NoTrack
    BY <1>0, <1>9, <2>1, <2>2, <2>3, AfterSaveCalm DEF BuildFile
  <2>4. CASE track # NoTrack
    <3>1. /\ at' = [at EXCEPT ![s] = "write"]
          /\ content' = [content EXCEPT ![s] = Recorded(track)]
          /\ UNCHANGED <<mode, number>>
      BY <1>9, <2>4 DEF BuildFile
    <3>2. Recorded(track) \subseteq {flight}
      BY <1>0 DEF Calm, TrackOfFlight, Recorded
    <3>3. at'[s] = "write" /\ \A t \in Savers : t # s => at'[t] = "idle"
      BY <1>0, <2>1, <3>1 DEF Calm, OneSaver, RecTypeOK
    <3>4. ContentOfFlight'
      BY <2>1, <3>1, <3>2, <3>3 DEF ContentOfFlight, RecTypeOK
    <3>5. OneSaver' /\ StopWhenIdle' /\ LandingInFlight' /\ NamedByNumber'
      BY <1>0, <2>1, <3>1, <3>3
         DEF Calm, OneSaver, StopWhenIdle, LandingInFlight, NamedByNumber
    <3>6. TrackOfFlight' /\ TrackSaved' /\ WrittenBefore'
      BY <1>0, <2>1, <3>1, <3>3
         DEF Calm, TrackOfFlight, TrackSaved, Busy, WrittenBefore
    <3>7. QED BY <2>2, <3>4, <3>5, <3>6 DEF Calm
  <2>5. QED BY <2>3, <2>4
<1>10. ASSUME NEW s \in Savers, FileWritten(s) PROVE Calm'
  <2>1. /\ at[s] = "write" /\ AfterSave(s) /\ track' = NoTrack
        /\ files' = [files EXCEPT ![name[s]] = content[s]]
        /\ written' = written \cup {name[s]}
        /\ UNCHANGED <<flight, kind, content>>
    BY <1>10 DEF FileWritten, AfterWrite
  <2>2. content[s] \subseteq {flight} /\ flight \in 0..MaxFlights
    BY <1>0, <2>1, MaxFlightsAssumption
       DEF Calm, ContentOfFlight, RecTypeOK, Flights
  <2>3. FileOfFlight'
    BY <1>0, <2>1, <2>2 DEF Calm, FileOfFlight, RecTypeOK
  <2>4. written' \subseteq written \cup {number} \/ mode = "idle"
    BY <1>0, <2>1 DEF Calm, NamedByNumber, StopWhenIdle
  <2>5. QED BY <1>0, <2>1, <2>3, <2>4, AfterSaveCalm
<1>11. ASSUME NEW s \in Savers, WriteFails(s) PROVE Calm'
  BY <1>11 DEF WriteFails, Disturb
<1>12. CASE MonitoringEnds
  <2>1. ~Busy /\ track = NoTrack
    BY <1>0, <1>12, AtRest DEF MonitoringEnds
  <2>2. /\ mode' = "idle"
        /\ UNCHANGED <<flight, track, at, kind, name, content, files>>
    BY <1>12 DEF MonitoringEnds, savers
  <2>3. \A s \in Savers : at'[s] = "idle"
    BY <2>1, <2>2 DEF Busy
  <2>4. QED
    BY <1>0, <2>1, <2>2, <2>3
       DEF Calm, OneSaver, StopWhenIdle, LandingInFlight, TrackOfFlight,
           TrackSaved, ContentOfFlight, FileOfFlight, NamedByNumber,
           WrittenBefore
<1>13. CASE UNCHANGED recvars
  BY <1>0, <1>13
     DEF recvars, Calm, OneSaver, StopWhenIdle, LandingInFlight, TrackOfFlight,
         TrackSaved, Busy, ContentOfFlight, FileOfFlight, NamedByNumber,
         WrittenBefore
<1>14. \A n \in 1..2 : n \in 0..2 /\ n > 0
  OBVIOUS
<1>15. QED
  BY <1>1, <1>2, <1>3, <1>4, <1>5, <1>6, <1>7, <1>8, <1>9, <1>10, <1>11,
     <1>12, <1>13, <1>14 DEF RecNext

-----------------------------------------------------------------------------
THEOREM RecInvariant == RecSpec => []RecInv
<1>1. RecInit => RecInv
  BY NumberInit, CalmInit DEF RecInv
<1>2. RecInv /\ [RecNext]_recvars => RecInv'
  BY NumberStep, CalmStep DEF RecInv
<1>3. QED BY <1>1, <1>2, PTL DEF RecSpec

\* The model is well typed: in particular a day of MaxFlights flights uses at
\* most one number more (tracking_service.dart 805-807, 1600).
THEOREM RecTypeCorrect == RecSpec => []RecTypeOK
<1>1. RecInv => RecTypeOK
  BY DEF RecInv, NumberInv
<1>2. QED BY <1>1, RecInvariant, PTL

\* However many starts, stops, landings and late GPS updates overlap, whoever
\* flies or waits for take-off has a number (tracking_service.dart 805, 1600).
THEOREM Numbered == RecSpec => []FlyingIsNumbered
<1>1. RecInv => FlyingIsNumbered
  BY DEF RecInv, NumberInv
<1>2. QED BY <1>1, RecInvariant, PTL

\* While no save is disturbed, no file mixes two flights (igc_service.dart
\* 86-155).
THEOREM OneFlightPerFile == RecSpec => []FilesHoldOneFlight
<1>1. ASSUME RecInv PROVE FilesHoldOneFlight
  <2>1. SUFFICES ASSUME ~disturbed, NEW n \in Numbers
                 PROVE  Cardinality(files[n]) <= 1
    BY DEF FilesHoldOneFlight
  <2>2. PICK f \in 0..MaxFlights : files[n] \subseteq {f}
    BY <1>1, <2>1 DEF RecInv, Calm, FileOfFlight
  <2>3. IsFiniteSet({f}) /\ Cardinality({f}) = 1
    BY FS_Singleton
  <2>4. Cardinality(files[n]) <= Cardinality({f})
    BY <2>2, <2>3, FS_Subset
  <2>5. QED BY <2>3, <2>4
<1>2. QED BY <1>1, RecInvariant, PTL

\* While no save is disturbed, a detected landing overwrites no file of the
\* flights since the start (tracking_service.dart 1475-1526, 1780-1786).
THEOREM LandingsKeep == RecSpec => LandingsKeepFiles
<1>1. ASSUME RecInv, RecInv', [RecNext]_recvars, ~disturbed',
             NEW s \in Savers, FileWritten(s), kind[s] = "landing",
             name[s] \in written
      PROVE  FALSE
  <2>1. ~disturbed /\ at[s] = "write"
    BY <1>1 DEF FileWritten
  <2>2. mode = "inFlight" /\ name[s] = number
    BY <1>1, <2>1 DEF RecInv, Calm, LandingInFlight, NamedByNumber
  <2>3. number < number
    BY <1>1, <2>1, <2>2 DEF RecInv, Calm, WrittenBefore
  <2>4. number \in Int
    BY <1>1, MaxFlightsAssumption DEF RecInv, NumberInv, RecTypeOK, Numbers
  <2>5. QED BY <2>3, <2>4
<1>2. RecInv /\ RecInv' /\ [RecNext]_recvars
        => [~disturbed' =>
              \A s \in Savers :
                 FileWritten(s) /\ kind[s] = "landing" /\ name[s] \in written
                   => files[name[s]] \subseteq content[s]]_recvars
  BY <1>1
<1>3. QED BY <1>2, RecInvariant, PTL DEF RecSpec, LandingsKeepFiles
=============================================================================
