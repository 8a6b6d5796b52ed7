-------------------------- MODULE LiveFanoutProofs --------------------------
(***************************************************************************)
(* TypeOK and GapNeedsOverflowOrEarlyFix of LiveFanout, for any number of  *)
(* threads, apps and fixes and any size of the queues.  The invariant      *)
(* follows a fix from its publication: a stream that was registered then   *)
(* holds it from the callback on, so a fix that is about to commit is      *)
(* covered, whatever the snapshot saw; one the snapshot saw is covered by  *)
(* it.                                                                     *)
(*                                                                         *)
(* Then OnlyPublicShown and StreamsServe of PublicStreams, which shares no *)
(* state with it.  Whatever is handed to a stream was published, is of its *)
(* channels, and these are of subjects that were public when it was        *)
(* opened; what it is owed is still to be served on a channel it is        *)
(* registered with, is in its queue or was sent; and a message has as many *)
(* places in its queue, counting those to come, as it has channels of the  *)
(* stream, at most two.                                                    *)
(***************************************************************************)
EXTENDS LiveFanout, PublicStreams, TLAPS, FiniteSetTheorems, FunctionTheorems

Types ==
    /\ row \in [Fixes -> {"none", "open", "stored", "lost"}]
    /\ at \in [Posts -> {"idle", "stored", "publish", "commit"}]
    /\ fix \in [Posts -> {0} \cup Fixes]
    /\ registered \subseteq Streams
    /\ conn \in [Streams -> {"closed", "subscribed", "streaming"}]
    /\ inbox \in [Streams -> Seq(Fixes)]
    /\ queue \in [Streams -> Seq(Fixes)]
    /\ polls \in [Streams -> SUBSET ({0} \cup Fixes)]
    /\ view \in [Streams -> {0} \cup Fixes]
    /\ got \in [Streams -> SUBSET Fixes]
    /\ snap \in [Streams -> {0} \cup Fixes]
    /\ early \in [Streams -> SUBSET Fixes]
    /\ overflowed \subseteq Streams

QueuesBounded == \A s \in Streams : Len(queue[s]) <= QueueSize

\* A thread with work has a fix.
Working == \A r \in Posts : at[r] # "idle" => fix[r] \in Fixes

\* A connection is registered as long as it lasts.
Connected == \A s \in Streams : conn[s] # "closed" => s \in registered

\* The stream holds the fix, or has an excuse.
Held(s, p) ==
    \/ p \in got[s] \cup SeqSet(queue[s]) \cup SeqSet(inbox[s])
    \/ s \in overflowed \/ p \in early[s]

\* A published fix is held by every connection.
PublishedIsHeld ==
    \A s \in Streams, r \in Posts :
        conn[s] # "closed" /\ at[r] = "commit" => Held(s, fix[r])

StoredIsHeld ==
    \A s \in Streams, p \in Stored :
        conn[s] = "streaming" => p <= snap[s] \/ Held(s, p)

TInv == Types /\ QueuesBounded /\ Working
IInv == TInv /\ Connected /\ PublishedIsHeld /\ StoredIsHeld

-----------------------------------------------------------------------------
(* Sequences *)

LEMMA AppendSet ==
    ASSUME NEW S, NEW q \in Seq(S), NEW x \in S
    PROVE  /\ Append(q, x) \in Seq(S)
           /\ Len(Append(q, x)) = Len(q) + 1
           /\ SeqSet(Append(q, x)) = SeqSet(q) \cup {x}
<1>1. /\ Len(Append(q, x)) = Len(q) + 1
      /\ \A i \in 1..Len(q) : Append(q, x)[i] = q[i]
      /\ Append(q, x)[Len(q) + 1] = x
      /\ Len(q) \in Nat
  OBVIOUS
<1> QED
  BY <1>1 DEF SeqSet

LEMMA TailSet ==
    ASSUME NEW S, NEW q \in Seq(S), q # <<>>
    PROVE  /\ Head(q) \in S /\ Tail(q) \in Seq(S)
           /\ Len(Tail(q)) = Len(q) - 1
           /\ SeqSet(q) = {Head(q)} \cup SeqSet(Tail(q))
<1>1. /\ Len(q) \in Nat \ {0} /\ Len(Tail(q)) = Len(q) - 1
      /\ \A i \in 1..Len(q) - 1 : Tail(q)[i] = q[i + 1]
      /\ Head(q) = q[1]
      /\ Head(q) \in S /\ Tail(q) \in Seq(S)
  OBVIOUS
<1>2. SeqSet(q) \subseteq {Head(q)} \cup SeqSet(Tail(q))
  <2> SUFFICES ASSUME NEW i \in 1..Len(q)
               PROVE  q[i] \in {Head(q)} \cup SeqSet(Tail(q))
    BY DEF SeqSet
  <2>1. CASE i = 1
    BY <1>1, <2>1
  <2>2. CASE i # 1
    <3>1. i - 1 \in 1..Len(q) - 1 /\ Tail(q)[i - 1] = q[i]
      BY <1>1, <2>2
    <3> QED
      BY <1>1, <3>1 DEF SeqSet
  <2> QED
    BY <2>1, <2>2
<1>3. {Head(q)} \cup SeqSet(Tail(q)) \subseteq SeqSet(q)
  BY <1>1 DEF SeqSet
<1> QED
  BY <1>1, <1>2, <1>3

-----------------------------------------------------------------------------
LEMMA InitInv == Init => IInv
<1> SUFFICES ASSUME Init PROVE IInv
  OBVIOUS
<1>1. Types
  BY DEF Init, Types, Fixes
<1>2. QueuesBounded
  <2>1. Len(<<>>) = 0
    OBVIOUS
  <2> QED
    BY <2>1, QueueSizeAssumption DEF Init, QueuesBounded
<1>3. Working /\ Connected /\ PublishedIsHeld
  BY DEF Init, Working, Connected, PublishedIsHeld
<1>4. StoredIsHeld
  BY DEF Init, StoredIsHeld
<1> QED
  BY <1>1, <1>2, <1>3, <1>4 DEF IInv, TInv

LEMMA NextTyped == TInv /\ [Next]_vars => TInv'
<1> SUFFICES ASSUME TInv, [Next]_vars PROVE TInv'
  OBVIOUS
<1> USE DEF TInv, Types, QueuesBounded, Working
<1>1. ASSUME NEW r \in Posts, NEW p \in Fixes, Flush(r, p) PROVE TInv'
  BY <1>1 DEF Flush, channel, history
<1>2. ASSUME NEW r \in Posts, Look(r) PROVE TInv'
  BY <1>2 DEF Look, channel, history
<1>3. ASSUME NEW r \in Posts, Publish(r) PROVE TInv'
  <2>1. inbox' \in [Streams -> Seq(Fixes)]
    BY <1>3, AppendSet DEF Publish
  <2> QED
    BY <1>3, <2>1 DEF Publish, history
<1>4. ASSUME NEW r \in Posts, Commit(r) \/ RollBack(r) PROVE TInv'
  <2>1. End(r, "stored") \/ End(r, "lost")
    BY <1>4 DEF Commit, RollBack
  <2>2. row' \in [Fixes -> {"none", "open", "stored", "lost"}]
    BY <2>1 DEF End
  <2>3. /\ at' = [at EXCEPT ![r] = "idle"] /\ fix' = [fix EXCEPT ![r] = 0]
        /\ UNCHANGED <<registered, conn, inbox, queue, polls, view, got, snap, early, overflowed>>
    BY <2>1 DEF End, channel, history
  <2>4. /\ at' \in [Posts -> {"idle", "stored", "publish", "commit"}] /\ fix' \in [Posts -> {0} \cup Fixes]
        /\ Working'
    BY <2>3
  <2> QED
    BY <2>2, <2>3, <2>4
<1>5. ASSUME NEW s \in Streams, Callback(s) PROVE TInv'
  <2>1. Head(inbox[s]) \in Fixes /\ Tail(inbox[s]) \in Seq(Fixes)
    BY <1>5, TailSet DEF Callback
  <2>2. inbox' \in [Streams -> Seq(Fixes)]
    BY <1>5, <2>1 DEF Callback
  <2>3. CASE HasRoom(queue[s])
    <3>1. queue' = [queue EXCEPT ![s] = Append(queue[s], Head(inbox[s]))]
      BY <1>5, <2>3 DEF Callback
    <3>2. /\ Append(queue[s], Head(inbox[s])) \in Seq(Fixes)
          /\ Len(Append(queue[s], Head(inbox[s]))) = Len(queue[s]) + 1
      BY <2>1, AppendSet
    <3>3. Len(queue[s]) + 1 <= QueueSize
      BY <2>3, QueueSizeAssumption DEF HasRoom
    <3>4. queue' \in [Streams -> Seq(Fixes)] /\ QueuesBounded'
      BY <3>1, <3>2, <3>3
    <3> QED
      BY <1>5, <2>2, <2>3, <3>4 DEF Callback, server
  <2>4. CASE ~HasRoom(queue[s])
    BY <1>5, <2>2, <2>4 DEF Callback, server
  <2> QED
    BY <2>3, <2>4
<1>6. ASSUME NEW s \in Streams, Subscribe(s) PROVE TInv'
  <2>1. {fix[r] : r \in {q \in Posts : at[q] = "commit"}} \subseteq Fixes
    OBVIOUS
  <2> QED
    BY <1>6, <2>1 DEF Subscribe, server, channel
<1>7. ASSUME NEW s \in Streams, Snapshot(s) PROVE TInv'
  BY <1>7 DEF Snapshot, server, channel
<1>8. ASSUME NEW s \in Streams, Send(s) PROVE TInv'
  <2>1. /\ Head(queue[s]) \in Fixes /\ Tail(queue[s]) \in Seq(Fixes)
        /\ Len(Tail(queue[s])) <= Len(queue[s])
    BY <1>8, TailSet DEF Send
  <2>2. queue' \in [Streams -> Seq(Fixes)] /\ QueuesBounded'
    BY <1>8, <2>1, QueueSizeAssumption DEF Send
  <2> QED
    BY <1>8, <2>1, <2>2 DEF Send, server
<1>9. ASSUME NEW s \in Streams, Disconnect(s) PROVE TInv'
  <2>1. <<>> \in Seq(Fixes) /\ Len(<<>>) = 0
    OBVIOUS
  <2> QED
    BY <1>9, <2>1, QueueSizeAssumption DEF Disconnect, server
<1>10. ASSUME NEW s \in Streams, NEW p \in {0} \cup Fixes,
              PollRead(s) \/ PollApply(s, p) \/ PollFails(s, p)
       PROVE  TInv'
  <2>1. polls' \in [Streams -> SUBSET ({0} \cup Fixes)]
    <3>1. \A q \in {0} \cup Fixes :
             /\ polls[s] \cup {q} \in SUBSET ({0} \cup Fixes)
             /\ polls[s] \ {q} \in SUBSET ({0} \cup Fixes)
      OBVIOUS
    <3>2. \E set \in SUBSET ({0} \cup Fixes) :
             polls' = [polls EXCEPT ![s] = set]
      BY <1>10, <3>1 DEF PollRead, PollApply, PollFails
    <3> QED
      BY <3>2
  <2>2. view' \in [Streams -> {0} \cup Fixes]
    BY <1>10 DEF PollRead, PollApply, PollFails
  <2>3. /\ row' = row /\ at' = at /\ fix' = fix
        /\ registered' = registered /\ conn' = conn
        /\ inbox' = inbox /\ queue' = queue
        /\ got' = got /\ snap' = snap /\ early' = early
        /\ overflowed' = overflowed
    BY <1>10 DEF PollRead, PollApply, PollFails, server, channel, history
  <2> QED
    BY <2>1, <2>2, <2>3
<1>11. CASE Restart
  <2>1. <<>> \in Seq(Fixes) /\ Len(<<>>) = 0
    OBVIOUS
  <2> QED
    BY <1>11, <2>1, QueueSizeAssumption DEF Restart
<1>12. CASE UNCHANGED vars
  BY <1>12 DEF vars, server, channel, history
<1> QED
  BY <1>1, <1>2, <1>3, <1>4, <1>5, <1>6, <1>7, <1>8, <1>9, <1>10, <1>11,
     <1>12
  DEF Next

\* Only a subscription registers, and a connection that ends leaves.
LEMMA NextConnected ==
    ASSUME TInv, Connected, [Next]_vars
    PROVE  Connected'
<1> USE DEF TInv, Types, Connected
<1>1. ASSUME NEW s \in Streams, Subscribe(s) \/ Snapshot(s) \/ Disconnect(s)
      PROVE  Connected'
  BY <1>1 DEF Subscribe, Snapshot, Disconnect
<1>2. CASE Restart
  BY <1>2 DEF Restart
<1>3. ASSUME UNCHANGED <<registered, conn>> PROVE Connected'
  BY <1>3
<1>4. ASSUME NEW r \in Posts,
             \/ \E p \in Fixes : Flush(r, p)
             \/ Look(r) \/ Publish(r) \/ Commit(r) \/ RollBack(r)
      PROVE  Connected'
  BY <1>4, <1>3 DEF Flush, Look, Publish, Commit, RollBack, End
<1>5. ASSUME NEW s \in Streams,
             \/ Callback(s) \/ Send(s) \/ PollRead(s)
             \/ \E p \in {0} \cup Fixes : PollApply(s, p) \/ PollFails(s, p)
      PROVE  Connected'
  BY <1>5, <1>3 DEF Callback, Send, PollRead, PollApply, PollFails
<1>6. CASE UNCHANGED vars
  BY <1>6, <1>3 DEF vars
<1> QED
  BY <1>1, <1>2, <1>4, <1>5, <1>6 DEF Next

\* As long as a connection lasts it keeps what it holds, or its queue was full.
LEMMA HeldStays ==
    ASSUME TInv, [Next]_vars, NEW s \in Streams, NEW p \in Fixes,
           conn[s] # "closed", conn'[s] # "closed", Held(s, p)
    PROVE  Held(s, p)'
<1> USE DEF TInv, Types
<1>1. ASSUME inbox'[s] = inbox[s], queue'[s] = queue[s], got'[s] = got[s],
             early'[s] = early[s], s \in overflowed => s \in overflowed'
      PROVE  Held(s, p)'
  BY <1>1 DEF Held, SeqSet
<1>2. ASSUME NEW r \in Posts, Publish(r)
      PROVE  Held(s, p)'
  <2>1. SeqSet(inbox[s]) \subseteq SeqSet(inbox[s])'
    <3>1. CASE s \in Targets /\ fix[r] \in Fixes
      BY <1>2, <3>1, AppendSet DEF Publish, SeqSet
    <3>2. CASE s \notin Targets
      BY <1>2, <3>2 DEF Publish, SeqSet
    <3> QED
      BY <1>2, <3>1, <3>2 DEF Publish, Working
  <2>2. /\ queue' = queue /\ got' = got /\ early' = early
        /\ overflowed' = overflowed
    BY <1>2 DEF Publish, history
  <2> QED
    BY <2>1, <2>2 DEF Held, SeqSet
<1>3. ASSUME NEW t \in Streams, Callback(t)
      PROVE  Held(s, p)'
  <2>1. CASE t # s
    BY <1>1, <1>3, <2>1 DEF Callback
  <2>2. CASE t = s /\ HasRoom(queue[s])
    <3>1. /\ inbox'[s] = Tail(inbox[s])
          /\ queue'[s] = Append(queue[s], Head(inbox[s]))
          /\ got' = got /\ early' = early /\ overflowed' = overflowed
      BY <1>3, <2>2 DEF Callback
    <3>2. /\ Head(inbox[s]) \in Fixes
          /\ SeqSet(inbox[s]) = {Head(inbox[s])} \cup SeqSet(Tail(inbox[s]))
      BY <1>3, <2>2, TailSet DEF Callback
    <3>3. SeqSet(Append(queue[s], Head(inbox[s])))
            = SeqSet(queue[s]) \cup {Head(inbox[s])}
      BY <3>2, AppendSet
    <3>4. /\ SeqSet(inbox[s])' = SeqSet(Tail(inbox[s]))
          /\ SeqSet(queue[s])' = SeqSet(Append(queue[s], Head(inbox[s])))
      BY <3>1 DEF SeqSet
    <3> QED
      BY <3>1, <3>2, <3>3, <3>4 DEF Held
  <2>3. CASE t = s /\ ~HasRoom(queue[s])
    BY <1>3, <2>3 DEF Callback, Held
  <2> QED
    BY <2>1, <2>2, <2>3
<1>4. ASSUME NEW t \in Streams, Send(t)
      PROVE  Held(s, p)'
  <2>1. CASE t # s
    BY <1>1, <1>4, <2>1 DEF Send
  <2>2. CASE t = s
    <3>1. /\ queue'[s] = Tail(queue[s]) /\ inbox' = inbox
          /\ got'[s] = got[s] \cup {Head(queue[s])}
          /\ early' = early /\ overflowed' = overflowed
      BY <1>4, <2>2 DEF Send
    <3>2. SeqSet(queue[s]) = {Head(queue[s])} \cup SeqSet(Tail(queue[s]))
      BY <1>4, <2>2, TailSet DEF Send
    <3>3. /\ SeqSet(queue[s])' = SeqSet(Tail(queue[s]))
          /\ SeqSet(inbox[s])' = SeqSet(inbox[s])
      BY <3>1 DEF SeqSet
    <3> QED
      BY <3>1, <3>2, <3>3 DEF Held
  <2> QED
    BY <2>1, <2>2
<1>5. ASSUME NEW t \in Streams, Subscribe(t)
      PROVE  Held(s, p)'
  BY <1>1, <1>5 DEF Subscribe, channel
<1>6. ASSUME NEW t \in Streams, Disconnect(t)
      PROVE  Held(s, p)'
  <2>1. t # s
    BY <1>6 DEF Disconnect
  <2> QED
    BY <1>1, <1>6, <2>1 DEF Disconnect
<1>7. ASSUME NEW t \in Streams,
             \/ Snapshot(t) \/ PollRead(t)
             \/ \E q \in {0} \cup Fixes : PollApply(t, q) \/ PollFails(t, q)
      PROVE  Held(s, p)'
  BY <1>1, <1>7 DEF Snapshot, PollRead, PollApply, PollFails, channel, history
<1>8. ASSUME NEW r \in Posts,
             \/ \E q \in Fixes : Flush(r, q)
             \/ Look(r) \/ Commit(r) \/ RollBack(r)
      PROVE  Held(s, p)'
  BY <1>1, <1>8 DEF Flush, Look, Commit, RollBack, End, channel, history
<1>9. CASE UNCHANGED vars
  BY <1>1, <1>9 DEF vars, channel, history
<1>10. ~Restart
  BY DEF Restart
<1> QED
  BY <1>2, <1>3, <1>4, <1>5, <1>6, <1>7, <1>8, <1>9, <1>10 DEF Next

LEMMA NextPublished ==
    ASSUME IInv, [Next]_vars
    PROVE  PublishedIsHeld'
<1> USE DEF IInv, TInv, Types
<1> SUFFICES ASSUME NEW s \in Streams, NEW r \in Posts,
                    conn'[s] # "closed", at'[r] = "commit"
             PROVE  Held(s, fix[r])'
  BY DEF PublishedIsHeld
<1>1. CASE conn[s] = "closed"
  <2>1. Subscribe(s)
    <3>1. \/ \E t \in Streams : Subscribe(t) \/ Snapshot(t) \/ Disconnect(t)
          \/ Restart \/ conn' = conn
      BY DEF Next, vars, Flush, Look, Publish, Commit, RollBack, End, Callback,
             Send, PollRead, PollApply, PollFails
    <3>2. ~Restart
      BY DEF Restart
    <3> QED
      BY <1>1, <3>1, <3>2 DEF Subscribe, Snapshot, Disconnect
  <2>2. at' = at /\ fix' = fix
    BY <2>1 DEF Subscribe, server
  <2>3. fix[r] \in early'[s]
    BY <2>1, <2>2 DEF Subscribe
  <2> QED
    BY <2>2, <2>3 DEF Held
<1>2. CASE conn[s] # "closed" /\ at[r] = "commit"
  <2>1. fix[r] \in Fixes /\ Held(s, fix[r])
    BY <1>2 DEF PublishedIsHeld, Working
  <2>2. fix'[r] = fix[r]
    <3>1. \A t \in Posts : Commit(t) \/ RollBack(t) => t # r /\ fix'[r] = fix[r]
      BY <1>2 DEF Commit, RollBack, End
    <3>2. \A t \in Posts, p \in Fixes : Flush(t, p) => fix'[r] = fix[r]
      BY <1>2 DEF Flush
    <3>3. ~Restart
      BY DEF Restart
    <3> QED
      BY <3>1, <3>2, <3>3
      DEF Next, vars, server, Look, Publish, Callback, Subscribe, Snapshot,
          Send, Disconnect, PollRead, PollApply, PollFails
  <2>3. Held(s, fix[r])'
    <3> DEFINE p == fix[r]
    <3>1. p \in Fixes /\ Held(s, p)
      BY <2>1
    <3> HIDE DEF p
    <3>2. ASSUME NEW q \in Fixes, Held(s, q) PROVE Held(s, q)'
      BY <1>2, <3>2, HeldStays
    <3> QED
      BY <2>1, <2>2, <3>2 DEF Held
  <2> QED
    BY <2>3
<1>3. CASE conn[s] # "closed" /\ at[r] # "commit"
  <2>1. Publish(r)
    <3>1. ~Look(r)
      BY <1>3 DEF Look, Connected
    <3>2. Look(r) \/ Publish(r)
      BY <1>3 DEF Next, vars, server, Flush, Look, Publish, Commit, RollBack,
                  End, Callback, Subscribe, Snapshot, Send, Disconnect,
                  PollRead, PollApply, PollFails, Restart
    <3> QED
      BY <3>1, <3>2
  <2>2. fix' = fix /\ fix[r] \in Fixes /\ s \in Targets
    BY <1>3, <2>1 DEF Publish, Working, Connected, Targets
  <2>3. fix[r] \in SeqSet(inbox'[s])
    BY <2>1, <2>2, AppendSet DEF Publish
  <2> QED
    BY <2>2, <2>3 DEF Held, SeqSet
<1> QED
  BY <1>1, <1>2, <1>3

LEMMA NextStored ==
    ASSUME IInv, [Next]_vars
    PROVE  StoredIsHeld'
<1> USE DEF IInv, TInv, Types
<1> SUFFICES ASSUME NEW s \in Streams, NEW p \in Fixes,
                    row'[p] = "stored", conn'[s] = "streaming"
             PROVE  p <= snap'[s] \/ Held(s, p)'
  BY DEF StoredIsHeld, Stored
<1>0. ~Restart
  BY DEF Restart
<1>1. CASE row[p] # "stored"
  <2>1. PICK r \in Posts : Commit(r) /\ fix[r] = p
    BY <1>0, <1>1 DEF Next, vars, server, Flush, Look, Publish, Commit,
                      RollBack, End, Callback, Subscribe, Snapshot, Send,
                      Disconnect, PollRead, PollApply, PollFails
  <2>2. conn' = conn
    BY <2>1 DEF Commit, End
  <2>3. Held(s, p)
    BY <2>1, <2>2 DEF Commit, PublishedIsHeld
  <2> QED
    BY <2>2, <2>3, HeldStays
<1>2. CASE row[p] = "stored" /\ conn[s] = "streaming"
  <2>1. snap'[s] = snap[s]
    BY <1>0, <1>2 DEF Next, vars, history, Flush, Look, Publish, Commit,
                      RollBack, End, Callback, Subscribe, Snapshot, Send,
                      Disconnect, PollRead, PollApply, PollFails
  <2>2. p <= snap[s] \/ Held(s, p)
    BY <1>2 DEF StoredIsHeld, Stored
  <2> QED
    BY <1>2, <2>1, <2>2, HeldStays
<1>3. CASE row[p] = "stored" /\ conn[s] # "streaming"
  <2>1. Snapshot(s)
    BY <1>0, <1>3 DEF Next, vars, Flush, Look, Publish, Commit, RollBack, End,
                      Callback, Subscribe, Snapshot, Send, Disconnect,
                      PollRead, PollApply, PollFails
  <2> QED
    BY <1>3, <2>1 DEF Snapshot, IsLatest, Stored
<1> QED
  BY <1>1, <1>2, <1>3

-----------------------------------------------------------------------------
\* The inductive invariant.
THEOREM Invariant == Spec => []IInv
<1>1. IInv /\ [Next]_vars => IInv'
  BY NextTyped, NextConnected, NextPublished, NextStored DEF IInv
<1> QED
  BY InitInv, <1>1, PTL DEF Spec

\* The variables have their types and no queue holds more than its size.
THEOREM TypeCorrect == Spec => []TypeOK
<1>1. IInv => TypeOK
  BY DEF IInv, TInv, Types, QueuesBounded, TypeOK
<1> QED
  BY Invariant, <1>1, PTL

\* A stream misses a stored fix only if its queue was full or the fix was
\* published before it subscribed and committed after its snapshot.
THEOREM GapNeeds == Spec => []GapNeedsOverflowOrEarlyFix
<1>1. IInv => GapNeedsOverflowOrEarlyFix
  BY DEF IInv, StoredIsHeld, Held, GapNeedsOverflowOrEarlyFix, Covered
<1> QED
  BY Invariant, <1>1, PTL

-----------------------------------------------------------------------------
(* The inductive invariant of PublicStreams.                               *)
Message == [pilot : Pilots \cup {Nobody}, user : Users \cup {Nobody}, filed : BOOLEAN, file : BOOLEAN]
Stream == [kind : Kinds \cup {"none"},
           at : {"none", "registered", "streaming", "abandoned", "ended"},
           pilots : SUBSET Pilots, users : SUBSET Users]

PubTypes ==
    /\ entrants \subseteq Pilots /\ driving \subseteq Users
    /\ visible \subseteq Users /\ shared \in BOOLEAN
    /\ stream \in [Subs -> Stream]
    /\ listening \in [Channels -> SUBSET Subs]
    /\ message \in Seq(Message)
    /\ sending \in Seq(Channels)
    /\ calls \in [Subs -> Seq(1..Messages)]
    /\ waiting \in [Subs -> Seq(1..Messages)]
    /\ shown \in [Subs -> [1..Messages -> Nat]]
    /\ publicThen \in [Subs -> SUBSET Subjects]
    /\ owed \in [Subs -> SUBSET (1..Messages)]
    /\ full \subseteq Subs /\ cut \subseteq Subs
    /\ Len(message) <= Messages
    /\ \A s \in Subs : Len(waiting[s]) <= Capacity

\* What was published is a subject's position, or an announcement.
Published ==
    \A m \in 1..Len(message) :
       IF message[m].file THEN message[m].pilot \in Pilots /\ message[m].user = Nobody
       ELSE Subject(m) \in Subjects

\* The channels still to serve are those of the latest message.
Serving ==
    sending # <<>> => /\ Len(message) # 0
                      /\ \A c \in Elements(sending) :
                            c \in {TaskChannel, message[Len(message)].pilot, message[Len(message)].user}

\* A subscriber is registered with channels of its stream, which get messages of
\* theirs alone; a task's stream passes over the others.
Listens == \A c \in Channels : \A s \in listening[c] : c \in Registered(s)
Handed(s) == Elements(calls[s]) \cup Elements(waiting[s])
Fed ==
    \A s \in Subs :
       /\ \A m \in Handed(s) : m <= Len(message) /\ (stream[s].kind = "task" \/ Concerns(s, message[m]))
       /\ \A m \in 1..Messages : shown[s][m] > 0 => m <= Len(message) /\ Concerns(s, message[m])

\* The looked-up ids are those of public subjects.
LookedUp ==
    \A s \in Subs, x \in Subjects :
       x.pilot \in stream[s].pilots \/ x.user \in stream[s].users => x \in publicThen[s]

PubInv == PubTypes /\ Published /\ Serving /\ Listens /\ Fed /\ LookedUp

-----------------------------------------------------------------------------
(* Sequences.                                                              *)
LEMMA AppendElements ==
    ASSUME NEW S, NEW q \in Seq(S), NEW x \in S
    PROVE  /\ Append(q, x) \in Seq(S)
           /\ Len(Append(q, x)) = Len(q) + 1 /\ Len(q) \in Nat
           /\ \A i \in 1..Len(q) : Append(q, x)[i] = q[i]
           /\ Append(q, x)[Len(q) + 1] = x
           /\ Elements(Append(q, x)) = Elements(q) \cup {x}
<1>1. /\ Len(Append(q, x)) = Len(q) + 1
      /\ \A i \in 1..Len(q) : Append(q, x)[i] = q[i]
      /\ Append(q, x)[Len(q) + 1] = x
      /\ Len(q) \in Nat /\ Append(q, x) \in Seq(S)
  OBVIOUS
<1>2. DOMAIN q = 1..Len(q) /\ DOMAIN Append(q, x) = 1..Len(q) + 1
  BY <1>1
<1> QED
  BY <1>1, <1>2 DEF Elements

LEMMA OneMore ==
    ASSUME NEW q \in Seq(1..Messages), NEW x \in 1..Messages
    PROVE  Elements(Append(q, x)) = Elements(q) \cup {x}
<1> DEFINE S == 1..Messages
<1>1. q \in Seq(S) /\ x \in S
  OBVIOUS
<1> HIDE DEF S
<1> QED
  BY <1>1, AppendElements

LEMMA TailElements ==
    ASSUME NEW S, NEW q \in Seq(S), q # <<>>
    PROVE  /\ Head(q) \in S /\ Tail(q) \in Seq(S)
           /\ Len(Tail(q)) = Len(q) - 1 /\ Len(q) \in Nat \ {0}
           /\ \A i \in 1..Len(q) - 1 : Tail(q)[i] = q[i + 1]
           /\ Head(q) = q[1]
           /\ Elements(q) = {Head(q)} \cup Elements(Tail(q))
<1>1. /\ Len(q) \in Nat \ {0} /\ Len(Tail(q)) = Len(q) - 1
      /\ \A i \in 1..Len(q) - 1 : Tail(q)[i] = q[i + 1]
      /\ Head(q) = q[1]
      /\ Head(q) \in S /\ Tail(q) \in Seq(S)
  OBVIOUS
<1>2. DOMAIN q = 1..Len(q) /\ DOMAIN Tail(q) = 1..Len(q) - 1
  BY <1>1
<1>3. Elements(q) \subseteq {Head(q)} \cup Elements(Tail(q))
  <2> SUFFICES ASSUME NEW i \in 1..Len(q)
               PROVE  q[i] \in {Head(q)} \cup Elements(Tail(q))
    BY <1>2 DEF Elements
  <2>1. CASE i = 1
    BY <1>1, <2>1
  <2>2. CASE i # 1
    <3>1. i - 1 \in 1..Len(q) - 1 /\ Tail(q)[i - 1] = q[i]
      BY <1>1, <2>2
    <3> QED
      BY <1>2, <3>1 DEF Elements
  <2> QED
    BY <2>1, <2>2
<1>4. {Head(q)} \cup Elements(Tail(q)) \subseteq Elements(q)
  BY <1>1, <1>2 DEF Elements
<1> QED
  BY <1>1, <1>3, <1>4

LEMMA Members ==
    ASSUME NEW S, NEW q \in Seq(S)
    PROVE  Elements(q) \subseteq S /\ (q = <<>> <=> Elements(q) = {})
<1>1. DOMAIN q = 1..Len(q) /\ Len(q) \in Nat /\ \A i \in 1..Len(q) : q[i] \in S
  OBVIOUS
<1>2. Elements(q) \subseteq S
  BY <1>1 DEF Elements
<1>3. ASSUME q # <<>> PROVE Elements(q) # {}
  <2>1. 1 \in DOMAIN q
    BY <1>1, <1>3
  <2> QED
    BY <2>1 DEF Elements
<1>4. ASSUME q = <<>> PROVE Elements(q) = {}
  BY <1>4 DEF Elements
<1> QED
  BY <1>2, <1>3, <1>4

LEMMA JoinElements ==
    ASSUME NEW p \in Seq(Channels), NEW q \in Seq(Channels)
    PROVE  p \o q \in Seq(Channels) /\ Elements(p \o q) = Elements(p) \cup Elements(q)
<1>1. /\ p \o q \in Seq(Channels) /\ Len(p \o q) = Len(p) + Len(q) /\ Len(p) \in Nat /\ Len(q) \in Nat
      /\ \A i \in 1..Len(p) : (p \o q)[i] = p[i]
      /\ \A i \in 1..Len(p) + Len(q) : i > Len(p) => (p \o q)[i] = q[i - Len(p)]
      /\ DOMAIN p = 1..Len(p) /\ DOMAIN q = 1..Len(q)
  OBVIOUS
<1>2. DOMAIN (p \o q) = 1..Len(p) + Len(q)
  BY <1>1
<1> DEFINE z == p \o q
<1> HIDE DEF z
<1>3. Elements(z) \subseteq Elements(p) \cup Elements(q)
  <2> SUFFICES ASSUME NEW i \in 1..Len(p) + Len(q) PROVE z[i] \in Elements(p) \cup Elements(q)
    BY <1>2 DEF Elements, z
  <2>1. CASE i <= Len(p)
    BY <1>1, <2>1 DEF Elements, z
  <2>2. CASE i > Len(p)
    <3>1. i - Len(p) \in 1..Len(q) /\ z[i] = q[i - Len(p)]
      BY <1>1, <2>2 DEF z
    <3> QED
      BY <1>1, <3>1 DEF Elements
  <2> QED
    BY <1>1, <2>1, <2>2
<1>4. Elements(p) \subseteq Elements(z)
  BY <1>1, <1>2 DEF Elements, z
<1>5. Elements(q) \subseteq Elements(z)
  <2> SUFFICES ASSUME NEW j \in 1..Len(q) PROVE q[j] \in Elements(z)
    BY <1>1 DEF Elements
  <2>1. Len(p) + j \in 1..Len(p) + Len(q) /\ z[Len(p) + j] = q[j]
    BY <1>1 DEF z
  <2> QED
    BY <1>2, <2>1 DEF Elements, z
<1> QED
  BY <1>1, <1>3, <1>4, <1>5 DEF z

\* The channels of a position.
LEMMA PathChannels ==
    ASSUME NEW x \in Subjects
    PROVE  /\ Path(x) \in Seq(Channels)
           /\ Elements(Path(x)) \subseteq {TaskChannel, x.pilot, x.user}
<1>1. x.pilot \in Pilots \cup {Nobody} /\ x.user \in Users \cup {Nobody}
  BY PublicAssumption
<1> DEFINE a == IF x.filed THEN <<TaskChannel>> ELSE <<>>
           b == Known(x.pilot)
           c == Known(x.user)
<1>2. ASSUME NEW d \in Channels PROVE <<d>> \in Seq(Channels) /\ Elements(<<d>>) = {d}
  BY DEF Elements
<1>21. <<>> \in Seq(Channels) /\ Elements(<<>>) = {}
  BY DEF Elements
<1>22. /\ a \in Seq(Channels) /\ b \in Seq(Channels) /\ c \in Seq(Channels)
       /\ Elements(a) \subseteq {TaskChannel} /\ Elements(b) \subseteq {x.pilot} /\ Elements(c) \subseteq {x.user}
  <2>1. TaskChannel \in Channels
    BY DEF Channels
  <2>2. a \in Seq(Channels) /\ Elements(a) \subseteq {TaskChannel}
    BY <1>2, <1>21, <2>1
  <2>3. b \in Seq(Channels) /\ Elements(b) \subseteq {x.pilot}
    <3>1. x.pilot # Nobody => x.pilot \in Channels
      BY <1>1 DEF Channels
    <3> QED
      BY <1>2, <1>21, <3>1 DEF Known
  <2>4. c \in Seq(Channels) /\ Elements(c) \subseteq {x.user}
    <3>1. x.user # Nobody => x.user \in Channels
      BY <1>1 DEF Channels
    <3> QED
      BY <1>2, <1>21, <3>1 DEF Known
  <2> QED
    BY <2>2, <2>3, <2>4
<1>3. \A p, q \in Seq(Channels) : p \o q \in Seq(Channels) /\ Elements(p \o q) = Elements(p) \cup Elements(q)
  BY JoinElements
<1>4. Path(x) = (a \o b) \o c
  BY DEF Path
<1> HIDE DEF a, b, c
<1>5. a \o b \in Seq(Channels) /\ Elements(a \o b) = Elements(a) \cup Elements(b)
  BY <1>22, <1>3
<1>6. (a \o b) \o c \in Seq(Channels) /\ Elements((a \o b) \o c) = Elements(a \o b) \cup Elements(c)
  BY <1>22, <1>3, <1>5
<1> QED
  BY <1>22, <1>4, <1>5, <1>6

-----------------------------------------------------------------------------
(* Types.                                                                  *)
LEMMA PubInitTyped == PubInit => PubTypes
<1> SUFFICES ASSUME PubInit PROVE PubTypes
  OBVIOUS
<1>1. Unopened \in Stream
  BY DEF Unopened, Stream
<1>2. stream \in [Subs -> Stream]
  BY <1>1 DEF PubInit
<1>3. Len(<<>>) = 0 /\ Len(<<>>) <= Messages /\ Len(<<>>) <= Capacity
  BY PublicAssumption
<1>4. shown \in [Subs -> [1..Messages -> Nat]]
  BY DEF PubInit
<1>5. calls \in [Subs -> Seq(1..Messages)] /\ waiting \in [Subs -> Seq(1..Messages)]
  BY DEF PubInit
<1>6. \A s \in Subs : Len(waiting[s]) <= Capacity
  BY <1>3 DEF PubInit
<1>7. message \in Seq(Message) /\ sending \in Seq(Channels) /\ Len(message) <= Messages
  BY <1>3 DEF PubInit
<1> QED
  BY <1>2, <1>4, <1>5, <1>6, <1>7 DEF PubInit, PubTypes

LEMMA LookUp ==
    ASSUME PubTypes, NEW kind \in Kinds
    PROVE  IdsOf(kind)[1] \in SUBSET Pilots /\ IdsOf(kind)[2] \in SUBSET Users
<1>1. CASE kind = "buddies"
  BY <1>1, PublicAssumption DEF IdsOf, RegisteredPilots
<1>2. CASE kind = "all"
  BY <1>2 DEF IdsOf, RegisteredPilots, RegisteredUsers
<1>3. CASE kind \in {"event", "task"}
  BY <1>3 DEF IdsOf, EventPilots, EventUsers, EventDrivers, RegisteredPilots, RegisteredUsers, UsersOf, PubTypes
<1> QED
  BY <1>1, <1>2, <1>3 DEF Kinds

LEMMA TurnedTyped ==
    ASSUME PubTypes, NEW s \in Subs, NEW state \in {"registered", "streaming", "abandoned", "ended"}
    PROVE  /\ Turned(s, state) \in [Subs -> Stream]
           /\ \A t \in Subs : /\ Turned(s, state)[t].kind = stream[t].kind
                              /\ Turned(s, state)[t].pilots = stream[t].pilots
                              /\ Turned(s, state)[t].users = stream[t].users
                              /\ t # s => Turned(s, state)[t].at = stream[t].at
           /\ Turned(s, state)[s].at = state
<1> DEFINE new == [kind |-> stream[s].kind, at |-> state, pilots |-> stream[s].pilots, users |-> stream[s].users]
<1>1. stream[s] \in Stream
  BY DEF PubTypes
<1>2. new \in Stream /\ new.at = state
  BY <1>1 DEF Stream
<1>3. new.kind = stream[s].kind /\ new.pilots = stream[s].pilots /\ new.users = stream[s].users
  OBVIOUS
<1>4. Turned(s, state) = [stream EXCEPT ![s] = new]
  BY DEF Turned
<1> HIDE DEF new
<1>5. stream \in [Subs -> Stream]
  BY DEF PubTypes
<1> QED
  BY <1>2, <1>3, <1>4, <1>5

LEMMA PubNextTyped == PubTypes /\ Published /\ Serving /\ [PubNext]_pubvars => PubTypes'
<1> SUFFICES ASSUME PubTypes, Published, Serving, [PubNext]_pubvars PROVE PubTypes'
  OBVIOUS
<1>1. ASSUME NEW s \in Subs, NEW k \in Kinds, OpenView(s, k) PROVE PubTypes'
  <2>1. IdsOf(k)[1] \in SUBSET Pilots /\ IdsOf(k)[2] \in SUBSET Users
    BY LookUp
  <2> DEFINE new == [kind |-> k, at |-> "registered", pilots |-> IdsOf(k)[1], users |-> IdsOf(k)[2]]
  <2>2. new \in Stream
    BY <2>1 DEF Stream
  <2>3. stream' \in [Subs -> Stream]
    BY <1>1, <2>2 DEF OpenView, PubTypes
  <2>4. listening' \in [Channels -> SUBSET Subs]
    BY <1>1 DEF OpenView, PubTypes
  <2>5. publicThen' \in [Subs -> SUBSET Subjects]
    BY <1>1 DEF OpenView, PubTypes
  <2> QED
    BY <1>1, <2>3, <2>4, <2>5 DEF OpenView, PubTypes, world, feed
<1>2. ASSUME NEW s \in Subs, StartView(s) PROVE PubTypes'
  <2>1. stream' \in [Subs -> Stream]
    BY <1>2, TurnedTyped DEF StartView
  <2>2. shown' \in [Subs -> [1..Messages -> Nat]]
    BY <1>2 DEF StartView, PubTypes
  <2> QED
    BY <1>2, <2>1, <2>2 DEF StartView, PubTypes, world
<1>3. ASSUME NEW s \in Subs, Deliver(s) PROVE PubTypes'
  <2> DEFINE h == Head(waiting[s])
  <2>1. waiting[s] \in Seq(1..Messages) /\ waiting[s] # <<>>
    BY <1>3 DEF Deliver, PubTypes
  <2>2. h \in 1..Messages /\ Tail(waiting[s]) \in Seq(1..Messages) /\ Len(Tail(waiting[s])) = Len(waiting[s]) - 1
        /\ Len(waiting[s]) \in Nat
    BY <2>1, TailElements
  <2>3. waiting' = [waiting EXCEPT ![s] = Tail(waiting[s])] /\ waiting \in [Subs -> Seq(1..Messages)]
    BY <1>3 DEF Deliver, PubTypes
  <2>4. waiting' \in [Subs -> Seq(1..Messages)]
    BY <2>2, <2>3
  <2>5. \A t \in Subs : Len(waiting'[t]) <= Capacity
    BY <2>2, <2>3, PublicAssumption DEF PubTypes
  <2>6. shown' = [shown EXCEPT ![s][h] = shown[s][h] + 1] \/ shown' = shown
    BY <1>3 DEF Deliver
  <2>7. shown' \in [Subs -> [1..Messages -> Nat]]
    <3> HIDE DEF h
    <3>1. shown \in [Subs -> [1..Messages -> Nat]]
      BY DEF PubTypes
    <3>2. shown[s] \in [1..Messages -> Nat]
      BY <3>1
    <3>3. shown[s][h] + 1 \in Nat
      <4>1. h \in 1..Messages
        BY <2>2
      <4>2. shown[s][h] \in Nat
        BY <3>2, <4>1, PublicAssumption
      <4> QED
        BY <4>2
    <3>4. [shown[s] EXCEPT ![h] = shown[s][h] + 1] \in [1..Messages -> Nat]
      BY <3>2, <3>3
    <3> QED
      BY <2>6, <3>1, <3>4
  <2> QED
    BY <1>3, <2>4, <2>5, <2>7 DEF Deliver, PubTypes, world
<1>4. ASSUME NEW s \in Subs, CloseView(s) PROVE PubTypes'
  <2>1. stream' \in [Subs -> Stream]
    BY <1>4, TurnedTyped DEF CloseView
  <2>2. listening' \in [Channels -> SUBSET Subs]
    BY <1>4, SMTT(20) DEF CloseView, PubTypes
  <2> QED
    BY <1>4, <2>1, <2>2 DEF CloseView, PubTypes, world, feed
<1>5. ASSUME NEW s \in Subs, RunCall(s) PROVE PubTypes'
  <2>1. calls[s] \in Seq(1..Messages) /\ calls[s] # <<>>
    BY <1>5 DEF RunCall, PubTypes
  <2>2. Head(calls[s]) \in 1..Messages /\ Tail(calls[s]) \in Seq(1..Messages)
    BY <2>1, TailElements
  <2>3. calls' \in [Subs -> Seq(1..Messages)]
    BY <1>5, <2>2 DEF RunCall, PubTypes
  <2>4. full' \subseteq Subs
    BY <1>5 DEF RunCall, PubTypes
  <2> DEFINE longer == Append(waiting[s], Head(calls[s]))
  <2>5. longer \in Seq(1..Messages) /\ Len(longer) = Len(waiting[s]) + 1 /\ Len(waiting[s]) \in Nat
    <3>1. waiting[s] \in Seq(1..Messages)
      BY DEF PubTypes
    <3> QED
      BY <2>2, <3>1, AppendElements
  <2>6. waiting' = waiting \/ (waiting' = [waiting EXCEPT ![s] = longer] /\ Len(waiting[s]) < Capacity)
    BY <1>5 DEF RunCall, Fits
  <2>7. waiting' \in [Subs -> Seq(1..Messages)] /\ \A t \in Subs : Len(waiting'[t]) <= Capacity
    <3> HIDE DEF longer
    <3>1. waiting \in [Subs -> Seq(1..Messages)] /\ \A t \in Subs : Len(waiting[t]) <= Capacity
      BY DEF PubTypes
    <3>2. CASE waiting' = waiting
      BY <3>1, <3>2
    <3>3. CASE waiting' = [waiting EXCEPT ![s] = longer] /\ Len(waiting[s]) < Capacity
      <4>1. waiting' \in [Subs -> Seq(1..Messages)]
        BY <2>5, <3>1, <3>3
      <4>2. Len(longer) <= Capacity
        BY <2>5, <3>3, PublicAssumption
      <4>3. \A t \in Subs : waiting'[t] = longer \/ waiting'[t] = waiting[t]
        BY <3>1, <3>3
      <4> QED
        BY <3>1, <4>1, <4>2, <4>3
    <3> QED
      BY <2>6, <3>2, <3>3
  <2> QED
    BY <1>5, <2>3, <2>4, <2>7 DEF RunCall, PubTypes, world
<1>6. ASSUME NEW x \in Subjects, PostFix(x) PROVE PubTypes'
  <2>1. PositionMessage(x) \in Message
    <3>1. x \in [pilot : Pilots \cup {Nobody}, user : Users \cup {Nobody}, filed : BOOLEAN]
      BY PublicAssumption
    <3> QED
      BY <3>1 DEF PositionMessage, Message
  <2>2. message' = Append(message, PositionMessage(x)) /\ Len(message) < Messages /\ message \in Seq(Message)
    BY <1>6 DEF PostFix, PubTypes
  <2>3. message' \in Seq(Message) /\ Len(message') = Len(message) + 1 /\ Len(message) \in Nat
    BY <2>1, <2>2, AppendElements
  <2>4. Path(x) \in Seq(Channels)
    BY PathChannels
  <2>5. sending' \in Seq(Channels)
    BY <1>6, <2>4 DEF PostFix
  <2>6. owed' \in [Subs -> SUBSET (1..Messages)]
    <3>1. Len(message) + 1 \in 1..Messages
      BY <2>2, <2>3, PublicAssumption
    <3> QED
      BY <1>6, <3>1 DEF PostFix, Owe, PubTypes
  <2>7. Len(message') <= Messages
    BY <2>2, <2>3, PublicAssumption
  <2> QED
    BY <1>6, <2>3, <2>5, <2>6, <2>7 DEF PostFix, PubTypes, world
<1>7. CASE ServeChannel
  <2>1. sending \in Seq(Channels) /\ sending # <<>>
    BY <1>7 DEF ServeChannel, PubTypes
  <2>2. Tail(sending) \in Seq(Channels)
    BY <2>1, TailElements
  <2>3. Len(message) \in 1..Messages
    <3>1. message \in Seq(Message)
      BY DEF PubTypes
    <3>2. Len(message) \in Nat
      BY <3>1
    <3> QED
      BY <2>1, <3>2, PublicAssumption DEF Serving, PubTypes
  <2>4. calls' \in [Subs -> Seq(1..Messages)]
    <3> SUFFICES ASSUME NEW s \in Subs PROVE Append(calls[s], Len(message)) \in Seq(1..Messages) /\ calls[s] \in Seq(1..Messages)
      BY <1>7 DEF ServeChannel, PubTypes
    <3>1. calls[s] \in Seq(1..Messages)
      BY DEF PubTypes
    <3> QED
      BY <2>3, <3>1, AppendElements
  <2> QED
    BY <1>7, <2>2, <2>4 DEF ServeChannel, PubTypes, world
<1>8. ASSUME NEW p \in Pilots, AnnounceFile(p) PROVE PubTypes'
  <2>1. FileMessage(p) \in Message
    BY DEF FileMessage, Message
  <2>2. message' = Append(message, FileMessage(p)) /\ Len(message) < Messages /\ message \in Seq(Message)
    BY <1>8 DEF AnnounceFile, PubTypes
  <2>3. message' \in Seq(Message) /\ Len(message') = Len(message) + 1 /\ Len(message) \in Nat
    BY <2>1, <2>2, AppendElements
  <2>4. Len(message) + 1 \in 1..Messages /\ Len(message') <= Messages
    BY <2>2, <2>3, PublicAssumption
  <2>5. owed' \in [Subs -> SUBSET (1..Messages)]
    BY <1>8, <2>4 DEF AnnounceFile, Owe, PubTypes
  <2>6. listening' \in [Channels -> SUBSET Subs] /\ TaskChannel \in Channels
    BY <1>8 DEF AnnounceFile, PubTypes, Channels
  <2>7. NoRoom \subseteq Subs
    BY <2>6 DEF NoRoom, Audience, PubTypes
  <2>8. ASSUME NEW s \in Subs
        PROVE  /\ waiting'[s] \in Seq(1..Messages) /\ Len(waiting'[s]) <= Capacity
    <3>1. waiting[s] \in Seq(1..Messages) /\ Len(waiting[s]) <= Capacity
      BY DEF PubTypes
    <3>2. Append(waiting[s], Len(message) + 1) \in Seq(1..Messages)
          /\ Len(Append(waiting[s], Len(message) + 1)) = Len(waiting[s]) + 1 /\ Len(waiting[s]) \in Nat
      BY <2>4, <3>1, AppendElements
    <3>3. CASE s \in listening[TaskChannel] \ NoRoom
      <4>1. Len(waiting[s]) < Capacity
        BY <3>3 DEF NoRoom, Audience, Fits
      <4>2. waiting'[s] = Append(waiting[s], Len(message) + 1)
        BY <1>8, <3>3 DEF AnnounceFile
      <4> QED
        BY <3>2, <4>1, <4>2, PublicAssumption
    <3>4. CASE s \notin listening[TaskChannel] \ NoRoom
      <4>1. waiting'[s] = waiting[s]
        BY <1>8, <3>4 DEF AnnounceFile
      <4> QED
        BY <3>1, <4>1
    <3> QED
      BY <3>3, <3>4
  <2>9. waiting' \in [Subs -> Seq(1..Messages)]
    <3>1. waiting' = [s \in Subs |-> waiting'[s]]
      BY <1>8 DEF AnnounceFile
    <3> QED
      BY <2>8, <3>1
  <2>10. full' \subseteq Subs /\ cut' \subseteq Subs
    BY <1>8, <2>7 DEF AnnounceFile, PubTypes
  <2> QED
    BY <1>8, <2>3, <2>4, <2>5, <2>6, <2>8, <2>9, <2>10 DEF AnnounceFile, PubTypes, world
<1>9. CASE Change
  BY <1>9 DEF Change, PubTypes, feed
<1>10. CASE UNCHANGED pubvars
  BY <1>10 DEF pubvars, world, feed, PubTypes
<1> QED
  BY <1>1, <1>2, <1>3, <1>4, <1>5, <1>6, <1>7, <1>8, <1>9, <1>10 DEF PubNext

-----------------------------------------------------------------------------
(* What is published.                                                      *)
LEMMA Posted ==
    ASSUME NEW x \in Subjects
    PROVE  /\ PositionMessage(x) \in Message
           /\ PositionMessage(x).pilot = x.pilot /\ PositionMessage(x).user = x.user
           /\ ~PositionMessage(x).file
           /\ [pilot |-> PositionMessage(x).pilot, user |-> PositionMessage(x).user,
               filed |-> PositionMessage(x).filed] = x
<1>1. x \in [pilot : Pilots \cup {Nobody}, user : Users \cup {Nobody}, filed : BOOLEAN]
  BY PublicAssumption
<1> QED
  BY <1>1 DEF PositionMessage, Message

\* A step publishes nothing, or one message after the others.
Publishes(m) ==
    /\ message' = Append(message, m)
    /\ Len(message') = Len(message) + 1 /\ Len(message) \in Nat
    /\ \A i \in 1..Len(message) : message'[i] = message[i]
    /\ message'[Len(message')] = m

LEMMA PubSteps ==
    ASSUME PubTypes, [PubNext]_pubvars
    PROVE  \/ message' = message
           \/ \E x \in Subjects : PostFix(x) /\ Publishes(PositionMessage(x))
           \/ \E p \in Pilots : AnnounceFile(p) /\ Publishes(FileMessage(p))
<1>0. message \in Seq(Message)
  BY DEF PubTypes
<1>1. ASSUME NEW x \in Subjects, PostFix(x) PROVE Publishes(PositionMessage(x))
  <2>1. PositionMessage(x) \in Message
    BY Posted
  <2>2. message' = Append(message, PositionMessage(x))
    BY <1>1 DEF PostFix
  <2> QED
    BY <1>0, <2>1, <2>2, AppendElements DEF Publishes
<1>2. ASSUME NEW p \in Pilots, AnnounceFile(p) PROVE Publishes(FileMessage(p))
  <2>1. FileMessage(p) \in Message
    BY DEF FileMessage, Message
  <2>2. message' = Append(message, FileMessage(p))
    BY <1>2 DEF AnnounceFile
  <2> QED
    BY <1>0, <2>1, <2>2, AppendElements DEF Publishes
<1>3. ASSUME NEW s \in Subs, \E k \in Kinds : OpenView(s, k) PROVE message' = message
  BY <1>3 DEF OpenView
<1>4. ASSUME NEW s \in Subs, StartView(s) \/ Deliver(s) \/ CloseView(s) \/ RunCall(s) PROVE message' = message
  BY <1>4 DEF StartView, Deliver, CloseView, RunCall
<1>5. CASE ServeChannel \/ Change \/ UNCHANGED pubvars
  BY <1>5 DEF ServeChannel, Change, pubvars
<1> QED
  BY <1>1, <1>2, <1>3, <1>4, <1>5 DEF PubNext

LEMMA PublishedKept == PubTypes /\ Published /\ [PubNext]_pubvars => Published'
<1> SUFFICES ASSUME PubTypes, Published, [PubNext]_pubvars PROVE Published'
  OBVIOUS
<1>1. CASE message' = message
  BY <1>1 DEF Published, Subject
<1>2. ASSUME NEW x \in Subjects, Publishes(PositionMessage(x)) PROVE Published'
  <2>1. ~message'[Len(message')].file
    BY <1>2, Posted DEF Publishes
  <2>2. [pilot |-> message'[Len(message')].pilot, user |-> message'[Len(message')].user,
         filed |-> message'[Len(message')].filed] \in Subjects
    BY <1>2, Posted DEF Publishes
  <2>3. \A i \in 1..Len(message') : i = Len(message') \/ (i \in 1..Len(message) /\ message'[i] = message[i])
    BY <1>2 DEF Publishes
  <2> QED
    BY <2>1, <2>2, <2>3 DEF Published, Subject
<1>3. ASSUME NEW p \in Pilots, Publishes(FileMessage(p)) PROVE Published'
  <2>1. LET m == message'[Len(message')] IN m.file /\ m.pilot \in Pilots /\ m.user = Nobody
    BY <1>3 DEF Publishes, FileMessage
  <2>2. \A i \in 1..Len(message') : i = Len(message') \/ (i \in 1..Len(message) /\ message'[i] = message[i])
    BY <1>3 DEF Publishes
  <2> QED
    BY <2>1, <2>2 DEF Published, Subject
<1> QED
  BY <1>1, <1>2, <1>3, PubSteps

LEMMA ServingKept == PubTypes /\ Serving /\ [PubNext]_pubvars => Serving'
<1> SUFFICES ASSUME PubTypes, Serving, [PubNext]_pubvars PROVE Serving'
  OBVIOUS
<1>1. ASSUME UNCHANGED <<message, sending>> PROVE Serving'
  BY <1>1 DEF Serving
<1>2. ASSUME NEW x \in Subjects, PostFix(x) PROVE Serving'
  <2>1. Publishes(PositionMessage(x))
    <3>1. PositionMessage(x) \in Message /\ message \in Seq(Message)
      BY Posted DEF PubTypes
    <3> QED
      BY <1>2, <3>1, AppendElements DEF PostFix, Publishes
  <2>2. message'[Len(message')].pilot = x.pilot /\ message'[Len(message')].user = x.user /\ Len(message') # 0
    BY <2>1, Posted DEF Publishes
  <2>3. sending' = Path(x) \/ sending' = <<>>
    BY <1>2 DEF PostFix
  <2>4. Elements(Path(x)) \subseteq {TaskChannel, x.pilot, x.user}
    BY PathChannels
  <2> QED
    BY <2>2, <2>3, <2>4 DEF Serving
<1>3. CASE ServeChannel
  <2>1. sending \in Seq(Channels) /\ sending # <<>> /\ sending' = Tail(sending) /\ message' = message
    BY <1>3 DEF ServeChannel, PubTypes
  <2>2. Elements(sending') \subseteq Elements(sending)
    BY <2>1, TailElements
  <2> QED
    BY <2>1, <2>2 DEF Serving
<1>4. ASSUME NEW p \in Pilots, AnnounceFile(p) PROVE Serving'
  BY <1>4 DEF AnnounceFile, Serving
<1>5. ASSUME NEW s \in Subs, \E k \in Kinds : OpenView(s, k) PROVE Serving'
  BY <1>1, <1>5 DEF OpenView
<1>6. ASSUME NEW s \in Subs, StartView(s) \/ Deliver(s) \/ CloseView(s) \/ RunCall(s) PROVE Serving'
  BY <1>1, <1>6 DEF StartView, Deliver, CloseView, RunCall
<1>7. CASE Change \/ UNCHANGED pubvars
  BY <1>1, <1>7 DEF Change, pubvars
<1> QED
  BY <1>2, <1>3, <1>4, <1>5, <1>6, <1>7 DEF PubNext

-----------------------------------------------------------------------------
(* The streams: only opening one changes what it is for.                   *)
SameViews ==
    \A s \in Subs : /\ stream'[s].kind = stream[s].kind
                    /\ stream'[s].pilots = stream[s].pilots
                    /\ stream'[s].users = stream[s].users
                    /\ publicThen'[s] = publicThen[s]

LEMMA ViewsStay ==
    ASSUME PubTypes, [PubNext]_pubvars
    PROVE  SameViews \/ \E s \in Subs, k \in Kinds : OpenView(s, k)
<1>1. ASSUME UNCHANGED <<stream, publicThen>> PROVE SameViews
  BY <1>1 DEF SameViews
<1>2. ASSUME NEW s \in Subs, StartView(s) \/ CloseView(s) PROVE SameViews
  <2>1. publicThen' = publicThen /\ \E state \in {"registered", "streaming", "abandoned", "ended"} : stream' = Turned(s, state)
    BY <1>2 DEF StartView, CloseView
  <2> QED
    BY <2>1, TurnedTyped DEF SameViews
<1>3. ASSUME NEW s \in Subs, Deliver(s) \/ RunCall(s) PROVE SameViews
  BY <1>1, <1>3 DEF Deliver, RunCall
<1>4. ASSUME NEW x \in Subjects, PostFix(x) PROVE SameViews
  BY <1>1, <1>4 DEF PostFix
<1>5. ASSUME NEW p \in Pilots, AnnounceFile(p) PROVE SameViews
  BY <1>1, <1>5 DEF AnnounceFile
<1>6. CASE ServeChannel \/ Change \/ UNCHANGED pubvars
  BY <1>1, <1>6 DEF ServeChannel, Change, pubvars
<1> QED
  BY <1>2, <1>3, <1>4, <1>5, <1>6 DEF PubNext

LEMMA SameRegistered ==
    ASSUME SameViews, NEW s \in Subs
    PROVE  Registered(s)' = Registered(s) /\ \A m : Concerns(s, m)' = Concerns(s, m)
<1>1. /\ stream'[s].kind = stream[s].kind
      /\ stream'[s].pilots = stream[s].pilots
      /\ stream'[s].users = stream[s].users
  BY DEF SameViews
<1> QED
  BY <1>1 DEF Registered, Concerns

\* A stream that opens had no channel, no message and shows none.
LEMMA Opening ==
    ASSUME PubTypes, NEW s \in Subs, NEW k \in Kinds, OpenView(s, k)
    PROVE  /\ stream[s].kind = "none" /\ stream[s].at = "none" /\ stream[s].pilots = {} /\ stream[s].users = {}
           /\ Registered(s) = {} /\ \A m : ~Concerns(s, m)
           /\ stream'[s].kind = k /\ stream'[s].at = "registered"
           /\ stream'[s].pilots = IdsOf(k)[1] /\ stream'[s].users = IdsOf(k)[2]
           /\ \A t \in Subs \ {s} : stream'[t] = stream[t]
<1>1. stream[s].kind = "none" /\ stream[s].at = "none" /\ stream[s].pilots = {} /\ stream[s].users = {}
  BY DEF OpenView, Unopened
<1>2. Registered(s) = {} /\ \A m : ~Concerns(s, m)
  BY <1>1 DEF Registered, Concerns
<1> DEFINE new == [kind |-> k, at |-> "registered", pilots |-> IdsOf(k)[1], users |-> IdsOf(k)[2]]
<1>3. stream' = [stream EXCEPT ![s] = new] /\ stream \in [Subs -> Stream]
  BY DEF OpenView, PubTypes
<1>4. stream'[s] = new /\ \A t \in Subs \ {s} : stream'[t] = stream[t]
  <2> HIDE DEF new
  <2> QED
    BY <1>3
<1> QED
  BY <1>1, <1>2, <1>4

LEMMA ListensKept == PubTypes /\ Listens /\ [PubNext]_pubvars => Listens'
<1> SUFFICES ASSUME PubTypes, Listens, [PubNext]_pubvars PROVE Listens'
  OBVIOUS
<1>0. listening \in [Channels -> SUBSET Subs]
  BY DEF PubTypes
<1>1. ASSUME NEW s \in Subs, NEW k \in Kinds, OpenView(s, k) PROVE Listens'
  <2>1. Registered(s) = {} /\ \A t \in Subs \ {s} : stream'[t] = stream[t]
    BY <1>1, Opening
  <2>2. \A t \in Subs \ {s} : Registered(t)' = Registered(t)
    BY <2>1 DEF Registered
  <2>3. \A c \in Channels : listening'[c] = IF c \in Registered(s)' THEN listening[c] \cup {s} ELSE listening[c]
    BY <1>1 DEF OpenView
  <2>4. ASSUME NEW c \in Channels, NEW t \in listening'[c] PROVE c \in Registered(t)'
    <3>1. CASE t = s
      <4>1. s \notin listening[c]
        BY <2>1 DEF Listens
      <4> QED
        BY <2>3, <2>4, <3>1, <4>1
    <3>2. CASE t # s
      <4>1. t \in listening[c] /\ t \in Subs \ {s}
        BY <1>0, <2>3, <2>4, <3>2
      <4>2. c \in Registered(t)
        BY <4>1 DEF Listens
      <4> QED
        BY <2>2, <4>1, <4>2
    <3> QED
      BY <3>1, <3>2
  <2> QED
    BY <2>4 DEF Listens
<1>2. ASSUME SameViews, \A c \in Channels : listening'[c] \subseteq listening[c] PROVE Listens'
  <2>1. \A t \in Subs : Registered(t)' = Registered(t)
    BY <1>2, SameRegistered
  <2> QED
    BY <1>0, <1>2, <2>1 DEF Listens
<1>3. \/ \E s \in Subs, k \in Kinds : OpenView(s, k)
      \/ \A c \in Channels : listening'[c] \subseteq listening[c]
  <2>1. ASSUME NEW s \in Subs, StartView(s) \/ Deliver(s) \/ RunCall(s) PROVE listening' = listening
    BY <2>1 DEF StartView, Deliver, RunCall
  <2>2. ASSUME NEW s \in Subs, CloseView(s) PROVE \A c \in Channels : listening'[c] \subseteq listening[c]
    BY <2>2 DEF CloseView
  <2>3. ASSUME NEW x \in Subjects, PostFix(x) PROVE listening' = listening
    BY <2>3 DEF PostFix
  <2>4. ASSUME NEW p \in Pilots, AnnounceFile(p) PROVE \A c \in Channels : listening'[c] \subseteq listening[c]
    BY <1>0, <2>4 DEF AnnounceFile
  <2>5. CASE ServeChannel \/ Change \/ UNCHANGED pubvars
    BY <2>5 DEF ServeChannel, Change, pubvars
  <2> QED
    BY <2>1, <2>2, <2>3, <2>4, <2>5 DEF PubNext
<1> QED
  BY <1>1, <1>2, <1>3, ViewsStay

LEMMA LookedUpKept == PubTypes /\ LookedUp /\ [PubNext]_pubvars => LookedUp'
<1> SUFFICES ASSUME PubTypes, LookedUp, [PubNext]_pubvars PROVE LookedUp'
  OBVIOUS
<1>1. CASE SameViews
  BY <1>1 DEF SameViews, LookedUp
<1>2. ASSUME NEW s \in Subs, NEW k \in Kinds, OpenView(s, k) PROVE LookedUp'
  <2>1. /\ stream'[s].pilots = IdsOf(k)[1] /\ stream'[s].users = IdsOf(k)[2]
        /\ \A t \in Subs \ {s} : stream'[t] = stream[t]
    BY <1>2, Opening
  <2>2. publicThen'[s] = {x \in Subjects : IsPublic(k, x)} /\ \A t \in Subs \ {s} : publicThen'[t] = publicThen[t]
    BY <1>2 DEF OpenView, PubTypes
  <2>3. ASSUME NEW x \in Subjects, x.pilot \in IdsOf(k)[1] \/ x.user \in IdsOf(k)[2] PROVE IsPublic(k, x)
    <3>1. CASE k = "buddies"
      BY <2>3, <3>1 DEF IdsOf, RegisteredPilots, IsPublic
    <3>2. CASE k = "all"
      BY <2>3, <3>2 DEF IdsOf, RegisteredPilots, RegisteredUsers, IsPublic
    <3>3. CASE k \in {"event", "task"}
      BY <2>3, <3>3 DEF IdsOf, EventPilots, EventUsers, EventDrivers, RegisteredPilots, RegisteredUsers, UsersOf, IsPublic
    <3> QED
      BY <3>1, <3>2, <3>3 DEF Kinds
  <2> QED
    BY <2>1, <2>2, <2>3 DEF LookedUp
<1> QED
  BY <1>1, <1>2, ViewsStay

-----------------------------------------------------------------------------
(* What a stream is handed.                                                *)

\* What Fed says of one stream.
FedOne(s) ==
    /\ \A m \in Handed(s) : m <= Len(message) /\ (stream[s].kind = "task" \/ Concerns(s, message[m]))
    /\ \A m \in 1..Messages : shown[s][m] > 0 => m <= Len(message) /\ Concerns(s, message[m])

\* Nothing is handed that was not: messages move from the loop to the queue.
LEMMA FedStays ==
    ASSUME PubTypes, NEW s \in Subs, FedOne(s), message' = message,
           stream'[s].kind = stream[s].kind, stream'[s].pilots = stream[s].pilots, stream'[s].users = stream[s].users,
           Handed(s)' \subseteq Handed(s),
           \A m \in 1..Messages : shown'[s][m] > 0 => shown[s][m] > 0 \/ (m <= Len(message) /\ Concerns(s, message[m]))
    PROVE  FedOne(s)'
BY DEF FedOne, Concerns

LEMMA FedKept == PubTypes /\ Published /\ Serving /\ Listens /\ Fed /\ [PubNext]_pubvars => Fed'
<1> SUFFICES ASSUME PubTypes, Published, Serving, Listens, Fed, [PubNext]_pubvars, NEW s \in Subs
             PROVE  FedOne(s)'
  BY DEF Fed, FedOne
<1>0. /\ FedOne(s) /\ calls[s] \in Seq(1..Messages) /\ waiting[s] \in Seq(1..Messages)
      /\ message \in Seq(Message) /\ shown[s] \in [1..Messages -> Nat]
  BY DEF Fed, FedOne, PubTypes
<1>1. ASSUME UNCHANGED <<message, calls, waiting, shown>>,
             stream'[s].kind = stream[s].kind, stream'[s].pilots = stream[s].pilots, stream'[s].users = stream[s].users
      PROVE  FedOne(s)'
  BY <1>0, <1>1 DEF FedOne, Handed, Concerns
<1>2. ASSUME NEW t \in Subs, NEW k \in Kinds, OpenView(t, k) PROVE FedOne(s)'
  <2>1. UNCHANGED <<message, calls, waiting, shown>>
    BY <1>2 DEF OpenView, feed
  <2>2. CASE s # t
    <3>1. stream'[s] = stream[s]
      BY <1>2, <2>2, Opening
    <3> QED
      BY <1>1, <2>1, <3>1
  <2>3. CASE s = t
    <3>1. stream[s].kind # "task" /\ \A m : ~Concerns(s, m)
      BY <1>2, <2>3, Opening
    <3>2. Handed(s) = {} /\ \A m \in 1..Messages : ~(shown[s][m] > 0)
      BY <1>0, <3>1 DEF FedOne
    <3> QED
      BY <2>1, <3>2 DEF FedOne, Handed
  <2> QED
    BY <2>2, <2>3
<1>3. ASSUME NEW t \in Subs, StartView(t) PROVE FedOne(s)'
  <2>1. UNCHANGED <<message, calls, waiting>> /\ stream' = Turned(t, "streaming")
    BY <1>3 DEF StartView
  <2>2. stream'[s].kind = stream[s].kind /\ stream'[s].pilots = stream[s].pilots /\ stream'[s].users = stream[s].users
    BY <2>1, TurnedTyped
  <2>3. ASSUME NEW m \in 1..Messages, shown'[s][m] > 0
        PROVE  shown[s][m] > 0 \/ (m <= Len(message) /\ Concerns(s, message[m]))
    <3>1. CASE shown'[s] = shown[s]
      BY <2>3, <3>1
    <3>2. CASE s = t /\ shown'[s] = [n \in 1..Messages |-> IF n \in Newest(s) THEN 1 ELSE 0]
      <4>1. m \in Newest(s)
        BY <2>3, <3>2
      <4>2. m \in 1..Len(message) /\ Concerns(s, message[m])
        BY <4>1 DEF Newest
      <4>3. Len(message) \in Nat
        BY <1>0
      <4> QED
        BY <4>2, <4>3
    <3>3. shown'[s] = shown[s] \/ (s = t /\ shown'[s] = [n \in 1..Messages |-> IF n \in Newest(s) THEN 1 ELSE 0])
      BY <1>3 DEF StartView, PubTypes
    <3> QED
      BY <3>1, <3>2, <3>3
  <2>4. Handed(s)' = Handed(s)
    BY <2>1 DEF Handed
  <2> QED
    BY <1>0, <2>1, <2>2, <2>3, <2>4, FedStays
<1>4. ASSUME NEW t \in Subs, Deliver(t) PROVE FedOne(s)'
  <2> DEFINE h == Head(waiting[t])
  <2>1. UNCHANGED <<message, calls, stream>> /\ waiting' = [waiting EXCEPT ![t] = Tail(waiting[t])] /\ waiting[t] # <<>>
    BY <1>4 DEF Deliver
  <2>2. waiting[t] \in Seq(1..Messages) /\ waiting \in [Subs -> Seq(1..Messages)]
    BY DEF PubTypes
  <2>3. h \in 1..Messages /\ Elements(waiting[t]) = {h} \cup Elements(Tail(waiting[t]))
    BY <2>1, <2>2, TailElements
  <2>4. Handed(s)' \subseteq Handed(s)
    <3>1. waiting'[s] = IF s = t THEN Tail(waiting[t]) ELSE waiting[s]
      BY <2>1, <2>2
    <3>2. calls'[s] = calls[s]
      BY <2>1
    <3>3. Elements(waiting'[s]) \subseteq Elements(waiting[s])
      BY <2>3, <3>1
    <3> QED
      BY <3>2, <3>3 DEF Handed
  <2>5. ASSUME NEW m \in 1..Messages, shown'[s][m] > 0
        PROVE  shown[s][m] > 0 \/ (m <= Len(message) /\ Concerns(s, message[m]))
    <3>1. CASE shown' = shown
      BY <2>5, <3>1
    <3>2. CASE Passes(t, h) /\ shown' = [shown EXCEPT ![t][h] = shown[t][h] + 1]
      <4>1. CASE s = t /\ m = h
        <5>1. h \in Handed(t)
          BY <2>3 DEF Handed
        <5>2. h <= Len(message) /\ (stream[t].kind = "task" \/ Concerns(t, message[h]))
          BY <1>0, <4>1, <5>1 DEF FedOne
        <5>3. Concerns(t, message[h])
          BY <3>2, <5>2 DEF Passes
        <5> QED
          BY <4>1, <5>2, <5>3
      <4>2. CASE ~(s = t /\ m = h)
        <5> HIDE DEF h
        <5>1. shown'[s][m] = shown[s][m]
          <6>1. shown \in [Subs -> [1..Messages -> Nat]]
            BY DEF PubTypes
          <6> QED
            BY <2>3, <3>2, <4>2, <6>1
        <5> QED
          BY <2>5, <5>1
      <4> QED
        BY <4>1, <4>2
    <3> QED
      BY <1>4, <3>1, <3>2 DEF Deliver
  <2> QED
    BY <1>0, <2>1, <2>4, <2>5, FedStays
<1>5. ASSUME NEW t \in Subs, CloseView(t) PROVE FedOne(s)'
  <2>1. UNCHANGED <<message, calls, waiting, shown>> /\ (stream' = Turned(t, "ended") \/ stream' = Turned(t, "abandoned"))
    BY <1>5 DEF CloseView, feed
  <2>2. stream'[s].kind = stream[s].kind /\ stream'[s].pilots = stream[s].pilots /\ stream'[s].users = stream[s].users
    BY <2>1, TurnedTyped
  <2> QED
    BY <1>1, <2>1, <2>2
<1>6. ASSUME NEW t \in Subs, RunCall(t) PROVE FedOne(s)'
  <2>1. /\ UNCHANGED <<message, shown, stream>> /\ calls[t] # <<>>
        /\ calls' = [calls EXCEPT ![t] = Tail(calls[t])]
        /\ waiting' = waiting \/ waiting' = [waiting EXCEPT ![t] = Append(waiting[t], Head(calls[t]))]
    BY <1>6 DEF RunCall
  <2>2. /\ calls \in [Subs -> Seq(1..Messages)] /\ calls[t] \in Seq(1..Messages)
        /\ waiting \in [Subs -> Seq(1..Messages)] /\ waiting[t] \in Seq(1..Messages)
    BY DEF PubTypes
  <2>3. /\ Elements(calls[t]) = {Head(calls[t])} \cup Elements(Tail(calls[t])) /\ Head(calls[t]) \in 1..Messages
    BY <2>1, <2>2, TailElements
  <2>4. Elements(Append(waiting[t], Head(calls[t]))) = Elements(waiting[t]) \cup {Head(calls[t])}
    BY <2>2, <2>3, OneMore
  <2>5. Handed(s)' \subseteq Handed(s)
    <3>1. CASE s = t
      <4>1. calls'[s] = Tail(calls[t]) /\ (waiting'[s] = waiting[s] \/ waiting'[s] = Append(waiting[t], Head(calls[t])))
        BY <2>1, <2>2, <3>1
      <4> QED
        BY <2>3, <2>4, <3>1, <4>1 DEF Handed
    <3>2. CASE s # t
      <4>1. calls'[s] = calls[s] /\ waiting'[s] = waiting[s]
        BY <2>1, <2>2, <3>2
      <4> QED
        BY <4>1 DEF Handed
    <3> QED
      BY <3>1, <3>2
  <2> QED
    BY <1>0, <2>1, <2>5, FedStays
<1>7. ASSUME NEW x \in Subjects, PostFix(x) PROVE FedOne(s)'
  <2>1. Publishes(PositionMessage(x))
    <3>1. PositionMessage(x) \in Message
      BY Posted
    <3> QED
      BY <1>0, <1>7, <3>1, AppendElements DEF PostFix, Publishes
  <2>2. UNCHANGED <<calls, waiting, shown, stream>>
    BY <1>7 DEF PostFix
  <2>3. \A m \in 1..Messages : m <= Len(message) => m \in 1..Len(message) /\ m <= Len(message') /\ message'[m] = message[m]
    BY <2>1, PublicAssumption DEF Publishes
  <2>4. Handed(s) \subseteq 1..Messages
    BY <1>0, Members DEF Handed
  <2> QED
    BY <1>0, <2>2, <2>3, <2>4 DEF FedOne, Handed, Concerns
<1>8. CASE ServeChannel
  <2> DEFINE c == Head(sending)
             n == Len(message)
  <2>1. /\ sending \in Seq(Channels) /\ sending # <<>> /\ UNCHANGED <<message, waiting, shown, stream>>
        /\ calls'[s] = IF s \in listening[c] THEN Append(calls[s], n) ELSE calls[s]
    BY <1>8 DEF ServeChannel, Audience, PubTypes
  <2>2. c \in Elements(sending) /\ c \in Channels
    BY <2>1, TailElements
  <2>3. n \in 1..Messages
    <3>1. n \in Nat
      BY <1>0
    <3> QED
      BY <2>1, <3>1, PublicAssumption DEF Serving, PubTypes
  <2>4. s \in listening[c] => stream[s].kind = "task" \/ Concerns(s, message[n])
    <3> SUFFICES ASSUME s \in listening[c], stream[s].kind # "task" PROVE Concerns(s, message[n])
      OBVIOUS
    <3>1. c \in stream[s].pilots \cup stream[s].users
      BY <2>2 DEF Listens, Registered
    <3>2. c \in {TaskChannel, message[n].pilot, message[n].user}
      BY <2>1, <2>2 DEF Serving
    <3>3. stream[s].pilots \subseteq Pilots /\ stream[s].users \subseteq Users
      BY DEF PubTypes, Stream
    <3>4. message[n].pilot \in Pilots \cup {Nobody} /\ message[n].user \in Users \cup {Nobody}
      <4>1. message[n] \in Message
        BY <1>0, <2>3, <2>1 DEF Serving
      <4> QED
        BY <4>1 DEF Message
    <3> QED
      BY <3>1, <3>2, <3>3, <3>4, ChannelAssumption DEF Concerns
  <2>5. Handed(s)' \subseteq Handed(s) \cup (IF s \in listening[c] THEN {n} ELSE {})
    <3> HIDE DEF n
    <3>1. Elements(Append(calls[s], n)) = Elements(calls[s]) \cup {n}
      BY <1>0, <2>3, OneMore
    <3> QED
      BY <2>1, <3>1 DEF Handed
  <2>6. n <= Len(message)
    <3>1. n \in Nat
      BY <1>0
    <3> QED
      BY <3>1
  <2> HIDE DEF c, n
  <2> QED
    BY <1>0, <2>1, <2>4, <2>5, <2>6 DEF FedOne, Concerns
<1>9. ASSUME NEW p \in Pilots, AnnounceFile(p) PROVE FedOne(s)'
  <2>1. Publishes(FileMessage(p)) /\ Len(message) < Messages
    <3>1. FileMessage(p) \in Message
      BY DEF FileMessage, Message
    <3> QED
      BY <1>0, <1>9, <3>1, AppendElements DEF AnnounceFile, Publishes
  <2> DEFINE n == Len(message) + 1
  <2>2. /\ UNCHANGED <<calls, shown, stream>>
        /\ waiting'[s] = IF s \in listening[TaskChannel] \ NoRoom THEN Append(waiting[s], n) ELSE waiting[s]
    BY <1>9 DEF AnnounceFile
  <2>3. n \in 1..Messages /\ n <= Len(message')
    BY <2>1, PublicAssumption DEF Publishes
  <2>4. s \in listening[TaskChannel] => stream[s].kind = "task"
    <3> SUFFICES ASSUME s \in listening[TaskChannel] PROVE stream[s].kind = "task"
      OBVIOUS
    <3>1. TaskChannel \in Registered(s)
      BY DEF Listens, Channels
    <3>2. stream[s].pilots \subseteq Pilots /\ stream[s].users \subseteq Users
      BY DEF PubTypes, Stream
    <3> QED
      BY <3>1, <3>2, ChannelAssumption DEF Registered
  <2>5. Handed(s)' \subseteq Handed(s) \cup (IF s \in listening[TaskChannel] THEN {n} ELSE {})
    <3> HIDE DEF n
    <3>1. Elements(Append(waiting[s], n)) = Elements(waiting[s]) \cup {n}
      BY <1>0, <2>3, OneMore
    <3> QED
      BY <2>2, <3>1 DEF Handed
  <2>6. \A m \in 1..Messages : m <= Len(message) => m \in 1..Len(message) /\ m <= Len(message') /\ message'[m] = message[m]
    BY <2>1, PublicAssumption DEF Publishes
  <2>7. Handed(s) \subseteq 1..Messages
    BY <1>0, Members DEF Handed
  <2> HIDE DEF n
  <2> QED
    BY <1>0, <2>2, <2>3, <2>4, <2>5, <2>6, <2>7 DEF FedOne, Concerns
<1>10. CASE Change \/ UNCHANGED pubvars
  BY <1>1, <1>10 DEF Change, pubvars, feed
<1> QED
  BY <1>2, <1>3, <1>4, <1>5, <1>6, <1>7, <1>8, <1>9, <1>10 DEF PubNext

LEMMA PubInitInv == PubInit => PubInv
<1> SUFFICES ASSUME PubInit PROVE PubInv
  OBVIOUS
<1>1. PubTypes
  BY PubInitTyped
<1>2. Published /\ Serving
  BY DEF PubInit, Published, Serving
<1>3. Listens
  BY DEF PubInit, Listens
<1>4. Fed
  <2>1. \A s \in Subs : Handed(s) = {}
    BY DEF PubInit, Handed, Elements
  <2>2. \A s \in Subs, m \in 1..Messages : shown[s][m] = 0
    BY DEF PubInit
  <2> QED
    BY <2>1, <2>2 DEF Fed
<1>5. LookedUp
  BY DEF PubInit, LookedUp, Unopened
<1> QED
  BY <1>1, <1>2, <1>3, <1>4, <1>5 DEF PubInv

LEMMA PubNextInv == PubInv /\ [PubNext]_pubvars => PubInv'
BY PubNextTyped, PublishedKept, ServingKept, ListensKept, FedKept, LookedUpKept DEF PubInv

\* A public stream shows only whom the lookups called public when it was opened,
\* for any pilots, accounts, groups, streams and changes (public.py,
\* _public_position_payload_allowed and the registrations by channel).
THEOREM OnlyPublic == PubSpec => []OnlyPublicShown
<1>1. PubInv => OnlyPublicShown
  <2> SUFFICES ASSUME PubInv, NEW s \in Subs, NEW m \in 1..Len(message), shown[s][m] > 0
               PROVE  IF message[m].file THEN message[m].pilot \in {x.pilot : x \in publicThen[s]}
                      ELSE Subject(m) \in publicThen[s]
    BY DEF OnlyPublicShown
  <2>1. message \in Seq(Message) /\ Len(message) <= Messages
    BY DEF PubInv, PubTypes
  <2>2. m \in 1..Messages /\ Len(message) \in Nat
    BY <2>1, PublicAssumption
  <2>3. message[m].pilot \in stream[s].pilots \/ message[m].user \in stream[s].users
    BY <2>2 DEF PubInv, Fed, Concerns
  <2>4. CASE message[m].file
    <3>1. message[m].pilot \in Pilots /\ message[m].user = Nobody
      BY <2>4 DEF PubInv, Published
    <3>2. stream[s].users \subseteq Users
      BY DEF PubInv, PubTypes, Stream
    <3>3. message[m].pilot \in stream[s].pilots
      BY <2>3, <3>1, <3>2, ChannelAssumption
    <3>4. PICK x \in Subjects : x.pilot = message[m].pilot
      BY <3>1, PublicAssumption
    <3>5. x \in publicThen[s]
      BY <3>3, <3>4 DEF PubInv, LookedUp
    <3> QED
      BY <2>4, <3>4, <3>5
  <2>5. CASE ~message[m].file
    <3>1. Subject(m) \in Subjects
      BY <2>5 DEF PubInv, Published
    <3>2. Subject(m).pilot = message[m].pilot /\ Subject(m).user = message[m].user
      BY DEF Subject
    <3> QED
      BY <2>3, <2>5, <3>1, <3>2 DEF PubInv, LookedUp
  <2> QED
    BY <2>4, <2>5
<1> QED
  BY <1>1, PubInitInv, PubNextInv, PTL DEF PubSpec

-----------------------------------------------------------------------------
(* How often a sequence has an element of a set.                           *)
Count(q, A) == Cardinality({i \in DOMAIN q : q[i] \in A})

LEMMA CountFinite ==
    ASSUME NEW S, NEW q \in Seq(S), NEW A
    PROVE  /\ DOMAIN q = 1..Len(q) /\ Len(q) \in Nat
           /\ IsFiniteSet({i \in DOMAIN q : q[i] \in A}) /\ Count(q, A) \in Nat
           /\ Elements(q) \cap A = {} => Count(q, A) = 0
<1>1. DOMAIN q = 1..Len(q) /\ Len(q) \in Nat
  OBVIOUS
<1>2. IsFiniteSet(1..Len(q))
  BY <1>1, FS_Interval
<1> DEFINE I == {i \in DOMAIN q : q[i] \in A}
<1>3. I \subseteq 1..Len(q)
  BY <1>1
<1>4. IsFiniteSet(I)
  BY <1>2, <1>3, FS_Subset
<1>5. Cardinality(I) \in Nat
  BY <1>4, FS_CardinalityType
<1>6. Elements(q) \cap A = {} => I = {}
  BY DEF Elements
<1>7. I = {} => Cardinality(I) = 0
  BY FS_EmptySet
<1> QED
  BY <1>1, <1>4, <1>5, <1>6, <1>7 DEF Count

LEMMA CountAppend ==
    ASSUME NEW S, NEW q \in Seq(S), NEW x \in S, NEW A
    PROVE  Count(Append(q, x), A) = Count(q, A) + (IF x \in A THEN 1 ELSE 0)
<1> DEFINE r == Append(q, x)
           I == {i \in DOMAIN q : q[i] \in A}
           J == {i \in DOMAIN r : r[i] \in A}
           n == Len(q) + 1
<1>1. /\ r \in Seq(S) /\ Len(r) = Len(q) + 1 /\ Len(q) \in Nat
      /\ \A i \in 1..Len(q) : r[i] = q[i]
      /\ r[Len(q) + 1] = x
  BY AppendElements
<1>2. DOMAIN q = 1..Len(q) /\ DOMAIN r = 1..n /\ IsFiniteSet(I) /\ Cardinality(I) \in Nat
  BY <1>1, CountFinite DEF Count
<1>3. J = IF x \in A THEN I \cup {n} ELSE I
  <2> HIDE DEF r
  <2> QED
    BY <1>1, <1>2
<1>4. n \notin I
  BY <1>1, <1>2
<1> HIDE DEF I, J, r, n
<1>5. Cardinality(I \cup {n}) = Cardinality(I) + 1
  BY <1>2, <1>4, FS_AddElement
<1>6. Cardinality(J) = Cardinality(I) + (IF x \in A THEN 1 ELSE 0)
  BY <1>2, <1>3, <1>5
<1> QED
  BY <1>6 DEF Count, I, J, r

LEMMA CountAppendMessage ==
    ASSUME NEW q \in Seq(1..Messages), NEW x \in 1..Messages, NEW A
    PROVE  Count(Append(q, x), A) = Count(q, A) + (IF x \in A THEN 1 ELSE 0)
<1> DEFINE S == 1..Messages
<1>1. q \in Seq(S) /\ x \in S
  OBVIOUS
<1> HIDE DEF S
<1> QED
  BY <1>1, CountAppend

LEMMA CountTail ==
    ASSUME NEW S, NEW q \in Seq(S), q # <<>>, NEW A
    PROVE  Count(q, A) = Count(Tail(q), A) + (IF Head(q) \in A THEN 1 ELSE 0)
<1> DEFINE r == Tail(q)
           I == {i \in DOMAIN q : q[i] \in A}
           J == {i \in DOMAIN r : r[i] \in A}
           K == I \ {1}
<1>1. /\ r \in Seq(S) /\ Len(r) = Len(q) - 1 /\ Len(q) \in Nat \ {0}
      /\ \A i \in 1..Len(q) - 1 : r[i] = q[i + 1]
      /\ Head(q) = q[1]
  BY TailElements
<1>2. DOMAIN q = 1..Len(q) /\ DOMAIN r = 1..Len(q) - 1 /\ IsFiniteSet(I) /\ IsFiniteSet(J) /\ Cardinality(J) \in Nat
  BY <1>1, CountFinite DEF Count
<1>3. J \subseteq 1..Len(q) - 1 /\ \A j \in 1..Len(q) - 1 : j \in J <=> j + 1 \in K
  <2> HIDE DEF r
  <2> QED
    BY <1>1, <1>2
<1>4. K \subseteq 2..Len(q)
  BY <1>2, <1>1
<1>5. 1 \in I <=> Head(q) \in A
  BY <1>1, <1>2
<1> DEFINE F == [j \in J |-> j + 1]
<1> HIDE DEF I, J, K, r
<1>6. F \in [J -> K] /\ \A a, b \in J : F[a] = F[b] => a = b
  BY <1>1, <1>3
<1>7. \A k \in K : \E j \in J : F[j] = k
  <2> SUFFICES ASSUME NEW k \in K PROVE \E j \in J : F[j] = k
    OBVIOUS
  <2>1. k - 1 \in 1..Len(q) - 1 /\ (k - 1) + 1 = k
    BY <1>1, <1>4
  <2>2. k - 1 \in J
    BY <1>3, <2>1
  <2> QED
    BY <2>1, <2>2
<1> HIDE DEF F
<1>8. F \in Bijection(J, K)
  BY <1>6, <1>7, Fun_IsBij
<1>9. ExistsBijection(J, K)
  BY <1>8, Fun_ExistsBij
<1>10. Cardinality(K) = Cardinality(J) /\ IsFiniteSet(K)
  BY <1>2, <1>9, FS_Bijection
<1>11. Cardinality(I) = Cardinality(K) + (IF 1 \in I THEN 1 ELSE 0)
  <2>1. I = IF 1 \in I THEN K \cup {1} ELSE K
    BY DEF K
  <2>2. 1 \notin K
    BY DEF K
  <2>3. Cardinality(K \cup {1}) = Cardinality(K) + 1
    BY <1>10, <2>2, FS_AddElement
  <2>4. Cardinality(K) \in Nat
    BY <1>2, <1>10
  <2>5. CASE 1 \in I
    BY <2>1, <2>3, <2>5
  <2>6. CASE 1 \notin I
    <3>1. I = K
      BY <2>1, <2>6
    <3> HIDE DEF K
    <3> QED
      BY <2>4, <2>6, <3>1
  <2> QED
    BY <2>5, <2>6
<1>12. Cardinality(I) = Cardinality(J) + (IF Head(q) \in A THEN 1 ELSE 0)
  BY <1>5, <1>10, <1>11
<1> QED
  BY <1>12 DEF Count, I, J, r

-----------------------------------------------------------------------------
(* The invariant behind StreamsServe: what a stream is still to get.       *)
Open(s) == stream[s].at \in {"registered", "streaming"}
Distinct(q) == \A i, j \in DOMAIN q : q[i] = q[j] => i = j

Shapes ==
    \A s \in Subs : /\ stream[s].kind = "buddies" => stream[s].users = {}
                    /\ stream[s].kind = "none" => stream[s].pilots = {} /\ stream[s].users = {}

\* Nothing is sent before the generator starts, nothing owed before the stream.
Quiet ==
    \A s \in Subs : /\ stream[s].at \in {"none", "registered"} => \A m \in 1..Messages : shown[s][m] = 0
                    /\ stream[s].at = "none" => owed[s] = {}

Owing == \A s \in Subs : \A m \in owed[s] : m <= Len(message) /\ (stream[s].kind = "task" => Concerns(s, message[m]))

\* A message still to be served on a channel of the stream will be handed to it.
Coming(s, m) == m = Len(message) /\ \E c \in Elements(sending) : c \in Registered(s)
Kept(s, m) ==
    \/ stream[s].at \in {"ended", "abandoned"} \/ s \in full
    \/ Coming(s, m) \/ shown[s][m] > 0 \/ m \in Handed(s)
NoneMissed == \A s \in Subs : \A m \in owed[s] : Kept(s, m)

\* The places a message has, with those it is still to get.
Twice(s, m) ==
    IF stream[s].kind \in {"event", "all"} /\ message[m].pilot \in Pilots /\ message[m].user \in Users THEN 2 ELSE 1
Expected(s, m) == IF m = Len(message) THEN Count(sending, Registered(s)) ELSE 0
Bounded ==
    \A s \in Subs, m \in 1..Len(message) :
       Count(waiting[s], {m}) + Count(calls[s], {m}) + Expected(s, m) <= Twice(s, m)

ServeInv ==
    PubInv /\ RegisteredWhileOpen /\ Shapes /\ Quiet /\ Owing /\ NoneMissed /\ Distinct(sending) /\ Bounded

-----------------------------------------------------------------------------
(* Registrations.                                                          *)
LEMMA RegisteredKept ==
    PubTypes /\ Listens /\ RegisteredWhileOpen /\ [PubNext]_pubvars => RegisteredWhileOpen'
<1> SUFFICES ASSUME PubTypes, Listens, RegisteredWhileOpen, [PubNext]_pubvars,
                    NEW s \in Subs, NEW c \in Channels
             PROVE  /\ s \in listening'[c] => /\ stream'[s].at \in {"registered", "streaming", "abandoned"}
                                              /\ c \in Registered(s)'
                    /\ stream'[s].at \in {"registered", "streaming"} /\ c \in Registered(s)'
                         => s \in listening'[c] \cup (cut' \cap full')
  BY DEF RegisteredWhileOpen
<1>0. /\ s \in listening[c] => stream[s].at \in {"registered", "streaming", "abandoned"} /\ c \in Registered(s)
      /\ Open(s) /\ c \in Registered(s) => s \in listening[c] \cup (cut \cap full)
      /\ listening \in [Channels -> SUBSET Subs]
  BY DEF RegisteredWhileOpen, PubTypes, Open
<1>1. ASSUME stream'[s] = stream[s], listening'[c] = listening[c], cut \cap full \subseteq cut' \cap full'
      PROVE  /\ s \in listening'[c] => /\ stream'[s].at \in {"registered", "streaming", "abandoned"}
                                       /\ c \in Registered(s)'
             /\ stream'[s].at \in {"registered", "streaming"} /\ c \in Registered(s)'
                  => s \in listening'[c] \cup (cut' \cap full')
  BY <1>0, <1>1 DEF Registered, Open
<1>2. ASSUME NEW t \in Subs, NEW k \in Kinds, OpenView(t, k)
      PROVE  /\ s \in listening'[c] => /\ stream'[s].at \in {"registered", "streaming", "abandoned"}
                                       /\ c \in Registered(s)'
             /\ stream'[s].at \in {"registered", "streaming"} /\ c \in Registered(s)'
                  => s \in listening'[c] \cup (cut' \cap full')
  <2>1. /\ Registered(t) = {} /\ \A u \in Subs \ {t} : stream'[u] = stream[u]
        /\ stream'[t].at = "registered"
    BY <1>2, Opening
  <2>2. listening'[c] = IF c \in Registered(t)' THEN listening[c] \cup {t} ELSE listening[c]
    BY <1>2 DEF OpenView
  <2>3. UNCHANGED <<cut, full>>
    BY <1>2 DEF OpenView, feed
  <2>4. CASE s = t
    <3>1. s \notin listening[c]
      BY <1>0, <2>1, <2>4
    <3> QED
      BY <2>1, <2>2, <2>4, <3>1
  <2>5. CASE s # t
    <3>1. stream'[s] = stream[s] /\ (s \in listening'[c] <=> s \in listening[c])
      BY <2>1, <2>2, <2>5
    <3> QED
      BY <1>0, <2>3, <3>1 DEF Registered, Open
  <2> QED
    BY <2>4, <2>5
<1>3. ASSUME NEW t \in Subs, StartView(t)
      PROVE  /\ s \in listening'[c] => /\ stream'[s].at \in {"registered", "streaming", "abandoned"}
                                       /\ c \in Registered(s)'
             /\ stream'[s].at \in {"registered", "streaming"} /\ c \in Registered(s)'
                  => s \in listening'[c] \cup (cut' \cap full')
  <2>1. stream' = Turned(t, "streaming") /\ UNCHANGED <<listening, cut, full>> /\ stream[t].at = "registered"
    BY <1>3 DEF StartView
  <2>2. /\ stream'[s].kind = stream[s].kind /\ stream'[s].pilots = stream[s].pilots /\ stream'[s].users = stream[s].users
        /\ s # t => stream'[s].at = stream[s].at
        /\ stream'[t].at = "streaming"
    BY <2>1, TurnedTyped
  <2> QED
    BY <1>0, <2>1, <2>2 DEF Registered, Open
<1>4. ASSUME NEW t \in Subs, CloseView(t)
      PROVE  /\ s \in listening'[c] => /\ stream'[s].at \in {"registered", "streaming", "abandoned"}
                                       /\ c \in Registered(s)'
             /\ stream'[s].at \in {"registered", "streaming"} /\ c \in Registered(s)'
                  => s \in listening'[c] \cup (cut' \cap full')
  <2>1. UNCHANGED <<cut, full>>
    BY <1>4 DEF CloseView, feed
  <2>2. CASE /\ stream' = Turned(t, "ended")
             /\ listening' = [d \in Channels |-> IF d \in Left(t) THEN listening[d] \ {t} ELSE listening[d]]
    <3>1. /\ stream'[s].kind = stream[s].kind /\ stream'[s].pilots = stream[s].pilots /\ stream'[s].users = stream[s].users
          /\ s # t => stream'[s].at = stream[s].at
          /\ stream'[t].at = "ended"
      BY <2>2, TurnedTyped
    <3>2. listening'[c] = IF c \in Registered(t) THEN listening[c] \ {t} ELSE listening[c]
      BY <2>2 DEF Left
    <3>3. Registered(s)' = Registered(s)
      BY <3>1 DEF Registered
    <3> QED
      BY <1>0, <2>1, <3>1, <3>2, <3>3 DEF Open
  <2>3. CASE stream' = Turned(t, "abandoned") /\ listening' = listening
    <3>1. /\ stream'[s].kind = stream[s].kind /\ stream'[s].pilots = stream[s].pilots /\ stream'[s].users = stream[s].users
          /\ s # t => stream'[s].at = stream[s].at
          /\ stream'[t].at = "abandoned"
      BY <2>3, TurnedTyped
    <3> QED
      BY <1>0, <2>1, <2>3, <3>1 DEF Registered, Open
  <2> QED
    BY <1>4, <2>2, <2>3 DEF CloseView
<1>5. ASSUME NEW t \in Subs, Deliver(t) \/ RunCall(t)
      PROVE  stream'[s] = stream[s] /\ listening'[c] = listening[c] /\ cut \cap full \subseteq cut' \cap full'
  BY <1>5 DEF Deliver, RunCall
<1>6. ASSUME NEW x \in Subjects, PostFix(x)
      PROVE  stream'[s] = stream[s] /\ listening'[c] = listening[c] /\ cut \cap full \subseteq cut' \cap full'
  BY <1>6 DEF PostFix
<1>7. ASSUME NEW p \in Pilots, AnnounceFile(p)
      PROVE  /\ s \in listening'[c] => /\ stream'[s].at \in {"registered", "streaming", "abandoned"}
                                       /\ c \in Registered(s)'
             /\ stream'[s].at \in {"registered", "streaming"} /\ c \in Registered(s)'
                  => s \in listening'[c] \cup (cut' \cap full')
  <2>1. /\ stream' = stream /\ cut' = cut \cup NoRoom /\ full' = full \cup NoRoom
        /\ listening'[c] = listening[c] \/ listening'[c] = listening[c] \ NoRoom
    BY <1>0, <1>7 DEF AnnounceFile
  <2> QED
    BY <1>0, <2>1 DEF Registered, Open
<1>8. CASE ServeChannel \/ Change \/ UNCHANGED pubvars
  <2>1. stream'[s] = stream[s] /\ listening'[c] = listening[c] /\ cut \cap full \subseteq cut' \cap full'
    BY <1>8 DEF ServeChannel, Change, pubvars, feed
  <2> QED
    BY <1>1, <2>1
<1> QED
  BY <1>1, <1>2, <1>3, <1>4, <1>5, <1>6, <1>7, <1>8 DEF PubNext

-----------------------------------------------------------------------------
(* Streams keep their shape.                                               *)
LEMMA ShapesKept == PubTypes /\ Shapes /\ [PubNext]_pubvars => Shapes'
<1> SUFFICES ASSUME PubTypes, Shapes, [PubNext]_pubvars PROVE Shapes'
  OBVIOUS
<1>1. CASE SameViews
  BY <1>1 DEF SameViews, Shapes
<1>2. ASSUME NEW s \in Subs, NEW k \in Kinds, OpenView(s, k) PROVE Shapes'
  <2>1. /\ stream'[s].kind = k /\ stream'[s].users = IdsOf(k)[2]
        /\ \A t \in Subs \ {s} : stream'[t] = stream[t]
    BY <1>2, Opening
  <2>2. k = "buddies" => IdsOf(k)[2] = {}
    BY DEF IdsOf
  <2> QED
    BY <2>1, <2>2 DEF Shapes, Kinds
<1> QED
  BY <1>1, <1>2, ViewsStay

\* Nothing is sent or owed before its time.
LEMMA QuietKept == PubTypes /\ Quiet /\ [PubNext]_pubvars => Quiet'
<1> SUFFICES ASSUME PubTypes, Quiet, [PubNext]_pubvars, NEW s \in Subs
             PROVE  /\ stream'[s].at \in {"none", "registered"} => \A m \in 1..Messages : shown'[s][m] = 0
                    /\ stream'[s].at = "none" => owed'[s] = {}
  BY DEF Quiet
<1>0. /\ stream[s].at \in {"none", "registered"} => \A m \in 1..Messages : shown[s][m] = 0
      /\ stream[s].at = "none" => owed[s] = {}
      /\ shown \in [Subs -> [1..Messages -> Nat]]
  BY DEF Quiet, PubTypes
<1>1. ASSUME NEW t \in Subs, NEW k \in Kinds, OpenView(t, k)
      PROVE  /\ stream'[s].at \in {"none", "registered"} => \A m \in 1..Messages : shown'[s][m] = 0
             /\ stream'[s].at = "none" => owed'[s] = {}
  <2>1. UNCHANGED <<shown, owed>>
    BY <1>1 DEF OpenView, feed
  <2>2. stream[t].at = "none" /\ stream'[t].at = "registered" /\ (s # t => stream'[s] = stream[s])
    BY <1>1, Opening
  <2> QED
    BY <1>0, <2>1, <2>2
<1>2. ASSUME NEW t \in Subs, StartView(t)
      PROVE  /\ stream'[s].at \in {"none", "registered"} => \A m \in 1..Messages : shown'[s][m] = 0
             /\ stream'[s].at = "none" => owed'[s] = {}
  <2>1. stream' = Turned(t, "streaming") /\ owed' = owed /\ (s # t => shown'[s] = shown[s])
    BY <1>0, <1>2 DEF StartView
  <2>2. stream'[t].at = "streaming" /\ (s # t => stream'[s].at = stream[s].at)
    BY <2>1, TurnedTyped
  <2> QED
    BY <1>0, <2>1, <2>2
<1>3. ASSUME NEW t \in Subs, Deliver(t)
      PROVE  /\ stream'[s].at \in {"none", "registered"} => \A m \in 1..Messages : shown'[s][m] = 0
             /\ stream'[s].at = "none" => owed'[s] = {}
  <2>1. stream[t].at = "streaming" /\ UNCHANGED <<stream, owed>>
    BY <1>3 DEF Deliver
  <2>2. s # t => shown'[s] = shown[s]
    BY <1>0, <1>3 DEF Deliver
  <2> QED
    BY <1>0, <2>1, <2>2
<1>4. ASSUME NEW t \in Subs, CloseView(t)
      PROVE  /\ stream'[s].at \in {"none", "registered"} => \A m \in 1..Messages : shown'[s][m] = 0
             /\ stream'[s].at = "none" => owed'[s] = {}
  <2>1. UNCHANGED <<shown, owed>> /\ \E state \in {"abandoned", "ended"} : stream' = Turned(t, state)
    BY <1>4 DEF CloseView, feed
  <2>2. stream'[t].at \in {"abandoned", "ended"} /\ (s # t => stream'[s].at = stream[s].at)
    BY <2>1, TurnedTyped
  <2> QED
    BY <1>0, <2>1, <2>2
<1>5. ASSUME UNCHANGED <<stream, shown>>, owed' = owed \/ \E m, n, channels : Owe(m, n, channels)
      PROVE  /\ stream'[s].at \in {"none", "registered"} => \A m \in 1..Messages : shown'[s][m] = 0
             /\ stream'[s].at = "none" => owed'[s] = {}
  BY <1>0, <1>5 DEF Owe, Watching
<1>6. ASSUME NEW t \in Subs, RunCall(t) PROVE UNCHANGED <<stream, shown, owed>>
  BY <1>6 DEF RunCall
<1>7. ASSUME NEW x \in Subjects, PostFix(x)
      PROVE  UNCHANGED <<stream, shown>> /\ \E m, n, channels : Owe(m, n, channels)
  BY <1>7 DEF PostFix
<1>8. ASSUME NEW p \in Pilots, AnnounceFile(p)
      PROVE  UNCHANGED <<stream, shown>> /\ \E m, n, channels : Owe(m, n, channels)
  BY <1>8 DEF AnnounceFile
<1>9. CASE ServeChannel \/ Change \/ UNCHANGED pubvars
  <2>1. UNCHANGED <<stream, shown, owed>>
    BY <1>9 DEF ServeChannel, Change, pubvars, feed
  <2> QED
    BY <1>5, <2>1
<1> QED
  BY <1>1, <1>2, <1>3, <1>4, <1>5, <1>6, <1>7, <1>8, <1>9 DEF PubNext

\* Without a message nothing new is owed.
LEMMA SameMessages == PubTypes /\ [PubNext]_pubvars /\ message' = message => owed' = owed
<1> SUFFICES ASSUME PubTypes, [PubNext]_pubvars, message' = message PROVE owed' = owed
  OBVIOUS
<1>0. message \in Seq(Message)
  BY DEF PubTypes
<1>1. ASSUME NEW x \in Message, message' = Append(message, x) PROVE FALSE
  <2>1. Len(message') = Len(message) + 1 /\ Len(message) \in Nat
    BY <1>0, <1>1, AppendElements
  <2> QED
    BY <2>1
<1>2. ASSUME NEW x \in Subjects, PostFix(x) PROVE FALSE
  BY <1>1, <1>2, Posted DEF PostFix
<1>3. ASSUME NEW p \in Pilots, AnnounceFile(p) PROVE FALSE
  <2>1. FileMessage(p) \in Message
    BY DEF FileMessage, Message
  <2> QED
    BY <1>1, <1>3, <2>1 DEF AnnounceFile
<1>4. ASSUME NEW s \in Subs, \E k \in Kinds : OpenView(s, k) PROVE owed' = owed
  BY <1>4 DEF OpenView, feed
<1>5. ASSUME NEW s \in Subs, StartView(s) \/ Deliver(s) \/ CloseView(s) \/ RunCall(s) PROVE owed' = owed
  BY <1>5 DEF StartView, Deliver, CloseView, RunCall, feed
<1>6. CASE ServeChannel \/ Change \/ UNCHANGED pubvars
  BY <1>6 DEF ServeChannel, Change, pubvars, feed
<1> QED
  BY <1>2, <1>3, <1>4, <1>5, <1>6 DEF PubNext

\* What a stream is owed was published, and passes its filter.
LEMMA OwingKept == PubTypes /\ Quiet /\ Owing /\ [PubNext]_pubvars => Owing'
<1> SUFFICES ASSUME PubTypes, Quiet, Owing, [PubNext]_pubvars, NEW s \in Subs, NEW m \in owed'[s]
             PROVE  m <= Len(message') /\ (stream'[s].kind = "task" => Concerns(s, message[m])')
  BY DEF Owing
<1>0. /\ \A n \in owed[s] : n <= Len(message) /\ (stream[s].kind = "task" => Concerns(s, message[n]))
      /\ owed[s] \subseteq 1..Messages /\ message \in Seq(Message) /\ Len(message) \in Nat
  BY DEF Owing, PubTypes
<1>1. ASSUME NEW x \in Message, NEW channels, Publishes(x), stream' = stream, Owe(x, Len(message) + 1, channels)
      PROVE  m <= Len(message') /\ (stream'[s].kind = "task" => Concerns(s, message[m])')
  <2>1. CASE m \in owed[s]
    <3>1. m <= Len(message) /\ m \in 1..Messages
      BY <1>0, <2>1
    <3>2. m \in 1..Len(message)
      BY <1>0, <3>1, PublicAssumption
    <3>3. message'[m] = message[m] /\ m <= Len(message')
      BY <1>1, <3>1, <3>2, PublicAssumption DEF Publishes
    <3> QED
      BY <1>0, <1>1, <2>1, <3>3 DEF Concerns
  <2>2. CASE m \notin owed[s]
    <3>1. m = Len(message) + 1 /\ s \in Watching(x, channels)
      BY <1>1, <2>2 DEF Owe
    <3>2. message'[m] = x /\ m <= Len(message')
      BY <1>0, <1>1, <3>1 DEF Publishes
    <3>3. stream[s].kind = "task" => Concerns(s, x)
      BY <3>1 DEF Watching
    <3> QED
      BY <1>1, <3>2, <3>3 DEF Concerns
  <2> QED
    BY <2>1, <2>2
<1>2. ASSUME NEW x \in Subjects, PostFix(x), Publishes(PositionMessage(x))
      PROVE  m <= Len(message') /\ (stream'[s].kind = "task" => Concerns(s, message[m])')
  <2>1. stream' = stream /\ Owe(PositionMessage(x), Len(message) + 1, Elements(Path(x)))
    BY <1>2 DEF PostFix
  <2>2. PositionMessage(x) \in Message
    BY Posted
  <2> QED
    BY <1>1, <1>2, <2>1, <2>2
<1>3. ASSUME NEW p \in Pilots, AnnounceFile(p), Publishes(FileMessage(p))
      PROVE  m <= Len(message') /\ (stream'[s].kind = "task" => Concerns(s, message[m])')
  <2>1. stream' = stream /\ Owe(FileMessage(p), Len(message) + 1, {TaskChannel})
    BY <1>3 DEF AnnounceFile
  <2>2. FileMessage(p) \in Message
    BY DEF FileMessage, Message
  <2> QED
    BY <1>1, <1>3, <2>1, <2>2
<1>4. CASE message' = message
  <2>1. owed' = owed
    BY <1>4, SameMessages
  <2>2. CASE SameViews
    <3>1. stream'[s].kind = stream[s].kind /\ \A n : Concerns(s, n)' = Concerns(s, n)
      BY <2>2, SameRegistered DEF SameViews
    <3> QED
      BY <1>0, <1>4, <2>1, <2>2 DEF SameViews, Concerns
  <2>3. ASSUME NEW t \in Subs, NEW k \in Kinds, OpenView(t, k)
        PROVE  m <= Len(message') /\ (stream'[s].kind = "task" => Concerns(s, message[m])')
    <3>1. CASE s = t
      BY <2>1, <2>3, <3>1, Opening DEF Quiet
    <3>2. CASE s # t
      <4>1. stream'[s] = stream[s]
        BY <2>3, <3>2, Opening
      <4> QED
        BY <1>0, <1>4, <2>1, <4>1 DEF Concerns
    <3> QED
      BY <3>1, <3>2
  <2> QED
    BY <2>2, <2>3, ViewsStay
<1> QED
  BY <1>2, <1>3, <1>4, PubSteps

-----------------------------------------------------------------------------
(* A message is served once on each of its channels.                       *)
LEMMA DistinctJoin ==
    ASSUME NEW S, NEW p \in Seq(S), NEW q \in Seq(S), Distinct(p), Distinct(q), Elements(p) \cap Elements(q) = {}
    PROVE  p \o q \in Seq(S) /\ Distinct(p \o q)
<1> DEFINE z == p \o q
<1>1. /\ z \in Seq(S) /\ Len(z) = Len(p) + Len(q) /\ Len(p) \in Nat /\ Len(q) \in Nat
      /\ \A i \in 1..Len(p) : z[i] = p[i]
      /\ \A i \in 1..Len(p) + Len(q) : i > Len(p) => z[i] = q[i - Len(p)]
      /\ DOMAIN p = 1..Len(p) /\ DOMAIN q = 1..Len(q)
  OBVIOUS
<1>2. DOMAIN z = 1..Len(p) + Len(q)
  BY <1>1
<1> HIDE DEF z
<1>3. ASSUME NEW i \in 1..Len(p) + Len(q)
      PROVE  \/ i \in 1..Len(p) /\ z[i] = p[i] /\ z[i] \in Elements(p)
             \/ i > Len(p) /\ i - Len(p) \in 1..Len(q) /\ z[i] = q[i - Len(p)] /\ z[i] \in Elements(q)
  <2>1. CASE i <= Len(p)
    <3>1. i \in 1..Len(p) /\ z[i] = p[i]
      BY <1>1, <2>1
    <3> QED
      BY <1>1, <3>1 DEF Elements
  <2>2. CASE i > Len(p)
    <3>1. i - Len(p) \in 1..Len(q) /\ z[i] = q[i - Len(p)]
      BY <1>1, <2>2
    <3> QED
      BY <1>1, <2>2, <3>1 DEF Elements
  <2> QED
    BY <1>1, <2>1, <2>2
<1>4. ASSUME NEW i \in 1..Len(p) + Len(q), NEW j \in 1..Len(p) + Len(q), z[i] = z[j] PROVE i = j
  <2>1. CASE i \in 1..Len(p) /\ z[i] = p[i] /\ z[i] \in Elements(p)
    <3>1. j \in 1..Len(p) /\ z[j] = p[j]
      BY <1>3, <1>4, <2>1
    <3> QED
      BY <1>1, <1>4, <2>1, <3>1 DEF Distinct
  <2>2. CASE i > Len(p) /\ i - Len(p) \in 1..Len(q) /\ z[i] = q[i - Len(p)] /\ z[i] \in Elements(q)
    <3>1. j - Len(p) \in 1..Len(q) /\ z[j] = q[j - Len(p)]
      BY <1>3, <1>4, <2>2
    <3>2. i - Len(p) = j - Len(p)
      BY <1>1, <1>4, <2>2, <3>1 DEF Distinct
    <3> QED
      BY <1>1, <3>2
  <2> QED
    BY <1>3, <2>1, <2>2
<1> QED
  BY <1>1, <1>2, <1>4 DEF Distinct, z

LEMMA PathDistinct ==
    ASSUME NEW x \in Subjects
    PROVE  Distinct(Path(x))
<1>1. x.pilot \in Pilots \cup {Nobody} /\ x.user \in Users \cup {Nobody}
  BY PublicAssumption
<1> DEFINE a == IF x.filed THEN <<TaskChannel>> ELSE <<>>
           b == Known(x.pilot)
           c == Known(x.user)
<1>2. ASSUME NEW d \in Channels PROVE <<d>> \in Seq(Channels) /\ Elements(<<d>>) = {d} /\ Distinct(<<d>>)
  BY DEF Elements, Distinct
<1>3. <<>> \in Seq(Channels) /\ Elements(<<>>) = {} /\ Distinct(<<>>)
  BY DEF Elements, Distinct
<1>4. a \in Seq(Channels) /\ Elements(a) \subseteq {TaskChannel} /\ Distinct(a)
  <2>1. TaskChannel \in Channels
    BY DEF Channels
  <2> QED
    BY <1>2, <1>3, <2>1
<1>5. b \in Seq(Channels) /\ Elements(b) \subseteq Pilots /\ Distinct(b)
  <2>1. x.pilot # Nobody => x.pilot \in Channels \cap Pilots
    BY <1>1 DEF Channels
  <2> QED
    BY <1>2, <1>3, <2>1 DEF Known
<1>6. c \in Seq(Channels) /\ Elements(c) \subseteq Users /\ Distinct(c)
  <2>1. x.user # Nobody => x.user \in Channels \cap Users
    BY <1>1 DEF Channels
  <2> QED
    BY <1>2, <1>3, <2>1 DEF Known
<1>7. Path(x) = (a \o b) \o c
  BY DEF Path
<1> HIDE DEF a, b, c
<1>8. a \o b \in Seq(Channels) /\ Distinct(a \o b)
  BY <1>4, <1>5, ChannelAssumption, DistinctJoin
<1>9. Elements(a \o b) \subseteq {TaskChannel} \cup Pilots
  BY <1>4, <1>5, JoinElements
<1>10. Elements(a \o b) \cap Elements(c) = {}
  BY <1>6, <1>9, ChannelAssumption
<1>11. Distinct((a \o b) \o c)
  BY <1>6, <1>8, <1>10, DistinctJoin
<1> QED
  BY <1>7, <1>11

LEMMA DistinctKept == PubTypes /\ Distinct(sending) /\ [PubNext]_pubvars => Distinct(sending)'
<1> SUFFICES ASSUME PubTypes, Distinct(sending), [PubNext]_pubvars PROVE Distinct(sending')
  BY DEF Distinct
<1>1. ASSUME NEW x \in Subjects, PostFix(x) PROVE Distinct(sending')
  <2>1. sending' = Path(x) \/ sending' = <<>>
    BY <1>1 DEF PostFix
  <2>2. Distinct(<<>>)
    BY DEF Distinct
  <2> QED
    BY <2>1, <2>2, PathDistinct
<1>2. CASE ServeChannel
  <2>1. sending \in Seq(Channels) /\ sending # <<>> /\ sending' = Tail(sending)
    BY <1>2 DEF ServeChannel, PubTypes
  <2>2. /\ Len(Tail(sending)) = Len(sending) - 1 /\ Len(sending) \in Nat \ {0}
        /\ \A i \in 1..Len(sending) - 1 : Tail(sending)[i] = sending[i + 1]
        /\ DOMAIN Tail(sending) = 1..Len(sending) - 1 /\ DOMAIN sending = 1..Len(sending)
    BY <2>1, TailElements
  <2> QED
    BY <2>1, <2>2 DEF Distinct
<1>3. ASSUME NEW s \in Subs, \E k \in Kinds : OpenView(s, k) PROVE sending' = sending
  BY <1>3 DEF OpenView
<1>4. ASSUME NEW s \in Subs, StartView(s) \/ Deliver(s) \/ CloseView(s) \/ RunCall(s) PROVE sending' = sending
  BY <1>4 DEF StartView, Deliver, CloseView, RunCall
<1>5. ASSUME NEW p \in Pilots, AnnounceFile(p) PROVE sending' = sending
  BY <1>5 DEF AnnounceFile
<1>6. CASE Change \/ UNCHANGED pubvars
  BY <1>6 DEF Change, pubvars
<1> QED
  BY <1>1, <1>2, <1>3, <1>4, <1>5, <1>6 DEF PubNext

-----------------------------------------------------------------------------
(* Nothing owed gets lost.                                                 *)
LEMMA NoneMissedKept ==
    /\ PubInv /\ RegisteredWhileOpen /\ Quiet /\ Owing /\ NoneMissed /\ [PubNext]_pubvars
    => NoneMissed'
<1> SUFFICES ASSUME PubInv, RegisteredWhileOpen, Quiet, Owing, NoneMissed, [PubNext]_pubvars,
                    NEW s \in Subs, NEW m \in owed'[s]
             PROVE  Kept(s, m)'
  BY DEF NoneMissed, Kept, Coming, Handed
<1>0. /\ \A n \in owed[s] : Kept(s, n)
      /\ owed[s] \subseteq 1..Messages /\ message \in Seq(Message) /\ Len(message) \in Nat
      /\ calls \in [Subs -> Seq(1..Messages)] /\ waiting \in [Subs -> Seq(1..Messages)]
      /\ calls[s] \in Seq(1..Messages) /\ waiting[s] \in Seq(1..Messages)
      /\ shown \in [Subs -> [1..Messages -> Nat]] /\ sending \in Seq(Channels)
  BY DEF NoneMissed, PubInv, PubTypes
<1>t. PubTypes
  BY DEF PubInv
\* Nothing that keeps a message changes.
<1>1. ASSUME m \in owed[s], stream'[s].at = stream[s].at \/ stream'[s].at \in {"ended", "abandoned"},
             Registered(s)' = Registered(s), full' = full,
             UNCHANGED <<message, sending, shown, calls, waiting>>
      PROVE  Kept(s, m)'
  BY <1>0, <1>1 DEF Kept, Coming, Handed
<1>2. ASSUME NEW t \in Subs, NEW k \in Kinds, OpenView(t, k) PROVE Kept(s, m)'
  <2>1. UNCHANGED <<message, sending, shown, calls, waiting, owed, full>>
    BY <1>2 DEF OpenView, feed
  <2>2. CASE s = t
    <3>1. owed[s] = {}
      BY <1>t, <1>2, <2>2, Opening DEF Quiet
    <3> QED
      BY <2>1, <3>1
  <2>3. CASE s # t
    <3>1. stream'[s] = stream[s]
      BY <1>t, <1>2, <2>3, Opening
    <3>2. Registered(s)' = Registered(s)
      BY <3>1 DEF Registered
    <3> QED
      BY <1>1, <2>1, <3>1, <3>2
  <2> QED
    BY <2>2, <2>3
<1>3. ASSUME NEW t \in Subs, StartView(t) PROVE Kept(s, m)'
  <2>1. UNCHANGED <<message, sending, calls, waiting, owed, full>> /\ stream[t].at = "registered"
        /\ stream' = Turned(t, "streaming")
    BY <1>3 DEF StartView
  <2>2. Registered(s)' = Registered(s) /\ (s # t => stream'[s].at = stream[s].at)
    <3>1. /\ stream'[s].kind = stream[s].kind /\ stream'[s].pilots = stream[s].pilots
          /\ stream'[s].users = stream[s].users /\ (s # t => stream'[s].at = stream[s].at)
      BY <1>t, <2>1, TurnedTyped
    <3> QED
      BY <3>1 DEF Registered
  <2>3. CASE s # t
    <3>1. shown'[s] = shown[s]
      BY <1>0, <1>3, <2>3 DEF StartView
    <3> QED
      BY <1>0, <2>1, <2>2, <2>3, <3>1 DEF Kept, Coming, Handed
  <2>4. CASE s = t
    <3>1. ~(shown[s][m] > 0)
      BY <1>0, <2>1, <2>4 DEF Quiet
    <3>2. s \in full \/ Coming(s, m) \/ m \in Handed(s)
      BY <1>0, <2>1, <2>4, <3>1 DEF Kept
    <3> QED
      BY <2>1, <2>2, <3>2 DEF Kept, Coming, Handed
  <2> QED
    BY <2>3, <2>4
<1>4. ASSUME NEW t \in Subs, Deliver(t) PROVE Kept(s, m)'
  <2> DEFINE h == Head(waiting[t])
  <2>1. UNCHANGED <<stream, message, sending, calls, owed, full>> /\ waiting[t] # <<>>
        /\ waiting' = [waiting EXCEPT ![t] = Tail(waiting[t])]
    BY <1>4 DEF Deliver
  <2>2. shown' = IF Passes(t, h) THEN [shown EXCEPT ![t][h] = shown[t][h] + 1] ELSE shown
    BY <1>4 DEF Deliver
  <2>3. waiting[t] \in Seq(1..Messages)
    BY <1>0
  <2>4. h \in 1..Messages /\ Elements(waiting[t]) = {h} \cup Elements(Tail(waiting[t]))
    BY <2>1, <2>3, TailElements
  <2> HIDE DEF h
  <2>5. \A n \in 1..Messages : shown[s][n] > 0 => shown'[s][n] > 0
    <3>1. shown[t] \in [1..Messages -> Nat] /\ shown[t][h] \in Nat
      BY <1>0, <2>4
    <3>2. CASE Passes(t, h)
      <4>1. shown' = [shown EXCEPT ![t] = [shown[t] EXCEPT ![h] = shown[t][h] + 1]]
        BY <2>2, <3>2
      <4>2. CASE s = t
        <5>1. \A n \in 1..Messages : shown'[s][n] = IF n = h THEN shown[s][h] + 1 ELSE shown[s][n]
          BY <1>0, <3>1, <4>1, <4>2
        <5> QED
          BY <3>1, <4>2, <5>1
      <4>3. CASE s # t
        BY <1>0, <4>1, <4>3
      <4> QED
        BY <4>2, <4>3
    <3>3. CASE ~Passes(t, h)
      BY <2>2, <3>3
    <3> QED
      BY <3>2, <3>3
  <2>6. m \in Handed(s) => m \in Handed(s)' \/ shown'[s][m] > 0
    <3> SUFFICES ASSUME m \in Handed(s), m \notin Handed(s)' PROVE shown'[s][m] > 0
      OBVIOUS
    <3>1. s = t /\ m = h
      <4>1. waiting'[s] = IF s = t THEN Tail(waiting[t]) ELSE waiting[s]
        BY <1>0, <2>1
      <4>2. calls'[s] = calls[s]
        BY <2>1
      <4> QED
        BY <2>4, <4>1, <4>2 DEF Handed
    <3>2. Passes(t, h)
      BY <2>1, <3>1 DEF Owing, Passes
    <3>3. shown[t] \in [1..Messages -> Nat] /\ shown[t][h] \in Nat
      BY <1>0, <2>4
    <3>4. shown'[t][h] = shown[t][h] + 1
      BY <1>0, <2>2, <2>4, <3>2, <3>3
    <3> QED
      BY <3>1, <3>3, <3>4
  <2>7. m \in owed[s] /\ m \in 1..Messages
    BY <1>0, <2>1
  <2> QED
    BY <1>0, <2>1, <2>5, <2>6, <2>7 DEF Kept, Coming, Registered
<1>5. ASSUME NEW t \in Subs, CloseView(t) PROVE Kept(s, m)'
  <2>1. UNCHANGED <<message, sending, shown, calls, waiting, owed, full>>
        /\ \E state \in {"ended", "abandoned"} : stream' = Turned(t, state)
    BY <1>5 DEF CloseView, feed
  <2>2. Registered(s)' = Registered(s) /\ (stream'[s].at = stream[s].at \/ stream'[s].at \in {"ended", "abandoned"})
    <3>1. /\ stream'[s].kind = stream[s].kind /\ stream'[s].pilots = stream[s].pilots
          /\ stream'[s].users = stream[s].users
          /\ (stream'[s].at = stream[s].at \/ stream'[s].at \in {"ended", "abandoned"})
      <4>1. PICK state \in {"ended", "abandoned"} : stream' = Turned(t, state)
        BY <2>1
      <4>2. stream'[t].at = state /\ (s # t => stream'[s].at = stream[s].at)
        BY <1>t, <4>1, TurnedTyped
      <4>3. /\ stream'[s].kind = stream[s].kind /\ stream'[s].pilots = stream[s].pilots
            /\ stream'[s].users = stream[s].users
        BY <1>t, <4>1, TurnedTyped
      <4> QED
        BY <4>2, <4>3
    <3> QED
      BY <3>1 DEF Registered
  <2> QED
    BY <1>1, <2>1, <2>2
<1>6. ASSUME NEW t \in Subs, RunCall(t) PROVE Kept(s, m)'
  <2>1. /\ UNCHANGED <<stream, message, sending, shown, owed>> /\ calls[t] # <<>>
        /\ calls' = [calls EXCEPT ![t] = Tail(calls[t])]
    BY <1>6 DEF RunCall
  <2>2. \/ waiting' = [waiting EXCEPT ![t] = Append(waiting[t], Head(calls[t]))] /\ full' = full
        \/ waiting' = waiting /\ full' = full \cup {t}
    BY <1>6 DEF RunCall
  <2>3. calls[t] \in Seq(1..Messages) /\ waiting[t] \in Seq(1..Messages)
    BY <1>0
  <2>4. Head(calls[t]) \in 1..Messages /\ Elements(calls[t]) = {Head(calls[t])} \cup Elements(Tail(calls[t]))
    BY <2>1, <2>3, TailElements
  <2>5. Elements(Append(waiting[t], Head(calls[t]))) = Elements(waiting[t]) \cup {Head(calls[t])}
    BY <2>3, <2>4, OneMore
  <2>6. s \in full' \/ Handed(s) \subseteq Handed(s)'
    <3>1. CASE s = t
      <4>1. calls'[s] = Tail(calls[t])
        BY <1>0, <2>1, <3>1
      <4>2. s \in full' \/ waiting'[s] = Append(waiting[t], Head(calls[t]))
        BY <1>0, <2>2, <3>1
      <4> QED
        BY <2>4, <2>5, <3>1, <4>1, <4>2 DEF Handed
    <3>2. CASE s # t
      <4>1. calls'[s] = calls[s] /\ waiting'[s] = waiting[s]
        BY <1>0, <2>1, <2>2, <3>2
      <4> QED
        BY <4>1 DEF Handed
    <3> QED
      BY <3>1, <3>2
  <2>7. full \subseteq full'
    BY <2>2
  <2> QED
    BY <1>0, <2>1, <2>6, <2>7 DEF Kept, Coming, Registered
<1>7. CASE ServeChannel
  <2> DEFINE c == Head(sending)
             n == Len(message)
  <2>1. /\ sending # <<>> /\ UNCHANGED <<message, waiting, shown, stream, owed, full>> /\ sending' = Tail(sending)
        /\ calls'[s] = IF s \in listening[c] THEN Append(calls[s], n) ELSE calls[s]
    BY <1>7 DEF ServeChannel, Audience
  <2>2. c \in Channels /\ Elements(sending) = {c} \cup Elements(Tail(sending))
    BY <1>0, <2>1, TailElements
  <2>3. n \in 1..Messages
    BY <1>0, <2>1, PublicAssumption DEF Serving, PubInv, PubTypes
  <2>4. Elements(Append(calls[s], n)) = Elements(calls[s]) \cup {n}
    BY <1>0, <2>3, OneMore
  <2>5. Handed(s) \subseteq Handed(s)' /\ (s \in listening[c] => n \in Handed(s)')
    <3> HIDE DEF c, n
    <3> QED
      BY <2>1, <2>4 DEF Handed
  <2>6. ASSUME Coming(s, m), Open(s) PROVE Coming(s, m)' \/ m \in Handed(s)' \/ s \in full
    <3>1. CASE c \in Registered(s)
      <4>1. s \in listening[c] \/ s \in full
        BY <2>2, <2>6, <3>1 DEF RegisteredWhileOpen, Open
      <4> QED
        BY <2>5, <2>6, <4>1 DEF Coming
    <3>2. CASE c \notin Registered(s)
      <4>1. \E d \in Elements(Tail(sending)) : d \in Registered(s)
        BY <2>2, <2>6, <3>2 DEF Coming
      <4> QED
        BY <2>1, <2>6, <4>1 DEF Coming, Registered
    <3> QED
      BY <3>1, <3>2
  <2>7. stream[s].at # "none"
    BY <2>1 DEF Quiet
  <2>8. Open(s) \/ stream[s].at \in {"ended", "abandoned"}
    BY <1>t, <2>7 DEF Open, PubTypes, Stream
  <2> HIDE DEF c, n
  <2> QED
    BY <1>0, <2>1, <2>5, <2>6, <2>8 DEF Kept
<1>8. ASSUME NEW x \in Subjects, PostFix(x), Publishes(PositionMessage(x)) PROVE Kept(s, m)'
  <2>1. /\ UNCHANGED <<stream, calls, waiting, shown, full>> /\ sending = <<>>
        /\ sending' = IF \E c \in Elements(Path(x)) : listening[c] # {} THEN Path(x) ELSE <<>>
        /\ Owe(PositionMessage(x), Len(message) + 1, Elements(Path(x)))
    BY <1>8 DEF PostFix
  <2>2. Len(message') = Len(message) + 1
    BY <1>8 DEF Publishes
  <2>3. CASE m \in owed[s]
    <3>1. ~Coming(s, m)
      BY <2>1 DEF Coming, Elements
    <3> QED
      BY <1>0, <2>1, <2>3, <3>1 DEF Kept, Handed
  <2>4. CASE m \notin owed[s]
    <3>1. m = Len(message) + 1 /\ s \in Watching(PositionMessage(x), Elements(Path(x)))
      BY <2>1, <2>4 DEF Owe
    <3>2. PICK c \in Elements(Path(x)) : c \in Registered(s)
      BY <3>1 DEF Watching
    <3>3. c \in Channels
      <4>1. Path(x) \in Seq(Channels)
        BY PathChannels
      <4> QED
        BY <3>2, <4>1, Members
    <3>4. s \in listening[c]
      BY <3>1, <3>2, <3>3 DEF RegisteredWhileOpen, Watching
    <3>5. sending' = Path(x)
      BY <2>1, <3>4
    <3>6. Coming(s, m)'
      BY <2>1, <2>2, <3>1, <3>2, <3>5 DEF Coming, Registered
    <3> QED
      BY <3>6 DEF Kept
  <2> QED
    BY <2>3, <2>4
<1>9. ASSUME NEW p \in Pilots, AnnounceFile(p), Publishes(FileMessage(p)) PROVE Kept(s, m)'
  <2> DEFINE n == Len(message) + 1
  <2>1. /\ UNCHANGED <<stream, calls, shown, sending>> /\ sending = <<>> /\ full' = full \cup NoRoom
        /\ waiting'[s] = IF s \in listening[TaskChannel] \ NoRoom THEN Append(waiting[s], n) ELSE waiting[s]
        /\ Owe(FileMessage(p), n, {TaskChannel}) /\ Len(message) < Messages
    BY <1>9 DEF AnnounceFile
  <2>2. n \in 1..Messages
    BY <1>0, <2>1, PublicAssumption
  <2>3. Elements(Append(waiting[s], n)) = Elements(waiting[s]) \cup {n}
    BY <1>0, <2>2, OneMore
  <2>4. Handed(s) \subseteq Handed(s)' /\ (s \in listening[TaskChannel] \ NoRoom => n \in Handed(s)')
    <3> HIDE DEF n
    <3> QED
      BY <2>1, <2>3 DEF Handed
  <2>5. CASE m \in owed[s]
    <3>1. ~Coming(s, m)
      BY <2>1 DEF Coming, Elements
    <3> QED
      BY <1>0, <2>1, <2>4, <2>5, <3>1 DEF Kept
  <2>6. CASE m \notin owed[s]
    <3>1. m = n /\ s \in Watching(FileMessage(p), {TaskChannel})
      BY <2>1, <2>6 DEF Owe
    <3>2. s \in listening[TaskChannel]
      BY <3>1 DEF RegisteredWhileOpen, Watching, Channels
    <3> QED
      BY <2>1, <2>4, <3>1, <3>2 DEF Kept
  <2> QED
    BY <2>5, <2>6
<1>10. CASE Change \/ UNCHANGED pubvars
  <2>1. UNCHANGED <<stream, message, sending, shown, calls, waiting, owed, full>>
    BY <1>10 DEF Change, pubvars, feed
  <2>2. Registered(s)' = Registered(s)
    BY <2>1 DEF Registered
  <2> QED
    BY <1>1, <2>1, <2>2
<1>11. ASSUME NEW x \in Subjects, PostFix(x) PROVE Publishes(PositionMessage(x))
  <2>1. PositionMessage(x) \in Message /\ message' = Append(message, PositionMessage(x))
    BY <1>11, Posted DEF PostFix
  <2> QED
    BY <1>0, <2>1, AppendElements DEF Publishes
<1>12. ASSUME NEW p \in Pilots, AnnounceFile(p) PROVE Publishes(FileMessage(p))
  <2>1. FileMessage(p) \in Message /\ message' = Append(message, FileMessage(p))
    BY <1>12 DEF AnnounceFile, FileMessage, Message
  <2> QED
    BY <1>0, <2>1, AppendElements DEF Publishes
<1> QED
  BY <1>2, <1>3, <1>4, <1>5, <1>6, <1>7, <1>8, <1>9, <1>10, <1>11, <1>12 DEF PubNext

-----------------------------------------------------------------------------
(* Queues get a message on at most two channels.                           *)
\* A sequence without repetitions has no more elements of a set than the set.
LEMMA CountDistinct ==
    ASSUME NEW S, NEW q \in Seq(S), Distinct(q), NEW A, NEW B, IsFiniteSet(B), Elements(q) \cap A \subseteq B
    PROVE  Count(q, A) <= Cardinality(B)
<1> DEFINE I == {i \in DOMAIN q : q[i] \in A}
           f == [i \in I |-> q[i]]
<1>1. f \in [I -> B]
  BY DEF Elements
<1>2. \A i, j \in I : f[i] = f[j] => i = j
  BY DEF Distinct
<1> HIDE DEF I, f
<1>3. f \in Injection(I, B)
  BY <1>1, <1>2, Fun_IsInj
<1>4. Cardinality(I) <= Cardinality(B)
  BY <1>3, FS_Injection
<1> QED
  BY <1>4 DEF Count, I

\* How many channels a message has of one stream.
LEMMA ServeBound ==
    ASSUME PubTypes, Serving, Shapes, Distinct(sending), sending # <<>>, NEW s \in Subs
    PROVE  Count(sending, Registered(s)) <= Twice(s, Len(message))
<1> DEFINE m == message[Len(message)]
<1>1. sending \in Seq(Channels)
  BY DEF PubTypes
<1>2. Elements(sending) \subseteq {TaskChannel, m.pilot, m.user} /\ Elements(sending) \subseteq Channels
  BY <1>1, Members DEF Serving
<1>3. m.pilot \in Pilots \cup {Nobody} /\ m.user \in Users \cup {Nobody}
  <2>1. Len(message) \in 1..Len(message) /\ message \in Seq(Message)
    BY DEF Serving, PubTypes
  <2>2. m \in Message
    BY <2>1
  <2> QED
    BY <2>2 DEF Message
<1>4. stream[s].pilots \subseteq Pilots /\ stream[s].users \subseteq Users /\ stream[s].kind \in Kinds \cup {"none"}
  BY DEF PubTypes, Stream
<1>5. \A c : IsFiniteSet({c}) /\ Cardinality({c}) = 1
  BY FS_Singleton
<1> DEFINE both == {m.pilot} \cup {m.user}
<1>6. IsFiniteSet(both) /\ Cardinality(both) <= 2
  <2>1. IsFiniteSet({m.pilot}) /\ Cardinality({m.pilot}) = 1
    BY <1>5
  <2>2. /\ IsFiniteSet({m.pilot} \cup {m.user})
        /\ Cardinality({m.pilot} \cup {m.user})
             = IF m.user \in {m.pilot} THEN Cardinality({m.pilot}) ELSE Cardinality({m.pilot}) + 1
    BY <2>1, FS_AddElement
  <2> QED
    BY <2>1, <2>2
<1> DEFINE hit == Elements(sending) \cap Registered(s)
<1>7. Twice(s, Len(message)) = IF stream[s].kind \in {"event", "all"} /\ m.pilot \in Pilots /\ m.user \in Users THEN 2 ELSE 1
  BY DEF Twice
<1>8. CASE \E c : hit \subseteq {c}
  <2>1. PICK c : hit \subseteq {c}
    BY <1>8
  <2>2. Count(sending, Registered(s)) <= Cardinality({c})
    BY <1>1, <1>5, <2>1, CountDistinct
  <2>3. Count(sending, Registered(s)) <= 1
    BY <1>5, <2>2
  <2>4. Count(sending, Registered(s)) \in Nat
    BY <1>1, CountFinite
  <2> QED
    BY <1>7, <2>3, <2>4
<1>9. CASE stream[s].kind = "task"
  <2>1. hit \subseteq {TaskChannel}
    BY <1>9 DEF Registered
  <2> QED
    BY <1>8, <2>1
<1>10. CASE stream[s].kind \in {"buddies", "none"}
  <2>1. hit \subseteq {m.pilot}
    BY <1>2, <1>3, <1>4, <1>10, ChannelAssumption DEF Registered, Shapes
  <2> QED
    BY <1>8, <2>1
<1>11. CASE stream[s].kind \in {"event", "all"}
  <2>1. hit \subseteq both
    BY <1>2, <1>4, <1>11, ChannelAssumption DEF Registered
  <2>2. CASE m.pilot \in Pilots /\ m.user \in Users
    <3>1. Count(sending, Registered(s)) <= Cardinality(both)
      BY <1>1, <1>6, <2>1, CountDistinct
    <3>2. Count(sending, Registered(s)) \in Nat /\ Cardinality(both) \in Nat
      BY <1>1, <1>6, CountFinite, FS_CardinalityType
    <3> HIDE DEF both
    <3> QED
      BY <1>6, <1>7, <1>11, <2>2, <3>1, <3>2
  <2>3. CASE m.pilot \notin Pilots
    <3>1. hit \subseteq {m.user}
      BY <1>3, <1>4, <2>1, <2>3, <1>11, ChannelAssumption DEF Registered
    <3> QED
      BY <1>8, <3>1
  <2>4. CASE m.user \notin Users
    <3>1. hit \subseteq {m.pilot}
      BY <1>3, <1>4, <2>1, <2>4, <1>11, ChannelAssumption DEF Registered
    <3> QED
      BY <1>8, <3>1
  <2> QED
    BY <2>2, <2>3, <2>4
<1> QED
  BY <1>4, <1>9, <1>10, <1>11 DEF Kinds

AtMostPaths == sending # <<>> => \A s \in Subs : Count(sending, Registered(s)) <= Twice(s, Len(message))
LEMMA PathsBound == PubTypes /\ Serving /\ Shapes /\ Distinct(sending) => AtMostPaths
BY ServeBound DEF AtMostPaths

LEMMA TwiceKept ==
    ASSUME NEW s \in Subs, NEW m, SameViews, message'[m] = message[m]
    PROVE  Twice(s, m)' = Twice(s, m)
<1>1. stream'[s].kind = stream[s].kind
  BY DEF SameViews
<1> QED
  BY <1>1 DEF Twice

LEMMA CountsAreNumbers ==
    ASSUME PubTypes, NEW s \in Subs, NEW m
    PROVE  /\ Count(waiting[s], {m}) \in Nat /\ Count(calls[s], {m}) \in Nat
           /\ Expected(s, m) \in Nat /\ Twice(s, m) \in {1, 2}
<1>1. waiting[s] \in Seq(1..Messages) /\ calls[s] \in Seq(1..Messages) /\ sending \in Seq(Channels)
  BY DEF PubTypes
<1>2. Count(waiting[s], {m}) \in Nat /\ Count(calls[s], {m}) \in Nat /\ Count(sending, Registered(s)) \in Nat
  BY <1>1, CountFinite
<1> QED
  BY <1>2 DEF Expected, Twice

LEMMA BoundedKept ==
    /\ PubInv /\ Bounded /\ [PubNext]_pubvars /\ PubInv' /\ AtMostPaths'
    => Bounded'
<1> SUFFICES ASSUME PubInv, Bounded, [PubNext]_pubvars, PubInv', AtMostPaths',
                    NEW s \in Subs, NEW m \in 1..Len(message')
             PROVE  Count(waiting'[s], {m}) + Count(calls'[s], {m}) + Expected(s, m)' <= Twice(s, m)'
  BY DEF Bounded, Count
<1> DEFINE Fits2 == Count(waiting'[s], {m}) + Count(calls'[s], {m}) + Expected(s, m)' <= Twice(s, m)'
<1>0. /\ message \in Seq(Message) /\ Len(message) \in Nat /\ Len(message) <= Messages
      /\ calls \in [Subs -> Seq(1..Messages)] /\ waiting \in [Subs -> Seq(1..Messages)]
      /\ calls[s] \in Seq(1..Messages) /\ waiting[s] \in Seq(1..Messages) /\ sending \in Seq(Channels)
  BY DEF PubInv, PubTypes
<1>t. PubTypes
  BY DEF PubInv
<1>b. m \in 1..Len(message) => Count(waiting[s], {m}) + Count(calls[s], {m}) + Expected(s, m) <= Twice(s, m)
  BY DEF Bounded
<1>n. /\ Count(waiting[s], {m}) \in Nat /\ Count(calls[s], {m}) \in Nat
      /\ Expected(s, m) \in Nat /\ Twice(s, m) \in {1, 2}
  BY <1>t, CountsAreNumbers
\* Every step that publishes nothing, opens no stream and hands nothing on
<1>1. ASSUME message' = message, sending' = sending, SameViews, waiting'[s] = waiting[s], calls'[s] = calls[s]
      PROVE  Fits2
  <2>1. Twice(s, m)' = Twice(s, m) /\ Registered(s)' = Registered(s)
    BY <1>1, TwiceKept, SameRegistered
  <2>2. Expected(s, m)' = Expected(s, m)
    BY <1>1, <2>1 DEF Expected, Count
  <2> QED
    BY <1>1, <1>b, <2>1, <2>2
<1>2. ASSUME NEW t \in Subs, NEW k \in Kinds, OpenView(t, k) PROVE Fits2
  <2>1. UNCHANGED <<message, sending, calls, waiting>>
    BY <1>2 DEF OpenView, feed
  <2>2. CASE s = t
    <3>1. stream[s].kind = "none" /\ \A n : ~Concerns(s, n)
      BY <1>t, <1>2, <2>2, Opening
    <3>2. Handed(s) = {}
      BY <3>1 DEF PubInv, Fed
    <3>3. Count(waiting[s], {m}) = 0 /\ Count(calls[s], {m}) = 0
      <4>1. Elements(waiting[s]) \cap {m} = {} /\ Elements(calls[s]) \cap {m} = {}
        BY <3>2 DEF Handed
      <4> QED
        BY <1>0, <4>1, CountFinite
    <3>4. Twice(s, m)' \in {1, 2}
      BY DEF Twice
    <3>5. Expected(s, m)' <= Twice(s, m)' /\ Expected(s, m)' \in Nat
      <4>1. CASE sending # <<>> /\ m = Len(message)
        <5>1. Count(sending, Registered(s))' <= Twice(s, Len(message))'
          BY <2>1, <4>1 DEF AtMostPaths
        <5>2. Expected(s, m)' = Count(sending, Registered(s))'
          BY <2>1, <4>1 DEF Expected
        <5>3. Count(sending, Registered(s))' \in Nat
          <6>1. Count(sending, Registered(s)') \in Nat
            BY <1>0, CountFinite
          <6> QED
            BY <2>1, <6>1 DEF Count
        <5> QED
          BY <2>1, <4>1, <5>1, <5>2, <5>3
      <4>2. CASE ~(sending # <<>> /\ m = Len(message))
        <5>1. Elements(<<>>) = {} /\ <<>> \in Seq(Channels)
          BY DEF Elements
        <5>2. Count(<<>>, Registered(s)') = 0
          BY <5>1, CountFinite
        <5>3. Expected(s, m)' = 0
          BY <2>1, <4>2, <5>2 DEF Expected, Count
        <5> QED
          BY <3>4, <5>3
      <4> QED
        BY <4>1, <4>2
    <3> QED
      BY <2>1, <3>3, <3>4, <3>5
  <2>3. CASE s # t
    <3>1. stream'[s] = stream[s]
      BY <1>t, <1>2, <2>3, Opening
    <3>2. Registered(s)' = Registered(s)
      BY <3>1 DEF Registered
    <3>3. Expected(s, m)' = Expected(s, m)
      BY <2>1, <3>2 DEF Expected, Count
    <3>4. Twice(s, m)' = Twice(s, m)
      BY <2>1, <3>1 DEF Twice
    <3> QED
      BY <1>b, <2>1, <3>3, <3>4
  <2> QED
    BY <2>2, <2>3
<1>3. ASSUME NEW t \in Subs, StartView(t) \/ CloseView(t), SameViews PROVE Fits2
  <2>1. UNCHANGED <<message, sending, calls, waiting>>
    BY <1>3 DEF StartView, CloseView, feed
  <2> QED
    BY <1>1, <1>3, <2>1
<1>4. ASSUME NEW t \in Subs, Deliver(t), SameViews PROVE Fits2
  <2>1. UNCHANGED <<message, sending, calls>> /\ waiting[t] # <<>> /\ waiting' = [waiting EXCEPT ![t] = Tail(waiting[t])]
    BY <1>4 DEF Deliver
  <2>2. CASE s = t
    <3>1. waiting'[s] = Tail(waiting[s]) /\ waiting[s] # <<>>
      BY <1>0, <2>1, <2>2
    <3> DEFINE q == waiting[s]
    <3>2. q \in Seq(1..Messages) /\ Tail(q) \in Seq(1..Messages)
      BY <1>0, <3>1, TailElements
    <3>3. Count(q, {m}) = Count(Tail(q), {m}) + (IF Head(q) \in {m} THEN 1 ELSE 0)
      BY <3>1, <3>2, CountTail
    <3>4. Count(Tail(q), {m}) \in Nat
      BY <3>2, CountFinite
    <3>5. Count(waiting'[s], {m}) <= Count(waiting[s], {m}) /\ Count(waiting'[s], {m}) \in Nat
      BY <3>1, <3>3, <3>4
    <3>6. Twice(s, m)' = Twice(s, m) /\ Registered(s)' = Registered(s)
      BY <1>4, <2>1, TwiceKept, SameRegistered
    <3>7. Expected(s, m)' = Expected(s, m)
      BY <2>1, <3>6 DEF Expected, Count
    <3> QED
      BY <1>b, <1>n, <2>1, <3>5, <3>6, <3>7
  <2>3. CASE s # t
    <3>1. waiting'[s] = waiting[s]
      BY <1>0, <2>1, <2>3
    <3> QED
      BY <1>1, <1>4, <2>1, <3>1
  <2> QED
    BY <2>2, <2>3
<1>5. ASSUME NEW t \in Subs, RunCall(t), SameViews PROVE Fits2
  <2>1. /\ UNCHANGED <<message, sending>> /\ calls[t] # <<>>
        /\ calls' = [calls EXCEPT ![t] = Tail(calls[t])]
        /\ waiting' = waiting \/ waiting' = [waiting EXCEPT ![t] = Append(waiting[t], Head(calls[t]))]
    BY <1>5 DEF RunCall
  <2>2. CASE s = t
    <3> DEFINE q == calls[s]
    <3>1. calls'[s] = Tail(q) /\ q # <<>> /\ (waiting'[s] = waiting[s] \/ waiting'[s] = Append(waiting[s], Head(q)))
      BY <1>0, <2>1, <2>2
    <3>2. q \in Seq(1..Messages) /\ Tail(q) \in Seq(1..Messages) /\ Head(q) \in 1..Messages
      BY <1>0, <3>1, TailElements
    <3>3. Count(q, {m}) = Count(Tail(q), {m}) + (IF Head(q) \in {m} THEN 1 ELSE 0)
      BY <3>1, <3>2, CountTail
    <3>4. Count(Append(waiting[s], Head(q)), {m}) = Count(waiting[s], {m}) + (IF Head(q) \in {m} THEN 1 ELSE 0)
      BY <1>0, <3>2, CountAppendMessage
    <3>5. Count(Tail(q), {m}) \in Nat
      BY <3>2, CountFinite
    <3>6. Count(waiting'[s], {m}) + Count(calls'[s], {m}) <= Count(waiting[s], {m}) + Count(calls[s], {m})
          /\ Count(waiting'[s], {m}) + Count(calls'[s], {m}) \in Nat
      <4> DEFINE w == Count(waiting[s], {m})
                 a == Count(q, {m})
                 b == Count(Tail(q), {m})
                 v == Count(Append(waiting[s], Head(q)), {m})
      <4>1. w \in Nat /\ a \in Nat /\ b \in Nat /\ (a = b \/ a = b + 1) /\ v + b = w + a /\ v \in Nat
        <5> HIDE DEF q
        <5> QED
          BY <1>n, <3>3, <3>4, <3>5 DEF q
      <4>2. Count(calls'[s], {m}) = b /\ (Count(waiting'[s], {m}) = w \/ Count(waiting'[s], {m}) = v)
        BY <3>1
      <4>3. Count(waiting[s], {m}) = w /\ Count(calls[s], {m}) = a
        OBVIOUS
      <4> HIDE DEF w, a, b, v, q
      <4> QED
        BY <4>1, <4>2, <4>3
    <3>7. Twice(s, m)' = Twice(s, m) /\ Registered(s)' = Registered(s)
      BY <1>5, <2>1, TwiceKept, SameRegistered
    <3>8. Expected(s, m)' = Expected(s, m)
      BY <2>1, <3>7 DEF Expected, Count
    <3> QED
      BY <1>b, <1>n, <2>1, <3>6, <3>7, <3>8
  <2>3. CASE s # t
    <3>1. waiting'[s] = waiting[s] /\ calls'[s] = calls[s]
      BY <1>0, <2>1, <2>3
    <3> QED
      BY <1>1, <1>5, <2>1, <3>1
  <2> QED
    BY <2>2, <2>3
<1>6. ASSUME ServeChannel, SameViews PROVE Fits2
  <2> DEFINE c == Head(sending)
             n == Len(message)
             A == Registered(s)
  <2>1. /\ sending # <<>> /\ UNCHANGED <<message, waiting>> /\ sending' = Tail(sending)
        /\ calls'[s] = IF s \in listening[c] THEN Append(calls[s], n) ELSE calls[s]
    BY <1>6 DEF ServeChannel, Audience
  <2>2. c \in Channels /\ Tail(sending) \in Seq(Channels)
    BY <1>0, <2>1, TailElements
  <2>3. n \in 1..Messages
    BY <1>0, <2>1, PublicAssumption DEF Serving, PubInv, PubTypes
  <2>4. Count(Append(calls[s], n), {m}) = Count(calls[s], {m}) + (IF n \in {m} THEN 1 ELSE 0)
    <3> HIDE DEF n
    <3> QED
      BY <1>0, <2>3, CountAppendMessage
  <2>5. Count(sending, A) = Count(Tail(sending), A) + (IF c \in A THEN 1 ELSE 0)
    BY <1>0, <2>1, CountTail
  <2>6. Count(Tail(sending), A) \in Nat
    BY <2>2, CountFinite
  <2>7. s \in listening[c] => c \in A
    BY <2>2 DEF PubInv, Listens
  <2>8. Twice(s, m)' = Twice(s, m) /\ Registered(s)' = A
    BY <1>6, <2>1, TwiceKept, SameRegistered
  <2>9. /\ Expected(s, m) = IF m = n THEN Count(sending, A) ELSE 0
        /\ Expected(s, m)' = IF m = n THEN Count(Tail(sending), A) ELSE 0
    BY <2>1, <2>8 DEF Expected, Count
  <2> HIDE DEF c, n, A
  <2>10. Count(calls'[s], {m}) + Expected(s, m)' <= Count(calls[s], {m}) + Expected(s, m)
         /\ Count(calls'[s], {m}) \in Nat /\ Expected(s, m)' \in Nat
    <3>1. CASE m = n
      BY <1>n, <2>1, <2>4, <2>5, <2>6, <2>7, <2>9, <3>1
    <3>2. CASE m # n
      <4>1. Count(calls'[s], {m}) = Count(calls[s], {m})
        BY <1>n, <2>1, <2>4, <3>2
      <4> QED
        BY <1>n, <2>9, <3>2, <4>1
    <3> QED
      BY <3>1, <3>2
  <2> QED
    BY <1>b, <1>n, <2>1, <2>8, <2>10
<1>7. ASSUME NEW x \in Subjects, PostFix(x), Publishes(PositionMessage(x)), SameViews PROVE Fits2
  <2>1. /\ UNCHANGED <<calls, waiting>> /\ sending = <<>>
    BY <1>7 DEF PostFix
  <2>2. Len(message') = Len(message) + 1
    BY <1>7 DEF Publishes
  <2>3. CASE m \in 1..Len(message)
    <3>1. Twice(s, m)' = Twice(s, m)
      BY <1>7, <2>3, TwiceKept DEF Publishes
    <3>2. Expected(s, m)' = 0
      BY <1>0, <2>2, <2>3 DEF Expected
    <3> QED
      BY <1>b, <1>n, <2>1, <2>3, <3>1, <3>2
  <2>4. CASE m = Len(message')
    <3>1. m \notin Handed(s)
      <4>1. \A n \in Handed(s) : n <= Len(message)
        BY DEF PubInv, Fed
      <4> QED
        BY <1>0, <2>2, <2>4, <4>1
    <3>2. Count(waiting[s], {m}) = 0 /\ Count(calls[s], {m}) = 0
      <4>1. Elements(waiting[s]) \cap {m} = {} /\ Elements(calls[s]) \cap {m} = {}
        BY <3>1 DEF Handed
      <4> QED
        BY <1>0, <4>1, CountFinite
    <3>3. Twice(s, m)' \in {1, 2}
      BY DEF Twice
    <3>4. Expected(s, m)' <= Twice(s, m)' /\ Expected(s, m)' \in Nat
      <4>1. sending' \in Seq(Channels) /\ Expected(s, m)' = Count(sending', Registered(s)')
        BY <2>4 DEF Expected, Count, PubInv, PubTypes
      <4>2. CASE sending' # <<>>
        <5>1. Count(sending, Registered(s))' <= Twice(s, Len(message))'
          BY <4>2 DEF AtMostPaths
        <5>2. Twice(s, Len(message))' = Twice(s, m)' /\ Expected(s, m)' = Count(sending, Registered(s))'
          BY <2>4 DEF Twice, Expected
        <5>3. Count(sending', Registered(s)') \in Nat
          BY <4>1, CountFinite
        <5> QED
          BY <4>1, <5>1, <5>2, <5>3
      <4>3. CASE sending' = <<>>
        <5>1. Elements(<<>>) = {} /\ <<>> \in Seq(Channels)
          BY DEF Elements
        <5>2. Count(<<>>, Registered(s)') = 0
          BY <5>1, CountFinite
        <5> QED
          BY <3>3, <4>1, <4>3, <5>2
      <4> QED
        BY <4>2, <4>3
    <3> QED
      BY <2>1, <3>2, <3>3, <3>4
  <2> QED
    BY <1>0, <2>2, <2>3, <2>4
<1>8. ASSUME NEW p \in Pilots, AnnounceFile(p), Publishes(FileMessage(p)), SameViews PROVE Fits2
  <2> DEFINE n == Len(message) + 1
  <2>1. /\ UNCHANGED <<calls, sending>> /\ sending = <<>>
        /\ waiting'[s] = Append(waiting[s], n) \/ waiting'[s] = waiting[s]
        /\ Len(message) < Messages
    BY <1>8 DEF AnnounceFile
  <2>2. n \in 1..Messages /\ Len(message') = n
    BY <1>0, <1>8, <2>1, PublicAssumption DEF Publishes
  <2>3. Count(Append(waiting[s], n), {m}) = Count(waiting[s], {m}) + (IF n \in {m} THEN 1 ELSE 0)
    <3> HIDE DEF n
    <3> QED
      BY <1>0, <2>2, CountAppendMessage
  <2>4. Expected(s, m)' = 0 /\ Twice(s, m)' \in {1, 2}
    <3>1. Elements(<<>>) = {} /\ <<>> \in Seq(Channels)
      BY DEF Elements
    <3>2. Count(<<>>, Registered(s)') = 0
      BY <3>1, CountFinite
    <3> QED
      BY <2>1, <3>2 DEF Expected, Count, Twice
  <2>5. CASE m = n
    <3>1. m \notin Handed(s)
      <4>1. \A i \in Handed(s) : i <= Len(message)
        BY DEF PubInv, Fed
      <4> QED
        BY <1>0, <2>5, <4>1
    <3>2. Count(waiting[s], {m}) = 0 /\ Count(calls[s], {m}) = 0
      <4>1. Elements(waiting[s]) \cap {m} = {} /\ Elements(calls[s]) \cap {m} = {}
        BY <3>1 DEF Handed
      <4> QED
        BY <1>0, <4>1, CountFinite
    <3> HIDE DEF n
    <3>3. Count(waiting'[s], {m}) \in {0, 1} /\ Count(calls'[s], {m}) = 0
      <4> DEFINE v == Count(Append(waiting[s], n), {m})
      <4>1. v = 1
        <5> HIDE DEF n
        <5> QED
          BY <2>3, <2>5, <3>2
      <4> HIDE DEF v
      <4>2. Count(waiting'[s], {m}) = v \/ Count(waiting'[s], {m}) = Count(waiting[s], {m})
        BY <2>1 DEF v, n
      <4> QED
        BY <2>1, <3>2, <4>1, <4>2
    <3> QED
      BY <2>4, <3>3
  <2>6. CASE m # n
    <3>1. m \in 1..Len(message)
      BY <1>0, <2>2, <2>6
    <3>2. Twice(s, m)' = Twice(s, m)
      BY <1>8, <3>1, TwiceKept DEF Publishes
    <3> HIDE DEF n
    <3>3. Count(waiting'[s], {m}) = Count(waiting[s], {m}) /\ Count(calls'[s], {m}) = Count(calls[s], {m})
      <4> DEFINE v == Count(Append(waiting[s], n), {m})
      <4>1. v = Count(waiting[s], {m})
        <5> HIDE DEF n
        <5> QED
          BY <1>n, <2>3, <2>6
      <4> HIDE DEF v
      <4>2. Count(waiting'[s], {m}) = v \/ Count(waiting'[s], {m}) = Count(waiting[s], {m})
        BY <2>1 DEF v, n
      <4> QED
        BY <2>1, <4>1, <4>2
    <3> QED
      BY <1>b, <1>n, <2>4, <3>1, <3>2, <3>3
  <2> QED
    BY <2>5, <2>6
<1>9. ASSUME Change \/ UNCHANGED pubvars, SameViews PROVE Fits2
  <2>1. UNCHANGED <<message, sending, calls, waiting>>
    BY <1>9 DEF Change, pubvars, feed
  <2> QED
    BY <1>1, <1>9, <2>1
<1>10. ASSUME NEW x \in Subjects, PostFix(x) PROVE Publishes(PositionMessage(x))
  <2>1. PositionMessage(x) \in Message /\ message' = Append(message, PositionMessage(x))
    BY <1>10, Posted DEF PostFix
  <2> QED
    BY <1>0, <2>1, AppendElements DEF Publishes
<1>11. ASSUME NEW p \in Pilots, AnnounceFile(p) PROVE Publishes(FileMessage(p))
  <2>1. FileMessage(p) \in Message /\ message' = Append(message, FileMessage(p))
    BY <1>11 DEF AnnounceFile, FileMessage, Message
  <2> QED
    BY <1>0, <2>1, AppendElements DEF Publishes
<1>12. SameViews \/ \E t \in Subs, k \in Kinds : OpenView(t, k)
  BY <1>t, ViewsStay
<1> HIDE DEF Fits2
<1>13. Fits2
  BY <1>2, <1>3, <1>4, <1>5, <1>6, <1>7, <1>8, <1>9, <1>10, <1>11, <1>12 DEF PubNext
<1> QED
  BY <1>13 DEF Fits2

-----------------------------------------------------------------------------
LEMMA ServeInit == PubInit => ServeInv
<1> SUFFICES ASSUME PubInit PROVE ServeInv
  OBVIOUS
<1>1. PubInv
  BY PubInitInv
<1>2. RegisteredWhileOpen
  BY DEF PubInit, RegisteredWhileOpen, Unopened
<1>3. Shapes
  BY DEF PubInit, Shapes, Unopened
<1>4. Quiet /\ Owing /\ NoneMissed
  BY DEF PubInit, Quiet, Owing, NoneMissed
<1>5. Distinct(sending)
  BY DEF PubInit, Distinct
<1>6. Bounded
  BY DEF PubInit, Bounded
<1> QED
  BY <1>1, <1>2, <1>3, <1>4, <1>5, <1>6 DEF ServeInv

LEMMA ServeStep ==
    ServeInv /\ [PubNext]_pubvars /\ PubInv' /\ AtMostPaths' => ServeInv'
<1> SUFFICES ASSUME ServeInv, [PubNext]_pubvars, PubInv', AtMostPaths' PROVE ServeInv'
  OBVIOUS
<1>1. RegisteredWhileOpen'
  BY RegisteredKept DEF ServeInv, PubInv
<1>2. Shapes' /\ Quiet' /\ Owing' /\ Distinct(sending)'
  BY ShapesKept, QuietKept, OwingKept, DistinctKept DEF ServeInv, PubInv
<1>3. NoneMissed'
  BY NoneMissedKept DEF ServeInv
<1>4. Bounded'
  BY BoundedKept DEF ServeInv
<1> QED
  BY <1>1, <1>2, <1>3, <1>4 DEF ServeInv

\* Streams are served whole, from their own registrations, and no position more
\* than twice, for any pilots, accounts, groups, queues and changes (public.py's
\* generators and LiveSubscriber's queue).
THEOREM StreamsAreServed == PubSpec => []StreamsServe
<1>1. ServeInv => StreamsServe
  <2> SUFFICES ASSUME ServeInv PROVE StreamsServe
    OBVIOUS
  <2>t. PubTypes
    BY DEF ServeInv, PubInv
  <2>1. PubTypeOK
    BY <2>t DEF PubTypes, PubTypeOK, Stream
  <2>2. NothingMissed
    <3> SUFFICES ASSUME NEW s \in Subs, NEW m \in owed[s]
                 PROVE  \/ stream[s].at \in {"ended", "abandoned"} \/ s \in full
                        \/ sending # <<>> /\ m = Len(message)
                        \/ shown[s][m] > 0 \/ m \in Elements(waiting[s]) \cup Elements(calls[s])
      BY DEF NothingMissed
    <3>1. Kept(s, m)
      BY DEF ServeInv, NoneMissed
    <3>2. Coming(s, m) => sending # <<>> /\ m = Len(message)
      BY DEF Coming, Elements
    <3> QED
      BY <3>1, <3>2 DEF Kept, Handed
  <2>3. AtMostTwice
    <3> SUFFICES ASSUME NEW s \in Subs, NEW m \in 1..Len(message)
                 PROVE  Cardinality({i \in DOMAIN waiting[s] : waiting[s][i] = m})
                          + Cardinality({i \in DOMAIN calls[s] : calls[s][i] = m}) <= Twice(s, m)
      BY DEF AtMostTwice, Twice
    <3>1. Count(waiting[s], {m}) + Count(calls[s], {m}) + Expected(s, m) <= Twice(s, m)
      BY DEF ServeInv, Bounded
    <3>2. /\ Count(waiting[s], {m}) \in Nat /\ Count(calls[s], {m}) \in Nat
          /\ Expected(s, m) \in Nat /\ Twice(s, m) \in {1, 2}
      BY <2>t, CountsAreNumbers
    <3>3. /\ {i \in DOMAIN waiting[s] : waiting[s][i] = m} = {i \in DOMAIN waiting[s] : waiting[s][i] \in {m}}
          /\ {i \in DOMAIN calls[s] : calls[s][i] = m} = {i \in DOMAIN calls[s] : calls[s][i] \in {m}}
      OBVIOUS
    <3> QED
      BY <3>1, <3>2, <3>3 DEF Count
  <2> QED
    BY <2>1, <2>2, <2>3 DEF StreamsServe, ServeInv
<1>2. PubSpec => []PubInv
  BY PubInitInv, PubNextInv, PTL DEF PubSpec
<1>3. ServeInv /\ [PubNext]_pubvars => Shapes' /\ Distinct(sending)'
  BY ShapesKept, DistinctKept DEF ServeInv, PubInv
<1>4. PubInv /\ Shapes /\ Distinct(sending) => AtMostPaths
  BY PathsBound DEF PubInv
<1>5. ServeInv /\ [PubNext]_pubvars /\ PubInv' => ServeInv'
  BY <1>3, <1>4, ServeStep, PTL
<1> QED
  BY <1>1, <1>2, <1>5, ServeInit, PTL DEF PubSpec
=============================================================================
