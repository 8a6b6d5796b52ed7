----------------------------- MODULE LiveFanout -----------------------------
(***************************************************************************)
(* Live tracking of one pilot in one task: from the request that stores a  *)
(* fix to the apps that show it (backend/app/services/tracking.py, the     *)
(* stream of backend/app/routers/tracking.py, the driver's app in          *)
(* mobile/lib/services/driver_service.dart).                               *)
(*                                                                         *)
(* Every fix is stored and published by a thread of its own, and published *)
(* before its transaction commits.  A stream subscribes first and reads    *)
(* its snapshot of the committed fixes later.  Publishing hands the fix to *)
(* the event loop, whose callback puts it into the stream's bounded queue. *)
(* The driver's app shows what arrives last, from the stream or from its   *)
(* periodic polls, without looking at the time of the fix.                 *)
(*                                                                         *)
(* Fixes are numbered by their timestamps.  The channels of pilots, users  *)
(* and the global one are copies of the task's and are left out, and so is *)
(* removing subscribers whose event loop is closed: there is one loop.     *)
(***************************************************************************)
EXTENDS Naturals, Sequences, FiniteSets

CONSTANTS Posts,      \* threads that store a fix, at any one time
          Streams,    \* apps with a stream
          MaxFix,     \* bound: fixes
          QueueSize,  \* LiveSubscriber's maxsize
          MaxPolls    \* bound: answers to polls under way, per app

ASSUME MaxFixAssumption == MaxFix \in Nat
ASSUME QueueSizeAssumption == QueueSize \in Nat \ {0}

Fixes == 1..MaxFix

VARIABLES
    row,         \* each fix: not posted, in an open transaction, stored, lost
    at,          \* where a thread is
    fix,         \* its fix, 0 for none
    registered,  \* _subscribers[task_id]
    conn,        \* where a stream is
    inbox,       \* callbacks of the event loop for a stream's queue
    queue,       \* the stream's queue
    polls,       \* answers to an app's polls that are under way
    view,        \* the fix the app shows, 0 for none
    got,         \* fixes the stream has sent (history)
    snap,        \* the newest fix of its snapshot (history)
    early,       \* fixes published, not committed, when it subscribed (history)
    overflowed   \* a fix found the queue full (history)

server == <<row, at, fix>>
channel == <<inbox, queue>>
history == <<got, snap, early, overflowed>>

vars == <<server, registered, conn, channel, polls, view, history>>

TypeOK ==
    /\ row \in [Fixes -> {"none", "open", "stored", "lost"}]
    /\ at \in [Posts -> {"idle", "stored", "publish", "commit"}]
    /\ fix \in [Posts -> {0} \cup Fixes]
    /\ registered \subseteq Streams
    /\ conn \in [Streams -> {"closed", "subscribed", "streaming"}]
    /\ inbox \in [Streams -> Seq(Fixes)]
    /\ queue \in [Streams -> Seq(Fixes)]
    /\ \A s \in Streams : Len(queue[s]) <= QueueSize
    /\ polls \in [Streams -> SUBSET ({0} \cup Fixes)]
    /\ view \in [Streams -> {0} \cup Fixes]
    /\ got \in [Streams -> SUBSET Fixes]
    /\ snap \in [Streams -> {0} \cup Fixes]
    /\ early \in [Streams -> SUBSET Fixes]
    /\ overflowed \subseteq Streams

Init ==
    /\ row = [p \in Fixes |-> "none"]
    /\ at = [r \in Posts |-> "idle"]
    /\ fix = [r \in Posts |-> 0]
    /\ registered = {}
    /\ conn = [s \in Streams |-> "closed"]
    /\ inbox = [s \in Streams |-> <<>>]
    /\ queue = [s \in Streams |-> <<>>]
    /\ polls = [s \in Streams |-> {}]
    /\ view = [s \in Streams |-> 0]
    /\ got = [s \in Streams |-> {}]
    /\ snap = [s \in Streams |-> 0]
    /\ early = [s \in Streams |-> {}]
    /\ overflowed = {}

-----------------------------------------------------------------------------
Stored == {p \in Fixes : row[p] = "stored"}

\* p is the newest stored fix, 0 if there is none.
IsLatest(p) == p \in {0} \cup Stored /\ \A q \in Stored : q <= p

SeqSet(seq) == {seq[i] : i \in 1..Len(seq)}

\* Mutants of Targets and Polled, below.
OnlyStreaming == {s \in registered : conn[s] = "streaming"}
IsOldest(p) == IF Stored = {} THEN p = 0
               ELSE p \in Stored /\ \A q \in Stored : p <= q

\* The streams a fix is handed to.
Targets == registered

\* asyncio.Queue raises QueueFull otherwise.
HasRoom(q) == Len(q) < QueueSize

\* What the answer to a poll shows: get_all_active_positions.
Polled(p) == IsLatest(p)

-----------------------------------------------------------------------------
(* A request with a fix: store_position and its callers *)

\* The row is flushed.
Flush(r, p) ==
    /\ at[r] = "idle"
    /\ row[p] = "none"
    /\ row' = [row EXCEPT ![p] = "open"]
    /\ at' = [at EXCEPT ![r] = "stored"]
    /\ fix' = [fix EXCEPT ![r] = p]
    /\ UNCHANGED <<registered, conn, channel, polls, view, history>>

\* has_any_subscribers; if there are any the message is made, with queries.
Look(r) ==
    /\ at[r] = "stored"
    /\ at' = [at EXCEPT ![r] = IF registered = {} THEN "commit" ELSE "publish"]
    /\ UNCHANGED <<row, fix, registered, conn, channel, polls, view, history>>

\* _publish: a callback for each subscriber there is by now.
Publish(r) ==
    /\ at[r] = "publish"
    /\ inbox' = [s \in Streams |->
                   IF s \in Targets THEN Append(inbox[s], fix[r]) ELSE inbox[s]]
    /\ at' = [at EXCEPT ![r] = "commit"]
    /\ UNCHANGED <<row, fix, registered, conn, queue, polls, view, history>>

End(r, outcome) ==
    /\ row' = [row EXCEPT ![fix[r]] = outcome]
    /\ at' = [at EXCEPT ![r] = "idle"]
    /\ fix' = [fix EXCEPT ![r] = 0]
    /\ UNCHANGED <<registered, conn, channel, polls, view, history>>

\* session.commit() of the caller, and its failure, or an earlier one.
Commit(r) == at[r] = "commit" /\ End(r, "stored")
RollBack(r) == at[r] # "idle" /\ End(r, "lost")

-----------------------------------------------------------------------------
(* The stream: live_positions_sse *)

\* put_nowait, called by the event loop; what does not fit is dropped.
Callback(s) ==
    /\ inbox[s] # <<>>
    /\ inbox' = [inbox EXCEPT ![s] = Tail(@)]
    /\ IF HasRoom(queue[s])
       THEN /\ queue' = [queue EXCEPT ![s] = Append(@, Head(inbox[s]))]
            /\ UNCHANGED overflowed
       ELSE /\ overflowed' = overflowed \cup {s}
            /\ UNCHANGED queue
    /\ UNCHANGED <<server, registered, conn, polls, view, got, snap, early>>

\* The app connects; the stream has a new queue.
Subscribe(s) ==
    /\ conn[s] = "closed"
    /\ conn' = [conn EXCEPT ![s] = "subscribed"]
    /\ registered' = registered \cup {s}
    /\ early' = [early EXCEPT ![s] =
                    {fix[r] : r \in {q \in Posts : at[q] = "commit"}}]
    /\ UNCHANGED <<server, channel, polls, view, got, snap, overflowed>>

\* The first event: the snapshot, with no pilot if nothing is stored.
Snapshot(s) ==
    /\ conn[s] = "subscribed"
    /\ conn' = [conn EXCEPT ![s] = "streaming"]
    /\ \E p \in {0} \cup Fixes :
          /\ IsLatest(p)
          /\ snap' = [snap EXCEPT ![s] = p]
          /\ view' = [view EXCEPT ![s] = IF p = 0 THEN @ ELSE p]
    /\ UNCHANGED <<server, registered, channel, polls, got, early, overflowed>>

\* The next event: the head of the queue.
Send(s) ==
    /\ conn[s] = "streaming"
    /\ queue[s] # <<>>
    /\ queue' = [queue EXCEPT ![s] = Tail(@)]
    /\ view' = [view EXCEPT ![s] = Head(queue[s])]
    /\ got' = [got EXCEPT ![s] = @ \cup {Head(queue[s])}]
    /\ UNCHANGED <<server, registered, conn, inbox, polls, snap, early,
                   overflowed>>

\* The connection ends: unsubscribe.
Disconnect(s) ==
    /\ conn[s] # "closed"
    /\ conn' = [conn EXCEPT ![s] = "closed"]
    /\ registered' = registered \ {s}
    /\ inbox' = [inbox EXCEPT ![s] = <<>>]
    /\ queue' = [queue EXCEPT ![s] = <<>>]
    /\ got' = [got EXCEPT ![s] = {}]
    /\ snap' = [snap EXCEPT ![s] = 0]
    /\ early' = [early EXCEPT ![s] = {}]
    /\ overflowed' = overflowed \ {s}
    /\ UNCHANGED <<server, polls, view>>

-----------------------------------------------------------------------------
(* The driver's app: _pollActivePilots, every ten seconds *)

\* The server answers; the answers of slow polls are under way together.
PollRead(s) ==
    /\ Cardinality(polls[s]) < MaxPolls
    /\ \E p \in {0} \cup Fixes :
          /\ Polled(p)
          /\ polls' = [polls EXCEPT ![s] = @ \cup {p}]
    /\ UNCHANGED <<server, registered, conn, channel, view, history>>

\* The answer replaces all the app shows.
PollApply(s, p) ==
    /\ p \in polls[s]
    /\ polls' = [polls EXCEPT ![s] = @ \ {p}]
    /\ view' = [view EXCEPT ![s] = p]
    /\ UNCHANGED <<server, registered, conn, channel, history>>

\* An answer is lost: the app keeps what it shows.
PollFails(s, p) ==
    /\ p \in polls[s]
    /\ polls' = [polls EXCEPT ![s] = @ \ {p}]
    /\ UNCHANGED <<server, registered, conn, channel, view, history>>

-----------------------------------------------------------------------------
\* The server restarts: the rows are all that is kept.
Restart ==
    /\ row' = [p \in Fixes |-> IF row[p] = "open" THEN "lost" ELSE row[p]]
    /\ at' = [r \in Posts |-> "idle"]
    /\ fix' = [r \in Posts |-> 0]
    /\ registered' = {}
    /\ conn' = [s \in Streams |-> "closed"]
    /\ inbox' = [s \in Streams |-> <<>>]
    /\ queue' = [s \in Streams |-> <<>>]
    /\ polls' = [s \in Streams |-> {}]
    /\ got' = [s \in Streams |-> {}]
    /\ snap' = [s \in Streams |-> 0]
    /\ early' = [s \in Streams |-> {}]
    /\ overflowed' = {}
    /\ UNCHANGED view

Next ==
    \/ \E r \in Posts : \/ \E p \in Fixes : Flush(r, p)
                        \/ Look(r) \/ Publish(r) \/ Commit(r) \/ RollBack(r)
    \/ \E s \in Streams : \/ Callback(s) \/ Subscribe(s) \/ Snapshot(s)
                          \/ Send(s) \/ Disconnect(s) \/ PollRead(s)
                          \/ \E p \in {0} \cup Fixes :
                                PollApply(s, p) \/ PollFails(s, p)
    \/ Restart

Spec == Init /\ [][Next]_vars

\* Requests run to their end, the event loop runs, streams are read, the app's
\* timer fires and its polls are answered.  Nothing is assumed of who posts or
\* connects.
Fairness ==
    /\ \A r \in Posts : WF_vars(Look(r) \/ Publish(r) \/ Commit(r))
    /\ \A s \in Streams :
          /\ WF_vars(Callback(s)) /\ WF_vars(Snapshot(s)) /\ WF_vars(Send(s))
          /\ WF_vars(PollRead(s))
          /\ \A p \in {0} \cup Fixes : WF_vars(PollApply(s, p) \/ PollFails(s, p))

FairSpec == Spec /\ Fairness

-----------------------------------------------------------------------------
(* Properties *)

\* A stream shows a fix, has shown it, or has a newer one in its snapshot.
Covered(s, p) ==
    p <= snap[s] \/ p \in got[s] \cup SeqSet(queue[s]) \cup SeqSet(inbox[s])

\* A stored fix is missing from a stream only if the stream's own queue was
\* full, or the fix was published before the stream subscribed and committed
\* after its snapshot: no other interleaving of posts, commits, snapshots and
\* other streams leaves a gap (tracking.py 31-54, 729-765, 991-1015,
\* routers/tracking.py 928-939).
GapNeedsOverflowOrEarlyFix ==
    \A s \in Streams, p \in Stored :
        conn[s] = "streaming" /\ ~Covered(s, p)
          => s \in overflowed \/ p \in early[s]

\* Whatever was dropped, reordered, published and never stored, or overtaken
\* by a poll: once posting has ceased and polls are answered, the driver's app
\* ends with the newest stored fix (driver_service.dart 221-250, 333-341).
ViewCatchesUp ==
    <>[][/\ ~Restart
         /\ \A r \in Posts, p \in Fixes : ~Flush(r, p)
         /\ \A s \in Streams, p \in {0} \cup Fixes : ~PollFails(s, p)]_vars
        => \A s \in Streams : <>[]IsLatest(view[s])
=============================================================================
