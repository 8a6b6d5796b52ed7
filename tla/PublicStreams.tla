--------------------------- MODULE PublicStreams ---------------------------
(***************************************************************************)
(* The live streams anybody may watch: of a meet, of a task, of a group of *)
(* buddies and of all users (backend/app/routers/public.py), and the       *)
(* channels of backend/app/services/tracking.py that feed them.            *)
(*                                                                         *)
(* A stream looks up once, when it is opened, whose positions are public,  *)
(* and registers its subscriber with their channels, or with the channel   *)
(* of its task, whose messages it then filters.  Its generator starts      *)
(* later; a viewer who has left by then leaves the subscriber behind.      *)
(* Positions are published by a thread, one channel after another, through *)
(* callbacks of the event loop; the arrival of a track log is announced on *)
(* the loop itself, and drops the subscriber whose queue is full.          *)
(*                                                                         *)
(* There is one meet with one task and one group of buddies, all or none   *)
(* of them public.  The order of publishing, committing and snapshots is   *)
(* LiveFanout's subject; here a position is stored when it is published.   *)
(***************************************************************************)
EXTENDS Naturals, Sequences, FiniteSets

CONSTANTS Pilots, Users,
          PilotOf,      \* the pilot of an account, or Nobody
          Nobody,
          Subjects,     \* whom positions are posted for: [pilot, user, filed], the
                        \* last if they are filed under the task
          Buddies,      \* pilots of the group
          TaskChannel,
          Views,        \* bound: streams opened
          Messages,     \* bound: positions and announcements
          Capacity,     \* LiveSubscriber's maxsize
          Switches      \* bound: changes of what is public

ASSUME PublicAssumption ==
    /\ Views \in Nat /\ Messages \in Nat /\ Capacity \in Nat \ {0}
    /\ PilotOf \in [Users -> Pilots \cup {Nobody}]
    /\ Buddies \subseteq Pilots
    /\ Subjects \subseteq [pilot : Pilots \cup {Nobody}, user : Users \cup {Nobody}, filed : BOOLEAN]
    /\ Pilots \subseteq {x.pilot : x \in Subjects}

\* Channels are named by their kind, so that an account's is never a pilot's.
ASSUME ChannelAssumption ==
    /\ Pilots \cap Users = {}
    /\ TaskChannel \notin Pilots \cup Users /\ Nobody \notin {TaskChannel} \cup Pilots \cup Users

Subs == 1..Views
Kinds == {"event", "task", "buddies", "all"}
Channels == {TaskChannel} \cup Pilots \cup Users

VARIABLES
    shared,      \* the meet, its task and the group are public
    entrants,    \* pilots in the meet
    driving,     \* users with an assignment in the meet
    visible,     \* accounts that are active and no stationary node
    stream,      \* each stream: [kind, at, pilots, users]
    listening,   \* the subscribers of each channel
    message,     \* what was published: [pilot, user, filed, file]
    sending,     \* the channels the publishing thread has still to serve
    calls,       \* callbacks of the loop for a subscriber
    waiting,     \* its queue
    shown,       \* how often a stream has sent a message
    publicThen,  \* subjects that were public when it was opened (history)
    owed,        \* messages published since, for its channels (history)
    full, cut,   \* its queue was full; it was dropped (history)
    switches     \* changes so far

world == <<shared, entrants, driving, visible, switches>>
feed == <<calls, waiting, shown, owed, full, cut>>
pubvars == <<world, stream, listening, message, sending, feed, publicThen>>

Unopened == [kind |-> "none", at |-> "none", pilots |-> {}, users |-> {}]

PubTypeOK ==
    /\ entrants \subseteq Pilots /\ driving \subseteq Users
    /\ visible \subseteq Users /\ shared \in BOOLEAN
    /\ stream \in [Subs -> [kind : Kinds \cup {"none"},
                            at : {"none", "registered", "streaming", "abandoned", "ended"},
                            pilots : SUBSET Pilots, users : SUBSET Users]]
    /\ listening \in [Channels -> SUBSET Subs]
    /\ Len(message) <= Messages
    /\ calls \in [Subs -> Seq(1..Messages)]
    /\ waiting \in [Subs -> Seq(1..Messages)]
    /\ \A s \in Subs : Len(waiting[s]) <= Capacity

PubInit ==
    /\ shared = TRUE
    /\ entrants \in SUBSET Pilots
    /\ driving \in SUBSET {u \in Users : PilotOf[u] = Nobody}
    /\ visible = Users
    /\ stream = [s \in Subs |-> Unopened]
    /\ listening = [c \in Channels |-> {}]
    /\ message = <<>>
    /\ sending = <<>>
    /\ calls = [s \in Subs |-> <<>>]
    /\ waiting = [s \in Subs |-> <<>>]
    /\ shown = [s \in Subs |-> [m \in 1..Messages |-> 0]]
    /\ publicThen = [s \in Subs |-> {}]
    /\ owed = [s \in Subs |-> {}]
    /\ full = {}
    /\ cut = {}
    /\ switches = 0

-----------------------------------------------------------------------------
(* Whose positions are public *)

\* Pilots with an active account, and active accounts.
RegisteredPilots(pilots) == {p \in pilots : \E u \in visible : PilotOf[u] = p}
RegisteredUsers(users) == users \cap visible
UsersOf(pilots) == {u \in visible : PilotOf[u] \in pilots}

EventPilots == RegisteredPilots(entrants)
EventDrivers == RegisteredUsers(driving)
EventUsers == UsersOf(EventPilots) \cup EventDrivers

\* The ids a stream of a kind looks up.
IdsOf(kind) ==
    CASE kind = "buddies" -> <<RegisteredPilots(Buddies), {}>>
      [] kind = "all" -> <<RegisteredPilots(Pilots), RegisteredUsers(Users)>>
      [] OTHER -> <<EventPilots, EventUsers>>

\* The same, said of a position: a pilot with a visible account, of the meet
\* or the group; a visible account of such a pilot, or of a driver.
IsPublic(kind, x) ==
    LET known(p) == \E u \in visible : PilotOf[u] = p
        group == CASE kind = "buddies" -> Buddies [] kind = "all" -> Pilots
                   [] OTHER -> entrants
    IN \/ x.pilot \in group /\ known(x.pilot)
       \/ /\ kind # "buddies"
          /\ x.user \in visible
          /\ kind = "all" \/ x.user \in driving \/ PilotOf[x.user] \in entrants

Concerns(s, x) == x.pilot \in stream[s].pilots \/ x.user \in stream[s].users

\* Mutants of Passes and Audience, below.
PassesUnfiltered(s, m) == TRUE
AudienceStarted(c) == {s \in listening[c] : stream[s].at = "streaming"}

\* _public_position_payload_allowed: only the stream of a task filters.
Passes(s, m) == stream[s].kind = "task" => Concerns(s, message[m])

\* The channels a stream registers with.
Registered(s) ==
    IF stream[s].kind = "task" THEN {TaskChannel}
    ELSE stream[s].pilots \cup stream[s].users

\* Its finally leaves them.
Left(s) == Registered(s)

\* Who is handed a message of a channel, and who has room for it.
Audience(c) == listening[c]
Fits(s) == Len(waiting[s]) < Capacity

\* The channels a position is published on, in this order.
Known(c) == IF c = Nobody THEN <<>> ELSE <<c>>
Path(x) == (IF x.filed THEN <<TaskChannel>> ELSE <<>>) \o Known(x.pilot) \o Known(x.user)

-----------------------------------------------------------------------------
(* A stream *)

\* The request: what is public is looked up, and the subscriber registered.
OpenView(s, kind) ==
    /\ stream[s] = Unopened
    /\ \A t \in Subs : t < s => stream[t] # Unopened
    /\ kind # "all" => shared
    /\ stream' = [stream EXCEPT ![s] =
          [kind |-> kind, at |-> "registered",
           pilots |-> IdsOf(kind)[1], users |-> IdsOf(kind)[2]]]
    /\ listening' = [c \in Channels |->
          IF c \in Registered(s)' THEN listening[c] \cup {s} ELSE listening[c]]
    /\ publicThen' = [publicThen EXCEPT ![s] = {x \in Subjects : IsPublic(kind, x)}]
    /\ UNCHANGED <<world, message, sending, feed>>

\* subject_key_for_position
SubjectKey(x) == <<x.pilot, x.user>>

\* The messages of a snapshot: the newest of each subject, of positions only.
Newest(s) ==
    LET rows == {m \in 1..Len(message) :
                   /\ ~message[m].file
                   /\ sending = <<>> \/ m < Len(message)
                   /\ stream[s].kind = "task" => message[m].filed
                   /\ Concerns(s, message[m])}
    IN {m \in rows : \A n \in rows : SubjectKey(message[n]) = SubjectKey(message[m]) => n <= m}

\* The stream with another state
Turned(s, at) ==
    [stream EXCEPT ![s] = [kind |-> stream[s].kind, at |-> at, pilots |-> stream[s].pilots, users |-> stream[s].users]]

\* The generator starts, with a snapshot unless it shows everybody.
StartView(s) ==
    /\ stream[s].at = "registered"
    /\ stream' = Turned(s, "streaming")
    /\ shown' = [shown EXCEPT ![s] =
          IF stream[s].kind = "all" THEN @
          ELSE [m \in 1..Messages |-> IF m \in Newest(s) THEN 1 ELSE 0]]
    /\ UNCHANGED <<world, listening, message, sending, calls, waiting, owed,
                   full, cut, publicThen>>

\* The next message is sent, or passed over.
Deliver(s) ==
    /\ stream[s].at = "streaming"
    /\ waiting[s] # <<>>
    /\ waiting' = [waiting EXCEPT ![s] = Tail(@)]
    /\ shown' = IF Passes(s, Head(waiting[s]))
                THEN [shown EXCEPT ![s][Head(waiting[s])] = @ + 1] ELSE shown
    /\ UNCHANGED <<world, stream, listening, message, sending, calls, owed,
                   full, cut, publicThen>>

\* The viewer leaves: the generator's finally, or nothing if it never started.
CloseView(s) ==
    /\ stream[s].at \in {"registered", "streaming"}
    /\ IF stream[s].at = "streaming"
       THEN /\ stream' = Turned(s, "ended")
            /\ listening' = [c \in Channels |->
                  IF c \in Left(s) THEN listening[c] \ {s} ELSE listening[c]]
       ELSE /\ stream' = Turned(s, "abandoned")
            /\ UNCHANGED listening
    /\ UNCHANGED <<world, message, sending, feed, publicThen>>

-----------------------------------------------------------------------------
(* What is published *)

\* The open streams a message is for, whose subscriber is not dropped.
Watching(m, channels) ==
    {s \in Subs : /\ stream[s].at \in {"registered", "streaming"}
                  /\ s \notin cut
                  /\ Registered(s) \cap channels # {}
                  /\ stream[s].kind = "task" => Concerns(s, m)}

Owe(m, n, channels) ==
    owed' = [s \in Subs |-> IF s \in Watching(m, channels) THEN owed[s] \cup {n} ELSE owed[s]]

Elements(seq) == {seq[i] : i \in DOMAIN seq}

\* _position_payload, and what an upload is announced with
PositionMessage(x) == [pilot |-> x.pilot, user |-> x.user, filed |-> x.filed, file |-> FALSE]
FileMessage(p) == [pilot |-> p, user |-> Nobody, filed |-> TRUE, file |-> TRUE]

\* store_position: a message is made if anybody listens to one of its channels.
PostFix(x) ==
    LET path == Path(x)
        m == PositionMessage(x)
    IN /\ sending = <<>>
       /\ Len(message) < Messages
       /\ message' = Append(message, m)
       /\ sending' = IF \E c \in Elements(path) : listening[c] # {} THEN path ELSE <<>>
       /\ Owe(m, Len(message) + 1, Elements(path))
       /\ UNCHANGED <<world, stream, listening, calls, waiting, shown, full, cut, publicThen>>

\* The thread hands the message to the loop, once for each of the channel.
ServeChannel ==
    /\ sending # <<>>
    /\ sending' = Tail(sending)
    /\ calls' = [s \in Subs |-> IF s \in Audience(Head(sending))
                                THEN Append(calls[s], Len(message)) ELSE calls[s]]
    /\ UNCHANGED <<world, stream, listening, message, waiting, shown, owed, full, cut, publicThen>>

\* put_nowait, called by the loop; what it returns reaches nobody.
RunCall(s) ==
    /\ calls[s] # <<>>
    /\ calls' = [calls EXCEPT ![s] = Tail(@)]
    /\ IF Fits(s)
       THEN waiting' = [waiting EXCEPT ![s] = Append(@, Head(calls[s]))] /\ UNCHANGED full
       ELSE full' = full \cup {s} /\ UNCHANGED waiting
    /\ UNCHANGED <<world, stream, listening, message, sending, shown, owed, cut, publicThen>>

\* Put at once, by the loop: who has no room is dropped from the channel.
NoRoom == {s \in Audience(TaskChannel) : ~Fits(s)}

\* igc_available, after an upload for a pilot's task.
AnnounceFile(p) ==
    LET m == FileMessage(p)
    IN /\ sending = <<>>
       /\ Len(message) < Messages
       /\ message' = Append(message, m)
       /\ waiting' = [s \in Subs |-> IF s \in listening[TaskChannel] \ NoRoom
                                     THEN Append(waiting[s], Len(message) + 1) ELSE waiting[s]]
       /\ listening' = [listening EXCEPT ![TaskChannel] = @ \ NoRoom]
       /\ cut' = cut \cup NoRoom
       /\ full' = full \cup NoRoom
       /\ Owe(m, Len(message) + 1, {TaskChannel})
       /\ UNCHANGED <<world, stream, sending, calls, shown, publicThen>>

-----------------------------------------------------------------------------
\* What is public changes: entries, assignments, accounts, the settings.
Change ==
    /\ switches < Switches
    /\ switches' = switches + 1
    /\ \/ shared' = ~shared /\ UNCHANGED <<entrants, driving, visible>>
       \/ \E p \in Pilots : entrants' = (entrants \cup {p}) \ (entrants \cap {p})
                            /\ UNCHANGED <<shared, driving, visible>>
       \/ \E u \in {v \in Users : PilotOf[v] = Nobody} :
             driving' = (driving \cup {u}) \ (driving \cap {u}) /\ UNCHANGED <<shared, entrants, visible>>
       \/ \E u \in Users : visible' = (visible \cup {u}) \ (visible \cap {u})
                           /\ UNCHANGED <<shared, entrants, driving>>
    /\ UNCHANGED <<stream, listening, message, sending, feed, publicThen>>

PubNext ==
    \/ \E s \in Subs : \/ \E k \in Kinds : OpenView(s, k)
                       \/ StartView(s) \/ Deliver(s) \/ CloseView(s) \/ RunCall(s)
    \/ \E x \in Subjects : PostFix(x)
    \/ ServeChannel
    \/ \E p \in Pilots : AnnounceFile(p)
    \/ Change

PubSpec == PubInit /\ [][PubNext]_pubvars

-----------------------------------------------------------------------------
(* Properties *)

Subject(m) == [pilot |-> message[m].pilot, user |-> message[m].user, filed |-> message[m].filed]

\* A stream shows only subjects that were public when it was opened, those the
\* lookups call safe for anonymous tracking, whatever else is published on its
\* channels or changes meanwhile (public.py 615-698, 784-795).
OnlyPublicShown ==
    \A s \in Subs, m \in 1..Len(message) :
        shown[s][m] > 0 =>
            IF message[m].file THEN message[m].pilot \in {x.pilot : x \in publicThen[s]}
            ELSE Subject(m) \in publicThen[s]

\* What was published for an open stream after it was opened is in its queue,
\* on the way, or sent, unless its queue was full: neither starting late nor
\* other streams that end or are dropped take a message away.
NothingMissed ==
    \A s \in Subs : \A m \in owed[s] :
        \/ stream[s].at \in {"ended", "abandoned"} \/ s \in full
        \/ sending # <<>> /\ m = Len(message)
        \/ shown[s][m] > 0 \/ m \in Elements(waiting[s]) \cup Elements(calls[s])

\* The channels hold no subscriber of a stream that has ended, only those of
\* viewers who left before it started; and all of an open stream's, unless an
\* announcement found its queue full: it then stays open and silent.
RegisteredWhileOpen ==
    \A s \in Subs : \A c \in Channels :
        /\ s \in listening[c] => /\ stream[s].at \in {"registered", "streaming", "abandoned"}
                                 /\ c \in Registered(s)
        /\ stream[s].at \in {"registered", "streaming"} /\ c \in Registered(s)
             => s \in listening[c] \cup (cut \cap full)

\* A position takes at most two places of a queue, and two only when its pilot
\* and its account are both channels of the stream (capacity 512 for both).
AtMostTwice ==
    \A s \in Subs, m \in 1..Len(message) :
        LET places == Cardinality({i \in DOMAIN waiting[s] : waiting[s][i] = m})
                      + Cardinality({i \in DOMAIN calls[s] : calls[s][i] = m})
        IN places <= IF stream[s].kind \in {"event", "all"}
                         /\ message[m].pilot \in Pilots /\ message[m].user \in Users THEN 2 ELSE 1

\* A stream is served whole, from its own registrations, and no position twice
\* but by the two channels of its subject.
StreamsServe == PubTypeOK /\ NothingMissed /\ RegisteredWhileOpen /\ AtMostTwice
=============================================================================
