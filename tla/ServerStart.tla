---------------------------- MODULE ServerStart ----------------------------
(***************************************************************************)
(* The start of the server (backend/app/main.py, lifespan, and             *)
(* db/schema.py, ensure_runtime_schema): the database of an earlier        *)
(* release is brought up to date, one transaction after another, before    *)
(* the first request is served.  Each transaction looks at what is there;  *)
(* the server may be killed between two of them and starts again.          *)
(*                                                                         *)
(* A column stands for those that one transaction adds.  Of the data there *)
(* are the broker's mode, one event that may be a challenge of an earlier  *)
(* release, and the turnpoint files that events select.                    *)
(***************************************************************************)
EXTENDS Naturals, Sequences, Functions, Database

CONSTANTS Files,
          MaxKills,    \* bound on the kills
          MaxChoices   \* bound on the administrator's changes

VARIABLES step,      \* the next transaction, none when the server is up
          columns,
          mode,      \* site_settings.mqtt_broker_mode
          meet,      \* the event; kind and listed are those of the earlier release
          owned,     \* the files of an earlier release, which belong to the event
          disabled,  \* those of them that were disabled
          slot,      \* event_turnpoint_slots: the files that the event has selected
          kills, choices,
          chosen    \* history: what was chosen when the server stopped, until the next choice

startvars == <<step, columns, mode, meet, owned, disabled, slot, kills, choices, chosen>>

\* What the transactions add; the tables are there, create_all has made them.
UserColumns == {"custom_scoring_formulas_json"}
SettingsColumns == {"mqtt_broker_mode"}
DeviceColumns == {"battery_level_seen_at"}
PasskeyColumns == {}
EventColumns == {"visibility", "enabled"}

\* The transactions, in their order; the last one is the session of lifespan.
Steps == <<"users", "settings", "devices", "passkeys", "library", "challenges", "events", "seed">>
\* The columns of each; the first is a mutant.
AddsSome(s) == CASE s = "settings" -> SettingsColumns [] s = "devices" -> DeviceColumns
                 [] s = "events" -> EventColumns [] OTHER -> {}
Adds(s) == CASE s = "users" -> UserColumns [] s = "settings" -> SettingsColumns
             [] s = "devices" -> DeviceColumns [] s = "passkeys" -> PasskeyColumns
             [] s = "events" -> EventColumns [] OTHER -> {}
Schema == UserColumns \cup SettingsColumns \cup DeviceColumns \cup PasskeyColumns \cup EventColumns
Legacy == {"event_kind"}

Modes == {"cloud_vm", "local_mosquitto"}
Visibilities == {"public", "participants", "private"}

ASSUME StartAssumption ==
    /\ None \notin DOMAIN Steps /\ None \notin Visibilities
    /\ MaxKills \in Nat /\ MaxChoices \in Nat

Selections == [mode : Modes, vis : Visibilities, slot : SUBSET Files]

StartTypeOK ==
    /\ step \in DOMAIN Steps \cup {None}
    /\ columns \subseteq Schema \cup Legacy
    /\ mode \in Modes \cup {"private", None}
    /\ meet \in [kind : {"challenge", "competition"}, listed : BOOLEAN, vis : Visibilities \cup {None}]
    /\ disabled \subseteq owned /\ owned \subseteq Files /\ slot \subseteq Files
    /\ kills \in 0..MaxKills /\ choices \in 0..MaxChoices
    /\ chosen \in Selections \cup {None}

\* What releases have left; create_all has added the tables.
StartInit ==
    /\ step = 1
    /\ columns \in SUBSET (Schema \cup Legacy)
    /\ mode \in IF "mqtt_broker_mode" \in columns THEN Modes \cup {"private"} ELSE {None}
    /\ meet \in [kind : IF "event_kind" \in columns THEN {"challenge", "competition"} ELSE {"competition"},
                  listed : BOOLEAN,
                  vis : IF "visibility" \in columns THEN Visibilities ELSE {None}]
    /\ owned \in SUBSET Files
    /\ disabled \in IF "enabled" \in columns THEN SUBSET owned ELSE {{}}
    /\ slot \in SUBSET (Files \ owned)
    /\ kills = 0 /\ choices = 0
    /\ chosen = None

Doing(s) == step # None /\ Steps[step] = s

-----------------------------------------------------------------------------
(* ensure_runtime_schema                                                   *)

NormalMode == IF mode \in {"private", "cloud_vm"} THEN "cloud_vm" ELSE "local_mosquitto"

\* _remove_challenge_schema: what was not listed is for its participants.
Hidden ==
    IF {"event_kind", "visibility"} \subseteq columns /\ meet.kind = "challenge"
          /\ meet.vis = "public" /\ ~meet.listed
    THEN [meet EXCEPT !.vis = "participants"] ELSE meet

\* A column that is added has its default, here of visibility.
WithDefaults == [meet EXCEPT !.vis = IF "visibility" \in columns THEN @ ELSE "private"]

\* _ensure_turnpoint_library_schema, on each start
BackfilledSlots == slot \cup (owned \ IF "enabled" \in columns THEN disabled ELSE {})

Migrate(s) ==
    /\ Doing(s)
    /\ columns' = (columns \cup Adds(s)) \ (IF s = "challenges" THEN Legacy ELSE {})
    /\ mode' = IF s = "settings" THEN NormalMode ELSE mode
    /\ slot' = IF s = "library" THEN BackfilledSlots ELSE slot
    /\ meet' = IF s = "challenges" THEN Hidden
                ELSE IF s = "events" THEN WithDefaults ELSE meet
    /\ step' = IF step = Len(Steps) THEN None ELSE step + 1
    /\ UNCHANGED <<owned, disabled, kills, choices, chosen>>

\* Killed, or stopped by an error; it is started again.
Kill ==
    /\ kills < MaxKills
    /\ kills' = kills + 1
    /\ step' = 1
    /\ chosen' = IF step = None THEN [mode |-> mode, vis |-> meet.vis, slot |-> slot] ELSE chosen
    /\ UNCHANGED <<columns, mode, meet, owned, disabled, slot, choices>>

-----------------------------------------------------------------------------
(* Requests                                                                *)

Choice ==
    /\ step = None
    /\ choices < MaxChoices
    /\ choices' = choices + 1
    /\ chosen' = None
    /\ UNCHANGED <<step, columns, owned, disabled, kills>>

\* update_site_settings, update_event.  The flags of the earlier release are gone
\* by then; the event is no challenge any more once its visibility was chosen.
SetMode == Choice /\ mode' \in Modes /\ UNCHANGED <<meet, slot>>
SetVisibility == /\ Choice
                 /\ \E v \in Visibilities : meet' = [meet EXCEPT !.vis = v, !.kind = "competition"]
                 /\ UNCHANGED <<mode, slot>>

\* select_event_turnpoint_source, deselect_event_turnpoint_source
SelectFile(f) == Choice /\ f \notin slot /\ slot' = slot \cup {f} /\ UNCHANGED <<mode, meet>>
DeselectFile(f) == Choice /\ f \in slot /\ slot' = slot \ {f} /\ UNCHANGED <<mode, meet>>

StartNext ==
    \/ \E s \in Range(Steps) : Migrate(s)
    \/ Kill \/ SetMode \/ SetVisibility
    \/ \E f \in Files : SelectFile(f) \/ DeselectFile(f)

StartFairness == \A s \in Range(Steps) : WF_startvars(Migrate(s))

-----------------------------------------------------------------------------
(* Properties                                                              *)

\* Once the server is up, the schema is the current one, from whatever release
\* and after whatever kills; and it comes up at last.
ServesCurrent == step = None => columns = Schema
ComesUp == <>[](step = None)

\* A challenge that was not listed is never public, unless an administrator made
\* it so: the flags are dropped in the transaction that uses them.
UnlistedStaysHidden ==
    step = None /\ meet.kind = "challenge" /\ ~meet.listed => meet.vis # "public"

\* What an administrator chose is there after the next start, and nothing else,
\* but for files that belong to the event: a later start selects them again.
ChoicesStand ==
    step = None /\ chosen # None =>
       mode = chosen.mode /\ meet.vis = chosen.vis /\ slot \ owned = chosen.slot \ owned
=============================================================================
