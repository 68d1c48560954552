------------------------------- MODULE Controls -------------------------------
(***************************************************************************)
(* The command entities of one charger (switch.py, number.py, select.py)   *)
(* over the coordinator they share: the charge, lock and Plug & Charge     *)
(* switches, the charging current and the time zone.                       *)
(*                                                                         *)
(* They are one protocol.  A service call shows the wanted value at once   *)
(* (the optimistic overlay), POSTs the command, polls it if the server     *)
(* answered with a command id, and then drops the overlay: with an error   *)
(* and a written state, or silently before it requests a refresh.  Each    *)
(* entity has a lock of its own; the coordinator is common.                *)
(***************************************************************************)
EXTENDS Coordinator

CONSTANTS
    Entities,       \* the command entities this charger has
    Polled,         \* those whose command the server queues (OCPP)
    IsOcpp,         \* the charger's is_ocpp flag
    Amps, MaxAmps,  \* settings of the charging current, and its upper bound
    Zones,          \* settings of the time zone
    StartWorlds,    \* states of the account at setup
    Elsewhere,      \* states other users and the charger itself lead to
    Calls           \* the service calls, 1 .. n in order of arrival (a bound)

Kinds == {"charge", "lock", "plug_and_charge", "max_current", "time_zone"}
Switches == {"charge", "lock", "plug_and_charge"}
Null == "null"                  \* None: no overlay, no value in the payload
Unavailable == "unavailable"    \* the state Home Assistant then shows
Free == 0                       \* a lock nobody holds

Settings(c) == IF c \in Switches THEN {"on", "off"}
               ELSE IF c = "max_current" THEN Amps ELSE Zones
Values == {"on", "off"} \cup Amps \cup Zones

ASSUME EntitiesAssumption == Entities \subseteq Kinds /\ Polled \subseteq Entities
ASSUME CallsAssumption == Calls \subseteq Nat \ {Free}
ASSUME SettingsAssumption ==
    MaxAmps \in Amps /\ {Null, Unavailable} \cap Values = {}

\* A world is one charger as GET /state reports it: its settings, any of which
\* may be null, the entities its flags (controllable, settings_controllable,
\* current_limit_controllable) let the user control, and whether it comes with
\* a transaction_id.  A charger missing from the roster controls nothing.
WorldType == [val : [Entities -> Values \cup {Null}],
              enabled : SUBSET Entities,
              tracked : BOOLEAN]

\* What a command that works does to it.
Effect(w, c, v) == [w EXCEPT !.val[c] = v,
                             !.tracked = IF c = "charge" THEN v = "on" ELSE @]

ASSUME WorldsAssumption ==
    /\ Worlds \subseteq WorldType
    /\ \A w \in Worlds, c \in Entities : w.val[c] \in Settings(c) \cup {Null}
    /\ StartWorlds \cup Elsewhere \subseteq Worlds
    /\ \A w \in Worlds, c \in Entities :
           \A v \in Settings(c) : Effect(w, c, v) \in Worlds

VARIABLES
    pc,         \* where each service call stands, or how it ended
    ctl, want,  \* the entity it is for, and the value it asks for
    job,        \* its command at the server
    lock,       \* the call that holds each entity's asyncio.Lock
    overlay,    \* the optimistic value of each entity
    written,    \* the state each entity last wrote to Home Assistant
    cut         \* (history) a refresh was cancelled for which an entity was
                \* waiting, and none has ended since

client == <<pc, ctl, want, lock, overlay, written>>
refreshing == <<data, ok, interval, timer, read, age, debouncer, reauth,
                revoked>>
allvars == <<vars, client, job, cut>>

(***************************************************************************)
(* The properties of the entities.                                         *)
(***************************************************************************)
\* `available`: the flag of the entity's payload; a switch whose value the
\* server never reported is unavailable too, unless an overlay is set.
AvailableWith(c, o, k, d) ==
    /\ k
    /\ c \in d.enabled
    /\ c \in {"lock", "plug_and_charge"} => o # Null \/ d.val[c] # Null

\* Mutant: the current is shown as reported.
ShownWithGap(c, o, d) ==
    IF o # Null THEN o
    ELSE IF c \in Switches /\ d.val[c] = Null THEN "off"
    ELSE d.val[c]

\* `is_on`, `native_value`, `current_option`: the overlay, else the payload.  A
\* switch nobody reported is off, a current is parked at its upper bound.
ShownWith(c, o, d) ==
    IF o # Null THEN o
    ELSE IF c \in Switches /\ d.val[c] = Null THEN "off"
    ELSE IF c = "max_current" /\ d.val[c] = Null THEN MaxAmps
    ELSE d.val[c]

\* What async_write_ha_state writes.
StateWith(c, o, k, d) ==
    IF AvailableWith(c, o, k, d) THEN ShownWith(c, o, d) ELSE Unavailable

Available(c) == AvailableWith(c, overlay[c], ok, data)
Shown(c) == ShownWith(c, overlay[c], data)

\* The state in Home Assistant is not the entity's own.
Stale(c) == written[c] # StateWith(c, overlay[c], ok, data)

ControlsInit ==
    /\ Init
    /\ world \in StartWorlds
    /\ pc = [p \in Calls |-> "idle"]
    /\ ctl = [p \in Calls |-> Null]
    /\ want = [p \in Calls |-> Null]
    /\ job = [p \in Calls |-> "none"]
    /\ lock = [c \in Entities |-> Free]
    /\ overlay = [c \in Entities |-> Null]
    /\ written = [c \in Entities |-> StateWith(c, Null, ok, data)]
    /\ cut = FALSE

(***************************************************************************)
(* A service call starts.                                                  *)
(***************************************************************************)
\* The next call is p; Home Assistant skips entities that are unavailable.
Called(p, c, v) ==
    /\ pc[p] = "idle"
    /\ \A q \in Calls : q < p => pc[q] # "idle"
    /\ c \in Entities
    /\ v \in Settings(c)
    /\ Available(c)
    /\ ctl' = [ctl EXCEPT ![p] = c]
    /\ want' = [want EXCEPT ![p] = v]
    /\ UNCHANGED <<vars, job, cut>>

\* Mutant: the locked() check is missing.
StartUnchecked(p, c, v) ==
    /\ Called(p, c, v)
    /\ pc' = [pc EXCEPT ![p] = "post"]
    /\ lock' = [lock EXCEPT ![c] = p]
    /\ overlay' = [overlay EXCEPT ![c] = v]
    /\ written' = [written EXCEPT ![c] = StateWith(c, v, ok, data)]

\* The lock is taken, the overlay set and written, and the POST sent.  While
\* the lock is held a second call raises at once, which changes nothing.
Start(p, c, v) ==
    /\ Called(p, c, v)
    /\ lock[c] = Free
    /\ pc' = [pc EXCEPT ![p] = "post"]
    /\ lock' = [lock EXCEPT ![c] = p]
    /\ overlay' = [overlay EXCEPT ![c] = v]
    /\ written' = [written EXCEPT ![c] = StateWith(c, v, ok, data)]

TurnOn(p) == Start(p, "charge", "on")

\* OCPP stops a transaction: without an id in the coordinator's data it raises.
TurnOff(p) == /\ IsOcpp => data.tracked
              /\ Start(p, "charge", "off")

SetLocked(p) == \E v \in {"on", "off"} : Start(p, "lock", v)
SetEnabled(p) == \E v \in {"on", "off"} : Start(p, "plug_and_charge", v)
SetNativeValue(p) == \E v \in Amps : Start(p, "max_current", v)

SelectOption(p) == \E v \in Zones : /\ "time_zone" \in Entities
                                    /\ v # Shown("time_zone")
                                    /\ Start(p, "time_zone", v)

\* The option already shown returns success before any other check.
SelectShown(p) == \E v \in Zones : /\ Called(p, "time_zone", v)
                                   /\ v = Shown("time_zone")
                                   /\ pc' = [pc EXCEPT ![p] = "noop"]
                                   /\ UNCHANGED <<lock, overlay, written>>

(***************************************************************************)
(* The server.  It may process a POST its caller no longer waits for.      *)
(***************************************************************************)
Takes(p) ==
    /\ job[p] = "none"
    /\ pc[p] \in {"post", "error", "cancelled"}
    /\ \/ /\ job' = [job EXCEPT ![p] = "refused"]     \* 4xx, or not accepted
          /\ UNCHANGED world
       \/ /\ ctl[p] \in world.enabled
          /\ IF ctl[p] \in Polled
             THEN /\ job' = [job EXCEPT ![p] = "queued"]
                  /\ UNCHANGED world
             ELSE /\ job' = [job EXCEPT ![p] = "accepted"]
                  /\ world' = Effect(world, ctl[p], want[p])
    /\ UNCHANGED <<refreshing, client, cut>>

\* The charger carries out a queued command, or it is rejected or expires.
Settles(p) ==
    /\ job[p] = "queued"
    /\ \/ /\ job' = [job EXCEPT ![p] = "accepted"]
          /\ world' = Effect(world, ctl[p], want[p])
       \/ /\ job' = [job EXCEPT ![p] = "refused"]
          /\ UNCHANGED world
    /\ UNCHANGED <<refreshing, client, cut>>

OutsideChange == /\ world' \in Elsewhere \ {world}
                 /\ UNCHANGED <<refreshing, client, job, cut>>

(***************************************************************************)
(* A service call ends.                                                    *)
(***************************************************************************)
\* Mutant: the overlay survives the error.
RevertForgets(p) ==
    /\ pc' = [pc EXCEPT ![p] = "error"]
    /\ lock' = [lock EXCEPT ![ctl[p]] = Free]
    /\ UNCHANGED <<vars, ctl, want, job, overlay, written, cut>>

\* Any failure: the overlay is dropped, the state written, the error raised.
Revert(p) ==
    LET c == ctl[p] IN
    /\ pc' = [pc EXCEPT ![p] = "error"]
    /\ lock' = [lock EXCEPT ![c] = Free]
    /\ overlay' = [overlay EXCEPT ![c] = Null]
    /\ written' = [written EXCEPT ![c] = StateWith(c, Null, ok, data)]
    /\ UNCHANGED <<vars, ctl, want, job, cut>>

\* Mutant: success ends without a refresh.
AcceptQuietly(p) ==
    /\ overlay' = [overlay EXCEPT ![ctl[p]] = Null]
    /\ pc' = [pc EXCEPT ![p] = "ok"]
    /\ lock' = [lock EXCEPT ![ctl[p]] = Free]
    /\ UNCHANGED <<vars, ctl, want, job, written, cut>>

\* Mutant: the overlay survives the success.
AcceptForgets(p) ==
    /\ \/ /\ \E t \in Tasks : RequestStarts(t)
          /\ pc' = [pc EXCEPT ![p] = "refresh"]
          /\ UNCHANGED lock
       \/ /\ RequestDeferred \/ RequestDropped
          /\ pc' = [pc EXCEPT ![p] = "ok"]
          /\ lock' = [lock EXCEPT ![ctl[p]] = Free]
    /\ UNCHANGED <<ctl, want, job, overlay, written, cut>>

\* Success: the overlay is dropped, nothing is written, and a refresh is
\* requested with the lock still held; the call only waits for a refresh that
\* it starts itself.
Accept(p) ==
    /\ overlay' = [overlay EXCEPT ![ctl[p]] = Null]
    /\ \/ /\ \E t \in Tasks : RequestStarts(t)
          /\ pc' = [pc EXCEPT ![p] = "refresh"]
          /\ UNCHANGED lock
       \/ /\ RequestDeferred \/ RequestDropped
          /\ pc' = [pc EXCEPT ![p] = "ok"]
          /\ lock' = [lock EXCEPT ![ctl[p]] = Free]
    /\ UNCHANGED <<ctl, want, job, written, cut>>

\* Mutant: a command id counts as success.
AnsweredUnpolled(p) ==
    /\ pc[p] = "post"
    /\ \/ job[p] \in {"accepted", "queued"} /\ Accept(p)
       \/ job[p] = "refused" /\ Revert(p)

\* The POST is answered: a synchronous outcome, or a command id to poll.
Answered(p) ==
    /\ pc[p] = "post"
    /\ \/ job[p] = "accepted" /\ Accept(p)
       \/ job[p] = "refused" /\ Revert(p)
       \/ /\ job[p] = "queued"
          /\ pc' = [pc EXCEPT ![p] = "poll"]
          /\ UNCHANGED <<vars, ctl, want, job, lock, overlay, written, cut>>

\* The POST or its answer is lost; the client's timeout, if nothing else.
Unanswered(p) == pc[p] = "post" /\ Revert(p)

\* Mutant: await_command without its deadline and without errors.
PollEndsOnVerdict(p) ==
    /\ pc[p] = "poll"
    /\ \/ job[p] = "accepted" /\ Accept(p)
       \/ job[p] = "refused" /\ Revert(p)

\* await_command ends (CommandVerdict): Deliver, or GiveUp at any time.
PollEnds(p) ==
    /\ pc[p] = "poll"
    /\ \/ job[p] = "accepted" /\ Accept(p)
       \/ Revert(p)

\* The task of the service call is cancelled (its script is stopped or
\* restarted) while the command is in flight.  CancelledError is no Exception:
\* the lock is released on the way out, and that is all.
Cancelled(p) ==
    /\ pc[p] \in {"post", "poll"}
    /\ pc' = [pc EXCEPT ![p] = "cancelled"]
    /\ lock' = [lock EXCEPT ![ctl[p]] = Free]
    /\ UNCHANGED <<vars, ctl, want, job, overlay, written, cut>>

(***************************************************************************)
(* The coordinator, as the entities see it.                                *)
(***************************************************************************)
\* The service call that awaits the requested refresh is over.
Returns(how) ==
    /\ pc' = [p \in Calls |-> IF pc[p] = "refresh" THEN how ELSE pc[p]]
    /\ lock' = [c \in Entities |->
                  IF \E p \in Calls : lock[c] = p /\ pc[p] = "refresh"
                  THEN Free ELSE lock[c]]

\* Mutant: an update shows what the server reports, command or not.
RefreshEndsRaw(t) ==
    /\ Finishes(t)
    /\ written' = [c \in Entities |-> StateWith(c, Null, ok', data')]
    /\ IF holder = t THEN Returns("ok") ELSE UNCHANGED <<pc, lock>>
    /\ cut' = FALSE
    /\ UNCHANGED <<ctl, want, job, overlay>>

\* A refresh ends: every entity writes its state, and the call that waited for
\* it returns.
RefreshEnds(t) ==
    /\ Finishes(t)
    /\ written' = [c \in Entities |-> StateWith(c, overlay[c], ok', data')]
    /\ IF holder = t THEN Returns("ok") ELSE UNCHANGED <<pc, lock>>
    /\ cut' = FALSE
    /\ UNCHANGED <<ctl, want, job, overlay>>

\* The call that awaits a requested refresh is cancelled, after it has dropped
\* its overlay and with the refresh; or it is the Refresh button's.
AwaitCancelled(t) ==
    /\ RefreshCancelled(t)
    /\ Returns("cut")
    /\ cut' = \E c \in Entities : Stale(c)
    /\ UNCHANGED <<ctl, want, job, overlay, written>>

\* The Refresh button.
PressRefresh(t) == RequestRefresh(t) /\ UNCHANGED <<client, job, cut>>

RefreshGoesOn(t) == /\ PollDue(t) \/ CooldownEnds(t) \/ Answering(t)
                    /\ UNCHANGED <<client, job, cut>>

Passing == (Tick \/ Revoke) /\ UNCHANGED <<client, job, cut>>

Starting(p) == \/ TurnOn(p)
               \/ TurnOff(p)
               \/ SetLocked(p)
               \/ SetEnabled(p)
               \/ SetNativeValue(p)
               \/ SelectOption(p)
               \/ SelectShown(p)

Ending(p) == \/ Answered(p)
             \/ Unanswered(p)
             \/ PollEnds(p)

ControlsNext ==
    \/ \E p \in Calls : \/ Starting(p)
                        \/ Ending(p)
                        \/ Cancelled(p)
                        \/ Takes(p)
                        \/ Settles(p)
    \/ \E t \in Tasks : \/ RefreshEnds(t)
                        \/ AwaitCancelled(t)
                        \/ PressRefresh(t)
                        \/ RefreshGoesOn(t)
    \/ OutsideChange
    \/ Passing

ControlsSpec == ControlsInit /\ [][ControlsNext]_allvars

\* What the coordinator's fairness assumes, and that every await of a service
\* call ends: the POST and the polling by their timeouts.  No fairness for the
\* server's commands: a call ends whether or not they are ever carried out.
ControlsFairness ==
    /\ WF_allvars(Passing)
    /\ \A p \in Calls : WF_allvars(Ending(p))
    /\ WF_allvars(\E t \in Tasks : RefreshGoesOn(t))
    /\ \A t \in Tasks :
        /\ WF_allvars(RefreshEnds(t))
        /\ WF_allvars(Answering(t) /\ UNCHANGED <<client, job, cut>>)
        /\ SF_allvars(AnswerState(t) /\ UNCHANGED <<client, job, cut>>)

FairControlsSpec == ControlsSpec /\ ControlsFairness

(***************************************************************************)
(* Properties.                                                             *)
(***************************************************************************)
InFlight == {"post", "poll"}
Live == InFlight \cup {"refresh"}
Ended == {"ok", "error", "cancelled", "cut"}

\* What an entity may write: a setting of its own, unavailable or, for the time
\* zone alone, unknown.
Writable(c, s) == \/ s \in Settings(c) \cup {Unavailable}
                  \/ c = "time_zone" /\ s = Null

\* Types; of the entities that are available only the time zone can be unknown.
ControlsTypeOK ==
    /\ pc \in [Calls -> Live \cup {"idle", "noop"} \cup Ended]
    /\ ctl \in [Calls -> Entities \cup {Null}]
    /\ want \in [Calls -> Values \cup {Null}]
    /\ job \in [Calls -> {"none", "queued", "accepted", "refused"}]
    /\ \A p \in Calls :
        \/ pc[p] = "idle" /\ job[p] = "none"
        \/ ctl[p] \in Entities /\ want[p] \in Settings(ctl[p])
    /\ lock \in [Entities -> Calls \cup {Free}]
    /\ overlay \in [Entities -> Values \cup {Null}]
    /\ written \in [Entities -> Values \cup {Null, Unavailable}]
    /\ \A c \in Entities :
        overlay[c] \in Settings(c) \cup {Null} /\ Writable(c, written[c])
    /\ cut \in BOOLEAN

\* A service call reports success only for a command the server carried out,
\* although the overlay has been showing success from the first instant.
SuccessMeansAccepted ==
    \A p \in Calls : pc[p] \in {"refresh", "ok", "cut"} => job[p] = "accepted"

\* One call at a time per entity: whoever is in a call, its refresh included,
\* holds the lock, and a lock that is held belongs to such a call.
SingleFlight ==
    /\ \A p \in Calls : pc[p] \in Live => lock[ctl[p]] = p
    /\ \A c \in Entities : lock[c] # Free => /\ ctl[lock[c]] = c
                                             /\ pc[lock[c]] \in Live

\* The overlay is the command in flight: as long as a call is in flight the
\* entity shows what that call asked for, and an overlay outside a call is one
\* that a cancelled call left behind.
OverlayIsTheCommand ==
    /\ \A p \in Calls : pc[p] \in InFlight => overlay[ctl[p]] = want[p]
    /\ \A c \in Entities : overlay[c] # Null =>
           \E p \in Calls : /\ ctl[p] = c
                            /\ want[p] = overlay[c]
                            /\ pc[p] \in InFlight \cup {"cancelled"}

\* What Home Assistant holds never flickers back while the command is in flight,
\* whatever payloads polls and other entities' refreshes bring in between: it is
\* the value asked for, or unavailable.  So is_on, native_value and
\* current_option have it, which return the overlay while one is set, and the
\* comment at switch.py:222 ("show as ON while command is in-flight").  The
\* docstrings at switch.py:200-201 and number.py:188-190 say otherwise: that the
\* value falls back to the coordinator's during a command, and that the overlay
\* goes with, or after, the next refresh.
NeverFlickers ==
    \A p \in Calls : pc[p] \in InFlight => written[ctl[p]] \in {want[p], Unavailable}

\* Dropping the overlay without writing the state is safe: whenever the state
\* in Home Assistant is not the entity's own, an update of all the entities is
\* under way or due, even if the requested refresh was deferred or dropped.
\* The exception is a cancelled refresh, the call's own or the one for which it
\* was dropped: the state then stands until the next poll, if there is one.
UpdateIsComing ==
    (\E c \in Entities : Stale(c))
        => \/ \E t \in Tasks : read[t] # Idle
           \/ cooldown = "again"
           \/ cut /\ (timer # Off \/ reauth \/ interval = 0)

\* A service call as a caller of CommandVerdict.
Verdict(p) == INSTANCE CommandVerdict WITH
    Verdicts <- {"accepted", "refused"},
    Pending <- "pending",
    Waiting <- "waiting",
    GaveUp <- "gave up",
    status <- IF job[p] \in {"none", "queued"} THEN "pending" ELSE job[p],
    outcome <- IF pc[p] \in {"refresh", "ok", "cut"} THEN "accepted"
               ELSE IF pc[p] \in {"error", "cancelled", "noop"} THEN "gave up"
               ELSE "waiting"

CallersWait == \A p \in Calls : Verdict(p)!Init
CallersStep == \A p \in Calls : [Verdict(p)!Next]_(Verdict(p)!vars)

\* Every service call keeps the promise of a command: what the server makes of
\* it is settled once, a success is that verdict and stays one, and an error or
\* a cancellation before it only means that the caller has stopped waiting.
CallsKeepPromise == CallersWait /\ [][CallersStep]_<<pc, job>>

\* Every service call ends.
CallsEnd == \A p \in Calls : pc[p] \in Live ~> pc[p] \in Ended

\* Once the account stays as it is, and unless a command was cancelled in flight
\* or the token revoked, what the entities show settles on what the server has,
\* if requested refreshes are not cancelled over and over, and short of a
\* Retry-After of 0, after which nobody requests a refresh.
Converges ==
    (/\ <>[][UNCHANGED world]_allvars
     /\ CancelsEnd
     /\ [](~revoked)
     /\ [](\A p \in Calls : pc[p] # "cancelled"))
        => \/ <>[](\A c \in Entities : written[c] = StateWith(c, Null, ok, world))
           \/ <>[]Stopped

\* "show as ON while command is in-flight" (switch.py:222), "no fake state"
\* (README-EN.md:83): no overlay outlives its command.
NoFakeState == \A c \in Entities : lock[c] = Free => overlay[c] = Null
=============================================================================
