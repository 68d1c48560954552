----------------------------- MODULE EvdutyNumber -----------------------------
(***************************************************************************)
(* RoulezElectriqueEvdutyMaxCurrentNumber (number.py): the maximum current *)
(* of an EVduty borne.  Nothing reports the borne's setting back, so the   *)
(* entity remembers what it applied, in _applied_value while it lives and  *)
(* through RestoreNumber when the integration is reloaded or Home          *)
(* Assistant restarts.  A reload leaves calls in flight to the entity that *)
(* is gone; the server goes on with what it was sent.                      *)
(***************************************************************************)
EXTENDS Naturals

CONSTANTS
    Amps,           \* the settings of the borne
    Calls,          \* the service calls, 1 .. n in order of arrival (a bound)
    Interruptions   \* which of the events below happen

Events == {"cancel", "reload", "crash", "baseline"}

ASSUME CallsAssumption == Calls \subseteq Nat
ASSUME InterruptionsAssumption == Interruptions \subseteq Events

None == 0           \* no value, 0 A
ASSUME AmpsAssumption == Amps \subseteq Nat \ {None}

VARIABLES
    borne,      \* the current the borne holds
    ceiling,    \* max_current_max in the coordinator's data
    loaded,     \* the entity exists
    applied,    \* its _applied_value
    saved,      \* the native_value RestoreNumber keeps for it
    disk,       \* the same, as last written to disk
    forgot,     \* a crash has lost a value that was not on disk (history)
    pc,         \* where each call stands, or how it ended
    own,        \* its entity has not been replaced while it was in flight
    want,       \* the amperes it asks for
    previous,   \* the local of that name: the value to revert to
    out,        \* what the server made of it
    confirmed   \* confirmed_amps of its result

entity == <<loaded, applied, saved, disk, forgot>>
server == <<borne, ceiling, out, confirmed>>
call == <<pc, own, want, previous>>
vars == <<entity, server, call>>

\* native_value: the applied value, else the ceiling.
NativeValue == IF applied # None THEN applied ELSE ceiling

Init == /\ borne \in Amps
        /\ ceiling \in Amps
        /\ loaded = TRUE
        /\ applied = None
        /\ saved = None
        /\ disk = None
        /\ forgot = FALSE
        /\ pc = [p \in Calls |-> "idle"]
        /\ own = [p \in Calls |-> TRUE]
        /\ want = [p \in Calls |-> None]
        /\ previous = [p \in Calls |-> None]
        /\ out = [p \in Calls |-> "none"]
        /\ confirmed = [p \in Calls |-> None]

(***************************************************************************)
(* async_set_native_value.                                                 *)
(***************************************************************************)
\* The lock of the entity is held by the call of its own that is in flight.
InFlight == {"post", "refresh"}
Waits(p) == pc[p] \in InFlight /\ own[p]
Locked == \E p \in Calls : Waits(p)

\* Mutant: the amperes are read from the entity before they are set.
SetNativeValueStale(p) ==
    /\ loaded
    /\ ~Locked
    /\ pc[p] = "idle"
    /\ \A q \in Calls : q < p => pc[q] # "idle"
    /\ want' = [want EXCEPT ![p] = applied]
    /\ applied' \in Amps
    /\ previous' = [previous EXCEPT ![p] = applied]
    /\ pc' = [pc EXCEPT ![p] = "post"]
    /\ UNCHANGED <<loaded, saved, disk, forgot, server, own>>

\* Mutant: the locked() check is missing.
SetNativeValueUnchecked(p) ==
    /\ loaded
    /\ pc[p] = "idle"
    /\ \A q \in Calls : q < p => pc[q] # "idle"
    /\ \E a \in Amps :
        /\ a <= ceiling
        /\ want' = [want EXCEPT ![p] = a]
        /\ applied' = a
    /\ previous' = [previous EXCEPT ![p] = applied]
    /\ pc' = [pc EXCEPT ![p] = "post"]
    /\ UNCHANGED <<loaded, saved, disk, forgot, server, own>>

\* Home Assistant lets no value above native_max_value through.  The value is
\* remembered at once and the request sent; a call that finds the lock held
\* raises, which changes nothing.
SetNativeValue(p) ==
    /\ loaded
    /\ ~Locked
    /\ pc[p] = "idle"
    /\ \A q \in Calls : q < p => pc[q] # "idle"
    /\ \E a \in Amps :
        /\ a <= ceiling
        /\ want' = [want EXCEPT ![p] = a]
        /\ applied' = a
    /\ previous' = [previous EXCEPT ![p] = applied]
    /\ pc' = [pc EXCEPT ![p] = "post"]
    /\ UNCHANGED <<loaded, saved, disk, forgot, server, own>>

\* The request is over; the call touches the entity of its own only.
Ends(p, how, value) ==
    /\ pc[p] = "post"
    /\ pc' = [pc EXCEPT ![p] = how]
    /\ applied' = IF own[p] THEN value ELSE applied
    /\ UNCHANGED <<loaded, saved, disk, forgot, server, own, want, previous>>

\* ok: the confirmed value, or the one asked for, and a refresh is awaited with
\* the lock held.
Applied(p) ==
    /\ out[p] = "ok"
    /\ Ends(p, "refresh", IF confirmed[p] # None THEN confirmed[p] ELSE want[p])

\* The refresh is over.
Refreshed(p) == /\ pc[p] = "refresh"
                /\ pc' = [pc EXCEPT ![p] = "ok"]
                /\ UNCHANGED <<entity, server, own, want, previous>>

\* Not ok, but confirmed: the confirmed value is kept and the error raised.
Partial(p) == /\ out[p] = "partial"
              /\ Ends(p, "partial", confirmed[p])

\* Mutant: the error leaves the value as it is.
FailedKeeps(p) == /\ out[p] \in {"refused", "step"}
                  /\ Ends(p, out[p], want[p])

\* Refused, or failed at a step: revert() and raise.
Failed(p) == /\ out[p] \in {"refused", "step"}
             /\ Ends(p, out[p], previous[p])

\* The request or its answer is lost, or the 75 s are over: the same.
Unanswered(p) == Ends(p, "lost", previous[p])

\* The task of the call is cancelled: no handler catches CancelledError.
Cancelled(p) == /\ "cancel" \in Interruptions
                /\ pc[p] \in InFlight
                /\ pc' = [pc EXCEPT ![p] = "cancelled"]
                /\ UNCHANGED <<entity, server, own, want, previous>>

(***************************************************************************)
(* The server, which may act on a request nobody waits for any more.       *)
(***************************************************************************)
\* ok, with or without the value read back, or confirmed although not ok; a
\* borne may settle on another value than the one asked for.
Carries(p, how) ==
    /\ borne' \in Amps
    /\ out' = [out EXCEPT ![p] = how]
    /\ \/ confirmed' = [confirmed EXCEPT ![p] = borne']
       \/ how = "ok" /\ borne' = want[p] /\ UNCHANGED confirmed

\* Refused (409, 403, 429): the borne is not asked.  Failed at a step: the new
\* value may have reached it or not.
Declines(p, how) ==
    /\ borne' \in IF how = "step" THEN {borne, want[p]} ELSE {borne}
    /\ out' = [out EXCEPT ![p] = how]
    /\ UNCHANGED confirmed

Takes(p) == /\ out[p] = "none"
            /\ pc[p] \in {"post", "lost", "cancelled"}
            /\ \/ \E how \in {"ok", "partial"} : Carries(p, how)
               \/ \E how \in {"refused", "step"} : Declines(p, how)
            /\ UNCHANGED <<entity, call, ceiling>>

\* The server reports another install baseline.
BaselineChanges == /\ "baseline" \in Interruptions
                   /\ ceiling' \in Amps \ {ceiling}
                   /\ UNCHANGED <<entity, call, borne, out, confirmed>>

(***************************************************************************)
(* Home Assistant.                                                         *)
(***************************************************************************)
\* The entity is gone; a call in flight goes on without it.
Removed == /\ loaded' = FALSE
           /\ applied' = None
           /\ own' = [p \in Calls |-> own[p] /\ pc[p] \notin InFlight]

\* The integration is unloaded: RestoreNumber keeps the value last shown.
Unload == /\ "reload" \in Interruptions
          /\ loaded
          /\ saved' = NativeValue
          /\ Removed
          /\ UNCHANGED <<disk, forgot, server, pc, want, previous>>

\* The integration is set up: async_added_to_hass restores.
Load == /\ ~loaded
        /\ loaded' = TRUE
        /\ applied' = saved
        /\ UNCHANGED <<saved, disk, forgot, server, call>>

Kept == IF loaded THEN NativeValue ELSE saved

\* The periodic dump of the states, and the one at shutdown.
Dump == /\ disk' = Kept
        /\ UNCHANGED <<loaded, applied, saved, forgot, server, call>>

\* Home Assistant stops without a dump: its calls are lost, and what it kept.
Crash == /\ "crash" \in Interruptions
         /\ saved' = disk
         /\ forgot' = (forgot \/ disk # Kept)
         /\ Removed
         /\ pc' = [p \in Calls |-> IF pc[p] \in InFlight THEN "lost"
                                          ELSE pc[p]]
         /\ UNCHANGED <<disk, server, want, previous>>

Next == \/ \E p \in Calls : \/ SetNativeValue(p)
                            \/ Applied(p)
                            \/ Refreshed(p)
                            \/ Partial(p)
                            \/ Failed(p)
                            \/ Unanswered(p)
                            \/ Cancelled(p)
                            \/ Takes(p)
        \/ BaselineChanges
        \/ Unload
        \/ Load
        \/ Dump
        \/ Crash

Spec == Init /\ [][Next]_vars

(***************************************************************************)
(* Properties.                                                             *)
(***************************************************************************)
\* Types; a call that was made asks for a setting of the borne.
TypeOK == /\ borne \in Amps
          /\ ceiling \in Amps
          /\ loaded \in BOOLEAN
          /\ applied \in Amps \cup {None}
          /\ saved \in Amps \cup {None}
          /\ disk \in Amps \cup {None}
          /\ forgot \in BOOLEAN
          /\ pc \in [Calls -> InFlight \cup {"idle", "ok", "partial",
                                            "refused", "step", "lost", "cancelled"}]
          /\ own \in [Calls -> BOOLEAN]
          /\ want \in [Calls -> Amps \cup {None}]
          /\ \A p \in Calls : pc[p] # "idle" => want[p] \in Amps
          /\ previous \in [Calls -> Amps \cup {None}]
          /\ out \in [Calls -> {"none", "ok", "partial", "refused", "step"}]
          /\ confirmed \in [Calls -> Amps \cup {None}]

\* Every call so far ended with an outcome that tells what the borne holds,
\* and told it to the entity; no crash has lost a value since.
Certain == /\ \A p \in Calls : /\ pc[p] \in {"idle", "refresh", "ok", "partial", "refused"}
                               /\ own[p]
           /\ ~forgot

\* The blind entity is right when it can be: if every call ended with a
\* definite outcome, at least one of them by setting the borne, the entity
\* shows what the borne holds, through refusals, partial outcomes and reloads.
ShownIsHeld ==
    loaded /\ Certain /\ (\E p \in Calls : pc[p] \in {"refresh", "ok", "partial"})
        => NativeValue = borne

\* One call at a time waits for the borne on behalf of the entity, in whichever
\* way the ones before it ended and however often the entity was replaced.
OneAtATime == \A p, q \in Calls : Waits(p) /\ Waits(q) => p = q

\* "The last value this entity applied, else the baseline ceiling"
\* (number.py:332): an entity that never applied anything shows the ceiling.
UnappliedShowsCeiling ==
    loaded /\ (\A p \in Calls : pc[p] = "idle") => NativeValue = ceiling
=============================================================================
