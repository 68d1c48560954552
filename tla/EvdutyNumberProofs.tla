-------------------------- MODULE EvdutyNumberProofs --------------------------
(***************************************************************************)
(* The invariants of EvdutyNumber, for any number of calls, any settings   *)
(* and any interruptions.                                                  *)
(***************************************************************************)
EXTENDS EvdutyNumber, TLAPS

\* A call that waits has its entity, and a call not made was not answered.
Bookkeeping ==
    \A p \in Calls : /\ Waits(p) => loaded
                     /\ pc[p] = "idle" => out[p] = "none"
                     /\ out[p] = "none" => confirmed[p] = None

\* No call has ended, so far, in a way that leaves the borne unknown.
Undisturbed ==
    /\ \A p \in Calls : /\ own[p]
                        /\ pc[p] \in InFlight \cup {"idle", "ok", "partial", "refused"}
    /\ ~forgot

HasSet == \E p \in Calls : pc[p] \in {"refresh", "ok", "partial"}
Remembered == IF loaded THEN applied ELSE saved

\* Between two calls the entity remembers the borne's setting; during one, the
\* value to revert to is that setting until the borne has changed, and then the
\* answer on its way tells it.
Truth ==
    Undisturbed =>
        /\ HasSet /\ (\A p \in Calls : pc[p] # "post") => Remembered = borne
        /\ \A p \in Calls : pc[p] = "post" =>
            /\ HasSet /\ out[p] \in {"none", "refused"} => previous[p] = borne
            /\ out[p] = "ok" => borne = IF confirmed[p] # None THEN confirmed[p]
                                                               ELSE want[p]
            /\ out[p] = "partial" => borne = confirmed[p]

IInv == TypeOK /\ OneAtATime /\ Bookkeeping /\ Truth

LEMMA InitIInv == Init => IInv
BY AmpsAssumption, CallsAssumption
   DEF Init, IInv, TypeOK, OneAtATime, Waits, InFlight, Bookkeeping, Truth,
       Undisturbed, HasSet

\* A service call is made.
LEMMA SetIInv ==
    ASSUME IInv, NEW p \in Calls, SetNativeValue(p)
    PROVE  IInv'
<1> USE AmpsAssumption DEF SetNativeValue, IInv, server
<1>1. TypeOK'
  BY DEF TypeOK, InFlight
<1>2. OneAtATime'
  BY DEF TypeOK, OneAtATime, Locked, Waits, InFlight
<1>3. Bookkeeping'
  BY DEF TypeOK, Bookkeeping, Waits, InFlight
<1>4. Truth'
  <2> SUFFICES ASSUME Undisturbed' PROVE Truth'
    BY DEF Truth
  <2>1. Undisturbed /\ \A q \in Calls : pc[q] \notin InFlight
    BY DEF TypeOK, Undisturbed, Locked, Waits, InFlight
  <2>2. HasSet' => HasSet
    BY DEF TypeOK, HasSet
  <2>3. HasSet => applied = borne
    BY <2>1 DEF Truth, Remembered, InFlight
  <2>4. \A q \in Calls : pc'[q] = "post" => q = p
    BY <2>1 DEF TypeOK, InFlight
  <2>5. out'[p] = "none" /\ previous'[p] = applied /\ pc'[p] = "post" /\ borne' = borne
    BY DEF TypeOK, Bookkeeping
  <2> QED
    BY <2>2, <2>3, <2>4, <2>5 DEF Truth
<1> QED
  BY <1>1, <1>2, <1>3, <1>4

\* A request is over.
LEMMA EndsIInv ==
    ASSUME IInv, NEW p \in Calls, Applied(p) \/ Partial(p) \/ Failed(p) \/ Unanswered(p)
    PROVE  IInv'
<1> USE DEF IInv, server
<1> PICK how \in {"refresh", "partial", "refused", "step", "lost"},
         value \in Amps \cup {None} : Ends(p, how, value)
  BY DEF TypeOK, Applied, Partial, Failed, Unanswered
<1>1. TypeOK'
  BY DEF Ends, TypeOK, InFlight
<1>2. OneAtATime'
  BY DEF Ends, TypeOK, OneAtATime, Waits, InFlight
<1>3. Bookkeeping'
  BY DEF Ends, TypeOK, Bookkeeping, Waits, InFlight
<1>4. Truth'
  <2> SUFFICES ASSUME Undisturbed' PROVE Truth'
    BY DEF Truth
  <2>1. Undisturbed /\ Waits(p) /\ pc[p] = "post"
    BY DEF Ends, TypeOK, Undisturbed, Waits, InFlight
  <2>2. \A q \in Calls : pc'[q] # "post"
    BY <2>1 DEF Ends, TypeOK, OneAtATime, Waits, InFlight, Undisturbed
  <2>3. loaded' /\ borne' = borne
    BY <2>1 DEF Ends, Bookkeeping
  <2>4. HasSet' => applied' = borne
    <3>1. CASE Applied(p)
      BY <2>1, <3>1 DEF Applied, Ends, Truth, Undisturbed
    <3>2. CASE Partial(p)
      BY <2>1, <3>2 DEF Partial, Ends, Truth, Undisturbed
    <3>3. CASE Failed(p)
      <4>1. out[p] = "refused"
        BY <3>3 DEF Failed, Ends, Undisturbed, InFlight, TypeOK
      <4>2. HasSet' => HasSet
        BY <3>3 DEF Failed, Ends, HasSet, TypeOK
      <4> QED
        BY <2>1, <3>3, <4>1, <4>2 DEF Failed, Ends, Truth, Undisturbed
    <3>4. CASE Unanswered(p)
      BY <3>4 DEF Unanswered, Ends, Undisturbed, InFlight, TypeOK
    <3> QED
      BY <3>1, <3>2, <3>3, <3>4
  <2> QED
    BY <2>2, <2>3, <2>4 DEF Truth, Remembered
<1> QED
  BY <1>1, <1>2, <1>3, <1>4

\* A refresh ends, or a call is cancelled.
LEMMA LeavesIInv ==
    ASSUME IInv, NEW p \in Calls, Refreshed(p) \/ Cancelled(p)
    PROVE  IInv'
<1> USE DEF IInv, server, entity, Refreshed, Cancelled
<1>1. TypeOK'
  BY DEF TypeOK, InFlight
<1>2. OneAtATime'
  BY DEF TypeOK, OneAtATime, Waits, InFlight
<1>3. Bookkeeping'
  BY DEF TypeOK, Bookkeeping, Waits, InFlight
<1>4. Truth'
  <2> SUFFICES ASSUME Undisturbed' PROVE Truth'
    BY DEF Truth
  <2>1. Undisturbed /\ pc[p] = "refresh" /\ pc' = [pc EXCEPT ![p] = "ok"]
    BY DEF Undisturbed, TypeOK, InFlight
  <2>2. HasSet' <=> HasSet
    BY <2>1 DEF HasSet, TypeOK
  <2>3. \A q \in Calls : pc'[q] = "post" <=> pc[q] = "post"
    BY <2>1 DEF TypeOK
  <2>4. UNCHANGED <<loaded, applied, saved, borne, out, confirmed, want, previous>>
    OBVIOUS
  <2> QED
    BY <2>1, <2>2, <2>3, <2>4 DEF Truth, Remembered
<1> QED
  BY <1>1, <1>2, <1>3, <1>4

\* The server takes a request.
LEMMA TakesIInv ==
    ASSUME IInv, NEW p \in Calls, Takes(p)
    PROVE  IInv'
<1> USE AmpsAssumption DEF IInv, entity, call, Takes
<1>1. TypeOK'
  BY DEF TypeOK, InFlight, Carries, Declines
<1>2. OneAtATime'
  BY DEF OneAtATime, Waits
<1>3. Bookkeeping'
  BY DEF TypeOK, Bookkeeping, Waits, Carries, Declines
<1>4. Truth'
  <2> SUFFICES ASSUME Undisturbed' PROVE Truth'
    BY DEF Truth
  <2>1. Undisturbed /\ pc[p] = "post" /\ out[p] = "none"
    BY DEF Undisturbed, TypeOK, InFlight
  <2>2. \A q \in Calls : pc[q] = "post" => q = p
    BY <2>1 DEF Undisturbed, OneAtATime, Waits, InFlight
  <2>3. HasSet' <=> HasSet
    BY DEF HasSet
  <2>4. HasSet => previous[p] = borne
    BY <2>1 DEF Truth
  <2>5. /\ HasSet /\ out'[p] \in {"none", "refused"} => previous[p] = borne'
        /\ out'[p] = "ok" => borne' = IF confirmed'[p] # None THEN confirmed'[p]
                                                              ELSE want[p]
        /\ out'[p] = "partial" => borne' = confirmed'[p]
    <3>1. CASE \E how \in {"ok", "partial"} : Carries(p, how)
      <4>1. confirmed[p] = None /\ borne' # None
        BY <2>1, <3>1 DEF Bookkeeping, Carries
      <4> QED
        BY <3>1, <2>1, <4>1 DEF Carries, TypeOK
    <3>2. CASE \E how \in {"refused", "step"} : Declines(p, how)
      BY <3>2, <2>4 DEF Declines, TypeOK
    <3> QED
      BY <3>1, <3>2
  <2> QED
    BY <2>1, <2>2, <2>3, <2>5 DEF Truth
<1> QED
  BY <1>1, <1>2, <1>3, <1>4
\* Home Assistant reports another ceiling, dumps its states, stops or reloads.
LEMMA OutsideIInv ==
    ASSUME IInv, BaselineChanges \/ Unload \/ Load \/ Dump \/ Crash
    PROVE  IInv'
<1> USE DEF IInv, entity, call, server
<1>1. CASE BaselineChanges
  BY <1>1 DEF BaselineChanges, TypeOK, OneAtATime, Waits, Bookkeeping, Truth,
              Undisturbed, HasSet, Remembered
<1>2. CASE Dump
  <2>1. Kept \in Amps \cup {None}
    BY DEF TypeOK, Kept, NativeValue
  <2> QED
    BY <1>2, <2>1 DEF Dump, TypeOK, OneAtATime, Waits, Bookkeeping, Truth,
                      Undisturbed, HasSet, Remembered
<1>3. CASE Load
  <2>1. \A p \in Calls : ~Waits(p)
    BY <1>3 DEF Load, Bookkeeping
  <2> QED
    BY <1>3, <2>1 DEF Load, TypeOK, OneAtATime, Waits, Bookkeeping, Truth,
                      Undisturbed, HasSet, Remembered
<1>4. CASE Unload
  <2>1. TypeOK'
    BY <1>4 DEF Unload, Removed, TypeOK, NativeValue
  <2>2. OneAtATime' /\ Bookkeeping'
    BY <1>4 DEF Unload, Removed, TypeOK, OneAtATime, Waits, Bookkeeping
  <2>3. Truth'
    <3> SUFFICES ASSUME Undisturbed' PROVE Truth'
      BY DEF Truth
    <3>1. Undisturbed /\ \A p \in Calls : pc[p] # "post"
      BY <1>4 DEF Unload, Removed, Undisturbed, InFlight, TypeOK
    <3>2. HasSet => applied = borne
      BY <1>4, <3>1 DEF Unload, Truth, Remembered
    <3>3. HasSet => saved' = borne
      BY <1>4, <3>2, AmpsAssumption DEF Unload, NativeValue, TypeOK
    <3>4. HasSet' <=> HasSet
      BY <1>4 DEF Unload, HasSet
    <3> QED
      BY <1>4, <3>1, <3>3, <3>4 DEF Unload, Removed, Truth, Remembered
  <2> QED
    BY <2>1, <2>2, <2>3
<1>5. CASE Crash
  <2>1. TypeOK'
    BY <1>5 DEF Crash, Removed, TypeOK, InFlight
  <2>2. OneAtATime' /\ Bookkeeping'
    BY <1>5 DEF Crash, Removed, TypeOK, OneAtATime, Waits, Bookkeeping, InFlight
  <2>3. Truth'
    <3> SUFFICES ASSUME Undisturbed' PROVE Truth'
      BY DEF Truth
    <3>1. /\ Undisturbed
          /\ pc' = pc
          /\ \A p \in Calls : pc[p] # "post"
          /\ disk = Kept
      BY <1>5 DEF Crash, Removed, Undisturbed, InFlight, TypeOK
    <3>2. HasSet => Remembered = borne
      BY <3>1 DEF Truth
    <3>3. HasSet => Kept = borne
      BY <3>2, AmpsAssumption DEF Kept, Remembered, NativeValue, TypeOK
    <3>4. HasSet' <=> HasSet
      BY <3>1 DEF HasSet
    <3> QED
      BY <1>5, <3>1, <3>3, <3>4 DEF Crash, Removed, Truth, Remembered
  <2> QED
    BY <2>1, <2>2, <2>3
<1> QED
  BY <1>1, <1>2, <1>3, <1>4, <1>5

LEMMA NextIInv == IInv /\ [Next]_vars => IInv'
<1> SUFFICES ASSUME IInv, [Next]_vars PROVE IInv'
  OBVIOUS
<1>1. ASSUME NEW p \in Calls, SetNativeValue(p) PROVE IInv'
  BY <1>1, SetIInv
<1>2. ASSUME NEW p \in Calls, Applied(p) \/ Partial(p) \/ Failed(p) \/ Unanswered(p)
      PROVE IInv'
  BY <1>2, EndsIInv
<1>3. ASSUME NEW p \in Calls, Refreshed(p) \/ Cancelled(p) PROVE IInv'
  BY <1>3, LeavesIInv
<1>4. ASSUME NEW p \in Calls, Takes(p) PROVE IInv'
  BY <1>4, TakesIInv
<1>5. CASE BaselineChanges \/ Unload \/ Load \/ Dump \/ Crash
  BY <1>5, OutsideIInv
<1>6. CASE UNCHANGED vars
  BY <1>6 DEF vars, entity, server, call, IInv, TypeOK, OneAtATime, Waits,
              Bookkeeping, Truth, Undisturbed, HasSet, Remembered
<1> QED
  BY <1>1, <1>2, <1>3, <1>4, <1>5, <1>6 DEF Next

LEMMA IInvAlways == Spec => []IInv
BY InitIInv, NextIInv, PTL DEF Spec

(***************************************************************************)
(* The theorems.                                                           *)
(***************************************************************************)
\* The types: what is remembered, saved and sent is a setting of the borne.
THEOREM EvdutyTypeCorrect == Spec => []TypeOK
<1>1. IInv => TypeOK
  BY DEF IInv
<1> QED
  BY <1>1, IInvAlways, PTL

\* The lock of the entity (number.py:346-354) leaves one call at a time waiting
\* for the borne, however calls end and however often the entity is replaced.
THEOREM OneCallAtATime == Spec => []OneAtATime
<1>1. IInv => OneAtATime
  BY DEF IInv
<1> QED
  BY <1>1, IInvAlways, PTL

\* The entity that nothing reports back to shows what the borne holds, as long
\* as every call ended with a definite outcome (number.py:351-412), and through
\* reloads and restarts that lose nothing (number.py:297-302).
THEOREM BlindButRight == Spec => []ShownIsHeld
<1>1. IInv => ShownIsHeld
  <2> SUFFICES ASSUME IInv, loaded, Certain,
                      \E p \in Calls : pc[p] \in {"refresh", "ok", "partial"}
               PROVE  NativeValue = borne
    BY DEF ShownIsHeld
  <2>1. Undisturbed /\ HasSet /\ \A p \in Calls : pc[p] # "post"
    BY DEF Certain, Undisturbed, HasSet, InFlight
  <2>2. applied = borne
    BY <2>1 DEF IInv, Truth, Remembered
  <2> QED
    BY <2>2, AmpsAssumption DEF IInv, TypeOK, NativeValue
<1> QED
  BY <1>1, IInvAlways, PTL

(***************************************************************************)
(* When an entity that never applied anything shows the ceiling.           *)
(***************************************************************************)
Unused == \A p \in Calls : pc[p] = "idle"

\* Without an interruption nothing is remembered before the first call; with
\* one, what is remembered is a ceiling that was shown.
NothingRemembered == Unused => loaded /\ applied = None
CeilingRemembered == Unused => {applied, saved, disk} \subseteq {None, ceiling}

\* A call that was made stays one, and only Home Assistant and the baseline
\* act on an entity nobody has called yet.
LEMMA UnusedSteps ==
    ASSUME TypeOK, [Next]_vars, Unused'
    PROVE  /\ Unused
           /\ \/ BaselineChanges
              \/ Unload
              \/ Load
              \/ Dump
              \/ Crash
              \/ UNCHANGED <<loaded, applied, saved, disk, ceiling>>
<1> USE DEF Unused, TypeOK
<1>1. ASSUME NEW p \in Calls, SetNativeValue(p) PROVE FALSE
  BY <1>1 DEF SetNativeValue
<1>2. ASSUME NEW p \in Calls, Applied(p) \/ Partial(p) \/ Failed(p) \/ Unanswered(p)
      PROVE  FALSE
  BY <1>2 DEF Applied, Partial, Failed, Unanswered, Ends
<1>3. ASSUME NEW p \in Calls, Refreshed(p) \/ Cancelled(p) PROVE FALSE
  BY <1>3 DEF Refreshed, Cancelled
<1>4. ASSUME NEW p \in Calls, Takes(p)
      PROVE  Unused /\ UNCHANGED <<loaded, applied, saved, disk, ceiling>>
  BY <1>4 DEF Takes, entity, call
<1>5. CASE BaselineChanges \/ Unload \/ Load \/ Dump
  BY <1>5 DEF BaselineChanges, Unload, Load, Dump, call, entity, server
<1>6. CASE Crash
  BY <1>6 DEF Crash, InFlight
<1>7. CASE UNCHANGED vars
  BY <1>7 DEF vars, entity, server, call
<1> QED
  BY <1>1, <1>2, <1>3, <1>4, <1>5, <1>6, <1>7 DEF Next

\* The documented fallback (number.py:332) holds unless the baseline changes
\* AND the entity is replaced: as long as one of the two does not happen, an
\* entity that never applied anything shows the ceiling.
THEOREM FallbackHoldsUnlessBoth ==
    ASSUME \/ "baseline" \notin Interruptions
           \/ {"reload", "crash"} \cap Interruptions = {}
    PROVE  Spec => []UnappliedShowsCeiling
<1>1. CASE "baseline" \notin Interruptions
  <2>1. Init => CeilingRemembered
    BY DEF Init, CeilingRemembered
  <2>2. IInv /\ CeilingRemembered /\ [Next]_vars => CeilingRemembered'
    <3> SUFFICES ASSUME IInv, CeilingRemembered, [Next]_vars, Unused'
                 PROVE  {applied', saved', disk'} \subseteq {None, ceiling'}
      BY DEF CeilingRemembered
    <3>1. {applied, saved, disk} \subseteq {None, ceiling}
      BY UnusedSteps DEF CeilingRemembered, IInv
    <3> USE <1>1, <3>1 DEF server
    <3>2. CASE BaselineChanges
      BY <3>2 DEF BaselineChanges
    <3>3. CASE Unload
      BY <3>3 DEF Unload, Removed, NativeValue
    <3>4. CASE Load
      BY <3>4 DEF Load
    <3>5. CASE Dump
      BY <3>5 DEF Dump, Kept, NativeValue
    <3>6. CASE Crash
      BY <3>6 DEF Crash, Removed
    <3>7. CASE UNCHANGED <<loaded, applied, saved, disk, ceiling>>
      BY <3>7
    <3> QED
      BY <3>2, <3>3, <3>4, <3>5, <3>6, <3>7, UnusedSteps DEF IInv
  <2>3. CeilingRemembered => UnappliedShowsCeiling
    BY DEF CeilingRemembered, UnappliedShowsCeiling, Unused, NativeValue
  <2> QED
    BY IInvAlways, <2>1, <2>2, <2>3, PTL DEF Spec
<1>2. CASE {"reload", "crash"} \cap Interruptions = {}
  <2>1. Init => NothingRemembered
    BY DEF Init, NothingRemembered
  <2>2. IInv /\ NothingRemembered /\ [Next]_vars => NothingRemembered'
    <3> SUFFICES ASSUME IInv, NothingRemembered, [Next]_vars, Unused'
                 PROVE  loaded' /\ applied' = None
      BY DEF NothingRemembered
    <3>1. loaded /\ applied = None
      BY UnusedSteps DEF NothingRemembered, IInv
    <3>2. ~Unload /\ ~Crash /\ ~Load
      BY <1>2, <3>1 DEF Unload, Crash, Load
    <3> QED
      BY <3>1, <3>2, UnusedSteps DEF IInv, BaselineChanges, Dump, entity
  <2>3. NothingRemembered => UnappliedShowsCeiling
    BY DEF NothingRemembered, UnappliedShowsCeiling, Unused, NativeValue
  <2> QED
    BY IInvAlways, <2>1, <2>2, <2>3, PTL DEF Spec
<1> QED
  BY <1>1, <1>2
=============================================================================
