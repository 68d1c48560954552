---------------------------- MODULE ControlsProofs ----------------------------
(***************************************************************************)
(* Proofs about the command entities for every charger, any number of      *)
(* service calls and of overlapping refreshes.                             *)
(***************************************************************************)
EXTENDS Controls, CoordinatorProofs

USE EntitiesAssumption, CallsAssumption, SettingsAssumption, WorldsAssumption

CInv == /\ IInv
        /\ HolderReads
        /\ ControlsTypeOK
        /\ SuccessMeansAccepted
        /\ SingleFlight
        /\ OverlayIsTheCommand
        /\ NeverFlickers
        /\ UpdateIsComing

(***************************************************************************)
(* Helpers.                                                                *)
(***************************************************************************)
\* The marks are no settings.
LEMMA Marks == /\ Null \notin Values
               /\ Unavailable \notin Values
               /\ Free \notin Calls
               /\ \A c : Settings(c) \subseteq Values
  BY DEF Settings, Values

\* A command leads from a world to a world.
LEMMA EffectWorld ==
    ASSUME NEW w \in Worlds, NEW c \in Entities, NEW v \in Settings(c)
    PROVE  Effect(w, c, v) \in Worlds
  OBVIOUS

\* What an entity writes is one of the states it may write.
LEMMA StateType ==
    ASSUME NEW c \in Entities, NEW o \in Settings(c) \cup {Null}, NEW k \in BOOLEAN,
           NEW d \in Worlds
    PROVE  Writable(c, StateWith(c, o, k, d))
  <1>1. d.val[c] \in Settings(c) \cup {Null}
    OBVIOUS
  <1>2. c \in Kinds
    OBVIOUS
  <1>3. \/ ShownWith(c, o, d) \in Settings(c)
        \/ c = "time_zone" /\ ShownWith(c, o, d) = Null
    <2>1. CASE c \in Switches
      BY <1>1, <2>1 DEF ShownWith, Settings
    <2>2. CASE c = "max_current"
      BY <1>1, <2>2 DEF ShownWith, Settings, Switches
    <2>3. CASE c = "time_zone"
      BY <1>1, <2>3 DEF ShownWith, Settings, Switches
    <2> QED
      BY <1>2, <2>1, <2>2, <2>3 DEF Kinds, Switches
  <1> QED
    BY <1>3 DEF StateWith, Writable

LEMMA WritableType ==
    ASSUME NEW c \in Entities, NEW s, Writable(c, s)
    PROVE  s \in Values \cup {Null, Unavailable}
  BY Marks DEF Writable

(***************************************************************************)
(* The entities use the coordinator as its module says.                    *)
(***************************************************************************)
LEMMA AcceptRequests ==
    ASSUME NEW p \in Calls, Accept(p)
    PROVE  \E t \in Tasks : RequestRefresh(t)
  <1>1. CASE \E t \in Tasks : RequestStarts(t)
    BY <1>1 DEF RequestRefresh
  <1>2. CASE RequestDeferred \/ RequestDropped
    BY <1>2, TasksAssumption DEF RequestRefresh
  <1> QED
    BY <1>1, <1>2 DEF Accept

LEMMA EndingRequests ==
    ASSUME NEW p \in Calls, Ending(p)
    PROVE  (\E t \in Tasks : RequestRefresh(t)) \/ UNCHANGED vars
  BY AcceptRequests DEF Ending, Answered, Unanswered, PollEnds, Revert

\* The world only moves to a world, and nothing of the coordinator with it.
LEMMA ServerMovesWorld ==
    ASSUME ControlsTypeOK, TypeOK, NEW p \in Calls, Takes(p) \/ Settles(p)
    PROVE  /\ world' \in Worlds
           /\ UNCHANGED <<refreshing, client>>
  <1>1. ctl[p] \in Entities /\ want[p] \in Settings(ctl[p])
    BY DEF ControlsTypeOK, Takes, Settles
  <1>2. Effect(world, ctl[p], want[p]) \in Worlds
    BY <1>1, EffectWorld DEF TypeOK
  <1> QED
    BY <1>2 DEF Takes, Settles, TypeOK

\* Every step of the entities is a step of the coordinator or leaves it alone.
LEMMA StepRefines ==
    ASSUME ControlsTypeOK, TypeOK, [ControlsNext]_allvars
    PROVE  [Next]_vars
  <1>1. CASE \E p \in Calls : Starting(p)
    BY <1>1 DEF Starting, TurnOn, TurnOff, SetLocked, SetEnabled,
                SetNativeValue, SelectOption, SelectShown, Start, Called
  <1>2. CASE \E p \in Calls : Ending(p)
    BY <1>2, EndingRequests DEF Next
  <1>3. CASE \E p \in Calls : Cancelled(p)
    BY <1>3 DEF Cancelled
  <1>4. CASE \E p \in Calls : Takes(p) \/ Settles(p)
    <2>1. world' \in Worlds /\ UNCHANGED refreshing
      BY <1>4, ServerMovesWorld
    <2>2. CASE world' = world
      BY <2>1, <2>2 DEF refreshing, vars
    <2>3. CASE world' # world
      BY <2>1, <2>3 DEF refreshing, WorldChanges, Environment, Next
    <2> QED
      BY <2>2, <2>3
  <1>5. CASE \E t \in Tasks : RefreshEnds(t)
    BY <1>5 DEF RefreshEnds, Refresh, Next
  <1>6. CASE \E t \in Tasks : PressRefresh(t)
    BY <1>6 DEF PressRefresh, Next
  <1>7. CASE \E t \in Tasks : RefreshGoesOn(t)
    BY <1>7 DEF RefreshGoesOn, Refresh, Next
  <1>8. CASE OutsideChange
    BY <1>8 DEF OutsideChange, refreshing, WorldChanges, Environment, Next
  <1>9. CASE Passing
    BY <1>9 DEF Passing, Environment, Next
  <1>10. CASE UNCHANGED allvars
    BY <1>10 DEF allvars
  <1>11. CASE \E t \in Tasks : AwaitCancelled(t)
    BY <1>11 DEF AwaitCancelled, Next
  <1> QED
    BY <1>1, <1>2, <1>3, <1>4, <1>5, <1>6, <1>7, <1>8, <1>9, <1>10, <1>11
       DEF ControlsNext

(***************************************************************************)
(* What a step does to the service calls.                                  *)
(***************************************************************************)
\* The POST is answered with a command id.
ToPoll(p) == /\ pc[p] = "post"
             /\ job[p] = "queued"
             /\ pc' = [pc EXCEPT ![p] = "poll"]
             /\ UNCHANGED <<vars, ctl, want, job, lock, overlay, written, cut>>

\* The steps that leave the calls and the entities alone.
Aside == UNCHANGED <<client, job, cut>>

LEMMA StepCases ==
    ASSUME [ControlsNext]_allvars
    PROVE  \/ \E p \in Calls, c \in Entities : \E v \in Settings(c) : Start(p, c, v)
           \/ \E p \in Calls : SelectShown(p)
           \/ \E p \in Calls : pc[p] \in InFlight /\ Revert(p)
           \/ \E p \in Calls : /\ pc[p] \in InFlight
                               /\ job[p] = "accepted"
                               /\ Accept(p)
           \/ \E p \in Calls : ToPoll(p)
           \/ \E p \in Calls : Cancelled(p)
           \/ \E p \in Calls : Takes(p) \/ Settles(p)
           \/ \E t \in Tasks : RefreshEnds(t) \/ AwaitCancelled(t)
           \/ Aside
  <1>1. CASE \E p \in Calls : Starting(p)
    <2>1. PICK p \in Calls : Starting(p)
      BY <1>1
    <2>2. CASE SelectShown(p)
      BY <2>2
    <2>3. CASE ~SelectShown(p)
      <3>1. PICK c, v : Start(p, c, v)
        BY <2>1, <2>3 DEF Starting, TurnOn, TurnOff, SetLocked, SetEnabled,
                          SetNativeValue, SelectOption
      <3> QED
        BY <3>1 DEF Start, Called
    <2> QED
      BY <2>2, <2>3
  <1>2. CASE \E p \in Calls : Ending(p)
    BY <1>2 DEF Ending, Answered, Unanswered, PollEnds, ToPoll, InFlight
  <1>3. CASE \E p \in Calls : Cancelled(p) \/ Takes(p) \/ Settles(p)
    BY <1>3
  <1>4. CASE \E t \in Tasks : RefreshEnds(t) \/ AwaitCancelled(t)
    BY <1>4
  <1>5. CASE \E t \in Tasks : PressRefresh(t) \/ RefreshGoesOn(t)
    BY <1>5 DEF PressRefresh, RefreshGoesOn, Aside
  <1>6. CASE OutsideChange \/ Passing \/ UNCHANGED allvars
    BY <1>6 DEF OutsideChange, Passing, allvars, Aside
  <1> QED
    BY <1>1, <1>2, <1>3, <1>4, <1>5, <1>6 DEF ControlsNext

LEMMA TypeStep ==
    ASSUME ControlsTypeOK, TypeOK, TypeOK', [ControlsNext]_allvars
    PROVE  ControlsTypeOK'
  <1> USE DEF ControlsTypeOK, InFlight, Live, Ended
  <1>1. ASSUME NEW p \in Calls, NEW c \in Entities, NEW v \in Settings(c),
               Start(p, c, v)
        PROVE  ControlsTypeOK'
    <2>1. Writable(c, StateWith(c, v, ok, data))
      BY StateType DEF TypeOK
    <2> QED
      BY <1>1, <2>1, WritableType, Marks DEF Start, Called
  <1>2. ASSUME NEW p \in Calls, SelectShown(p)
        PROVE  ControlsTypeOK'
    BY <1>2, Marks DEF SelectShown, Called
  <1>3. ASSUME NEW p \in Calls, pc[p] \in InFlight, Revert(p)
        PROVE  ControlsTypeOK'
    <2>1. ctl[p] \in Entities
      BY <1>3
    <2>2. ok \in BOOLEAN /\ data \in Worlds
      BY DEF TypeOK
    <2>3. Writable(ctl[p], StateWith(ctl[p], Null, ok, data))
      BY <2>1, <2>2, StateType
    <2> QED
      BY <1>3, <2>1, <2>3, WritableType DEF Revert
  <1>4. ASSUME NEW p \in Calls, pc[p] \in InFlight, Accept(p)
        PROVE  ControlsTypeOK'
    BY <1>4 DEF Accept
  <1>5. ASSUME NEW p \in Calls, ToPoll(p)
        PROVE  ControlsTypeOK'
    BY <1>5 DEF ToPoll
  <1>6. ASSUME NEW p \in Calls, Cancelled(p)
        PROVE  ControlsTypeOK'
    BY <1>6 DEF Cancelled
  <1>7. ASSUME NEW p \in Calls, Takes(p) \/ Settles(p)
        PROVE  ControlsTypeOK'
    BY <1>7 DEF Takes, Settles, client
  <1>8. ASSUME NEW t \in Tasks, RefreshEnds(t)
        PROVE  ControlsTypeOK'
    <2>1. ASSUME NEW c \in Entities
          PROVE  Writable(c, written'[c])
      <3>1. ok' \in BOOLEAN /\ data' \in Worlds
        BY DEF TypeOK
      <3>2. Writable(c, StateWith(c, overlay[c], ok', data'))
        BY <3>1, StateType
      <3> QED
        BY <1>8, <3>2 DEF RefreshEnds
    <2>2. written' \in [Entities -> Values \cup {Null, Unavailable}]
      BY <1>8, <2>1, WritableType DEF RefreshEnds
    <2>3. /\ pc' \in [Calls -> Live \cup {"idle", "noop"} \cup Ended]
          /\ \A p \in Calls : pc'[p] = "idle" <=> pc[p] = "idle"
          /\ lock' \in [Entities -> Calls \cup {Free}]
      BY <1>8 DEF RefreshEnds, Returns
    <2> QED
      BY <1>8, <2>1, <2>2, <2>3 DEF RefreshEnds
  <1>9. ASSUME NEW t \in Tasks, AwaitCancelled(t)
        PROVE  ControlsTypeOK'
    <2>1. /\ pc' \in [Calls -> Live \cup {"idle", "noop"} \cup Ended]
          /\ \A p \in Calls : pc'[p] = "idle" <=> pc[p] = "idle"
          /\ lock' \in [Entities -> Calls \cup {Free}]
      BY <1>9 DEF AwaitCancelled, Returns
    <2> QED
      BY <1>9, <2>1 DEF AwaitCancelled
  <1>10. CASE Aside
    BY <1>10 DEF Aside, client
  <1> QED
    BY <1>1, <1>2, <1>3, <1>4, <1>5, <1>6, <1>7, <1>8, <1>9, <1>10, StepCases

LEMMA SuccessStep ==
    ASSUME ControlsTypeOK, SuccessMeansAccepted, [ControlsNext]_allvars
    PROVE  SuccessMeansAccepted'
  <1> USE DEF ControlsTypeOK, SuccessMeansAccepted, InFlight, Live
  <1>1. ASSUME NEW p \in Calls, NEW c \in Entities, NEW v \in Settings(c),
               Start(p, c, v)
        PROVE  SuccessMeansAccepted'
    BY <1>1 DEF Start, Called
  <1>2. ASSUME NEW p \in Calls, SelectShown(p)
        PROVE  SuccessMeansAccepted'
    BY <1>2 DEF SelectShown, Called
  <1>3. ASSUME NEW p \in Calls, Revert(p) \/ ToPoll(p) \/ Cancelled(p)
        PROVE  SuccessMeansAccepted'
    BY <1>3 DEF Revert, ToPoll, Cancelled
  <1>4. ASSUME NEW p \in Calls, job[p] = "accepted", Accept(p)
        PROVE  SuccessMeansAccepted'
    BY <1>4 DEF Accept
  <1>5. ASSUME NEW p \in Calls, Takes(p) \/ Settles(p)
        PROVE  SuccessMeansAccepted'
    BY <1>5 DEF Takes, Settles, client
  <1>6. ASSUME NEW t \in Tasks, RefreshEnds(t) \/ AwaitCancelled(t)
        PROVE  SuccessMeansAccepted'
    BY <1>6 DEF RefreshEnds, AwaitCancelled, Returns
  <1>7. CASE Aside
    BY <1>7 DEF Aside, client
  <1> QED
    BY <1>1, <1>2, <1>3, <1>4, <1>5, <1>6, <1>7, StepCases

\* The call that returns takes its lock along, and nobody else's.
LEMMA ReturnsFlight ==
    ASSUME ControlsTypeOK, SingleFlight, NEW how \in {"ok", "cut"}, Returns(how),
           UNCHANGED ctl
    PROVE  SingleFlight'
  <1> USE DEF ControlsTypeOK, SingleFlight, InFlight, Live
  <1>1. /\ \A p \in Calls : pc'[p] = IF pc[p] = "refresh" THEN how ELSE pc[p]
        /\ \A c \in Entities : lock'[c] = IF \E p \in Calls : /\ lock[c] = p
                                                              /\ pc[p] = "refresh"
                                          THEN Free ELSE lock[c]
    BY DEF Returns
  <1>2. ASSUME NEW p \in Calls, pc'[p] \in Live
        PROVE  lock'[ctl'[p]] = p
    <2>1. pc[p] \in InFlight /\ ctl[p] \in Entities
      BY <1>1, <1>2
    <2>2. lock[ctl[p]] = p /\ pc[p] # "refresh"
      BY <2>1
    <2> QED
      BY <1>1, <2>1, <2>2
  <1>3. ASSUME NEW c \in Entities, lock'[c] # Free
        PROVE  ctl'[lock'[c]] = c /\ pc'[lock'[c]] \in Live
    <2> DEFINE q == lock[c]
    <2>1. lock[c] = q /\ lock'[c] = q /\ q \in Calls
      BY <1>1, <1>3
    <2> HIDE DEF q
    <2>2. pc[q] # "refresh"
      <3>1. SUFFICES ASSUME pc[q] = "refresh" PROVE FALSE
        OBVIOUS
      <3>2. \E p \in Calls : lock[c] = p /\ pc[p] = "refresh"
        BY <2>1, <3>1
      <3>3. lock'[c] = Free
        BY <1>1, <3>2
      <3> QED
        BY <1>3, <3>3
    <2>3. ctl[q] = c /\ pc[q] \in Live /\ pc'[q] = pc[q]
      BY <1>1, <1>3, <2>1, <2>2
    <2> QED
      BY <2>1, <2>3
  <1> QED
    BY <1>2, <1>3

LEMMA FlightStep ==
    ASSUME ControlsTypeOK, SingleFlight, [ControlsNext]_allvars
    PROVE  SingleFlight'
  <1> USE DEF ControlsTypeOK, SingleFlight, InFlight, Live
  <1>1. ASSUME NEW p \in Calls, NEW c \in Entities, NEW v \in Settings(c),
               Start(p, c, v)
        PROVE  SingleFlight'
    BY <1>1 DEF Start, Called
  <1>2. ASSUME NEW p \in Calls, SelectShown(p)
        PROVE  SingleFlight'
    BY <1>2 DEF SelectShown, Called
  <1>3. ASSUME NEW p \in Calls, pc[p] \in InFlight,
               NEW how \in {"ok", "error", "cancelled"},
               pc' = [pc EXCEPT ![p] = how],
               lock' = [lock EXCEPT ![ctl[p]] = Free],
               ctl' = ctl
        PROVE  SingleFlight'
    <2>1. /\ ctl[p] \in Entities /\ lock[ctl[p]] = p
          /\ pc' = [pc EXCEPT ![p] = how]
          /\ lock' = [lock EXCEPT ![ctl[p]] = Free]
          /\ ctl' = ctl
      BY <1>3
    <2>2. ASSUME NEW q \in Calls, pc'[q] \in Live
          PROVE  lock'[ctl'[q]] = q
      <3>1. q # p /\ pc[q] \in Live /\ ctl[q] \in Entities
        BY <2>1, <2>2
      <3> QED
        BY <2>1, <3>1
    <2>3. ASSUME NEW c \in Entities, lock'[c] # Free
          PROVE  ctl'[lock'[c]] = c /\ pc'[lock'[c]] \in Live
      <3>1. lock'[c] = [lock EXCEPT ![ctl[p]] = Free][c]
        BY <2>1
      <3>2. c # ctl[p] /\ lock'[c] = lock[c]
        BY <2>3, <3>1
      <3>3. lock[c] \in Calls
        BY <2>3, <3>2
      <3>4. PICK q \in Calls : c # ctl[p] /\ lock'[c] = q /\ lock[c] = q
        BY <3>2, <3>3
      <3>5. ctl[q] = c /\ pc[q] \in Live /\ q # p
        BY <2>3, <3>4
      <3>6. pc'[q] = pc[q]
        BY <2>1, <3>5
      <3> QED
        BY <2>1, <3>4, <3>5, <3>6
    <2> QED
      BY <2>2, <2>3
  <1>4. ASSUME NEW p \in Calls, pc[p] \in InFlight,
               Revert(p) \/ Cancelled(p) \/ Accept(p)
        PROVE  SingleFlight'
    <2>1. CASE UNCHANGED <<ctl, lock>> /\ pc' = [pc EXCEPT ![p] = "refresh"]
      BY <1>4, <2>1
    <2>2. CASE ~(UNCHANGED <<ctl, lock>> /\ pc' = [pc EXCEPT ![p] = "refresh"])
      BY <1>3, <1>4, <2>2 DEF Revert, Cancelled, Accept
    <2> QED
      BY <2>1, <2>2
  <1>5. ASSUME NEW p \in Calls, ToPoll(p)
        PROVE  SingleFlight'
    BY <1>5 DEF ToPoll
  <1>6. ASSUME NEW p \in Calls, Takes(p) \/ Settles(p)
        PROVE  SingleFlight'
    BY <1>6 DEF Takes, Settles, client
  <1>7. ASSUME NEW t \in Tasks, RefreshEnds(t) \/ AwaitCancelled(t)
        PROVE  SingleFlight'
    <2>1. ctl' = ctl
      BY <1>7 DEF RefreshEnds, AwaitCancelled
    <2>2. \/ Returns("ok") \/ Returns("cut")
          \/ UNCHANGED <<pc, lock>>
      BY <1>7 DEF RefreshEnds, AwaitCancelled
    <2> QED
      BY <2>1, <2>2, ReturnsFlight
  <1>8. CASE Aside
    BY <1>8 DEF Aside, client
  <1> QED
    BY <1>1, <1>2, <1>4, <1>5, <1>6, <1>7, <1>8, StepCases DEF Cancelled

\* The return of a call from its refresh concerns no overlay.
LEMMA OverlayKept ==
    ASSUME OverlayIsTheCommand,
           UNCHANGED <<ctl, want, overlay>>,
           \A p \in Calls : \/ pc'[p] = pc[p]
                            \/ pc[p] = "refresh" /\ pc'[p] \in {"ok", "cut"}
    PROVE  OverlayIsTheCommand'
  <1>1. \A p \in Calls : pc'[p] \in InFlight => overlay'[ctl'[p]] = want'[p]
    BY DEF OverlayIsTheCommand, InFlight
  <1>2. ASSUME NEW c \in Entities, overlay'[c] # Null
        PROVE  \E p \in Calls : /\ ctl'[p] = c
                                /\ want'[p] = overlay'[c]
                                /\ pc'[p] \in InFlight \cup {"cancelled"}
    <2>1. PICK p \in Calls : /\ ctl[p] = c
                             /\ want[p] = overlay[c]
                             /\ pc[p] \in InFlight \cup {"cancelled"}
      BY <1>2 DEF OverlayIsTheCommand
    <2>2. pc'[p] = pc[p]
      BY <2>1 DEF InFlight
    <2> QED
      BY <2>1, <2>2
  <1> QED
    BY <1>1, <1>2 DEF OverlayIsTheCommand

LEMMA OverlayStep ==
    ASSUME ControlsTypeOK, SingleFlight, OverlayIsTheCommand,
           [ControlsNext]_allvars
    PROVE  OverlayIsTheCommand'
  <1> USE DEF ControlsTypeOK, SingleFlight, OverlayIsTheCommand, InFlight, Live
  <1>1. ASSUME NEW p \in Calls, NEW c \in Entities, NEW v \in Settings(c),
               Start(p, c, v)
        PROVE  OverlayIsTheCommand'
    BY <1>1 DEF Start, Called
  <1>2. ASSUME NEW p \in Calls, SelectShown(p)
        PROVE  OverlayIsTheCommand'
    BY <1>2 DEF SelectShown, Called
  <1>3. ASSUME NEW p \in Calls, pc[p] \in InFlight, Revert(p)
        PROVE  OverlayIsTheCommand'
    BY <1>3 DEF Revert
  <1>4. ASSUME NEW p \in Calls, pc[p] \in InFlight, Accept(p)
        PROVE  OverlayIsTheCommand'
    BY <1>4 DEF Accept
  <1>5. ASSUME NEW p \in Calls, ToPoll(p) \/ Cancelled(p)
        PROVE  OverlayIsTheCommand'
    BY <1>5 DEF ToPoll, Cancelled
  <1>6. ASSUME NEW p \in Calls, Takes(p) \/ Settles(p)
        PROVE  OverlayIsTheCommand'
    BY <1>6 DEF Takes, Settles, client
  <1>7. ASSUME NEW t \in Tasks, RefreshEnds(t) \/ AwaitCancelled(t)
        PROVE  OverlayIsTheCommand'
    <2>1. UNCHANGED <<ctl, want, overlay>>
      BY <1>7 DEF RefreshEnds, AwaitCancelled
    <2>2. \A p \in Calls : \/ pc'[p] = pc[p]
                           \/ pc[p] = "refresh" /\ pc'[p] \in {"ok", "cut"}
      <3>1. Returns("ok") \/ Returns("cut") \/ UNCHANGED <<pc, lock>>
        BY <1>7 DEF RefreshEnds, AwaitCancelled
      <3> QED
        BY <3>1 DEF Returns
    <2> QED
      BY <2>1, <2>2, OverlayKept
  <1>8. CASE Aside
    BY <1>8 DEF Aside, client
  <1> QED
    BY <1>1, <1>2, <1>3, <1>4, <1>5, <1>6, <1>7, <1>8, StepCases

\* An overlay is what the entity shows, whenever it is available.
LEMMA OverlayShown ==
    ASSUME NEW c, NEW o, o # Null, NEW k, NEW d
    PROVE  StateWith(c, o, k, d) \in {o, Unavailable}
  BY DEF StateWith, ShownWith

LEMMA FlickerStep ==
    ASSUME ControlsTypeOK, SingleFlight, OverlayIsTheCommand, NeverFlickers,
           [ControlsNext]_allvars
    PROVE  NeverFlickers'
  <1> USE DEF ControlsTypeOK, NeverFlickers, InFlight, Live
  <1>1. ASSUME NEW p \in Calls, NEW c \in Entities, NEW v \in Settings(c),
               Start(p, c, v)
        PROVE  NeverFlickers'
    <2>1. StateWith(c, v, ok, data) \in {v, Unavailable}
      BY OverlayShown, Marks
    <2>2. ASSUME NEW q \in Calls, q # p, pc[q] \in InFlight
          PROVE  ctl[q] # c
      BY <1>1, <2>2 DEF Start, SingleFlight, Called
    <2> QED
      BY <1>1, <2>1, <2>2 DEF Start, Called
  <1>2. ASSUME NEW p \in Calls, SelectShown(p)
        PROVE  NeverFlickers'
    BY <1>2 DEF SelectShown, Called
  <1>3. ASSUME NEW p \in Calls, pc[p] \in InFlight, Revert(p)
        PROVE  NeverFlickers'
    <2>1. ASSUME NEW q \in Calls, q # p, pc[q] \in InFlight
          PROVE  ctl[q] # ctl[p]
      BY <1>3, <2>1 DEF SingleFlight
    <2> QED
      BY <1>3, <2>1 DEF Revert
  <1>4. ASSUME NEW p \in Calls, pc[p] \in InFlight, Accept(p)
        PROVE  NeverFlickers'
    BY <1>4 DEF Accept
  <1>5. ASSUME NEW p \in Calls, ToPoll(p) \/ Cancelled(p)
        PROVE  NeverFlickers'
    BY <1>5 DEF ToPoll, Cancelled
  <1>6. ASSUME NEW p \in Calls, Takes(p) \/ Settles(p)
        PROVE  NeverFlickers'
    BY <1>6 DEF Takes, Settles, client
  <1>7. ASSUME NEW t \in Tasks, RefreshEnds(t)
        PROVE  NeverFlickers'
    <2> SUFFICES ASSUME NEW q \in Calls, pc'[q] \in InFlight
                 PROVE  written'[ctl'[q]] \in {want'[q], Unavailable}
      OBVIOUS
    <2>1. pc[q] \in InFlight /\ UNCHANGED <<ctl, want>>
      BY <1>7 DEF RefreshEnds, Returns
    <2>2. ctl[q] \in Entities /\ want[q] # Null /\ overlay[ctl[q]] = want[q]
      BY <2>1, Marks DEF OverlayIsTheCommand
    <2>3. written'[ctl[q]] = StateWith(ctl[q], want[q], ok', data')
      BY <1>7, <2>2 DEF RefreshEnds
    <2> QED
      BY <2>1, <2>2, <2>3, OverlayShown
  <1>8. ASSUME NEW t \in Tasks, AwaitCancelled(t)
        PROVE  NeverFlickers'
    BY <1>8 DEF AwaitCancelled, Returns
  <1>9. CASE Aside
    BY <1>9 DEF Aside, client
  <1> QED
    BY <1>1, <1>2, <1>3, <1>4, <1>5, <1>6, <1>7, <1>8, <1>9, StepCases

(***************************************************************************)
(* An update is under way or due.                                          *)
(***************************************************************************)
\* What UpdateIsComing adds to the fact that polling is alive.
Coming == (\E c \in Entities : Stale(c)) => Busy \/ cooldown = "again" \/ cut

LEMMA ComingIsComing == PollingAlive => (UpdateIsComing <=> Coming)
  BY DEF PollingAlive, UpdateIsComing, Coming, Busy

\* A refresh that was asked for is under way or due.
LEMMA RequestComing ==
    ASSUME TypeOK, HolderReads, NEW t \in Tasks, RequestRefresh(t)
    PROVE  /\ Busy' \/ cooldown' = "again"
           /\ UNCHANGED <<data, ok>>
  <1>1. CASE RequestStarts(t)
    BY <1>1, BeginBusy DEF RequestStarts
  <1>2. CASE RequestDeferred
    BY <1>2 DEF RequestDeferred
  <1>3. CASE RequestDropped
    <2>1. Busy
      BY <1>3 DEF RequestDropped, HolderReads, TypeOK, Busy
    <2> QED
      BY <1>3, <2>1 DEF RequestDropped, vars, Busy
  <1> QED
    BY <1>1, <1>2, <1>3 DEF RequestRefresh

LEMMA ComingStep ==
    ASSUME TypeOK, ControlsTypeOK, HolderReads, Coming,
           [ControlsNext]_allvars
    PROVE  Coming'
  <1> USE DEF Coming, Stale, Busy
  <1>1. ASSUME NEW p \in Calls, Starting(p)
        PROVE  Coming'
    <2>1. CASE SelectShown(p)
      BY <2>1 DEF SelectShown, Called, vars, debouncer
    <2>2. CASE ~SelectShown(p)
      <3>1. PICK c, v : Start(p, c, v)
        BY <1>1, <2>2 DEF Starting, TurnOn, TurnOff, SetLocked, SetEnabled,
                          SetNativeValue, SelectOption
      <3> QED
        BY <3>1 DEF Start, Called, ControlsTypeOK, vars, debouncer
    <2> QED
      BY <2>1, <2>2
  <1>2. ASSUME NEW p \in Calls, Revert(p)
        PROVE  Coming'
    BY <1>2 DEF Revert, ControlsTypeOK, vars, debouncer
  <1>3. ASSUME NEW p \in Calls, Accept(p)
        PROVE  Coming'
    BY <1>3, AcceptRequests, RequestComing
  <1>4. ASSUME NEW p \in Calls, ToPoll(p) \/ Cancelled(p)
        PROVE  Coming'
    BY <1>4 DEF ToPoll, Cancelled, vars, debouncer
  <1>5. ASSUME NEW p \in Calls, Takes(p) \/ Settles(p)
        PROVE  Coming'
    BY <1>5 DEF Takes, Settles, refreshing, debouncer,
                                              client
  <1>6. ASSUME NEW t \in Tasks, RefreshEnds(t)
        PROVE  Coming'
    BY <1>6 DEF RefreshEnds
  <1>7. ASSUME NEW t \in Tasks, PressRefresh(t)
        PROVE  Coming'
    BY <1>7, RequestComing DEF PressRefresh
  <1>8. ASSUME NEW t \in Tasks, RefreshGoesOn(t)
        PROVE  Coming'
    <2>1. CASE PollDue(t)
      BY <2>1, BeginBusy DEF PollDue
    <2>2. CASE CooldownEnds(t)
      <3>1. CASE cooldown = "again" /\ holder = Nobody
        BY <2>2, <3>1, BeginBusy DEF CooldownEnds
      <3>2. CASE cooldown = "again" /\ holder # Nobody
        BY <2>2, <3>2 DEF CooldownEnds, HolderReads, TypeOK
      <3>3. CASE cooldown # "again"
        BY <1>8, <2>2, <3>3 DEF CooldownEnds, RefreshGoesOn, client
      <3> QED
        BY <3>1, <3>2, <3>3
    <2>3. CASE Answering(t)
      BY <2>3, AnsweringBusy
    <2> QED
      BY <1>8, <2>1, <2>2, <2>3 DEF RefreshGoesOn
  <1>9. CASE OutsideChange \/ Passing \/ UNCHANGED allvars
    BY <1>9 DEF OutsideChange, Passing, Tick, Revoke, refreshing, client,
                allvars, vars, debouncer
  <1>10. ASSUME NEW t \in Tasks, AwaitCancelled(t)
        PROVE  Coming'
    BY <1>10 DEF AwaitCancelled, RefreshCancelled
  <1> QED
    BY <1>1, <1>2, <1>3, <1>4, <1>5, <1>6, <1>7, <1>8, <1>9, <1>10
       DEF ControlsNext, Ending, Answered, Unanswered, PollEnds, ToPoll

(***************************************************************************)
(* The theorems.                                                           *)
(***************************************************************************)
LEMMA InitCInv == ControlsInit => CInv
  <1> SUFFICES ASSUME ControlsInit PROVE CInv
    OBVIOUS
  <1>1. IInv
    BY InitIInv DEF ControlsInit
  <1>2. HolderReads
    BY DEF ControlsInit, Init, HolderReads
  <1>3. ControlsTypeOK
    <2>1. ASSUME NEW c \in Entities
          PROVE  Writable(c, StateWith(c, Null, ok, data))
      BY <1>1, StateType DEF IInv, TypeOK
    <2> QED
      BY <2>1, WritableType DEF ControlsInit, ControlsTypeOK
  <1>4. /\ SuccessMeansAccepted
        /\ SingleFlight
        /\ OverlayIsTheCommand
        /\ NeverFlickers
        /\ UpdateIsComing
    BY DEF ControlsInit, SuccessMeansAccepted, SingleFlight,
           OverlayIsTheCommand, NeverFlickers, UpdateIsComing, Stale, InFlight,
           Live
  <1> QED
    BY <1>1, <1>2, <1>3, <1>4 DEF CInv

LEMMA NextCInv == CInv /\ [ControlsNext]_allvars => CInv'
  <1> SUFFICES ASSUME CInv, [ControlsNext]_allvars PROVE CInv'
    OBVIOUS
  <1>1. TypeOK
    BY DEF CInv, IInv
  <1>2. [Next]_vars
    BY <1>1, StepRefines DEF CInv
  <1>3. IInv' /\ TypeOK'
    BY <1>2, NextIInv DEF CInv, IInv
  <1>4. HolderReads'
    BY <1>1, <1>2, HolderStep DEF CInv
  <1>5. ControlsTypeOK'
    BY <1>1, <1>3, TypeStep DEF CInv
  <1>6. /\ SuccessMeansAccepted'
        /\ SingleFlight'
        /\ OverlayIsTheCommand'
        /\ NeverFlickers'
    BY SuccessStep, FlightStep, OverlayStep, FlickerStep DEF CInv
  <1>7. UpdateIsComing'
    <2>1. Coming
      BY ComingIsComing DEF CInv, IInv
    <2>2. Coming'
      BY <1>1, <2>1, ComingStep DEF CInv
    <2> QED
      BY <1>3, <2>2 DEF IInv, PollingAlive, UpdateIsComing, Coming, Busy
  <1> QED
    BY <1>3, <1>4, <1>5, <1>6, <1>7 DEF CInv

LEMMA ControlsInvariance == ControlsSpec => []CInv
  BY InitCInv, NextCInv, PTL DEF ControlsSpec

\* The entities keep their types: what they write is a setting of theirs, and
\* only a time zone may be unknown.
THEOREM ControlsTypeCorrect == ControlsSpec => []ControlsTypeOK
  <1>1. CInv => ControlsTypeOK
    BY DEF CInv
  <1> QED
    BY ControlsInvariance, <1>1, PTL

\* However POSTs, polls, lost answers and cancellations interleave, a service
\* call that reports success is for a command the server carried out.
THEOREM SuccessIsTrue == ControlsSpec => []SuccessMeansAccepted
  <1>1. CInv => SuccessMeansAccepted
    BY DEF CInv
  <1> QED
    BY ControlsInvariance, <1>1, PTL

\* No two calls are ever inside one entity, whatever the other entities and
\* the shared coordinator do.
THEOREM CallsAreExclusive == ControlsSpec => []SingleFlight
  <1>1. CInv => SingleFlight
    BY DEF CInv
  <1> QED
    BY ControlsInvariance, <1>1, PTL

\* Only a cancelled call leaves an overlay behind.
THEOREM OverlayIsJustified == ControlsSpec => []OverlayIsTheCommand
  <1>1. CInv => OverlayIsTheCommand
    BY DEF CInv
  <1> QED
    BY ControlsInvariance, <1>1, PTL

\* While a command is in flight the state in Home Assistant is what was asked
\* for, or unavailable, whatever stale payloads arrive meanwhile: what is_on does
\* and switch.py:222 says, against the docstrings at switch.py:200-201 and
\* number.py:188-190.
THEOREM StateDoesNotFlicker == ControlsSpec => []NeverFlickers
  <1>1. CInv => NeverFlickers
    BY DEF CInv
  <1> QED
    BY ControlsInvariance, <1>1, PTL

\* The overlay that is dropped without a write (switch.py:257) has an update
\* coming, although async_request_refresh may start none itself; unless a call
\* is cancelled that awaits the refresh (switch.py:258), which leaves the update
\* to the next poll, if there is one.
THEOREM UpdateAlwaysComes == ControlsSpec => []UpdateIsComing
  <1>1. CInv => UpdateIsComing
    BY DEF CInv
  <1> QED
    BY ControlsInvariance, <1>1, PTL

\* Cancellation is the only way to a fake state: as long as no service call is
\* cancelled with its command in flight, no overlay outlives its command.
THEOREM OnlyCancellationFakes ==
    ControlsSpec /\ [](\A p \in Calls : pc[p] # "cancelled") => []NoFakeState
  <1>1. CInv /\ (\A p \in Calls : pc[p] # "cancelled") => NoFakeState
    BY DEF CInv, OverlayIsTheCommand, SingleFlight, NoFakeState, InFlight, Live,
           ControlsTypeOK
  <1> QED
    BY ControlsInvariance, <1>1, PTL

\* At every step a call is a caller of CommandVerdict, or does not move there.
LEMMA PromiseStep ==
    ASSUME ControlsTypeOK, [ControlsNext]_allvars, NEW q \in Calls
    PROVE  [Verdict(q)!Next]_(Verdict(q)!vars)
  <1> USE DEF ControlsTypeOK, InFlight, Live, Verdict!Next, Verdict!vars,
              Verdict!Settle, Verdict!Deliver, Verdict!GiveUp
  <1>1. ASSUME NEW p \in Calls, NEW c \in Entities, NEW v \in Settings(c),
               Start(p, c, v)
        PROVE  UNCHANGED Verdict(q)!vars
    BY <1>1 DEF Start, Called
  <1>2. ASSUME NEW p \in Calls, SelectShown(p) \/ Cancelled(p)
        PROVE  [Verdict(q)!GiveUp]_(Verdict(q)!vars)
    BY <1>2 DEF SelectShown, Called, Cancelled
  <1>3. ASSUME NEW p \in Calls, pc[p] \in InFlight, Revert(p)
        PROVE  [Verdict(q)!GiveUp]_(Verdict(q)!vars)
    BY <1>3 DEF Revert
  <1>4. ASSUME NEW p \in Calls, pc[p] \in InFlight, job[p] = "accepted", Accept(p)
        PROVE  [Verdict(q)!Deliver]_(Verdict(q)!vars)
    BY <1>4 DEF Accept
  <1>5. ASSUME NEW p \in Calls, ToPoll(p)
        PROVE  UNCHANGED Verdict(q)!vars
    BY <1>5 DEF ToPoll
  <1>6. ASSUME NEW p \in Calls, Takes(p) \/ Settles(p)
        PROVE  [Verdict(q)!Settle]_(Verdict(q)!vars)
    BY <1>6 DEF Takes, Settles, client
  <1>7. ASSUME NEW t \in Tasks, RefreshEnds(t) \/ AwaitCancelled(t)
        PROVE  UNCHANGED Verdict(q)!vars
    BY <1>7 DEF RefreshEnds, AwaitCancelled, Returns
  <1>8. CASE Aside
    BY <1>8 DEF Aside, client
  <1> QED
    BY <1>1, <1>2, <1>3, <1>4, <1>5, <1>6, <1>7, <1>8, StepCases

\* The entities use the coordinator only as its own module allows.
THEOREM ControlsUseCoordinator == ControlsSpec => Spec
  <1>1. ControlsInit => Init
    BY DEF ControlsInit
  <1>2. CInv /\ [ControlsNext]_allvars => [Next]_vars
    BY StepRefines DEF CInv, IInv
  <1> QED
    BY ControlsInvariance, <1>1, <1>2, PTL DEF ControlsSpec, Spec

\* Every service call implements the abstract promise of a command, whatever
\* the other calls, the charger and the refreshes do.
THEOREM CallsImplementVerdict ==
    ControlsSpec => CallsKeepPromise /\ \A q \in Calls : Verdict(q)!Spec
  <1>1. ControlsInit => CallersWait
    BY DEF ControlsInit, CallersWait, Verdict!Init
  <1>2. CInv /\ [ControlsNext]_allvars => CallersStep
    BY PromiseStep DEF CInv, CallersStep
  <1>3. ControlsSpec => CallsKeepPromise
    BY ControlsInvariance, <1>1, <1>2, PTL DEF ControlsSpec, CallsKeepPromise
  <1>4. ASSUME NEW q \in Calls
        PROVE  ControlsSpec => Verdict(q)!Spec
    <2>1. ControlsInit => Verdict(q)!Init
      BY <1>1 DEF CallersWait
    <2>2. CInv /\ [ControlsNext]_allvars => [Verdict(q)!Next]_(Verdict(q)!vars)
      BY <1>2 DEF CallersStep
    <2> QED
      BY ControlsInvariance, <2>1, <2>2, PTL DEF ControlsSpec, Verdict!Spec
  <1> QED
    BY <1>3, <1>4

\* With commands, errors and cancellations in between, requested refreshes that
\* are cancelled with their calls included, polling dies of nothing else than a
\* refused token or a Retry-After of 0.
THEOREM ControlsKeepPolling == ControlsSpec => []PollingAlive
  BY ControlsUseCoordinator, PollingNeverDies, PTL
=============================================================================
