--------------------------- MODULE FreshnessProofs ---------------------------
(***************************************************************************)
(* Proofs of how old the shown data may be and how long the coordinator    *)
(* may stay silent, for every interval, Retry-After and request timeout,   *)
(* and any number of overlapping refreshes.                                *)
(***************************************************************************)
EXTENDS Freshness, CoordinatorProofs

USE ScanIntervalAssumption, RequestTimeoutAssumption, RetryAftersAssumption,
    TasksAssumption

\* A payload in hand was the account's state when it was read, at most as
\* long ago as the refresh that carries it began.
SnapsRecent ==
    \A t \in Tasks : read[t].kind = "state" => gone[read[t].snap] <= age[t]

\* What is shown is replaced, or the entities made unavailable, by the next
\* scheduled refresh or by one under way: its time is what is left.
ShownRecent ==
    ok => \/ /\ timer # Off
             /\ gone[data] + timer <= ScanInterval + RequestTimeout
          \/ \E t \in Tasks :
                /\ read[t] # Idle
                /\ gone[data] <= age[t] + ScanInterval + RequestTimeout

\* No rate limit is in force when the entities are available.
ShownAtScanInterval == ok => interval = ScanInterval

\* The same for the end of the next refresh.
NotSilent == \/ Silenced
             \/ timer # Off /\ silent + timer <= Longest
             \/ \E t \in Tasks : read[t] # Idle /\ silent <= age[t] + Longest

\* What is true of the whole, without the coordinator's own invariant.
History == /\ FreshTypeOK
           /\ gone[world] = 0
           /\ SnapsRecent
           /\ ShownAtScanInterval
           /\ ShownRecent
           /\ NotSilent

FInv == IInv /\ AgesBounded /\ History

(***************************************************************************)
(* The history variables observe the coordinator and do not restrict it.   *)
(***************************************************************************)
LEMMA FreshStep == [FreshNext]_freshVars => [Next]_vars
  BY DEF FreshNext, TimePasses, RefreshEnds, RefreshCut, OtherStep, Next, Refresh,
         Environment, freshVars

\* Every behaviour of Freshness is one of the coordinator, so that all that
\* is proved of the coordinator holds with the history in place.
THEOREM FreshIsCoordinator == FreshSpec => Spec
  <1>1. FreshInit => Init
    BY DEF FreshInit
  <1> QED
    BY <1>1, FreshStep, PTL DEF FreshSpec, Spec

(***************************************************************************)
(* The observation.                                                        *)
(***************************************************************************)
LEMMA BoundsAreNat ==
    /\ Horizon \in Nat
    /\ Silence \in Nat
    /\ Horizon = ScanInterval + RequestTimeout + RequestTimeout
    /\ Longest \in Nat
    /\ \A i \in {ScanInterval} \cup RetryAfters : i \in Nat /\ i <= Longest
  BY LongestAssumption DEF Horizon, Silence

LEMMA Observed ==
    ASSUME FreshTypeOK, TypeOK', NEW d \in {0, 1}, Observe(d)
    PROVE  /\ gone' \in [Worlds -> 0 .. Horizon + 1]
           /\ gone'[world'] = 0
           /\ \A w \in Worlds : gone'[w] <= gone[w] + d
  <1>1. \A w \in Worlds : /\ AtMost(Horizon + 1, gone[w] + d) \in 0 .. Horizon + 1
                          /\ AtMost(Horizon + 1, gone[w] + d) <= gone[w] + d
    BY BoundsAreNat DEF FreshTypeOK, AtMost
  <1> QED
    BY <1>1, BoundsAreNat DEF Observe, FreshTypeOK, TypeOK

LEMMA InitHistory == FreshInit => History
  <1> SUFFICES ASSUME FreshInit PROVE History
    OBVIOUS
  <1>1. TypeOK
    BY InitIInv DEF FreshInit, IInv
  <1>2. FreshTypeOK /\ gone[world] = 0
    BY <1>1, BoundsAreNat DEF FreshInit, FreshTypeOK, Init
  <1>3. SnapsRecent
    BY DEF FreshInit, Init, SnapsRecent, Idle
  <1>4. ShownAtScanInterval /\ ShownRecent /\ NotSilent
    BY <1>2, BoundsAreNat DEF FreshInit, Init, ShownAtScanInterval, ShownRecent,
                              NotSilent, Off
  <1> QED
    BY <1>2, <1>3, <1>4 DEF History

\* A refresh that begins takes over from the timer it cancels.
LEMMA BeginHistory ==
    ASSUME FInv, TypeOK', NEW t \in Tasks, Begin(t), Observe(0),
           UNCHANGED <<world, data, ok, interval, reauth, revoked, silent>>
    PROVE  History'
  <1>1. /\ gone' \in [Worlds -> 0 .. Horizon + 1]
        /\ gone'[world'] = 0
        /\ \A w \in Worlds : gone'[w] <= gone[w]
    BY Observed DEF FInv, History, FreshTypeOK
  <1>2. /\ read'[t] = Sent /\ age'[t] = 0
        /\ \A u \in Tasks : u # t => read'[u] = read[u] /\ age'[u] = age[u]
        /\ \A u \in Tasks : read[u] # Idle => read'[u] = read[u] /\ age'[u] = age[u]
        /\ Sent # Idle /\ Sent.kind = "sent"
        /\ timer \in Nat \cup {Off}
    BY DEF FInv, IInv, TypeOK, Begin, Sent, Idle
  <1>3. FreshTypeOK'
    BY <1>1 DEF FreshTypeOK, FInv, History
  <1>4. SnapsRecent'
    <2> SUFFICES ASSUME NEW u \in Tasks, read'[u].kind = "state"
                 PROVE  gone'[read'[u].snap] <= age'[u]
      BY DEF SnapsRecent
    <2>1. u # t /\ read'[u] = read[u] /\ age'[u] = age[u]
      BY <1>2
    <2>2. read[u].snap \in Worlds /\ age[u] \in Nat
      BY <2>1, AnswerKinds DEF FInv, IInv, TypeOK
    <2> QED
      BY <1>1, <2>1, <2>2 DEF FInv, History, SnapsRecent, FreshTypeOK
  <1>5. data \in Worlds /\ gone[data] \in Nat /\ gone'[data] \in Nat
        /\ gone'[data] <= gone[data] /\ silent \in Nat /\ age \in [Tasks -> Nat]
    BY <1>1 DEF FInv, IInv, TypeOK, History, FreshTypeOK
  <1>6. ShownRecent'
    <2>1. CASE timer # Off /\ gone[data] + timer <= ScanInterval + RequestTimeout
      BY <2>1, <1>2, <1>5, BoundsAreNat DEF ShownRecent
    <2>2. CASE \E u \in Tasks :
                  /\ read[u] # Idle
                  /\ gone[data] <= age[u] + ScanInterval + RequestTimeout
      BY <2>2, <1>2, <1>5, BoundsAreNat DEF ShownRecent
    <2> QED
      BY <2>1, <2>2 DEF ShownRecent, FInv, History
  <1>7. NotSilent'
    <2>1. CASE timer # Off /\ silent + timer <= Longest
      BY <2>1, <1>2, <1>5, BoundsAreNat DEF NotSilent
    <2>2. CASE \E u \in Tasks : read[u] # Idle /\ silent <= age[u] + Longest
      BY <2>2, <1>2, <1>5 DEF NotSilent
    <2> QED
      BY <2>1, <2>2 DEF NotSilent, Silenced, FInv, History
  <1>8. ShownAtScanInterval'
    BY DEF ShownAtScanInterval, FInv, History
  <1> QED
    BY <1>1, <1>3, <1>4, <1>6, <1>7, <1>8 DEF History

\* The server's answer is the account's state now; nothing else moves.
LEMMA AnswerHistory ==
    ASSUME FInv, TypeOK', NEW t \in Tasks, Answering(t), Observe(0),
           UNCHANGED silent
    PROVE  History'
  <1>1. /\ gone' \in [Worlds -> 0 .. Horizon + 1]
        /\ gone'[world'] = 0
        /\ \A w \in Worlds : gone'[w] <= gone[w]
    BY Observed DEF FInv, History, FreshTypeOK
  <1>2. PICK a \in Answers : /\ Answer(t, a)
                             /\ a # Idle
                             /\ a.kind = "state" => a.snap = world
    <2> USE DEF Answers, Idle
    <2>1. CASE AnswerState(t)
      BY <2>1 DEF AnswerState, FInv, IInv, TypeOK
    <2>2. CASE AnswerMalformed(t)
      BY <2>2 DEF AnswerMalformed
    <2>3. CASE AnswerUnauthorized(t)
      BY <2>3 DEF AnswerUnauthorized
    <2>4. CASE AnswerLimited(t)
      BY <2>4 DEF AnswerLimited
    <2>5. CASE AnswerFailed(t)
      BY <2>5 DEF AnswerFailed
    <2> QED
      BY <2>1, <2>2, <2>3, <2>4, <2>5 DEF Answering
  <1>3. /\ read'[t] = a
        /\ \A u \in Tasks : u # t => read'[u] = read[u]
        /\ \A u \in Tasks : read[u] # Idle => read'[u] # Idle
        /\ UNCHANGED <<world, data, ok, interval, timer, age, reauth>>
        /\ world \in Worlds
    BY <1>2 DEF Answer, FInv, IInv, TypeOK
  <1>4. FreshTypeOK'
    BY <1>1 DEF FreshTypeOK, FInv, History
  <1>5. SnapsRecent'
    <2> SUFFICES ASSUME NEW u \in Tasks, read'[u].kind = "state"
                 PROVE  gone'[read'[u].snap] <= age'[u]
      BY DEF SnapsRecent
    <2>1. age[u] \in Nat /\ age' = age
      BY <1>3 DEF FInv, IInv, TypeOK
    <2>2. CASE u = t
      BY <1>1, <1>2, <1>3, <2>1, <2>2
    <2>3. CASE u # t
      <3>1. read[u].snap \in Worlds /\ read'[u] = read[u]
        BY <2>3, <1>3, AnswerKinds DEF FInv, IInv, TypeOK
      <3> QED
        BY <1>1, <2>1, <3>1 DEF FInv, History, SnapsRecent, FreshTypeOK
    <2> QED
      BY <2>2, <2>3
  <1>6. data \in Worlds /\ gone[data] \in Nat /\ gone'[data] \in Nat
        /\ gone'[data] <= gone[data] /\ timer \in Nat \cup {Off}
        /\ silent \in Nat /\ age \in [Tasks -> Nat]
    BY <1>1 DEF FInv, IInv, TypeOK, History, FreshTypeOK
  <1>7. ShownRecent'
    BY <1>3, <1>6, BoundsAreNat DEF ShownRecent, FInv, History, Off
  <1>8. NotSilent'
    BY <1>3, <1>6, BoundsAreNat DEF NotSilent, Silenced, FInv, History
  <1>9. ShownAtScanInterval'
    BY <1>3 DEF ShownAtScanInterval, FInv, History
  <1> QED
    BY <1>1, <1>4, <1>5, <1>7, <1>8, <1>9 DEF History

\* A refresh that ends either shows what it read, and schedules the next one
\* a scan interval on, or makes the entities unavailable.
LEMMA EndHistory ==
    ASSUME FInv, TypeOK', NEW t \in Tasks, RefreshEnds(t)
    PROVE  History'
  <1>1. /\ gone' \in [Worlds -> 0 .. Horizon + 1]
        /\ gone'[world'] = 0
        /\ \A w \in Worlds : gone'[w] <= gone[w]
    BY Observed DEF FInv, History, FreshTypeOK, RefreshEnds
  <1>2. /\ Finish(t)
        /\ read[t] \in Answers
        /\ interval' \in {ScanInterval} \cup RetryAfters
        /\ \/ /\ ok'
              /\ read[t].kind = "state"
              /\ data' = read[t].snap
              /\ interval' = ScanInterval
           \/ ~ok'
        /\ \/ read[t].kind = "unauthorized" /\ reauth'
           \/ read[t].kind # "unauthorized" /\ Rearm(interval')
        /\ silent' = 0
    BY FinishesEffect DEF RefreshEnds, FInv, History, FreshTypeOK
  <1>3. /\ \A u \in Tasks : read'[u].kind = "state"
                            => read'[u] = read[u] /\ age'[u] = age[u]
        /\ age[t] \in Nat /\ age[t] <= RequestTimeout
    BY <1>2 DEF Finish, Idle, FInv, IInv, TypeOK, AgesBounded
  <1>4. FreshTypeOK'
    BY <1>1, <1>2, BoundsAreNat DEF FreshTypeOK, Silence
  <1>5. SnapsRecent'
    <2> SUFFICES ASSUME NEW u \in Tasks, read'[u].kind = "state"
                 PROVE  gone'[read'[u].snap] <= age'[u]
      BY DEF SnapsRecent
    <2>1. read[u].snap \in Worlds /\ age[u] \in Nat
      BY <1>3, AnswerKinds DEF FInv, IInv, TypeOK
    <2> QED
      BY <1>1, <1>3, <2>1 DEF FInv, History, SnapsRecent, FreshTypeOK
  <1>6. ShownRecent'
    <2> SUFFICES ASSUME ok'
                 PROVE  timer' # Off /\ gone'[data'] + timer' <= ScanInterval + RequestTimeout
      BY DEF ShownRecent
    <2>1. data' \in Worlds /\ data' = read[t].snap /\ timer' = ScanInterval
      BY <1>2, AnswerKinds DEF Rearm
    <2>2. gone[data'] <= age[t] /\ gone'[data'] <= gone[data']
      BY <1>1, <1>2, <2>1 DEF FInv, History, SnapsRecent
    <2>3. gone[data'] \in Nat /\ gone'[data'] \in Nat
      BY <1>1, <2>1, BoundsAreNat DEF FInv, History, FreshTypeOK
    <2> QED
      BY <1>3, <2>1, <2>2, <2>3 DEF Off
  <1>7. NotSilent'
    BY <1>2, BoundsAreNat DEF NotSilent, Silenced, Rearm, Off
  <1>8. ShownAtScanInterval'
    BY <1>2 DEF ShownAtScanInterval
  <1> QED
    BY <1>1, <1>4, <1>5, <1>6, <1>7, <1>8 DEF History

\* A refresh that is cancelled leaves what is shown, and counts as new.
LEMMA CutHistory ==
    ASSUME FInv, TypeOK', NEW t \in Tasks, RefreshCut(t)
    PROVE  History'
  <1>1. /\ Finish(t)
        /\ Rearm(interval)
        /\ UNCHANGED <<data, ok, interval, reauth>>
        /\ gone' = [w \in Worlds |-> 0]
        /\ silent' = 0
    BY DEF RefreshCut, RefreshCancelled
  <1>2. FreshTypeOK'
    BY <1>1, BoundsAreNat DEF FreshTypeOK
  <1>3. gone'[world'] = 0 /\ gone'[data'] = 0
    BY <1>1 DEF TypeOK
  <1>4. SnapsRecent'
    <2> SUFFICES ASSUME NEW u \in Tasks, read'[u].kind = "state"
                 PROVE  gone'[read'[u].snap] <= age'[u]
      BY DEF SnapsRecent
    <2>1. read'[u].snap \in Worlds /\ age'[u] \in Nat
      BY AnswerKinds DEF TypeOK
    <2> QED
      BY <1>1, <2>1
  <1>5. ShownAtScanInterval'
    BY <1>1 DEF ShownAtScanInterval, FInv, History
  <1>6. ShownRecent'
    BY <1>1, <1>3, <1>5, BoundsAreNat DEF ShownAtScanInterval, ShownRecent, Rearm, Off
  <1>7. NotSilent'
    BY <1>1, BoundsAreNat DEF NotSilent, Silenced, Rearm, Off, TypeOK
  <1> QED
    BY <1>2, <1>3, <1>4, <1>5, <1>6, <1>7 DEF History

\* A tick uses up one of the time left, on the timer or on a request.
LEMMA TickHistory ==
    ASSUME FInv, TypeOK', TimePasses
    PROVE  History'
  <1>1. /\ gone' \in [Worlds -> 0 .. Horizon + 1]
        /\ gone'[world'] = 0
        /\ \A w \in Worlds : gone'[w] <= gone[w] + 1
    BY Observed DEF FInv, History, FreshTypeOK, TimePasses
  <1>2. /\ UNCHANGED <<world, data, ok, interval, read, reauth>>
        /\ timer \in Nat \cup {Off} /\ timer # 0
        /\ timer # Off => timer' = timer - 1 /\ timer' # Off
        /\ \A t \in Tasks : /\ age[t] \in Nat
                            /\ read[t] # Idle => age'[t] = age[t] + 1
    BY DEF TimePasses, Tick, Off, FInv, IInv, TypeOK
  <1>3. /\ silent \in Nat /\ silent' \in 0 .. Silence + 1
        /\ silent' <= silent + 1
    BY BoundsAreNat DEF TimePasses, AtMost, FInv, History, FreshTypeOK
  <1>4. FreshTypeOK'
    BY <1>1, <1>3 DEF FreshTypeOK
  <1>5. SnapsRecent'
    <2> SUFFICES ASSUME NEW u \in Tasks, read[u].kind = "state"
                 PROVE  gone'[read[u].snap] <= age'[u]
      BY <1>2 DEF SnapsRecent
    <2>1. read[u].snap \in Worlds /\ read[u] # Idle
      BY AnswerKinds DEF FInv, IInv, TypeOK, Idle
    <2>2. gone[read[u].snap] \in Nat /\ gone'[read[u].snap] \in Nat
          /\ gone[read[u].snap] <= age[u]
      BY <1>1, <2>1, BoundsAreNat DEF FInv, History, SnapsRecent, FreshTypeOK
    <2> QED
      BY <1>1, <1>2, <2>1, <2>2
  <1>6. /\ gone[data] \in Nat
        /\ gone'[data] \in Nat
        /\ gone'[data] <= gone[data] + 1
    BY <1>1, BoundsAreNat DEF FInv, IInv, TypeOK, History, FreshTypeOK
  <1>7. ShownRecent'
    <2>1. CASE timer # Off /\ gone[data] + timer <= ScanInterval + RequestTimeout
      BY <2>1, <1>2, <1>6, BoundsAreNat DEF ShownRecent, Off
    <2>2. CASE \E u \in Tasks :
                  /\ read[u] # Idle
                  /\ gone[data] <= age[u] + ScanInterval + RequestTimeout
      <3>1. PICK u \in Tasks : /\ read[u] # Idle
                               /\ gone[data] <= age[u] + ScanInterval + RequestTimeout
        BY <2>2
      <3>2. /\ read'[u] # Idle
            /\ gone'[data'] <= age'[u] + ScanInterval + RequestTimeout
        BY <3>1, <1>2, <1>6, BoundsAreNat
      <3> QED
        BY <3>2 DEF ShownRecent
    <2> QED
      BY <2>1, <2>2, <1>2 DEF ShownRecent, FInv, History
  <1>8. NotSilent'
    <2>1. CASE timer # Off /\ silent + timer <= Longest
      BY <2>1, <1>2, <1>3, BoundsAreNat DEF NotSilent, Off, Silence
    <2>2. CASE \E u \in Tasks : read[u] # Idle /\ silent <= age[u] + Longest
      <3>1. PICK u \in Tasks : read[u] # Idle /\ silent <= age[u] + Longest
        BY <2>2
      <3>2. silent' \in Nat /\ read'[u] # Idle /\ silent' <= age'[u] + Longest
        BY <3>1, <1>2, <1>3, BoundsAreNat DEF Silence
      <3> QED
        BY <3>2 DEF NotSilent
    <2> QED
      BY <2>1, <2>2, <1>2 DEF NotSilent, Silenced, FInv, History
  <1>9. ShownAtScanInterval'
    BY <1>2 DEF ShownAtScanInterval, FInv, History
  <1> QED
    BY <1>1, <1>4, <1>5, <1>7, <1>8, <1>9 DEF History

\* No other step touches what the history is about, except that the account
\* may move on to a state it is then in.
LEMMA OtherHistory ==
    ASSUME FInv, TypeOK', Observe(0),
           UNCHANGED <<data, ok, interval, timer, read, age, reauth, silent>>
    PROVE  History'
  <1>1. /\ gone' \in [Worlds -> 0 .. Horizon + 1]
        /\ gone'[world'] = 0
        /\ \A w \in Worlds : /\ gone'[w] <= gone[w]
                             /\ gone[w] \in Nat
                             /\ gone'[w] \in Nat
    BY Observed, BoundsAreNat DEF FInv, History, FreshTypeOK
  <1>2. data \in Worlds /\ timer \in Nat \cup {Off} /\ age \in [Tasks -> Nat]
    BY DEF FInv, IInv, TypeOK
  <1>3. FreshTypeOK'
    BY <1>1 DEF FreshTypeOK, FInv, History
  <1>4. SnapsRecent'
    <2> SUFFICES ASSUME NEW u \in Tasks, read[u].kind = "state"
                 PROVE  gone'[read[u].snap] <= age[u]
      BY DEF SnapsRecent
    <2>1. read[u].snap \in Worlds
      BY AnswerKinds DEF FInv, IInv, TypeOK
    <2> QED
      BY <1>1, <1>2, <2>1 DEF FInv, History, SnapsRecent
  <1>5. ShownRecent'
    BY <1>1, <1>2, BoundsAreNat DEF ShownRecent, FInv, History, Off
  <1>6. NotSilent' /\ ShownAtScanInterval'
    BY DEF NotSilent, Silenced, ShownAtScanInterval, FInv, History
  <1> QED
    BY <1>1, <1>3, <1>4, <1>5, <1>6 DEF History

LEMMA StepHistory == FInv /\ TypeOK' /\ [FreshNext]_freshVars => History'
  <1> SUFFICES ASSUME FInv, TypeOK', [FreshNext]_freshVars PROVE History'
    OBVIOUS
  <1>1. CASE TimePasses
    BY <1>1, TickHistory
  <1>2. CASE \E t \in Tasks : RefreshEnds(t)
    BY <1>2, EndHistory
  <1>3. CASE OtherStep
    <2> USE <1>3 DEF OtherStep
    <2>1. CASE \E t \in Tasks : RequestRefresh(t)
      <3>1. PICK t \in Tasks : RequestRefresh(t)
        BY <2>1
      <3>2. CASE RequestStarts(t)
        BY <3>2, BeginHistory DEF RequestStarts
      <3>3. CASE RequestDeferred \/ RequestDropped
        BY <3>3, OtherHistory DEF RequestDeferred, RequestDropped, vars
      <3> QED
        BY <3>1, <3>2, <3>3 DEF RequestRefresh
    <2>2. CASE \E t \in Tasks : PollDue(t)
      BY <2>2, BeginHistory DEF PollDue
    <2>3. CASE \E t \in Tasks : CooldownEnds(t)
      <3>1. PICK t \in Tasks : CooldownEnds(t)
        BY <2>3
      <3>2. CASE cooldown = "again" /\ holder = Nobody
        BY <3>1, <3>2, BeginHistory DEF CooldownEnds
      <3>3. CASE ~(cooldown = "again" /\ holder = Nobody)
        BY <3>1, <3>3, OtherHistory DEF CooldownEnds
      <3> QED
        BY <3>2, <3>3
    <2>4. CASE \E t \in Tasks : Answering(t)
      BY <2>4, AnswerHistory
    <2>5. CASE WorldChanges \/ Revoke
      BY <2>5, OtherHistory DEF WorldChanges, Revoke
    <2> QED
      BY <2>1, <2>2, <2>3, <2>4, <2>5
  <1>4. CASE UNCHANGED freshVars
    BY <1>4 DEF freshVars, vars, FInv, History, FreshTypeOK, SnapsRecent,
                ShownAtScanInterval, ShownRecent, NotSilent, Silenced
  <1>5. CASE \E t \in Tasks : RefreshCut(t)
    BY <1>5, CutHistory
  <1> QED
    BY <1>1, <1>2, <1>3, <1>4, <1>5 DEF FreshNext

LEMMA FreshInvariance == FreshSpec => []FInv
  <1>1. FreshInit => FInv
    BY InitIInv, InitAges, InitHistory DEF FreshInit, FInv
  <1>2. FInv /\ [FreshNext]_freshVars => FInv'
    <2> SUFFICES ASSUME FInv, [FreshNext]_freshVars PROVE FInv'
      OBVIOUS
    <2>1. IInv' /\ AgesBounded'
      BY FreshStep, NextIInv, NextAges DEF FInv, IInv
    <2> QED
      BY <2>1, StepHistory DEF FInv, IInv
  <1> QED
    BY <1>1, <1>2, PTL DEF FreshSpec

(***************************************************************************)
(* The bounds.                                                             *)
(***************************************************************************)
\* The history stays within its types.
THEOREM FreshTypeCorrect == FreshSpec => []FreshTypeOK
  <1>1. FInv => FreshTypeOK
    BY DEF FInv, History
  <1> QED
    BY FreshInvariance, <1>1, PTL

\* An entity that shows as available shows a state the account was in at most
\* one scan interval and two requests ago, whatever the order in which the
\* overlapping refreshes end and however often the server limits the rate;
\* or at most so long before the last cancellation of a requested refresh.
THEOREM AvailableIsRecent == FreshSpec => []AvailableMeansRecent
  <1>1. FInv => AvailableMeansRecent
    <2> SUFFICES ASSUME FInv, ok PROVE gone[data] <= Horizon
      BY DEF AvailableMeansRecent
    <2>1. /\ gone[data] \in Nat
          /\ timer \in Nat \cup {Off}
          /\ \A t \in Tasks : age[t] \in Nat /\ age[t] <= RequestTimeout
      BY BoundsAreNat
         DEF FInv, IInv, TypeOK, History, FreshTypeOK, AgesBounded
    <2> QED
      BY <2>1, BoundsAreNat DEF FInv, History, ShownRecent, Off
  <1> QED
    BY FreshInvariance, <1>1, PTL

\* The backoff never adds up: as long as the token is good, and the last
\* Retry-After was not 0, a refresh ends, or is cancelled, every Retry-After (or
\* scan interval) plus one request.
THEOREM BackoffIsBounded == FreshSpec => []NeverSilent
  <1>1. FInv => NeverSilent
    <2>1. ASSUME FInv
          PROVE  /\ silent \in Nat
                 /\ timer \in Nat \cup {Off}
                 /\ \A t \in Tasks : age[t] \in Nat /\ age[t] <= RequestTimeout
      BY <2>1, BoundsAreNat
         DEF FInv, IInv, TypeOK, History, FreshTypeOK, AgesBounded
    <2> QED
      BY <2>1, BoundsAreNat DEF NeverSilent, Silence, FInv, History, NotSilent, Off
  <1> QED
    BY FreshInvariance, <1>1, PTL
=============================================================================
