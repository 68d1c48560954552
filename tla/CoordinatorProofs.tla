-------------------------- MODULE CoordinatorProofs --------------------------
(***************************************************************************)
(* Proofs about the coordinator for every set of worlds, every interval    *)
(* and Retry-After, and any number of overlapping refreshes.               *)
(***************************************************************************)
EXTENDS Coordinator, TLAPS

USE ScanIntervalAssumption, RequestTimeoutAssumption, RetryAftersAssumption,
    TasksAssumption

\* A 401 in hand was sent by a server that has revoked the token.
RefusalIsReal == \A t \in Tasks : read[t].kind = "unauthorized" => revoked

IInv == TypeOK /\ RefusalIsReal /\ PollingAlive /\ ReauthOnlyIfRefused

\* What a refresh brings back tells which answer it is.
LEMMA AnswerKinds ==
    ASSUME NEW a \in {Idle, Sent} \cup Answers
    PROVE  /\ a.kind = "idle" <=> a = Idle
           /\ a.kind = "sent" <=> a = Sent
           /\ a.kind = "state" => a.snap \in Worlds
           /\ a.kind = "limited" => a.after \in RetryAfters
  <1>1. CASE a \in {Idle, Sent}
    BY <1>1 DEF Idle, Sent
  <1>2. CASE a \in [kind : {"state"}, snap : Worlds]
    BY <1>2 DEF Idle, Sent
  <1>3. CASE a \in [kind : {"limited"}, after : RetryAfters]
    BY <1>3 DEF Idle, Sent
  <1>4. CASE a \in [kind : {"malformed", "unauthorized", "failed"}]
    BY <1>4 DEF Idle, Sent
  <1> QED
    BY <1>1, <1>2, <1>3, <1>4 DEF Answers

LEMMA InitIInv == Init => IInv
  <1> SUFFICES ASSUME Init PROVE IInv
    OBVIOUS
  <1>1. TypeOK
    BY DEF Init, TypeOK
  <1>2. RefusalIsReal
    BY DEF Init, RefusalIsReal, Idle
  <1>3. PollingAlive /\ ReauthOnlyIfRefused
    BY DEF Init, PollingAlive, ReauthOnlyIfRefused, Off
  <1> QED
    BY <1>1, <1>2, <1>3 DEF IInv

LEMMA BeginIInv ==
    ASSUME IInv, NEW t \in Tasks, Begin(t),
           holder' \in Tasks \cup {Nobody}, awaited' \in BOOLEAN,
           UNCHANGED <<world, data, ok, interval, reauth, revoked>>
    PROVE  IInv'
  <1>1. TypeOK'
    BY DEF IInv, TypeOK, Begin, Off
  <1>2. PollingAlive'
    <2>1. read'[t] = Sent
      BY DEF IInv, TypeOK, Begin
    <2> QED
      BY <2>1 DEF PollingAlive, Idle, Sent
  <1>3. RefusalIsReal' /\ ReauthOnlyIfRefused'
    BY DEF IInv, TypeOK, Begin, RefusalIsReal, ReauthOnlyIfRefused, Sent
  <1> QED
    BY <1>1, <1>2, <1>3 DEF IInv

LEMMA RequestIInv ==
    ASSUME IInv, NEW t \in Tasks, RequestRefresh(t)
    PROVE  IInv'
  <1>1. CASE RequestStarts(t)
    BY <1>1, BeginIInv DEF RequestStarts, Begin
  <1>2. CASE RequestDeferred
    BY <1>2 DEF RequestDeferred, IInv, TypeOK, RefusalIsReal, PollingAlive,
                ReauthOnlyIfRefused
  <1>3. CASE RequestDropped
    BY <1>3 DEF RequestDropped, vars, debouncer, IInv, TypeOK, RefusalIsReal,
                PollingAlive, ReauthOnlyIfRefused
  <1> QED
    BY <1>1, <1>2, <1>3 DEF RequestRefresh

LEMMA CooldownIInv ==
    ASSUME IInv, NEW t \in Tasks, CooldownEnds(t)
    PROVE  IInv'
  <1>1. CASE cooldown = "again" /\ holder = Nobody
    BY <1>1, BeginIInv DEF CooldownEnds, Begin, IInv, TypeOK
  <1>2. CASE ~(cooldown = "again" /\ holder = Nobody)
    BY <1>2 DEF CooldownEnds, IInv, TypeOK, RefusalIsReal, PollingAlive,
                ReauthOnlyIfRefused
  <1> QED
    BY <1>1, <1>2

\* The server's answer is an answer, and a 401 only if the token is revoked.
LEMMA AnsweringIsAnswer ==
    ASSUME TypeOK, NEW t \in Tasks, Answering(t)
    PROVE  \E a \in Answers : /\ Answer(t, a)
                              /\ a # Idle
                              /\ a.kind = "unauthorized" => revoked
  <1> USE DEF Answers, Idle
  <1>1. CASE AnswerState(t)
    BY <1>1 DEF AnswerState, TypeOK
  <1>2. CASE AnswerMalformed(t)
    BY <1>2 DEF AnswerMalformed
  <1>3. CASE AnswerUnauthorized(t)
    BY <1>3 DEF AnswerUnauthorized
  <1>4. CASE AnswerLimited(t)
    BY <1>4 DEF AnswerLimited
  <1>5. CASE AnswerFailed(t)
    BY <1>5 DEF AnswerFailed
  <1> QED
    BY <1>1, <1>2, <1>3, <1>4, <1>5 DEF Answering

LEMMA AnswerIInv ==
    ASSUME IInv, NEW t \in Tasks, Answering(t)
    PROVE  IInv'
  <1>1. PICK a \in Answers : /\ Answer(t, a)
                             /\ a # Idle
                             /\ a.kind = "unauthorized" => revoked
    BY AnsweringIsAnswer DEF IInv
  <1>2. /\ read' = [read EXCEPT ![t] = a]
        /\ read'[t] = a
        /\ UNCHANGED <<world, data, ok, interval, timer, age, holder,
                       awaited, cooldown, reauth, revoked>>
    BY <1>1 DEF Answer, debouncer, IInv, TypeOK
  <1>3. TypeOK'
    BY <1>2 DEF IInv, TypeOK
  <1>4. PollingAlive'
    BY <1>1, <1>2 DEF PollingAlive
  <1>5. RefusalIsReal' /\ ReauthOnlyIfRefused'
    BY <1>1, <1>2 DEF IInv, TypeOK, RefusalIsReal, ReauthOnlyIfRefused
  <1> QED
    BY <1>3, <1>4, <1>5 DEF IInv

\* What the end of a refresh may do, whichever way it ends: only a payload
\* makes the entities available, and only a 401 leaves the timer as it is.
LEMMA FinishesEffect ==
    ASSUME TypeOK, NEW t \in Tasks, Finishes(t)
    PROVE  /\ Finish(t)
           /\ read[t] \in Answers
           /\ read[t] # Idle
           /\ interval' \in {ScanInterval} \cup RetryAfters
           /\ ok' \in BOOLEAN
           /\ \/ /\ ok'
                 /\ read[t].kind = "state"
                 /\ data' = read[t].snap
                 /\ interval' = ScanInterval
              \/ ~ok' /\ data' = data
           /\ \/ /\ read[t].kind = "unauthorized"
                 /\ reauth'
                 /\ UNCHANGED <<timer, interval>>
              \/ /\ read[t].kind # "unauthorized"
                 /\ UNCHANGED reauth
                 /\ Rearm(interval')
  <1>1. read[t] \in {Idle, Sent} \cup Answers
    BY DEF TypeOK
  <1>2. /\ read[t].kind \in {"state", "malformed", "unauthorized", "limited", "failed"}
        /\ Idle.kind = "idle"
        /\ Sent.kind = "sent"
    BY DEF Finishes, FinishState, FinishMalformed, FinishUnauthorized,
           FinishLimited, FinishFailed, Idle, Sent
  <1>3. read[t] \in Answers /\ read[t] # Idle
    BY <1>1, <1>2
  <1> USE <1>1, <1>3, AnswerKinds DEF TypeOK
  <1>4. CASE FinishState(t)
    BY <1>4 DEF FinishState
  <1>5. CASE FinishMalformed(t)
    BY <1>5 DEF FinishMalformed
  <1>6. CASE FinishUnauthorized(t)
    BY <1>6 DEF FinishUnauthorized
  <1>7. CASE FinishLimited(t)
    BY <1>7 DEF FinishLimited
  <1>8. CASE FinishFailed(t)
    BY <1>8 DEF FinishFailed
  <1> QED
    BY <1>4, <1>5, <1>6, <1>7, <1>8 DEF Finishes

LEMMA FinishesIInv ==
    ASSUME IInv, NEW t \in Tasks, Finishes(t)
    PROVE  IInv'
  <1>1. /\ Finish(t)
        /\ interval' \in {ScanInterval} \cup RetryAfters
        /\ ok' \in BOOLEAN
        /\ data' \in Worlds
        /\ \/ read[t].kind = "unauthorized" /\ reauth' /\ UNCHANGED timer
           \/ UNCHANGED reauth /\ Rearm(interval')
    BY FinishesEffect, AnswerKinds DEF IInv, TypeOK
  <1>2. reauth' \in BOOLEAN
    BY FinishesEffect DEF IInv, TypeOK, Finishes, FinishState, FinishMalformed,
       FinishUnauthorized, FinishLimited, FinishFailed
  <1>3. TypeOK'
    BY <1>1, <1>2 DEF IInv, TypeOK, Finish, debouncer, Rearm
  <1>4. PollingAlive'
    BY <1>1 DEF PollingAlive, Rearm, Off, IInv, TypeOK
  <1>5. RefusalIsReal' /\ ReauthOnlyIfRefused'
    BY <1>1 DEF IInv, TypeOK, RefusalIsReal, ReauthOnlyIfRefused, Finish, Idle
  <1> QED
    BY <1>3, <1>4, <1>5 DEF IInv

LEMMA CancelledIInv ==
    ASSUME IInv, NEW t \in Tasks, RefreshCancelled(t)
    PROVE  IInv'
  <1>1. /\ Finish(t)
        /\ Rearm(interval)
        /\ UNCHANGED <<data, ok, interval, reauth>>
    BY DEF RefreshCancelled
  <1>2. TypeOK'
    BY <1>1 DEF IInv, TypeOK, Finish, debouncer, Rearm
  <1>3. PollingAlive'
    BY <1>1 DEF PollingAlive, Rearm, Off, IInv, TypeOK
  <1>4. RefusalIsReal' /\ ReauthOnlyIfRefused'
    BY <1>1 DEF IInv, TypeOK, RefusalIsReal, ReauthOnlyIfRefused, Finish, Idle
  <1> QED
    BY <1>2, <1>3, <1>4 DEF IInv

LEMMA EnvironmentIInv ==
    ASSUME IInv, Environment
    PROVE  IInv'
  <1> USE DEF debouncer, IInv, TypeOK, RefusalIsReal, PollingAlive, ReauthOnlyIfRefused
  <1>1. CASE WorldChanges
    BY <1>1 DEF WorldChanges
  <1>2. CASE Revoke
    BY <1>2 DEF Revoke
  <1>3. CASE Tick
    <2>1. timer' \in Nat \cup {Off} /\ (timer # Off => timer' # Off)
      BY <1>3 DEF Tick, Off
    <2>2. age' \in [Tasks -> Nat]
      BY <1>3 DEF Tick
    <2> QED
      BY <1>3, <2>1, <2>2 DEF Tick
  <1> QED
    BY <1>1, <1>2, <1>3 DEF Environment

LEMMA NextIInv == IInv /\ [Next]_vars => IInv'
  <1> SUFFICES ASSUME IInv, [Next]_vars PROVE IInv'
    OBVIOUS
  <1>1. CASE \E t \in Tasks : RequestRefresh(t)
    BY <1>1, RequestIInv
  <1>2. CASE \E t \in Tasks : PollDue(t)
    <2>1. PICK t \in Tasks : PollDue(t)
      BY <1>2
    <2>2. holder' \in Tasks \cup {Nobody} /\ awaited' \in BOOLEAN
      BY <2>1 DEF PollDue, IInv, TypeOK
    <2> QED
      BY <2>1, <2>2, BeginIInv DEF PollDue
  <1>3. CASE \E t \in Tasks : CooldownEnds(t)
    BY <1>3, CooldownIInv
  <1>4. CASE \E t \in Tasks : Answering(t)
    BY <1>4, AnswerIInv
  <1>5. CASE \E t \in Tasks : Finishes(t)
    BY <1>5, FinishesIInv
  <1>6. CASE Environment
    BY <1>6, EnvironmentIInv
  <1>7. CASE UNCHANGED vars
    BY <1>7 DEF vars, debouncer, IInv, TypeOK, RefusalIsReal, PollingAlive,
                ReauthOnlyIfRefused
  <1>8. CASE \E t \in Tasks : RefreshCancelled(t)
    BY <1>8, CancelledIInv
  <1> QED
    BY <1>1, <1>2, <1>3, <1>4, <1>5, <1>6, <1>7, <1>8 DEF Next, Refresh

LEMMA Invariance == Spec => []IInv
  BY InitIInv, NextIInv, PTL DEF Spec

(***************************************************************************)
(* How long a refresh may be under way.                                    *)
(***************************************************************************)
\* The client's timeout ends every request.
AgesBounded == \A t \in Tasks : age[t] <= RequestTimeout

LEMMA InitAges == Init => AgesBounded
  BY DEF Init, AgesBounded

LEMMA NextAges == TypeOK /\ AgesBounded /\ [Next]_vars => AgesBounded'
  <1> SUFFICES ASSUME TypeOK, AgesBounded, [Next]_vars PROVE AgesBounded'
    OBVIOUS
  <1>1. CASE \E t \in Tasks : Begin(t)
    BY <1>1 DEF Begin, AgesBounded, TypeOK
  <1>2. CASE \E t \in Tasks : Finish(t)
    BY <1>2 DEF Finish, AgesBounded, TypeOK
  <1>3. CASE Tick
    BY <1>3 DEF Tick, AgesBounded, TypeOK
  <1>4. CASE UNCHANGED age
    BY <1>4 DEF AgesBounded
  <1> QED
    BY <1>1, <1>2, <1>3, <1>4
       DEF Next, RequestRefresh, RequestStarts, RequestDeferred, RequestDropped,
           Refresh, PollDue, CooldownEnds, Answering, AnswerState,
           AnswerMalformed, AnswerUnauthorized, AnswerLimited, AnswerFailed,
           Answer, Finishes, FinishState, FinishMalformed, FinishUnauthorized,
           FinishLimited, FinishFailed, RefreshCancelled, Environment,
           WorldChanges, Revoke, vars

(***************************************************************************)
(* Who is under way.                                                       *)
(***************************************************************************)
\* Who holds the debouncer's lock is a refresh under way.
HolderReads == holder # Nobody => read[holder] # Idle

\* A refresh is under way.
Busy == \E t \in Tasks : read[t] # Idle

LEMMA BeginBusy ==
    ASSUME TypeOK, NEW t \in Tasks, Begin(t)
    PROVE  read'[t] # Idle /\ Busy'
  <1>1. read'[t] = Sent
    BY DEF TypeOK, Begin
  <1> QED
    BY <1>1 DEF Busy, Idle, Sent

LEMMA AnsweringBusy ==
    ASSUME TypeOK, NEW t \in Tasks, Answering(t)
    PROVE  /\ read'[t] # Idle
           /\ \A u \in Tasks \ {t} : read'[u] = read[u]
           /\ UNCHANGED <<data, ok, cooldown, holder>>
  <1>1. PICK a \in Answers : Answer(t, a) /\ a # Idle
    BY AnsweringIsAnswer
  <1> QED
    BY <1>1 DEF TypeOK, Answer, debouncer

LEMMA HolderStep ==
    ASSUME TypeOK, HolderReads, [Next]_vars
    PROVE  HolderReads'
  <1> USE DEF HolderReads, debouncer
  <1>1. ASSUME NEW t \in Tasks, PollDue(t) \/ RequestStarts(t)
        PROVE  HolderReads'
    <2>1. read'[t] # Idle /\ read' = [read EXCEPT ![t] = Sent]
      BY <1>1, BeginBusy DEF PollDue, RequestStarts, Begin
    <2> QED
      BY <1>1, <2>1 DEF PollDue, RequestStarts, TypeOK
  <1>2. CASE RequestDeferred \/ RequestDropped
    BY <1>2 DEF RequestDeferred, RequestDropped, vars
  <1>3. ASSUME NEW t \in Tasks, CooldownEnds(t)
        PROVE  HolderReads'
    BY <1>3, BeginBusy DEF CooldownEnds
  <1>4. ASSUME NEW t \in Tasks, Answering(t)
        PROVE  HolderReads'
    BY <1>4, AnsweringBusy DEF TypeOK
  <1>5. ASSUME NEW t \in Tasks, Finishes(t) \/ RefreshCancelled(t)
        PROVE  HolderReads'
    <2>1. Finish(t)
      BY <1>5 DEF Finishes, FinishState, FinishMalformed, FinishUnauthorized,
                  FinishLimited, FinishFailed, RefreshCancelled
    <2> QED
      BY <2>1 DEF Finish, TypeOK
  <1>6. CASE Environment
    BY <1>6 DEF Environment, WorldChanges, Revoke, Tick
  <1>7. CASE UNCHANGED vars
    BY <1>7 DEF vars
  <1> QED
    BY <1>1, <1>2, <1>3, <1>4, <1>5, <1>6, <1>7
       DEF Next, Refresh, RequestRefresh

\* The lock is handed on only when the refresh that holds it has ended.
LEMMA HolderKept ==
    ASSUME TypeOK, holder # Nobody, [Next]_vars
    PROVE  holder' = holder \/ read'[holder] = Idle
  <1> USE DEF debouncer
  <1>1. ASSUME NEW t \in Tasks, Finishes(t) \/ RefreshCancelled(t)
        PROVE  holder' = holder \/ read'[holder] = Idle
    <2>1. Finish(t)
      BY <1>1, FinishesEffect DEF RefreshCancelled
    <2> QED
      BY <2>1 DEF Finish, TypeOK
  <1>2. ASSUME NEW t \in Tasks, Answering(t) PROVE holder' = holder
    BY <1>2, AnsweringBusy
  <1>3. \A t \in Tasks : PollDue(t) \/ RequestRefresh(t) \/ CooldownEnds(t)
                            => holder' = holder
    BY DEF PollDue, RequestRefresh, RequestStarts, RequestDeferred,
           RequestDropped, CooldownEnds, vars
  <1>4. Environment \/ UNCHANGED vars => holder' = holder
    BY DEF Environment, WorldChanges, Revoke, Tick, vars
  <1> QED
    BY <1>1, <1>2, <1>3, <1>4 DEF Next, Refresh

(***************************************************************************)
(* The theorems.                                                           *)
(***************************************************************************)
\* The coordinator's state keeps its types, whatever the server answers.
THEOREM TypeCorrect == Spec => []TypeOK
  <1>1. IInv => TypeOK
    BY DEF IInv
  <1> QED
    BY Invariance, <1>1, PTL

\* Overlapping refreshes that stop and arm one shared timer, and are cancelled
\* with the calls that await them, never leave the coordinator without a refresh
\* under way or scheduled: only a 401 does, or a 429 with a Retry-After of 0,
\* which leaves the interval 0 (api.py:159, coordinator.py:100).
THEOREM PollingNeverDies == Spec => []PollingAlive
  <1>1. IInv => PollingAlive
    BY DEF IInv
  <1> QED
    BY Invariance, <1>1, PTL

\* No network failure, rate limit or malformed payload asks for a new token.
THEOREM ReauthIsJustified == Spec => []ReauthOnlyIfRefused
  <1>1. IInv => ReauthOnlyIfRefused
    BY DEF IInv
  <1> QED
    BY Invariance, <1>1, PTL

(***************************************************************************)
(* How many refreshes are under way at once.                               *)
(***************************************************************************)
\* A timer that runs was armed with the interval in force, and since then every
\* refresh under way has aged by what the timer has lost.
TimerLasts ==
    \A t \in Tasks : read[t] # Idle /\ timer # Off => timer + age[t] >= interval

TInv == IInv /\ AgesBounded /\ HolderReads /\ TimerLasts

LEMMA InitTInv == Init => TInv
  BY InitIInv, InitAges DEF Init, TInv, HolderReads, TimerLasts

LEMMA TimerStep ==
    ASSUME TInv, IInv', [Next]_vars
    PROVE  TimerLasts'
  <1> USE DEF TimerLasts
  <1>1. ASSUME NEW t \in Tasks, PollDue(t) \/ RequestStarts(t)
        PROVE  TimerLasts'
    BY <1>1 DEF PollDue, RequestStarts, Begin
  <1>2. CASE RequestDeferred \/ RequestDropped
    BY <1>2 DEF RequestDeferred, RequestDropped, vars, TInv
  <1>3. ASSUME NEW t \in Tasks, CooldownEnds(t)
        PROVE  TimerLasts'
    BY <1>3 DEF CooldownEnds, Begin, TInv
  <1>4. ASSUME NEW t \in Tasks, Answering(t)
        PROVE  TimerLasts'
    <2>1. PICK a \in Answers : Answer(t, a) /\ a # Idle
      BY <1>4, AnsweringIsAnswer DEF TInv, IInv
    <2> QED
      BY <2>1 DEF Answer, TInv, IInv, TypeOK, Idle, Sent
  <1>5. ASSUME NEW t \in Tasks, Finishes(t) \/ RefreshCancelled(t)
        PROVE  TimerLasts'
    <2>1. /\ \/ UNCHANGED <<timer, interval>>
             \/ timer' = interval'
             \/ timer' = timer /\ interval' = 0
          /\ read' = [read EXCEPT ![t] = Idle]
          /\ age' = [age EXCEPT ![t] = 0]
      BY <1>5, FinishesEffect DEF Finish, Rearm, RefreshCancelled, TInv, IInv
    <2>2. /\ read'[t] = Idle
          /\ \A u \in Tasks \ {t} : /\ read'[u] = read[u]
                                     /\ age'[u] = age[u]
                                     /\ age[u] \in Nat
          /\ interval' \in Nat /\ timer \in Nat \cup {Off}
      BY <2>1 DEF TInv, IInv, TypeOK
    <2> QED
      BY <2>1, <2>2 DEF TInv
  <1>6. CASE WorldChanges \/ Revoke \/ UNCHANGED vars
    BY <1>6 DEF WorldChanges, Revoke, vars, TInv
  <1>7. CASE Tick
    <2>1. /\ UNCHANGED <<read, interval>>
          /\ timer \in Nat \cup {Off} /\ interval \in Nat
          /\ timer' # Off => timer # Off /\ timer' = timer - 1
          /\ \A t \in Tasks : /\ age[t] \in Nat
                              /\ read[t] # Idle => age'[t] = age[t] + 1
      BY <1>7 DEF Tick, TInv, IInv, TypeOK, Off
    <2> QED
      BY <2>1 DEF TInv, Off
  <1> QED
    BY <1>1, <1>2, <1>3, <1>4, <1>5, <1>6, <1>7
       DEF Next, Refresh, RequestRefresh, Environment

LEMMA NextTInv == TInv /\ [Next]_vars => TInv'
  BY NextIInv, NextAges, HolderStep, TimerStep DEF TInv, IInv

LEMMA TInvAlways == Spec => []TInv
  BY InitTInv, NextTInv, PTL DEF Spec

\* A poll that falls due beside a refresh under way has a short interval.
LEMMA DueBeside ==
    ASSUME TInv, timer = 0, NEW u \in Tasks, read[u] # Idle
    PROVE  interval <= RequestTimeout
  BY DEF TInv, IInv, TypeOK, AgesBounded, TimerLasts, Off

\* A refresh begins by the timer, or holds the debouncer's lock.
LEMMA WhoBegins ==
    ASSUME TInv, [Next]_vars, NEW t \in Tasks, read[t] = Idle, read'[t] # Idle
    PROVE  PollDue(t) \/ (holder' = t /\ holder = Nobody)
  <1>1. \A u \in Tasks : PollDue(u) => u = t
    BY DEF PollDue, Begin, TInv, IInv, TypeOK
  <1>2. \A u \in Tasks : RequestStarts(u) => u = t
    BY DEF RequestStarts, Begin, TInv, IInv, TypeOK
  <1>3. ASSUME NEW u \in Tasks, CooldownEnds(u)
        PROVE  holder' = t /\ holder = Nobody
    BY <1>3 DEF CooldownEnds, Begin, TInv, IInv, TypeOK
  <1>4. ASSUME NEW u \in Tasks, Answering(u) PROVE FALSE
    <2>1. PICK a \in Answers : Answer(u, a)
      BY <1>4, AnsweringIsAnswer DEF TInv, IInv
    <2> QED
      BY <2>1 DEF Answer, TInv, IInv, TypeOK, Idle, Sent
  <1>5. ASSUME NEW u \in Tasks, Finishes(u) \/ RefreshCancelled(u) PROVE FALSE
    <2>1. Finish(u)
      BY <1>5, FinishesEffect DEF RefreshCancelled, TInv, IInv
    <2> QED
      BY <2>1 DEF Finish, TInv, IInv, TypeOK
  <1>6. ~RequestDeferred /\ ~RequestDropped /\ ~Environment
    BY DEF RequestDeferred, RequestDropped, Environment, WorldChanges, Revoke, Tick, vars
  <1>7. ~UNCHANGED vars
    BY DEF vars
  <1> QED
    BY <1>1, <1>2, <1>3, <1>4, <1>5, <1>6, <1>7
       DEF Next, Refresh, RequestRefresh, RequestStarts

\* A poll never falls due beside a refresh that still waits for its answer, in
\* whatever order refreshes begin, end and re-arm the one timer, short of an
\* interval (a Retry-After) that is no longer than a request may take.
THEOREM PollsDoNotPileUp == Spec => PollsWait
  <1> DEFINE Step == \A t, u \in Tasks :
                        /\ read[t] = Idle /\ read'[t] # Idle /\ holder' # t
                        /\ read[u] # Idle
                        => interval <= RequestTimeout
  <1>1. TInv /\ [Next]_vars => [Step]_vars
    BY WhoBegins, DueBeside DEF PollDue
  <1> QED
    BY <1>1, TInvAlways, PTL DEF Spec, PollsWait

\* Of two refreshes under way one is the requested one, which holds the
\* debouncer's lock: no more than two GET /state are ever in flight.
TwoAtMost ==
    \A t, u \in Tasks :
        read[t] # Idle /\ read[u] # Idle /\ t # u => holder \in {t, u}

\* At most two refreshes are under way, one scheduled and one requested, if
\* every interval is longer than a request may take; the scan interval is (30 s
\* or more against 20 s), a Retry-After need not be.
THEOREM RefreshesDoNotPileUp ==
    ASSUME \A i \in {ScanInterval} \cup RetryAfters : i > RequestTimeout
    PROVE  Spec => []TwoAtMost
  <1>1. Init => TwoAtMost
    BY DEF Init, TwoAtMost
  <1>2. TInv /\ TwoAtMost /\ [Next]_vars => TwoAtMost'
    <2> SUFFICES ASSUME TInv, TwoAtMost, [Next]_vars,
                        NEW t \in Tasks, NEW u \in Tasks,
                        read'[t] # Idle, read'[u] # Idle, t # u
                 PROVE  holder' \in {t, u}
      BY DEF TwoAtMost
    <2>1. ASSUME NEW v \in Tasks, PollDue(v) PROVE \A w \in Tasks : read[w] = Idle
      BY <2>1, DueBeside DEF PollDue, TInv, IInv, TypeOK
    <2>2. CASE read[t] = Idle
      BY <2>1, <2>2, WhoBegins DEF PollDue, Begin, TInv, IInv, TypeOK
    <2>3. CASE read[u] = Idle
      BY <2>1, <2>3, WhoBegins DEF PollDue, Begin, TInv, IInv, TypeOK
    <2>4. CASE read[t] # Idle /\ read[u] # Idle
      <3>1. holder \in {t, u}
        BY <2>4 DEF TwoAtMost
      <3>2. holder' = holder \/ read'[holder] = Idle
        BY <2>4, <3>1, HolderKept DEF TInv, IInv
      <3> QED
        BY <3>1, <3>2
    <2> QED
      BY <2>2, <2>3, <2>4
  <1> QED
    BY <1>1, <1>2, TInvAlways, PTL DEF Spec
=============================================================================
