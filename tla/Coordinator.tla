----------------------------- MODULE Coordinator -----------------------------
(***************************************************************************)
(* RoulezElectriqueCoordinator (coordinator.py) and the parts of Home      *)
(* Assistant's DataUpdateCoordinator it relies on: the poll timer, the     *)
(* debounced async_request_refresh, the subscription of the entities.      *)
(*                                                                         *)
(* A refresh is a coroutine of three steps: it begins and sends GET        *)
(* /state, the server answers, the answer comes back and                   *)
(* _async_update_data ends.  A scheduled refresh and a requested one are   *)
(* not serialised, so several may be under way, and their answers may come *)
(* back in any order.  A requested one is part of the service call that    *)
(* asked for it, and is cancelled with it.                                 *)
(***************************************************************************)
EXTENDS Integers

CONSTANTS
    Worlds,             \* the states of the account the server may report
    ScanInterval,       \* the configured scan_interval
    RequestTimeout,     \* _REQUEST_TIMEOUT
    RetryAfters,        \* values of the Retry-After header of a 429
    Tasks,              \* refreshes that can be under way at once (a bound)
    Nobody              \* no task: nobody holds the debouncer's lock

ASSUME ScanIntervalAssumption == ScanInterval \in Nat \ {0}
ASSUME RequestTimeoutAssumption == RequestTimeout \in Nat
ASSUME RetryAftersAssumption == RetryAfters \subseteq Nat
ASSUME TasksAssumption == Tasks # {} /\ Nobody \notin Tasks

Off == -1               \* a timer that is not armed

VARIABLES
    world,      \* the state of the account, at the server
    data,       \* coordinator.data
    ok,         \* last_update_success
    interval,   \* update_interval
    timer,      \* time to the next scheduled refresh, or Off
    read,       \* what each refresh under way has got so far
    age,        \* for how long
    holder,     \* the refresh that holds the debouncer's lock
    awaited,    \* a service call awaits that refresh
    cooldown,   \* the debouncer: off, on, or on with a call to make at its end
    reauth,     \* the reauthentication flow was started
    revoked     \* the API token was revoked

debouncer == <<holder, awaited, cooldown>>
vars == <<world, data, ok, interval, timer, read, age, debouncer, reauth,
          revoked>>
outside == <<world, revoked>>

\* What get_state returns or raises.
Idle == [kind |-> "idle"]
Sent == [kind |-> "sent"]
Answers == [kind : {"state"}, snap : Worlds]
           \cup [kind : {"limited"}, after : RetryAfters]
           \cup [kind : {"malformed", "unauthorized", "failed"}]

\* async_config_entry_first_refresh succeeded and the entities have subscribed.
Init == /\ world \in Worlds
        /\ data = world
        /\ ok = TRUE
        /\ interval = ScanInterval
        /\ timer = ScanInterval
        /\ read = [t \in Tasks |-> Idle]
        /\ age = [t \in Tasks |-> 0]
        /\ holder = Nobody
        /\ awaited = FALSE
        /\ cooldown = "off"
        /\ reauth = FALSE
        /\ revoked = FALSE

(***************************************************************************)
(* Starting a refresh (Home Assistant).                                    *)
(***************************************************************************)
\* A refresh cancels the scheduled one and the debouncer's pending call.
Begin(t) == /\ read[t] = Idle
            /\ read' = [read EXCEPT ![t] = Sent]
            /\ age' = [age EXCEPT ![t] = 0]
            /\ timer' = Off
            /\ cooldown' = "off"

\* The timer fires: a scheduled refresh, outside the debouncer.
PollDue(t) == /\ timer = 0
              /\ Begin(t)
              /\ UNCHANGED <<world, data, ok, interval, holder, awaited, reauth,
                             revoked>>

\* async_request_refresh starts a refresh at once ...
RequestStarts(t) ==
    /\ cooldown = "off"
    /\ holder = Nobody
    /\ Begin(t)
    /\ holder' = t
    /\ awaited' = TRUE
    /\ UNCHANGED <<world, data, ok, interval, reauth, revoked>>

\* ... or, in the cooldown, leaves one call to make at its end ...
RequestDeferred ==
    /\ cooldown # "off"
    /\ cooldown' = "again"
    /\ UNCHANGED <<world, data, ok, interval, timer, read, age, holder, awaited,
                   reauth, revoked>>

\* ... or is dropped, when a requested refresh is under way.
RequestDropped ==
    /\ cooldown = "off"
    /\ holder # Nobody
    /\ UNCHANGED vars

RequestRefresh(t) == RequestStarts(t) \/ RequestDeferred \/ RequestDropped

\* The cooldown is over; the call left for its end is made, by the debouncer.
CooldownEnds(t) ==
    /\ cooldown # "off"
    /\ IF cooldown = "again" /\ holder = Nobody
       THEN Begin(t) /\ holder' = t
       ELSE cooldown' = "off" /\ UNCHANGED <<read, age, timer, holder>>
    /\ UNCHANGED <<world, data, ok, interval, awaited, reauth, revoked>>

(***************************************************************************)
(* The server answers GET /state.                                          *)
(***************************************************************************)
Answer(t, a) == /\ read[t] = Sent
                /\ read' = [read EXCEPT ![t] = a]
                /\ UNCHANGED <<world, data, ok, interval, timer, age, debouncer,
                               reauth, revoked>>

AnswerState(t) == ~revoked /\ Answer(t, [kind |-> "state", snap |-> world])
\* A 200 whose chargers have no integer id.
AnswerMalformed(t) == ~revoked /\ Answer(t, [kind |-> "malformed"])
AnswerUnauthorized(t) == revoked /\ Answer(t, [kind |-> "unauthorized"])
AnswerLimited(t) ==
    \E s \in RetryAfters : Answer(t, [kind |-> "limited", after |-> s])
\* A 5xx, a lost connection, the client's timeout, any other status.
AnswerFailed(t) == Answer(t, [kind |-> "failed"])

(***************************************************************************)
(* _async_update_data ends, and the coordinator with it.                   *)
(***************************************************************************)
\* The refresh is over; a requested one leaves the debouncer in its cooldown.
Finish(t) == /\ read' = [read EXCEPT ![t] = Idle]
             /\ age' = [age EXCEPT ![t] = 0]
             /\ IF holder = t
                THEN holder' = Nobody /\ awaited' = FALSE /\ cooldown' = "on"
                ELSE UNCHANGED debouncer
             /\ UNCHANGED <<world, revoked>>

\* The next refresh is scheduled; an update_interval of 0 seconds counts as
\* none, and leaves the timer alone.
Rearm(i) == timer' = IF i = 0 THEN timer ELSE i

\* Mutant: the interval of a 429 is kept.
FinishStateWidened(t) == /\ read[t].kind = "state"
                         /\ data' = read[t].snap
                         /\ ok' = TRUE
                         /\ Rearm(interval)
                         /\ Finish(t)
                         /\ UNCHANGED <<interval, reauth>>

\* 200: the interval is restored and the payload replaces the data.
FinishState(t) == /\ read[t].kind = "state"
                  /\ data' = read[t].snap
                  /\ ok' = TRUE
                  /\ interval' = ScanInterval
                  /\ Rearm(interval')
                  /\ Finish(t)
                  /\ UNCHANGED reauth

\* 200, but parsing raises after the interval was restored.
FinishMalformed(t) == /\ read[t].kind = "malformed"
                      /\ ok' = FALSE
                      /\ interval' = ScanInterval
                      /\ Rearm(interval')
                      /\ Finish(t)
                      /\ UNCHANGED <<data, reauth>>

\* Mutant: 401 is one more failed update.
FinishUnauthorizedRetries(t) == /\ read[t].kind = "unauthorized"
                                /\ ok' = FALSE
                                /\ Rearm(interval)
                                /\ Finish(t)
                                /\ UNCHANGED <<data, interval, reauth>>

\* 401: ConfigEntryAuthFailed starts the flow; this refresh schedules no other.
FinishUnauthorized(t) == /\ read[t].kind = "unauthorized"
                         /\ ok' = FALSE
                         /\ reauth' = TRUE
                         /\ Finish(t)
                         /\ UNCHANGED <<data, interval, timer>>

\* Mutant: 429 suspends polling (update_interval = None).
FinishLimitedSuspends(t) == /\ read[t].kind = "limited"
                            /\ ok' = FALSE
                            /\ interval' = read[t].after
                            /\ timer' = Off
                            /\ Finish(t)
                            /\ UNCHANGED <<data, reauth>>

\* Mutant: Retry-After is added to an interval that may be widened already.
FinishLimitedCompounds(t) == /\ read[t].kind = "limited"
                             /\ ok' = FALSE
                             /\ interval' = interval + read[t].after
                             /\ Rearm(interval')
                             /\ Finish(t)
                             /\ UNCHANGED <<data, reauth>>

\* 429: the interval becomes Retry-After.  (Of 0 it ends the polling: see
\* Stopped.)
FinishLimited(t) == /\ read[t].kind = "limited"
                    /\ ok' = FALSE
                    /\ interval' = read[t].after
                    /\ Rearm(interval')
                    /\ Finish(t)
                    /\ UNCHANGED <<data, reauth>>

\* Mutant: every refusal is taken for a revoked token.
FinishFailedReauths(t) == /\ read[t].kind = "failed"
                          /\ ok' = FALSE
                          /\ reauth' = TRUE
                          /\ Finish(t)
                          /\ UNCHANGED <<data, interval, timer>>

\* Mutant: a failed refresh is retried after one unit of time.
FinishFailedRetriesSoon(t) == /\ read[t].kind = "failed"
                              /\ ok' = FALSE
                              /\ timer' = 1
                              /\ Finish(t)
                              /\ UNCHANGED <<data, interval, reauth>>

\* Any other error: UpdateFailed, with the interval as it stands.
FinishFailed(t) == /\ read[t].kind = "failed"
                   /\ ok' = FALSE
                   /\ Rearm(interval)
                   /\ Finish(t)
                   /\ UNCHANGED <<data, interval, reauth>>

\* The service call that awaits a requested refresh is cancelled, and the
\* refresh with it, answered or not: nothing comes of it but the next one.
RefreshCancelled(t) == /\ holder = t
                       /\ awaited
                       /\ Rearm(interval)
                       /\ Finish(t)
                       /\ UNCHANGED <<data, ok, interval, reauth>>

Finishes(t) == \/ FinishState(t)
               \/ FinishMalformed(t)
               \/ FinishUnauthorized(t)
               \/ FinishLimited(t)
               \/ FinishFailed(t)

(***************************************************************************)
(* The environment.                                                        *)
(***************************************************************************)
\* The account changes: a session starts, the app is used, a command works.
WorldChanges ==
    /\ world' \in Worlds \ {world}
    /\ UNCHANGED <<data, ok, interval, timer, read, age, debouncer, reauth,
                   revoked>>

Revoke == /\ ~revoked
          /\ revoked' = TRUE
          /\ UNCHANGED <<world, data, ok, interval, timer, read, age, debouncer,
                         reauth>>

\* Time passes; a due poll starts and a GET times out first.
Tick == /\ timer # 0
        /\ \A t \in Tasks : read[t] # Idle => age[t] < RequestTimeout
        /\ timer' = IF timer = Off THEN Off ELSE timer - 1
        /\ age' = [t \in Tasks |-> IF read[t] = Idle THEN 0 ELSE age[t] + 1]
        /\ UNCHANGED <<world, data, ok, interval, read, debouncer, reauth,
                       revoked>>

Answering(t) == \/ AnswerState(t)
                \/ AnswerMalformed(t)
                \/ AnswerUnauthorized(t)
                \/ AnswerLimited(t)
                \/ AnswerFailed(t)

Refresh(t) == \/ PollDue(t)
              \/ CooldownEnds(t)
              \/ Answering(t)
              \/ Finishes(t)

Environment == WorldChanges \/ Revoke \/ Tick

Next == \/ \E t \in Tasks : \/ RequestRefresh(t)
                            \/ Refresh(t)
                            \/ RefreshCancelled(t)
        \/ Environment

Spec == Init /\ [][Next]_vars

\* The event loop runs a due timer and a returned GET; a GET ends (its timeout
\* sees to that); the server is not unable for ever to give its true answer.
\* Nothing is assumed about requests, their cancellation, revocation or the
\* account.
Fairness == /\ WF_vars(Tick)
            /\ WF_vars(\E t \in Tasks : PollDue(t))
            /\ WF_vars(\E t \in Tasks : CooldownEnds(t))
            /\ \A t \in Tasks : /\ WF_vars(Finishes(t))
                                /\ WF_vars(Answering(t))
                                /\ SF_vars(AnswerState(t))
                                /\ SF_vars(AnswerUnauthorized(t))

FairSpec == Spec /\ Fairness

(***************************************************************************)
(* Properties.                                                             *)
(***************************************************************************)
\* Types; the interval is the configured one or one Retry-After, however many
\* 429 came in a row.
TypeOK == /\ world \in Worlds
          /\ data \in Worlds
          /\ ok \in BOOLEAN
          /\ interval \in {ScanInterval} \cup RetryAfters
          /\ timer \in Nat \cup {Off}
          /\ read \in [Tasks -> {Idle, Sent} \cup Answers]
          /\ age \in [Tasks -> Nat]
          /\ holder \in Tasks \cup {Nobody}
          /\ awaited \in BOOLEAN
          /\ cooldown \in {"off", "on", "again"}
          /\ reauth \in BOOLEAN
          /\ revoked \in BOOLEAN

\* Polling dies of two things only, whatever the overlap of scheduled,
\* requested and cancelled refreshes and the order they end in: a token that was
\* refused, about which the user is asked, or a 429 with a Retry-After of 0
\* (api.py:159), of which coordinator.py:100 makes an interval that Home
\* Assistant does not schedule.  Otherwise a refresh is under way or scheduled.
PollingAlive == \/ \E t \in Tasks : read[t] # Idle
                \/ timer # Off
                \/ reauth
                \/ interval = 0

\* The user is asked for a new token only when the server refused the old one.
ReauthOnlyIfRefused == reauth => revoked

\* Scheduled refreshes do not pile up: a poll falls due beside a refresh that
\* still waits for its answer only if the interval in force is no longer than a
\* request may take, which a short Retry-After alone can bring about; no order
\* in which refreshes begin, end and re-arm the one timer does.
PollsWait ==
    [][\A t, u \in Tasks :
        /\ read[t] = Idle /\ read'[t] # Idle /\ holder' # t
        /\ read[u] # Idle
        => interval <= RequestTimeout]_vars

\* Polling has died of a Retry-After of 0, and nobody is told: only a refresh
\* that the user requests can set it going again.
Stopped == /\ \A t \in Tasks : read[t] = Idle
           /\ timer = Off
           /\ interval = 0

\* The requested refreshes are not all cancelled, over and over.
CancelsEnd == <>[][\A t \in Tasks : ~RefreshCancelled(t)]_vars

\* A change made outside Home Assistant is eventually on the coordinator, and
\* stays there, whatever refreshes and rate limits come in between; short of a
\* Retry-After of 0, after which nobody requests a refresh.
OutsideChangeSeen ==
    CancelsEnd =>
        \A w \in Worlds :
            <>[](world = w /\ ~revoked) => <>[](data = w) \/ <>[]Stopped

\* The backoff of a 429 is temporary: the configured interval comes back, also
\* when the polls that follow fail otherwise, or several 429 overlap.  Only a
\* Retry-After of 0 is for good, as long as nobody requests a refresh.
BackoffEnds ==
    CancelsEnd =>
        (interval # ScanInterval
            ~> interval = ScanInterval \/ revoked \/ Stopped)

\* A revoked token eventually raises the reauthentication prompt, unless a
\* Retry-After of 0 has stopped the polling that would notice.
RevocationNoticed == CancelsEnd => (revoked ~> reauth \/ Stopped)
=============================================================================
