------------------------------ MODULE Freshness ------------------------------
(***************************************************************************)
(* How old what Home Assistant shows may be.  The coordinator's state says *)
(* nothing of the past, so two history variables are laid over Coordinator *)
(* and observe its steps without restricting them: how long ago the        *)
(* account was last in each state, and when a refresh last ended.          *)
(***************************************************************************)
EXTENDS Coordinator

CONSTANT Longest        \* the longest interval a refresh can leave behind

ASSUME LongestAssumption ==
    /\ Longest \in Nat
    /\ \A i \in {ScanInterval} \cup RetryAfters : i <= Longest

\* A payload is read up to one request after it was sent for, shown for one
\* scan interval, and until the next request has ended.
Horizon == ScanInterval + 2 * RequestTimeout
Silence == Longest + RequestTimeout

VARIABLES
    gone,       \* time since the account was last in each state, or a
                \* refresh was cancelled
    silent      \* time since a refresh last ended, or was cancelled

freshVars == <<vars, gone, silent>>

\* The counters stop just past the bounds they are compared with, and silence
\* is not counted where none is promised to end.
AtMost(b, n) == IF n > b THEN b ELSE n
Silenced == reauth \/ interval = 0

FreshInit == /\ Init
             /\ gone = [w \in Worlds |-> IF w = world THEN 0 ELSE Horizon + 1]
             /\ silent = 0

Observe(d) ==
    gone' = [w \in Worlds |->
                IF w = world' THEN 0 ELSE AtMost(Horizon + 1, gone[w] + d)]

TimePasses == /\ Tick
              /\ Observe(1)
              /\ silent' = IF Silenced THEN silent
                           ELSE AtMost(Silence + 1, silent + 1)

RefreshEnds(t) == /\ Finishes(t)
                  /\ Observe(0)
                  /\ silent' = 0

\* Both counts start again.
RefreshCut(t) == /\ RefreshCancelled(t)
                 /\ gone' = [w \in Worlds |-> 0]
                 /\ silent' = 0

OtherStep == /\ \/ \E t \in Tasks : \/ RequestRefresh(t)
                                    \/ PollDue(t)
                                    \/ CooldownEnds(t)
                                    \/ Answering(t)
                \/ WorldChanges
                \/ Revoke
             /\ Observe(0)
             /\ UNCHANGED silent

FreshNext == \/ TimePasses
             \/ \E t \in Tasks : RefreshEnds(t) \/ RefreshCut(t)
             \/ OtherStep

FreshSpec == FreshInit /\ [][FreshNext]_freshVars

FreshFairSpec == FreshSpec /\ Fairness

(***************************************************************************)
(* Properties.                                                             *)
(***************************************************************************)
FreshTypeOK == /\ TypeOK
               /\ gone \in [Worlds -> 0 .. Horizon + 1]
               /\ silent \in 0 .. Silence + 1

\* Entities that show as available show what the account really was at most
\* one scan interval and two requests ago: no overlap of refreshes that end
\* out of order, no rate limit and no failure lets an old payload pass for a
\* current one any longer (available = last_update_success).  Only a requested
\* refresh that is cancelled puts off the next one without a word; then the
\* time counts from the last cancellation.
AvailableMeansRecent == ok => gone[data] <= Horizon

\* Backing off is bounded: a refresh ends, or is cancelled by its caller, at
\* least every Retry-After (or scan interval) plus one request, however many
\* 429, failures, requests and cancellations stop and arm the timer; only a
\* refused token ends it, or a Retry-After of 0.
NeverSilent == Silenced \/ silent <= Silence
=============================================================================
