----------------------------- MODULE CommandPoll -----------------------------
(***************************************************************************)
(* One call of RoulezElectriqueApiClient.await_command (api.py): the loop  *)
(* that polls GET /commands/{id} until the server has a verdict or the     *)
(* deadline has passed, against a server that expires its commands.  Time  *)
(* is in whole seconds since the call; the event loop is idle otherwise,   *)
(* so the code between two awaits takes no time.                           *)
(***************************************************************************)
EXTENDS Integers

CONSTANTS
    CommandTimeout,     \* COMMAND_TIMEOUT, 37
    PollInterval,       \* COMMAND_POLL_INTERVAL, 2
    MaxLatency,         \* longest GET, at most the 20 s of _REQUEST_TIMEOUT
    ServerTimeout       \* when the server expires a command, "~35s"

ASSUME CommandTimeoutAssumption == CommandTimeout \in Nat \ {0}
ASSUME PollIntervalAssumption == PollInterval \in Nat \ {0}
ASSUME MaxLatencyAssumption == MaxLatency \in Nat
ASSUME ServerTimeoutAssumption == ServerTimeout \in Nat

TerminalStatuses == {"accepted", "rejected", "timeout", "failed"}
Pending == "pending"            \* and "queued": not terminal
Statuses == TerminalStatuses \cup {Pending}
NoReply == "none"

VARIABLES
    now,        \* seconds since await_command was called
    pc,         \* where the loop stands, or how it ended
    remaining,  \* the local of that name, as computed before the GET
    since,      \* when the GET was sent
    wake,       \* when the sleep ends
    reply,      \* the status the GET in flight brings back
    status      \* the status of the command at the server

vars == <<now, pc, remaining, since, wake, reply, status>>

Ended == {"returned", "timedout", "raised"}

Init == /\ now = 0
        /\ pc = "check"
        /\ remaining = CommandTimeout
        /\ since = 0
        /\ wake = 0
        /\ reply = NoReply
        /\ status = Pending

(***************************************************************************)
(* The loop.                                                               *)
(***************************************************************************)
\* Mutant: the deadline itself still counts as time remaining.
CheckDeadlineLate ==
    /\ pc = "check"
    /\ remaining' = CommandTimeout - now
    /\ IF remaining' < 0
       THEN pc' = "timedout" /\ UNCHANGED since
       ELSE pc' = "get" /\ since' = now
    /\ reply' = NoReply
    /\ UNCHANGED <<now, wake, status>>

\* The deadline check: raise, or send the next GET.
CheckDeadline ==
    /\ pc = "check"
    /\ remaining' = CommandTimeout - now
    /\ IF remaining' <= 0
       THEN pc' = "timedout" /\ UNCHANGED since
       ELSE pc' = "get" /\ since' = now
    /\ reply' = NoReply
    /\ UNCHANGED <<now, wake, status>>

\* Mutant: always sleeps the whole interval.
PollReturnsUnbounded ==
    /\ pc = "get"
    /\ reply # NoReply
    /\ IF reply \in TerminalStatuses
       THEN pc' = "returned" /\ UNCHANGED wake
       ELSE pc' = "sleep" /\ wake' = now + PollInterval
    /\ UNCHANGED <<now, remaining, since, reply, status>>

\* Mutant: the first status is returned whatever it is.
PollReturnsAny ==
    /\ pc = "get"
    /\ reply # NoReply
    /\ pc' = "returned"
    /\ UNCHANGED <<now, remaining, since, wake, reply, status>>

\* The GET returned a status: a verdict ends the loop, anything else sleeps,
\* for a time bounded by what remained BEFORE the GET was sent.
PollReturns ==
    /\ pc = "get"
    /\ reply # NoReply
    /\ IF reply \in TerminalStatuses
       THEN pc' = "returned" /\ UNCHANGED wake
       ELSE /\ pc' = "sleep"
            /\ wake' = now + (IF remaining < PollInterval THEN remaining
                                                          ELSE PollInterval)
    /\ UNCHANGED <<now, remaining, since, reply, status>>

\* The GET failed: nothing in await_command catches what get_command raises.
PollRaises ==
    /\ pc = "get"
    /\ pc' = "raised"
    /\ UNCHANGED <<now, remaining, since, wake, reply, status>>

Wake == /\ pc = "sleep"
        /\ now >= wake
        /\ pc' = "check"
        /\ UNCHANGED <<now, remaining, since, wake, reply, status>>

(***************************************************************************)
(* The server, and time.                                                   *)
(***************************************************************************)
\* The server answers the GET with the status it holds at that instant; the
\* answer may still take until MaxLatency to arrive.
ServerReads == /\ pc = "get"
               /\ reply = NoReply
               /\ reply' = status
               /\ UNCHANGED <<now, pc, remaining, since, wake, status>>

\* The borne answers, or the server expires the command.
ServerSettles == /\ status = Pending
                 /\ status' \in TerminalStatuses
                 /\ UNCHANGED <<now, pc, remaining, since, wake, reply>>

\* A second passes, unless something is due at this very instant.
Tick == /\ pc \in {"get", "sleep"}
        /\ pc = "get" => now < since + MaxLatency
        /\ pc = "sleep" => now < wake
        /\ status = Pending => now < ServerTimeout
        /\ now' = now + 1
        /\ UNCHANGED <<pc, remaining, since, wake, reply, status>>

Loop == CheckDeadline \/ PollReturns \/ PollRaises \/ Wake

Next == Loop \/ ServerReads \/ ServerSettles \/ Tick

\* The event loop runs what is ready, the server answers, the clock advances:
\* none of the three may stop for ever.  The server need not settle the
\* command (but see Tick: it does so within ServerTimeout, if that is short).
Fairness == /\ WF_vars(Loop)
            /\ WF_vars(ServerReads)
            /\ WF_vars(Tick)

Spec == Init /\ [][Next]_vars
FairSpec == Spec /\ Fairness

(***************************************************************************)
(* Properties.                                                             *)
(***************************************************************************)
\* Types; the remaining time is never zero or negative while a GET or a sleep
\* is based on it (the early raise of api.py:374).
TypeOK ==
    /\ now \in Nat
    /\ pc \in {"check", "get", "sleep"} \cup Ended
    /\ remaining \in Int
    /\ pc \in {"get", "sleep"} => remaining \in 1 .. CommandTimeout
    /\ since \in Nat
    /\ wake \in Nat
    /\ reply \in Statuses \cup {NoReply}
    /\ status \in Statuses

\* A command service call never waits longer than COMMAND_TIMEOUT plus one
\* GET, although the last sleep is bounded by a `remaining` that the GET made
\* stale and the deadline is only looked at between two GETs.
BoundedWait == now <= CommandTimeout + MaxLatency

\* What await_command returns is the verdict the server settled on, however
\* late the answer came in.
ReturnsTheVerdict == pc = "returned" => /\ reply = status
                                        /\ status \in TerminalStatuses

\* The loop never gives up on a command: the deadline always lies after a
\* poll that sees the verdict.  COMMAND_TIMEOUT is the server's timeout plus
\* a buffer for that purpose (const.py:60); BufferSuffices of CommandPollProofs
\* says how long the buffer has to be.
NeverOverlooks == pc # "timedout"

\* Every await_command ends, with a verdict, the timeout or an error, also if
\* the server does not settle the command as long as the call lasts.
AlwaysEnds == <>(pc \in Ended)

\* Two polls of a command lie COMMAND_POLL_INTERVAL apart or more (api.py:365),
\* also at the deadline, where the sleep is cut to what remained: a sleep that
\* was cut short ends on a passed deadline, never on another poll.
PollsAreSpaced ==
    [][pc = "check" /\ pc' = "get" /\ wake # 0
       => since' >= since + PollInterval]_vars

\* The text of the timeout error (api.py:375-377): it is only raised for a
\* command that reached no terminal status within COMMAND_TIMEOUT.  ServerSettles
\* happens at most at ServerTimeout < CommandTimeout here.
TimeoutErrorIsTrue == pc = "timedout" => status = Pending

\* await_command implements its promise: the caller gets the server's verdict
\* or none, and the verdict never changes under a poll in flight.
Promise == INSTANCE CommandVerdict WITH
    Verdicts <- TerminalStatuses,
    Waiting <- "waiting",
    GaveUp <- "gave up",
    outcome <- IF pc = "returned" THEN reply
               ELSE IF pc \in {"timedout", "raised"} THEN "gave up"
               ELSE "waiting"
PromiseSpec == Promise!Spec
=============================================================================
