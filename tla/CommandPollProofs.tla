-------------------------- MODULE CommandPollProofs --------------------------
(***************************************************************************)
(* Proofs about await_command for every timeout, interval and latency.     *)
(***************************************************************************)
EXTENDS CommandPoll, TLAPS

USE CommandTimeoutAssumption, PollIntervalAssumption,
    MaxLatencyAssumption, ServerTimeoutAssumption

\* Where the clock can stand at each point of the loop: a GET ends within
\* MaxLatency of its start, and a sleep within what remained at that start.
Clock ==
    /\ pc = "check" => now <= CommandTimeout + MaxLatency
    /\ pc = "get" => /\ since = CommandTimeout - remaining
                     /\ since <= now
                     /\ now <= since + MaxLatency
    /\ pc = "sleep" => /\ now <= wake
                       /\ wake <= CommandTimeout + MaxLatency
    /\ pc \in Ended => now <= CommandTimeout + MaxLatency

\* A terminal status in an answer is the one the server still holds.
Answer == /\ reply \in TerminalStatuses => status = reply
          /\ pc = "returned" => reply \in TerminalStatuses

IInv == TypeOK /\ Clock /\ Answer

LEMMA InitIInv == Init => IInv
  BY DEF Init, IInv, TypeOK, Clock, Answer, Ended, Statuses, TerminalStatuses,
         Pending, NoReply

LEMMA NextIInv == IInv /\ [Next]_vars => IInv'
  <1> SUFFICES ASSUME IInv, [Next]_vars PROVE IInv'
    OBVIOUS
  <1> USE DEF IInv, TypeOK, Clock, Answer, Ended, Statuses, TerminalStatuses,
              Pending, NoReply
  <1>1. CASE CheckDeadline
    BY <1>1 DEF CheckDeadline
  <1>2. CASE PollReturns
    BY <1>2 DEF PollReturns
  <1>3. CASE PollRaises
    BY <1>3 DEF PollRaises
  <1>4. CASE Wake
    BY <1>4 DEF Wake
  <1>5. CASE ServerReads
    BY <1>5 DEF ServerReads
  <1>6. CASE ServerSettles
    BY <1>6 DEF ServerSettles
  <1>7. CASE Tick
    BY <1>7 DEF Tick
  <1>8. CASE UNCHANGED vars
    BY <1>8 DEF vars
  <1> QED
    BY <1>1, <1>2, <1>3, <1>4, <1>5, <1>6, <1>7, <1>8 DEF Next, Loop

LEMMA Invariance == Spec => []IInv
  BY InitIInv, NextIInv, PTL DEF Spec

\* The loop never polls or sleeps on a deadline that has passed (api.py:374).
THEOREM TypeCorrect == Spec => []TypeOK
  <1>1. IInv => TypeOK
    BY DEF IInv
  <1> QED
    BY Invariance, <1>1, PTL

\* However the GETs are delayed, a call ends at the latest MaxLatency after
\* COMMAND_TIMEOUT, although the last sleep is computed from a stale remainder.
THEOREM WaitIsBounded == Spec => []BoundedWait
  <1>1. IInv => BoundedWait
    BY DEF IInv, TypeOK, Clock, BoundedWait, Ended
  <1> QED
    BY Invariance, <1>1, PTL

\* The value await_command returns is the server's verdict on the command.
THEOREM VerdictIsReturned == Spec => []ReturnsTheVerdict
  <1>1. IInv => ReturnsTheVerdict
    BY DEF IInv, Answer, ReturnsTheVerdict
  <1> QED
    BY Invariance, <1>1, PTL

(***************************************************************************)
(* How large the buffer in COMMAND_TIMEOUT has to be.                      *)
(***************************************************************************)
\* A poll that found the command pending was sent before the server's timeout,
\* and the next deadline check comes one GET and one interval later.
Buffer ==
    /\ status = Pending => now <= ServerTimeout
    /\ pc = "get" /\ reply = Pending => since <= ServerTimeout
    /\ pc = "sleep" => wake <= ServerTimeout + MaxLatency + PollInterval
    /\ pc = "check" => now <= ServerTimeout + MaxLatency + PollInterval
    /\ pc # "timedout"

\* With a buffer longer than one GET and one interval, the loop always sees
\* the server's verdict: it never gives up on a command that has one.
THEOREM BufferSuffices ==
    ASSUME CommandTimeout > ServerTimeout + MaxLatency + PollInterval
    PROVE  Spec => []NeverOverlooks
  <1> USE DEF Buffer, TerminalStatuses, Pending, NoReply
  <1>1. Init => Buffer
    BY DEF Init
  <1>2. IInv /\ Buffer /\ [Next]_vars => Buffer'
    <2> SUFFICES ASSUME IInv, Buffer, [Next]_vars PROVE Buffer'
      OBVIOUS
    <2> USE DEF IInv, TypeOK, Clock, Answer, Ended, Statuses
    <2>1. CASE CheckDeadline
      BY <2>1 DEF CheckDeadline
    <2>2. CASE PollReturns
      BY <2>2 DEF PollReturns
    <2>3. CASE PollRaises
      BY <2>3 DEF PollRaises
    <2>4. CASE Wake
      BY <2>4 DEF Wake
    <2>5. CASE ServerReads
      BY <2>5 DEF ServerReads
    <2>6. CASE ServerSettles
      BY <2>6 DEF ServerSettles
    <2>7. CASE Tick
      BY <2>7 DEF Tick
    <2>8. CASE UNCHANGED vars
      BY <2>8 DEF vars
    <2> QED
      BY <2>1, <2>2, <2>3, <2>4, <2>5, <2>6, <2>7, <2>8 DEF Next, Loop
  <1>3. Buffer => NeverOverlooks
    BY DEF NeverOverlooks
  <1> QED
    BY Invariance, <1>1, <1>2, <1>3, PTL DEF Spec

(***************************************************************************)
(* How often the server is asked.                                          *)
(***************************************************************************)
\* A sleep ends one interval after the GET it follows was sent, or, if it was
\* cut to what remained before that GET, at the deadline or later.
Spacing ==
    /\ pc = "sleep" => \/ wake >= since + PollInterval
                       \/ wake >= CommandTimeout
    /\ pc = "check" => \/ wake = 0
                       \/ now >= since + PollInterval
                       \/ now >= CommandTimeout

\* await_command never polls faster than its interval, however the GETs are
\* delayed and wherever the deadline falls: the server sees at most one GET
\* per COMMAND_POLL_INTERVAL from one call.
THEOREM PollsKeepTheirDistance == Spec => PollsAreSpaced
  <1> USE DEF Spacing
  <1>1. Init => Spacing
    BY DEF Init
  <1>2. IInv /\ Spacing /\ [Next]_vars => Spacing'
    <2> SUFFICES ASSUME IInv, Spacing, [Next]_vars PROVE Spacing'
      OBVIOUS
    <2> USE DEF IInv, TypeOK, Clock, Ended, Statuses, TerminalStatuses
    <2>1. CASE CheckDeadline
      BY <2>1 DEF CheckDeadline
    <2>2. CASE PollReturns
      BY <2>2 DEF PollReturns
    <2>3. CASE PollRaises
      BY <2>3 DEF PollRaises
    <2>4. CASE Wake
      BY <2>4 DEF Wake
    <2>5. CASE ServerReads
      BY <2>5 DEF ServerReads
    <2>6. CASE ServerSettles
      BY <2>6 DEF ServerSettles
    <2>7. CASE Tick
      BY <2>7 DEF Tick
    <2>8. CASE UNCHANGED vars
      BY <2>8 DEF vars
    <2> QED
      BY <2>1, <2>2, <2>3, <2>4, <2>5, <2>6, <2>7, <2>8 DEF Next, Loop
  <1>3. IInv /\ Spacing /\ [Next]_vars
        => [pc = "check" /\ pc' = "get" /\ wake # 0
            => since' >= since + PollInterval]_vars
    <2> SUFFICES ASSUME IInv, Spacing, Next, pc = "check", pc' = "get", wake # 0
                 PROVE  since' >= since + PollInterval
      OBVIOUS
    <2>1. CheckDeadline
      BY DEF Next, Loop, PollReturns, PollRaises, Wake, ServerReads,
             ServerSettles, Tick
    <2> QED
      BY <2>1 DEF CheckDeadline, IInv, TypeOK
  <1> QED
    BY Invariance, <1>1, <1>2, <1>3, PTL DEF Spec, PollsAreSpaced

(***************************************************************************)
(* Refinement.                                                             *)
(***************************************************************************)
\* await_command keeps the promise CommandVerdict states: its caller gets the
\* server's one verdict, or none.
THEOREM PollKeepsPromise == Spec => PromiseSpec
  <1> USE DEF TerminalStatuses, Pending, NoReply
  <1>1. Init => Promise!Init
    BY DEF Init, Promise!Init
  <1>2. IInv /\ [Next]_vars => [Promise!Next]_(Promise!vars)
    <2> SUFFICES ASSUME IInv, [Next]_vars PROVE [Promise!Next]_(Promise!vars)
      OBVIOUS
    <2> USE DEF Promise!Next, Promise!vars, Promise!Settle, Promise!Deliver,
                Promise!GiveUp, IInv, TypeOK, Answer, Ended, Statuses
    <2>1. CASE CheckDeadline
      BY <2>1 DEF CheckDeadline
    <2>2. CASE PollReturns
      BY <2>2 DEF PollReturns
    <2>3. CASE PollRaises
      BY <2>3 DEF PollRaises
    <2>4. CASE Wake
      BY <2>4 DEF Wake
    <2>5. CASE ServerReads
      BY <2>5 DEF ServerReads
    <2>6. CASE ServerSettles
      BY <2>6 DEF ServerSettles
    <2>7. CASE Tick
      BY <2>7 DEF Tick
    <2>8. CASE UNCHANGED vars
      BY <2>8 DEF vars
    <2> QED
      BY <2>1, <2>2, <2>3, <2>4, <2>5, <2>6, <2>7, <2>8 DEF Next, Loop
  <1> QED
    BY Invariance, <1>1, <1>2, PTL DEF Spec, PromiseSpec, Promise!Spec
=============================================================================
