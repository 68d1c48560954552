--------------------------- MODULE CommandVerdict ---------------------------
(***************************************************************************)
(* What await_command (api.py) promises its caller, with time and polling  *)
(* left out: the server settles the command once and for all, and the      *)
(* caller either receives that verdict or gives up without one.  It never  *)
(* receives anything else, and giving up stops nothing at the server.      *)
(***************************************************************************)
CONSTANT Verdicts           \* what the server may settle a command as
CONSTANT Pending            \* a command that is not settled yet
CONSTANTS Waiting, GaveUp   \* a caller still waiting, and one with no verdict

VARIABLES status, outcome
vars == <<status, outcome>>

Init == /\ status \in Verdicts \cup {Pending}
        /\ outcome = Waiting

\* The server reaches its verdict, whether or not anybody still waits.
Settle == /\ status = Pending
          /\ status' \in Verdicts
          /\ UNCHANGED outcome

\* The caller receives the verdict.
Deliver == /\ outcome = Waiting
           /\ status \in Verdicts
           /\ outcome' = status
           /\ UNCHANGED status

\* The caller stops waiting: the deadline passed or a poll failed.
GiveUp == /\ outcome = Waiting
          /\ outcome' = GaveUp
          /\ UNCHANGED status

Next == Settle \/ Deliver \/ GiveUp

Spec == Init /\ [][Next]_vars
=============================================================================
