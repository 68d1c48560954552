----------------------------- MODULE MCControls -----------------------------
(***************************************************************************)
(* Small chargers for TLC: every world of a charger with the entities the  *)
(* configuration gives it, starting from the untouched one.                *)
(***************************************************************************)
EXTENDS Controls, TLC

CONSTANT
    CurrentUnread,          \* the charger does not report its current yet
    FirstZone               \* the time zone it starts with

MCCalls == 1 .. 2
MCOneCall == 1 .. 1

\* Everything is off, and the current at its bound or unread.
Untouched(c) == IF c \in Switches THEN "off"
                ELSE IF c = "time_zone" THEN FirstZone
                ELSE IF CurrentUnread THEN Null ELSE MaxAmps

StartWorld == [val |-> [c \in Entities |-> Untouched(c)],
               enabled |-> Entities,
               tracked |-> FALSE]

MCWorlds == {w \in WorldType :
                \A c \in Entities : w.val[c] \in Settings(c) \cup {Untouched(c)}}
MCStartWorlds == {StartWorld}

MCNowhere == {}
\* The charger goes offline.
MCOffline == {[StartWorld EXCEPT !.enabled = {}]}
\* Somebody else starts a session and sets the time zone.
MCOwner == {[StartWorld EXCEPT !.val["charge"] = "on",
                               !.val["time_zone"] = z,
                               !.tracked = TRUE] : z \in Zones \ {FirstZone}}

\* The refreshes are interchangeable.
TaskSymmetry == Permutations(Tasks)
=============================================================================
