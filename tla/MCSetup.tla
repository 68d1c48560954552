------------------------------- MODULE MCSetup -------------------------------
(***************************************************************************)
(* Two entries for TLC, whose accounts have a charger in common.  What its *)
(* flags say of the current limit differs between the two answers of the   *)
(* first entry, and so does what the second is told.  The first entry also *)
(* has an IYILO charger, whose time zone changes to one that the server no *)
(* longer offers.                                                          *)
(***************************************************************************)
EXTENDS Setup, TLC

CONSTANTS e1, e2, common, iyilo, z1, z2, l1, l2

Plain == [vendor |-> "tesla", is_ocpp |-> FALSE, capabilities |-> {},
          controllable |-> FALSE, current_limit_controllable |-> "false",
          max_current_controllable |-> FALSE, time_zone_value |-> Null]

\* Of both kinds of current limit, one that the flag says can be controlled.
Common(flag) == [Plain EXCEPT !.current_limit_controllable = flag,
                              !.max_current_controllable = TRUE]
Iyilo(zone) == [Plain EXCEPT !.vendor = "ave",
                             !.capabilities = {"temperature", "soc_min_limit",
                                               "plugged_in", "plug_and_charge",
                                               "time_zone", "reboot"},
                             !.current_limit_controllable = Null,
                             !.time_zone_value = zone]

Payload(chargers, account, zones) ==
    [chargers |-> chargers, account |-> account, time_zones |-> zones]

MCAnswers ==
    [e \in {e1, e2} |->
        IF e = e1
        THEN {Payload(common :> Common("true") @@ iyilo :> Iyilo(z1), TRUE,
                      z1 :> l1 @@ z2 :> l1),
              Payload(common :> Common("false") @@ iyilo :> Iyilo(z2), TRUE,
                      z1 :> l1)}
        ELSE {Payload(common :> Common("false"), TRUE, <<>>)}]

\* Older versions have left the first entry the doubled id of one sensor, and
\* perhaps the corrected id too.
MCBefore ==
    {[u \in AccountRows |->
        IF u[2] \in left /\ u[3] = "charger_count" THEN e1 ELSE None] :
            left \in {{Doubled}, {Account, Doubled}}}
=============================================================================
