------------------------------- MODULE Entities -------------------------------
(***************************************************************************)
(* What the platforms make of an answer to GET /state: the entities they   *)
(* create, by platform, charger and key, which together are what Home      *)
(* Assistant knows an entity by.                                           *)
(*                                                                         *)
(* A server too old to send `capabilities` is one that lists none: every   *)
(* platform treats the two alike.                                          *)
(***************************************************************************)
EXTENDS TimeZones

CONSTANTS
    Chargers,           \* ids of chargers
    AccountKeys,        \* keys of the account's sensors, all treated alike
    Zones, ZoneLabels   \* time zones: values and labels

Account == "account"            \* account_rewards_total, ...
Doubled == "account_account"    \* account_account_rewards_total, ...

ASSUME ChargersAssumption == {Account, Doubled} \cap Chargers = {}
ASSUME ZonesAssumption == Null \notin Zones \cup ZoneLabels

(***************************************************************************)
(* The tables.                                                             *)
(***************************************************************************)
KnownCapabilities ==
    {"energy_lifetime", "status", "last_session", "power", "energy_session",
     "current", "voltage", "last_connection", "session_start", "temperature",
     "soc", "draw_current", "connection_type", "charging_speed", "added_range",
     "vin", "plugged_in", "wifi_signal", "soc_max_limit", "soc_min_limit",
     "configured_current_limit", "heartbeat_interval",
     "meter_sample_interval", "plug_and_charge", "time_zone", "reboot"}

LegacySensorKeys ==
    {"power_kw", "energy_kwh", "status", "current_a", "voltage_v",
     "last_session"}

\* The sensors, with the capability each of them names.
SensorCapability ==
    [power_kw |-> "power", energy_kwh |-> "energy_session",
     status |-> "status", current_a |-> "current", voltage_v |-> "voltage",
     last_session |-> "last_session",
     lifetime_energy_kwh |-> "energy_lifetime",
     lifetime_sessions |-> "energy_lifetime",
     temperature_c |-> "temperature", soc_percent |-> "soc",
     draw_current_a |-> "draw_current",
     last_connection_at |-> "last_connection",
     session_started_at |-> "session_start",
     charging_speed_kmh |-> "charging_speed",
     added_range_km |-> "added_range", connection_type |-> "connection_type",
     vin |-> "vin", wifi_signal_percent |-> "wifi_signal",
     soc_max_percent |-> "soc_max_limit", soc_min_percent |-> "soc_min_limit",
     configured_current_limit_a |-> "configured_current_limit",
     heartbeat_interval_seconds |-> "heartbeat_interval",
     meter_sample_interval_seconds |-> "meter_sample_interval"]

\* Entities the registry gets in a disabled state.
DisabledByDefault ==
    {"soc_max_percent", "soc_min_percent", "configured_current_limit_a",
     "heartbeat_interval_seconds", "meter_sample_interval_seconds", "reboot"}

(***************************************************************************)
(* A payload.                                                              *)
(***************************************************************************)
Charger == [vendor : {"ocpp", "wallbox", "ave", "sigenergy", "tesla"},
            is_ocpp : BOOLEAN,
            capabilities : SUBSET KnownCapabilities,
            controllable : BOOLEAN,
            current_limit_controllable : {"true", "false", Null},
            max_current_controllable : BOOLEAN,
            time_zone_value : Zones \cup {Null}]

Roster(p) == DOMAIN p.chargers

IsPayload(p) ==
    /\ Roster(p) \subseteq Chargers
    /\ p.chargers \in [Roster(p) -> Charger]
    /\ p.account \in BOOLEAN
    /\ DOMAIN p.time_zones \subseteq Zones
    /\ p.time_zones \in [DOMAIN p.time_zones -> ZoneLabels]

(***************************************************************************)
(* The entities of a charger, platform by platform.                        *)
(***************************************************************************)
\* Mutant: a capability gates every sensor, the first six as well.
SensorKeysGated(ch) ==
    {k \in DOMAIN SensorCapability : SensorCapability[k] \in ch.capabilities}

\* The first six always, the others by capability.
SensorKeys(ch) ==
    {k \in DOMAIN SensorCapability :
        k \in LegacySensorKeys \/ SensorCapability[k] \in ch.capabilities}

BinarySensorKeys(ch) ==
    {"online", "charging"} \cup ({"plugged_in"} \cap ch.capabilities)

SwitchKeys(ch) ==
    {k \in {"plug_and_charge", "charge_switch", "lock_switch"} :
        \/ k = "plug_and_charge" /\ k \in ch.capabilities
        \/ k = "charge_switch" /\ \/ ch.is_ocpp \/ ch.controllable
                                  \/ ch.vendor \in {"wallbox", "ave", "sigenergy"}
        \/ k = "lock_switch" /\ ch.vendor = "wallbox"}

\* The server's flag, or the rule that was there before it.
LimitControllable(ch) ==
    \/ ch.current_limit_controllable = "true"
    \/ /\ ch.current_limit_controllable = Null
       /\ ch.is_ocpp \/ ch.vendor = "wallbox"

\* Mutant: the second slider does not wait for the first to be ruled out.
NumberKeysBoth(ch) ==
    {k \in {"max_current", "evduty_max_current"} :
        \/ k = "max_current" /\ LimitControllable(ch)
        \/ k = "evduty_max_current" /\ ch.max_current_controllable}

NumberKeys(ch) ==
    {k \in {"max_current", "evduty_max_current"} :
        \/ k = "max_current" /\ LimitControllable(ch)
        \/ /\ k = "evduty_max_current"
           /\ ch.max_current_controllable /\ ~LimitControllable(ch)}

SelectKeys(ch) == {"time_zone"} \cap ch.capabilities

ButtonKeys(ch) == {"refresh"} \cup ({"reboot"} \cap ch.capabilities)

KeysOn(platform, ch) ==
    CASE platform = "sensor"        -> SensorKeys(ch)
      [] platform = "binary_sensor" -> BinarySensorKeys(ch)
      [] platform = "switch"        -> SwitchKeys(ch)
      [] platform = "number"        -> NumberKeys(ch)
      [] platform = "select"        -> SelectKeys(ch)
      [] platform = "button"        -> ButtonKeys(ch)

\* The account's sensors, whose ids name no account.
AccountSensors == {"sensor"} \X {Account} \X AccountKeys

\* What a platform's async_setup_entry creates from a payload.
Creates(platform, p) ==
    (UNION {{platform} \X {c} \X KeysOn(platform, p.chargers[c]) : c \in Roster(p)})
    \cup {u \in AccountSensors : platform = "sensor" /\ p.account}
=============================================================================
