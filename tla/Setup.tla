-------------------------------- MODULE Setup --------------------------------
(***************************************************************************)
(* What a config entry makes of the answers it gets: setup, migration,     *)
(* platforms, reload and removal (__init__.py), and the entity registry    *)
(* all entries share.  Module Entries has the setups that fail, and why;   *)
(* here a setup that is "down" is one that has not succeeded yet.          *)
(* Two entries may name the same charger: they are told apart by the       *)
(* prefix of their token, and an account may have several tokens.          *)
(*                                                                         *)
(* Home Assistant's part: it refuses an entity whose row another live      *)
(* entity holds; a row, once made, stays when its entity goes, and goes    *)
(* with the entry that owns it; and the entry whose entity took a row last *)
(* owns it.                                                                *)
(***************************************************************************)
EXTENDS Entities, Naturals, Sequences

CONSTANTS
    Entries,    \* the config entries there ever are
    Answers,    \* the payloads each of them may get
    Before      \* the account rows older versions may have left, by owner

None == "none"
Earlier == "earlier"        \* an older version
NoData == [chargers |-> <<>>, account |-> FALSE, time_zones |-> <<>>]

PLATFORMS ==
    <<"binary_sensor", "button", "number", "select", "sensor", "switch">>

DoubledIds == {"sensor"} \X {Doubled} \X AccountKeys
Corrected(u) == [u EXCEPT ![2] = Account]
AccountRows == AccountSensors \cup DoubledIds

Uids == (UNION {Creates(PLATFORMS[i], p) :
                    i \in 1..6, p \in UNION {Answers[e] : e \in Entries}})
        \cup AccountRows

ASSUME EntriesAssumption == {None, Earlier} \cap Entries = {}
ASSUME AnswersAssumption ==
    \A e \in Entries : \A p \in Answers[e] : IsPayload(p)
ASSUME BeforeAssumption ==
    Before \subseteq [AccountRows -> Entries \cup {None}]

VARIABLES
    phase,      \* where each entry stands
    data,       \* coordinator.data (of an entry that is up)
    done,       \* how many of the platforms its setup has done
    lag,        \* an interval was saved that the coordinator has not read
    owner,      \* the entry that owns each registry row, None without a row
    maker,      \* whose entity a row of the account was made for
    live        \* the entry whose entity holds the row now

registry == <<owner, maker>>
vars == <<phase, data, done, lag, registry, live>>

Up(e) == phase[e] \in {"platforms", "loaded"}
Rows(e) == {u \in Uids : owner[u] = e}

\* Entities of the entry have subscribed to its coordinator.
Listened(e) == \E u \in Uids : live[u] = e

Init == /\ \E b \in Before :
            /\ owner = [u \in Uids |-> IF u \in DOMAIN b THEN b[u] ELSE None]
            /\ phase = [e \in Entries |-> IF \E u \in DOMAIN b : b[u] = e
                                          THEN "down" ELSE "absent"]
        /\ maker = [u \in AccountRows |-> IF owner[u] = None THEN None ELSE Earlier]
        /\ data = [e \in Entries |-> NoData]
        /\ done = [e \in Entries |-> 0]
        /\ lag = [e \in Entries |-> FALSE]
        /\ live = [u \in Uids |-> None]

\* An entry is added.
Create(e) == /\ phase[e] = "absent"
             /\ phase' = [phase EXCEPT ![e] = "down"]
             /\ UNCHANGED <<data, done, lag, registry, live>>

(***************************************************************************)
(* async_setup_entry.                                                      *)
(***************************************************************************)
\* Mutant: a corrected id in use does not stop the renaming.
MigratesOver(e) == {u \in Rows(e) : u \in DoubledIds}

\* The rows the migration renames.
Migrates(e) ==
    {u \in Rows(e) : u \in DoubledIds /\ owner[Corrected(u)] = None}

\* A variable of the registry after rows are renamed.
Renamed(row, moved) ==
    [u \in DOMAIN row |-> IF u \in moved THEN None
                          ELSE IF \E w \in moved : Corrected(w) = u
                               THEN row[CHOOSE w \in moved : Corrected(w) = u]
                               ELSE row[u]]

\* The first refresh has read the payload p and the interval.
Refreshed(e, p) ==
    /\ phase[e] = "down"
    /\ phase' = [phase EXCEPT ![e] = "platforms"]
    /\ data' = [data EXCEPT ![e] = p]
    /\ UNCHANGED <<done, lag, live>>

\* Mutant: no migration.
FetchedOnly(e, p) == Refreshed(e, p) /\ UNCHANGED registry

\* Mutant: the migration does not look for a collision: the registry raises,
\* and the setup fails.
FetchedOrRaises(e, p) ==
    /\ MigratesOver(e) = Migrates(e)
    /\ Refreshed(e, p)
    /\ \E moved \in {Migrates(e)} : /\ owner' = Renamed(owner, moved)
                                    /\ maker' = Renamed(maker, moved)

\* The first refresh, and the migration, with no await between them.
Fetched(e, p) ==
    /\ Refreshed(e, p)
    /\ \E moved \in {Migrates(e)} : /\ owner' = Renamed(owner, moved)
                                    /\ maker' = Renamed(maker, moved)

\* Mutant: an entity whose row an earlier setup has made counts as there.
AddPlatformOnce(e) ==
    /\ phase[e] = "platforms"
    /\ done[e] < 6
    /\ done' = [done EXCEPT ![e] = @ + 1]
    /\ UNCHANGED <<phase, data, lag>>
    /\ \E new \in {{u \in Creates(PLATFORMS[done[e] + 1], data[e]) : owner[u] = None}} :
        /\ owner' = [u \in Uids |-> IF u \in new THEN e ELSE owner[u]]
        /\ maker' = [u \in AccountRows |-> IF u \in new THEN e ELSE maker[u]]
        /\ live' = [u \in Uids |-> IF u \in new /\ u[3] \notin DisabledByDefault
                                   THEN e ELSE live[u]]

\* The next platform creates its entities.  They name different rows than
\* those of other platforms, so the order of the platforms does not matter.
AddPlatform(e) ==
    /\ phase[e] = "platforms"
    /\ done[e] < 6
    /\ done' = [done EXCEPT ![e] = @ + 1]
    /\ UNCHANGED <<phase, data, lag>>
    /\ \E new \in {{u \in Creates(PLATFORMS[done[e] + 1], data[e]) : live[u] = None}} :
        /\ owner' = [u \in Uids |-> IF u \in new THEN e ELSE owner[u]]
        /\ maker' = [u \in AccountRows |-> IF u \in new /\ owner[u] = None
                                           THEN e ELSE maker[u]]
        /\ live' = [u \in Uids |-> IF u \in new /\ u[3] \notin DisabledByDefault
                                   THEN e ELSE live[u]]

\* The update listener is registered.
Loads(e) == /\ phase[e] = "platforms"
            /\ done[e] = 6
            /\ phase' = [phase EXCEPT ![e] = "loaded"]
            /\ done' = [done EXCEPT ![e] = 0]
            /\ UNCHANGED <<data, lag, registry, live>>

(***************************************************************************)
(* The life of an entry that is loaded.                                    *)
(***************************************************************************)
\* Mutant: the interval is read once, when the coordinator is made.
PollKeepsInterval(e) ==
    /\ phase[e] = "loaded"
    /\ Listened(e)
    /\ \E p \in Answers[e] : data' = [data EXCEPT ![e] = p]
    /\ UNCHANGED <<phase, done, lag, registry, live>>

\* A later refresh succeeds; without a listener none is scheduled.  (The
\* shortest interval is 30 s: there is none while the platforms are being set
\* up.)
Poll(e) == /\ phase[e] = "loaded"
           /\ Listened(e)
           /\ \E p \in Answers[e] : data' = [data EXCEPT ![e] = p]
           /\ lag' = [lag EXCEPT ![e] = FALSE]
           /\ UNCHANGED <<phase, done, registry, live>>

\* The entry goes down.  Its entities go, their rows stay.
Unloads(e) ==
    /\ phase' = [phase EXCEPT ![e] = "down"]
    /\ data' = [data EXCEPT ![e] = NoData]
    /\ lag' = [lag EXCEPT ![e] = FALSE]
    /\ live' = [u \in Uids |-> IF live[u] = e THEN None ELSE live[u]]
    /\ UNCHANGED <<done, registry>>

\* Mutant: the platforms are not unloaded.
ReloadOverLive(e) == /\ phase[e] = "loaded"
                     /\ phase' = [phase EXCEPT ![e] = "down"]
                     /\ data' = [data EXCEPT ![e] = NoData]
                     /\ lag' = [lag EXCEPT ![e] = FALSE]
                     /\ UNCHANGED <<done, registry, live>>

\* A reload: the user's, the reauthentication's, or the update listener's
\* after an interval is saved.
Reload(e) == phase[e] = "loaded" /\ Unloads(e)

\* The options flow saves an interval before the listener is there.
SaveOptions(e) == /\ phase[e] = "platforms"
                  /\ lag' = [lag EXCEPT ![e] = TRUE]
                  /\ UNCHANGED <<phase, data, done, registry, live>>

\* The user deletes the entry, which is not in the middle of its setup: its
\* rows go, and their entities.
Remove(e) ==
    /\ phase[e] \in {"down", "loaded"}
    /\ phase' = [phase EXCEPT ![e] = "removed"]
    /\ data' = [data EXCEPT ![e] = NoData]
    /\ lag' = [lag EXCEPT ![e] = FALSE]
    /\ owner' = [u \in Uids |-> IF owner[u] = e THEN None ELSE owner[u]]
    /\ maker' = [u \in AccountRows |-> IF owner[u] = e THEN None ELSE maker[u]]
    /\ live' = [u \in Uids |-> IF owner[u] = e THEN None ELSE live[u]]
    /\ UNCHANGED done

\* Home Assistant restarts.
Restart == /\ phase' = [e \in Entries |-> IF phase[e] \in {"absent", "removed"}
                                          THEN phase[e] ELSE "down"]
           /\ data' = [e \in Entries |-> NoData]
           /\ lag' = [e \in Entries |-> FALSE]
           /\ done' = [e \in Entries |-> 0]
           /\ live' = [u \in Uids |-> None]
           /\ UNCHANGED registry

\* What Home Assistant goes on with by itself: one of them at each stage.
Proceeds(e) == \/ \E p \in Answers[e] : Fetched(e, p)
               \/ AddPlatform(e)
               \/ Loads(e)
               \/ Poll(e)

Living(e) == \/ Create(e)
             \/ Proceeds(e)
             \/ Reload(e)
             \/ SaveOptions(e)
             \/ Remove(e)

Next == Restart \/ \E e \in Entries : Living(e)

Spec == Init /\ [][Next]_vars

\* The server is not out of reach for ever, nor does it end the polling with a
\* Retry-After of 0 (see Coordinator), and Home Assistant carries on with what
\* it has begun.  Nothing is assumed about the user.
Fairness == \A e \in Entries : WF_vars(Proceeds(e))

FairSpec == Spec /\ Fairness

(***************************************************************************)
(* Properties.                                                             *)
(***************************************************************************)
\* Types; an entity that is live belongs to an entry that is up and owns its
\* row.
TypeOK ==
    /\ phase \in [Entries -> {"absent", "down", "platforms", "loaded", "removed"}]
    /\ data \in [Entries -> {NoData} \cup UNION {Answers[e] : e \in Entries}]
    /\ \A e \in Entries : data[e] \in (IF Up(e) THEN Answers[e] ELSE {NoData})
    /\ done \in [Entries -> 0..6]
    /\ lag \in [Entries -> BOOLEAN]
    /\ owner \in [Uids -> Entries \cup {None}]
    /\ maker \in [AccountRows -> Entries \cup {None, Earlier}]
    /\ live \in [Uids -> Entries \cup {None}]
    /\ \A u \in AccountRows : owner[u] = None <=> maker[u] = None
    /\ \A u \in Uids : live[u] # None => live[u] = owner[u] /\ Up(live[u])

\* The upgrade preserves the history of the account's sensors: an entry that is
\* up does not leave a doubled row of its own behind and start a new one in its
\* place (as long as no entry is removed, which may take the row that had
\* stopped the migration).
HistoryKept ==
    (\A e \in Entries : phase[e] # "removed") =>
        \A u \in DoubledIds :
            owner[u] # None /\ Up(owner[u])
                => /\ owner[Corrected(u)] # None
                   /\ maker[Corrected(u)] # owner[u]

\* A row goes only with its entry, or by being renamed to an id that nobody
\* has; and no row takes the place of another: "never silently merged or
\* duplicated" (__init__.py:81).
RowsStay ==
    \A u \in Uids : owner[u] # None =>
        \/ owner'[u] # None /\ (u \in AccountRows => maker'[u] = maker[u])
        \/ phase[owner[u]] # "removed" /\ phase'[owner[u]] = "removed"
        \/ /\ u \in DoubledIds
           /\ owner[Corrected(u)] = None
           /\ owner'[Corrected(u)] = owner[u] /\ maker'[Corrected(u)] = maker[u]

NeverMerged == [][RowsStay]_vars

\* No other entry ever names the charger.
OnlyOf(e, c) == \A d \in Entries \ {e} : \A p \in Answers[d] : c \notin Roster(p)

\* The sensors of the first releases are there for every charger that has any
\* sensor, whatever the server lists as its capabilities: none of their rows
\* becomes a ghost by an upgrade of the server (sensor.py:111-120).  (Two
\* entries that name the charger share its rows between them.)
LegacySensorsStay ==
    \A e \in Entries, c \in Chargers, k \in DOMAIN SensorCapability :
        LET row(key) == <<"sensor", c, key>> IN
        row(k) \in Uids /\ live[row(k)] = e /\ OnlyOf(e, c)
            => \A l \in LegacySensorKeys : row(l) \in Uids /\ live[row(l)] = e

\* The enabled entities of the first n platforms for the payload p.
Made(p, n) == {u \in UNION {Creates(PLATFORMS[i], p) : i \in 1..n} :
                    u[3] \notin DisabledByDefault}

\* The entities an entry has are those of p; only of those that another entry
\* may name as well, the account's or a common charger's, there may be fewer.
HasExactly(e, p, n) ==
    LET made == Made(p, n) IN
    /\ \A u \in Uids : live[u] = e => u \in made
    /\ \A u \in made : u[2] \in Chargers /\ OnlyOf(e, u[2]) => live[u] = e

\* Every setup is a whole one: platform by platform it brings back, over the
\* rows that earlier setups, other entries and older versions left, all the
\* entities of the payload it was given (but for the rows that another entry
\* names too, and may hold), and no entity of an earlier one survives; a loaded
\* entry has those of one and the same answer.
SetUpExactly ==
    \A e \in Entries :
        /\ phase[e] = "platforms" => HasExactly(e, data[e], done[e])
        /\ phase[e] = "loaded" => \E p \in Answers[e] : HasExactly(e, p, 6)

\* An entry never gives a charger both sliders, whatever flags it had at earlier
\* setups.  (Two entries that name one charger, with other flags at their setups,
\* can have one each.)
OneSlider ==
    \A e \in Entries, c \in Chargers :
        ~ \A k \in {"max_current", "evduty_max_current"} :
            <<"number", c, k>> \in Uids /\ live[<<"number", c, k>>] = e

\* The charger's time zone is one of the options shown, also when the server
\* does not offer it; and any other option can be written, and is then shown.
ZoneOptions ==
    \A e \in Entries : Up(e) => \A c \in Roster(data[e]) :
        LET list == data[e].time_zones
            value == data[e].chargers[c].time_zone_value
            shown == CurrentOption(list, value)
        IN  /\ value # Null => shown \in Options(list, value)
            /\ \A o \in Options(list, value) \ {shown} :
                /\ ValueForLabel(list, o) \in DOMAIN list
                /\ CurrentOption(list, ValueForLabel(list, o)) = o

\* An interval that is saved while there is no update listener is still taken
\* over, unless the entry comes to be loaded without entities and polls nothing.
IntervalApplied ==
    \A e \in Entries :
        lag[e] ~> (~lag[e] \/ (phase[e] = "loaded" /\ ~Listened(e)))

\* A setup is never stuck: it gets to the platforms sooner or later, whatever
\* rows it finds in the registry.
ComesUp == \A e \in Entries : phase[e] = "down" ~> phase[e] # "down"

\* "When control is temporarily unavailable, the entity exists but shows as
\* *unavailable*" (README-EN.md:20): a charger whose limit can be controlled
\* has its slider, if it was there at the setup.
SliderExists ==
    \A e \in Entries : phase[e] = "loaded" => \A c \in Roster(data[e]) :
        /\ live[<<"button", c, "refresh">>] = e
        /\ data[e].chargers[c].current_limit_controllable = "true"
        => live[<<"number", c, "max_current">>] = e
=============================================================================
