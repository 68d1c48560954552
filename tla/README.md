# Roulez Électrique for Home Assistant: TLA+ specifications

This directory holds TLA+ models of the `roulezelectrique` custom component
(`custom_components/roulezelectrique`), the TLC configurations that check them
on small instances, and TLAPS proofs of what they promise for instances of any
size. The integration is a client of a cloud API: it polls the state of an
account's chargers, shows it as Home Assistant entities, and turns service calls
on these entities into commands, some of them asynchronous at the server. It is
one asyncio event loop: what interleaves are the coroutines, at their awaits.

All paths below are relative to `custom_components/roulezelectrique/` unless they
start otherwise.

## Running

    tlc -config Controls.cfg MCControls.tla       # or any other .cfg
    tlapm ControlsProofs.tla

`PROJECT.json` lists every run with its module, and, for each property, a mutation
of the code under which TLC finds it violated. The mutated forms stand in the
modules, just before the definition they are mutations of, under a comment that
starts with `Mutant`; nothing uses them.

## Inventory

| Component | State | Operations | Talks to | Hard part |
|---|---|---|---|---|
| `await_command` (`api.py`) | deadline, command id | poll, sleep, give up | server, which expires commands at about 35 s | deadlines that race, slow GETs, failed polls |
| API client (`api.py`) | none (a token) | one request per method, status to exception | everything below | which failure says what about the server |
| Coordinator (`coordinator.py`) | `data`, `update_interval`, `last_update_success` | refresh, its five exits | client, entities, HA's timer and debouncer | overlapping refreshes, backoff, answers out of order |
| Command entities (`switch.py`, `number.py`, `select.py`, `entity.py`) | per entity a lock and an optimistic overlay | service calls, availability | client, coordinator | asynchronous verdicts, cancellation, stale answers |
| EVduty current (`number.py:254-412`) | `_applied_value`, restored at startup | set value, restore | client, HA's restore store | nothing reports the setting back |
| Config entries (`config_flow.py`, `__init__.py`) | token, unique id, setup state, open flows | user and reauth flow, setup, reload | client, coordinator | concurrent flows, reloads from two sides |
| Refresh and reboot buttons (`button.py`) | none | request a refresh, POST a reboot | coordinator, client | – |
| Platform setup, registry migration (`__init__.py`, `*.py`) | HA's entity registry | create entities, rename unique ids | coordinator's first data | ids that clash between entries and versions, flags that differ from setup to setup |
| Options flow (`config_flow.py:175-214`) | `scan_interval` | save an interval | update listener, coordinator | an interval saved while there is no listener |
| Sensors (`sensor.py`, `binary_sensor.py`) | none | projections of `data` | coordinator | availability while stale |
| Time-zone labels (`select.py`) | none | label to wire value and back | server's list | values the list does not have |
| Diagnostics (`diagnostics.py`) | none | redacted dump | – | – |

What makes each correct:

* **`await_command`**: it returns the server's verdict or none, never waits much
  longer than its timeout, always ends, and, as its constants intend, does not
  give up on a command the server settled in time.
* **Coordinator**: no overlap, failure or cancellation of refreshes ends the
  polling (a refused token does, and a Retry-After of 0); the user is prompted for
  a token if and only if the server refused it; the backoff is bounded and
  temporary; its data catches up with the account.
* **Command entities**: success is reported only for what the server carried
  out; one call at a time per entity; no state is shown that is neither the
  coordinator's nor a command in flight; the display gets corrected.
* **EVduty current**: after outcomes that determine the borne's setting, that
  setting is what is shown, also after a restart.
* **Config entries**: unique ids stay unique; a new token is taken into use; an
  entry whose token is good comes up; a refused one prompts.
* **Platform setup and migration**: an upgrade keeps the entities and their
  history; no row of the registry is merged or lost; an entry gives a charger the
  entities it should have and never two that compete; a setup never gets stuck.
* **Options flow**: an interval that was saved is used, sooner or later.
* **Time-zone labels**: the charger's zone is one of the options, and every other
  option can be written.

`PROJECT.json` lists under `hazards` each place where these could go wrong and
the properties that speak about it.

## Modules

| Module | Models | Extends / uses |
|---|---|---|
| `CommandVerdict` | the promise of a command: settled once, and told to the caller or given up | |
| `CommandPoll` | one call of `await_command` and the server it polls | instantiates `CommandVerdict` |
| `Coordinator` | `_async_update_data` over HA's `DataUpdateCoordinator` | |
| `Freshness` | two history variables over the coordinator: how old its data and its last refresh are | extends `Coordinator` |
| `Controls` | service calls on charge, lock, Plug & Charge, charging current and time zone, and the refresh button | extends `Coordinator`, instantiates `CommandVerdict` |
| `EvdutyNumber` | the blind EVduty number and what HA remembers of it | |
| `Entries` | config entries, their flows, setups and reloads | |
| `TimeZones` | the options of the time-zone select | |
| `Entities` | the entities the platforms create from a payload | extends `TimeZones` |
| `Setup` | what a config entry makes of its answers: migration, platforms, reload, options, and the entity registry all entries share | extends `Entities` |
| `MCControls`, `MCEntries`, `MCSetup` | values of the constants for TLC | the module they name |
| `*Proofs` | theorems about the module they name | that module, `TLAPS` |

### CommandPoll

Time is in whole seconds since the call. `CheckDeadline` is the head of the loop
(`api.py:372-377`), `PollReturns` the code after the GET with its two outcomes,
return a terminal status or sleep `min(POLL_INTERVAL, remaining)`, `PollRaises`
the exception of a failed GET that ends the loop, `Wake` the end of the sleep.
`remaining` is kept as the code keeps it: computed before the GET and used
after it. The server reads the command at some instant of the GET (`ServerReads`)
and settles it at any time until it expires (`ServerSettles`); a GET takes up to
`MaxLatency`, 20 s being the client's request timeout. `TerminalStatuses` are
those of the code, `pending` stands for every other one.

`CommandVerdict` is the abstract specification: a status that is settled at most
once, and an outcome that is the settled status or nothing. `PromiseSpec` is the
refinement, with the outcome read off `pc` and `reply`.

### Coordinator

A refresh `t \in Tasks` begins
by schedule (`PollDue`) or on request (`RequestRefresh`: started, deferred to the
end of the cooldown, or dropped, as the `Debouncer` decides; `CooldownEnds` runs
the deferred one). The
two kinds are not serialised by Home Assistant, so a scheduled and a requested
refresh may overlap. The server answers at some instant (`Answer*`), freezing a
snapshot of `world`; `Finish*` is the rest of the handler, one action for each
exit of `coordinator.py:91-124`, with the finish of Home Assistant's own
`_async_refresh`: every exit except `ConfigEntryAuthFailed` re-arms the timer
with `update_interval`. Answer and finish are two steps, so answers are written
in any order.

Two corners of Home Assistant matter here. The setter of `update_interval` takes
0 seconds for no interval at all, so `Rearm` leaves the timer alone after a 429
with a Retry-After of 0 (`api.py:159`, `coordinator.py:100`): polling stops without
a prompt, which is `Stopped`, until the user requests a refresh. And a requested
refresh is part of the service call that asked for it (`awaited`):
`RefreshCancelled` ends it with that call, with or without its answer, re-arms the
timer and tells no entity. The refresh that the debouncer makes at the end of its
cooldown is awaited by nobody and is not cancelled.

`Freshness` adds to it, without restricting a step (`FreshIsCoordinator`), how long
ago the account was last in each state (`gone`) and when a refresh last ended
(`silent`), so that statements about age can be made of a coordinator that keeps no
time stamps. Both start again at a refresh that is cancelled (`RefreshCut`), since a
user who keeps cancelling puts the next poll off; and `silent` stands still where no
refresh is promised (`Silenced`).

Home Assistant is not part of the repository; its timer, debouncer and listener
behaviour are modelled as this code uses them and marked external in the map.

### Controls

A service call `p \in Calls` goes through `post` (the POST is out), `poll`
(`await_command`, OCPP only), `refresh` (the `async_request_refresh` of its
success branch) to `ok`, `error`, `noop`, `cancelled` or `cut`. The lock is
checked with `locked()` and taken without an await in between, so both are one
step (`Start`). `TurnOn`, `TurnOff`, `SetLocked`, `SetEnabled`, `SetNativeValue`
and `SelectOption` are the entry points with their own guards: `TurnOff` without a
tracked session is refused (`switch.py:281`), `SelectShown` is the no-op of
`select.py:198`. `Accept`, `Revert` and their callers are what each handler does
once the answer is there; `Cancelled` is `CancelledError` passing all `except
Exception` clauses, with the lock released by `async with`. `AwaitCancelled` is the
same at the last await, the call's own refresh (`switch.py:258`, `330`, `437`, `558`,
`number.py:251`, `select.py:247`) or that of the button (`button.py:106`): the call
ends as `cut`, its overlay gone, and takes the refresh with it. The history variable
`cut` says that an entity was waiting for that refresh.

`job[p]` is the command at the server, which may carry it out after the client
gave up (`Takes`, `Settles`), `world` the charger. `overlay[c]` is `_optimistic_*`,
`written[c]` the state Home Assistant shows: it changes only when the entity
writes it or when a refresh ends (`RefreshEnds`). `Available` and `Shown` are the
`available` and `is_on`/`native_value`/`current_option` properties.

The composition is by `EXTENDS` and conjunction: `RefreshEnds` is the
coordinator's `Finishes` with the listeners' writes, a call's `async_request_refresh`
is its `RequestRefresh`. So every step of `Controls` is a step of `Coordinator`
or leaves it alone, which `ControlsUseCoordinator` proves.

Downwards, a call is a caller of `CommandVerdict`: `Verdict(p)` reads the verdict
off `job[p]` and the outcome off `pc[p]`, and `CallsKeepPromise` says that the
promise is kept. So `CommandPoll` and `Controls` implement one specification, the
first with the loop and its clock, the second with many calls and without.

The reboot button is a POST without a lock or an overlay. In this module it is an
`OutsideChange` and, if it succeeded, a `PressRefresh`.

### EvdutyNumber

The number is synchronous at the server and blind: no payload reports the
borne's setting. `applied` is `_applied_value`, `NativeValue` the property with
its fallback to the ceiling, `previous[p]` the local of `number.py:356`. The server
answers with the outcomes the handler tells apart (`ok`, `partial`, `refused`, a
single step refused, no answer at all). Around it is the life of the entity:
`Unload`/`Load` (a reload, where HA's `RestoreNumber` saves and returns
`native_value`), `Dump` (HA writes its store now and then), `Crash` (only what was
dumped survives), `BaselineChanges` (the account's ceiling changes), `Cancelled`.
`own[p]` says whether call `p` belongs to the present entity object; `confirmed[p]`
is what the answer says was set. `forgot` marks that a crash lost a newer value.

### Entries

An entry has a token, a unique id, a setup state, the token its running client
has, and `due`, a reload that is scheduled, by the update listener or by the
reauthentication flow; both reloads end in one setup, since HA's
`setup_lock` serialises them. Flows are the user step and reauthentication:
`Submit`, `Validated`/`NotValidated` (the GET of `_validate_credentials`), then
`AddCreates`/`AddAborts` or `ReauthConfirmed`/`ReauthAborts`, `ReauthEnds`. Setup
succeeds, is refused (`ConfigEntryAuthFailed`) or is retried. `PollRefused` is the
coordinator's refusal while loaded. `UniqueId` maps a token to its unique id, a
prefix of it that two tokens may share. A flow is `reloading` from the replacement of the
token until `reauth_successful`; `AskAgain` does nothing meanwhile, as Home Assistant
counts the flow as in progress.

### TimeZones, Entities, Setup

`TimeZones` and `Entities` have no state. The first is the four functions of
`select.py` on the server's list, taken as a function from values to labels, in
which labels may repeat. The second is the tables of the platforms and, for each
`async_setup_entry`, the keys it creates for a charger: `SensorKeys` (the first six
always, the others by capability), `BinarySensorKeys`, `SwitchKeys` (by vendor,
flags or capability), `NumberKeys` (one of two sliders), `SelectKeys`, `ButtonKeys`.
`Creates(platform, p)` is a set of triples of platform, charger and key, which
stand for what the registry knows an entity by; the account's sensors have the
constant `account` in place of a charger, as their unique ids name none
(`sensor.py:829`), and `account_account` is the doubled prefix of old versions.

`Setup` runs the entries. `Fetched` is `async_setup_entry` up to the platforms
(`__init__.py:40-59`): the first refresh has read a payload, and the migration
renames the doubled ids of this entry whose corrected id is free, both in one
step as there is no await between them. `AddPlatform` is one platform of
`async_forward_entry_setups`, at whose awaits other entries run; `Loads` is the
registration of the update listener; `Poll` a later refresh, which replaces the data
and reads the interval again, and which Home Assistant schedules only while entities
listen (`Listened`); `Reload` and `Remove` unload. `owner`, `maker` and
`live` are the entity registry and the entities: the entry a row belongs to, the
entry (or older version) a row of the account was first made for, whose history it
therefore holds, and the entry whose entity is on it now. `lag` says that an
interval was saved (`SaveOptions`) that nobody has been told of; once the listener is
there, saving one is a `Reload`. Home Assistant refuses an entity whose row another live entity
holds, gives the row to the entry whose entity took it last, and deletes the rows of
an entry with it.

Two entries share more than the account's rows if they name the same charger. Their
unique ids are prefixes of their tokens (`config_flow.py:157`), so that two tokens of
one account make two entries, and so does the one token of `Entries_same`. Whoever
comes first has the charger's entities, and what the other may lack is what
`HasExactly` leaves open: the rows that another entry names too (`OnlyOf`).

## Runs

Passing runs:

| Run | Instance | Shows |
|---|---|---|
| `CommandPoll` | the code's 37 s and 2 s, GETs up to 20 s, a server that may not settle the command within the call (60 s) | types, `BoundedWait`, `PollsAreSpaced`, `AlwaysEnds`, refinement of `CommandVerdict` |
| `Freshness` | the coordinator with its history: 2 refreshes, either of which may be cancelled if it was requested, 2 worlds, interval 2, requests of 1, Retry-After 0 or 3 | types, `PollingAlive`, `ReauthOnlyIfRefused`, `PollsWait`, `AvailableMeansRecent`, `NeverSilent`, `OutsideChangeSeen`, `BackoffEnds`, `RevocationNoticed` |
| `Controls` | 2 calls on an OCPP charge switch and on the lock of a charger that goes offline, each cancelled at any of its awaits | `SuccessMeansAccepted`, `SingleFlight`, `OverlayIsTheCommand`, `NeverFlickers`, `UpdateIsComing` |
| `Controls_live` | 1 call on a charge switch, Plug & Charge, a current unread at first, or the time zone, of which switch and zone are also changed elsewhere | types, `CallsKeepPromise` (refinement of `CommandVerdict`), `CallsEnd`, `Converges` |
| `EvdutyNumber` | 2 calls, every interruption | types, `ShownIsHeld`, `OneAtATime` |
| `Entries` | 2 entries, 2 flows, 3 tokens of which 2 share a unique id | types, `UniqueIdsDiffer`, `RunsItsToken`, `ReauthTakesEffect`, `Recovers` |
| `Setup` | 2 entries with a charger in common, one of which also has an IYILO charger and gets 2 payloads, over the rows of an older version | types, `HistoryKept`, `NeverMerged`, `LegacySensorsStay`, `SetUpExactly`, `OneSlider`, `ZoneOptions`, `IntervalApplied`, `ComesUp` |

Runs with a violation, each a disagreement between the code and its own words
(the quotes are in `PROJECT.json`, `findings`):

| Run | Statement | What the counterexample shows |
|---|---|---|
| `CommandPoll_buffer` | the timeout error is true, 2 s are buffer enough | the deadline is never followed by a last look: with one second of latency a command settled in time is reported as not settled |
| `Controls_cancel` | no fake state | a cancelled call (a script stopped, restarted) leaves its overlay |
| `EvdutyNumber_baseline` | unapplied shows the ceiling | a reload turns the ceiling shown into an applied value |
| `Entries_same` | a token is not added twice | after reauthentication the unique id is still the old token's |
| `Setup_slider` | a control that is temporarily unavailable exists | an OCPP charger that is offline during the setup has no slider afterwards, until the next reload |

The models have the behaviour behind these further disagreements, which no run
above asks about; each takes one property, in the specification that is named:

| Module | Words | Statement that TLC finds violated |
|---|---|---|
| `Coordinator` | "HA stops polling and shows reauth UI" (`coordinator.py:88`) | `reauth => timer = Off`: a refresh that overlaps the refused one re-arms the timer |
| `Coordinator` | "on top of the normal interval" (`coordinator.py:98`) | after a 429 the timer is `ScanInterval + after`: it is `after`, and may be shorter than the interval |
| `Coordinator` | "HA will reset it on next _async_update_data" (`coordinator.py:99`) | every finish but that of a 429 or 401 leaves `interval = ScanInterval`: only one answered with 200 does |
| `Coordinator` | "Back off: delay next update by Retry-After seconds" (`coordinator.py:97`) | `~Stopped`: a Retry-After of 0 does not delay the next update, it is the last |
| `Controls` | "Accepted — refresh coordinator to get the new charging state" (`switch.py:256`) | `UpdateIsComing` without its last case: if the call is cancelled while it awaits that refresh, the state of the accepted command is not fetched until the next poll |
| `Controls` | "During a command in-flight, falls back to coordinator's last known value. The optimistic overlay is reset after coordinator refresh" (`switch.py:200-201`); "until the next coordinator refresh" (`number.py:188-190`) | the opposite of `NeverFlickers`, which follows the code and the comment at `switch.py:222`: during a command the overlay is returned (`switch.py:203`), over any number of refreshes; after it, it is dropped before the refresh (`switch.py:257`) |
| `Controls` | "HA's own writes already self-refresh instantly ... so HA->app changes are never stale" (`button.py:16-17`) | after its acceptance a command's value is written, or nothing: a refresh under way whose answer is older than the command is written after it |
| `Controls` | "prevents overlapping commands" (`switch.py:151`) | no two calls of one entity have a queued `job`: a call that gave up frees the lock with its command still queued |
| `Controls` | "there is nothing new to tell the server" (`select.py:190-192`) | a call that ends as `noop` wants the world's zone: it compares with data that may be old |
| `EvdutyNumber` | "Restore the last applied amperage" (`number.py:298`) | what a loaded entity holds was applied by some call: a reload during the request saves the optimistic value |
| `Entries` | "prompts you to re-authenticate" (`README-EN.md:162`) | a refused setup leaves an open prompt: not if it is the reload of the reauthentication flow itself |
| `Setup` | "your existing entities, their history ... are preserved" (`README-EN.md:174`) | `HistoryKept` for the doubled rows of two entries with rows each: the entry that comes up first takes the corrected ids, the rows of the other stay behind. The same if an entry that holds the corrected id is removed while the other is being set up |
| `Setup` | "could never produce two competing sliders" (`number.py:103-104`) | no charger has both sliders live: with two entries that name it, and an answer of either kind at their setups, it has one of each entry (`OneSlider` is about one entry) |
| `Setup` | "Account-level sensors ... only when the server returns the account block" (`sensor.py:602-603`) | a loaded entry whose answer has the block has them live: not the one that is left when the entry that owned them is removed, until it is reloaded |

### Bounds, and why they are enough

* **Two refreshes** (`Tasks`). The debouncer allows one requested refresh at a
  time and the timer is cancelled when a refresh begins, so no more than two overlap:
  `RefreshesDoNotPileUp` proves it for a coordinator whose every interval is longer
  than a request may take. With the configured interval of 30 s and more it is; a
  Retry-After of 20 s or less can have a poll fall due beside one still waiting, and
  there two is a bound. The safety theorems are for any number. Refreshes are
  interchangeable, so the run `Controls` reduces them by symmetry.
* **Freshness** runs in units of a request's 20 s: the interval of 2 is one of 40 s
  (30 s is the default and the least). A Retry-After of 0 is the one that Home
  Assistant does not schedule, 3 one longer than the interval; the one shorter than a
  request, beside which `PollsWait` allows polls to pile up, is in the theorem
  only. The history counts up to one past the bounds it is compared with.
  The theorems have no such bounds.
* **One or two calls** (`Calls`). A call is made once and not again. Two are
  what a conflict takes: on one entity (the lock) or on two (one call's request
  dropped for the other's). `Controls_live` and the violation runs have one, which
  meets the world changing elsewhere, scheduled refreshes and those of the button; a
  command that is carried out late, after a newer one, is in the safety run only.
* **What changes elsewhere** (`Elsewhere`) leads one way in the runs of `Controls`:
  the charger goes offline and stays so, or somebody starts a session and sets the
  zone. Any state is allowed in the theorems.
* **Two values** of each setting, two zones, two worlds: the code compares values
  only for equality, and an amperage with its maximum.
* **The interval is 1 and a request takes no whole unit in `Controls`**: only the
  order of the timer and of the refreshes matters there; the coordinator's own
  run has the lengths. Rate limits are left to the coordinator's run, since to
  the entities they are another failed refresh, or the end of the polling that
  `Stopped` in `Converges` allows for.
* **Entries**: 2 flows and 2 entries are what a clash of unique ids takes; three
  tokens with a shared unique id include both a reauthentication with the same
  unique id and one with another.
* **EvdutyNumber**: two calls, so that one follows another, with every
  interruption at any point of either.
* **Setup**: two entries, so that one's setup interleaves with the other's, over the
  rows they share: one account sensor, which stands for them all, and the charger
  they have in common, whose flags give it one slider in one answer and the other in
  the next. The IYILO charger has capabilities that gate its entities, and a zone
  that the server stops offering. Two payloads make a reload differ from the setup
  before it; the second entry's one agrees with one of them and not with the other.
  The old version has left the doubled row, with or without the corrected one. A
  poll happens to loaded entries alone: the shortest interval is 30 s. Platforms are
  set up in the order of the list, since their ids do not meet.
* **CommandPoll** runs with the code's own constants, so its clock is bounded by
  the loop. `CHECK_DEADLOCK FALSE` stands in its configurations alone, because
  the call ends. All other models run for ever and are checked for deadlock.

### Fairness

* **CommandPoll**: weak for the loop, for the server's read of a command and for
  the clock. The event loop runs what is ready and a GET has a timeout. Nothing
  says that the server settles the command; in the run its 60 s lie beyond the end
  of any call, so that the clock never waits for it.
* **Coordinator** (and `Freshness`, whose run has it): weak for the clock, the
  timer's refresh, the end of the cooldown, the answer to a request (it has a
  timeout) and what follows the answer; strong for a true answer, that is the server
  is not forever unable to answer. Nothing is assumed about users or about the
  account. The liveness properties have a premise instead, `CancelsEnd`: a user who
  cancels every refresh he requests, in time to request another, puts the poll off
  for ever. And they allow for `Stopped`.
* **Controls**: the same, and weak for the end of a call's awaits, which all have
  timeouts. Nothing says that the server ever carries a command out.
* **Entries**: weak for the reload and the retry HA has scheduled, strong for a
  setup that can succeed. Nothing is assumed about flows.
* **Setup**: weak, for each entry, for what Home Assistant does next for it: a first
  refresh that succeeds, the next platform, the listener, a poll. That a first
  refresh succeeds in the end is what `Entries` calls a good token; that polls go on
  supposes a server that sends no Retry-After of 0. Nothing is
  assumed about the user, who may reload or save for ever.
* **EvdutyNumber** has no liveness property and no fairness.

## Proofs

`tlapm` checks all of the following from the definitions and the named `ASSUME`s
on the constants (positive times, `Tasks` not empty, values in their sets), which
TLC evaluates in the runs.

* **`CommandPollProofs`**: the inductive invariant is `TypeOK`, `Clock` and
  `Answer`. `Clock` says where `now` can stand at each point of the loop, because
  `remaining` is stale after the GET and `BoundedWait` alone says nothing about how
  long a sleep may still be. From it `TypeCorrect`, `WaitIsBounded` (timeout plus
  one GET), `VerdictIsReturned`. `PollKeepsPromise` is the refinement of
  `CommandVerdict`, step by step. `PollsKeepTheirDistance` needs `Spacing`, which
  says of a loop that slept less than an interval that its deadline has passed, so
  that the short sleep is never followed by a GET. `BufferSuffices` is the condition
  the constants have to meet for no verdict to be overlooked: the timeout exceeds
  the server's by more than a GET and an interval. The 37 s and 2 s of `const.py` do
  not meet it for a server that expires commands at 35 s, and `CommandPoll_buffer`
  shows a verdict they overlook.
* **`CoordinatorProofs`**: `TypeOK`, `PollingAlive`, `ReauthOnlyIfRefused` and the
  strengthening `RefusalIsReal` (a 401 in hand means the token was revoked, without
  which the prompt cannot be justified at the finish). For any number of overlapping
  refreshes, any of which may be cancelled that are awaited. `PollingAlive` names
  the two ends of polling, the prompt and a Retry-After of 0. `PollsDoNotPileUp`
  rests on `TInv`: no GET is older than its timeout (`AgesBounded`), the holder of
  the debouncer has a refresh under way (`HolderReads`), and a timer that runs has
  the interval in force left, less what each refresh under way has aged since
  (`TimerLasts`). `RefreshesDoNotPileUp` follows where no interval is as short as a
  request: at most two GETs are in flight.
* **`FreshnessProofs`**: `FreshIsCoordinator` (`FreshSpec => Spec`) brings over what
  is proved of the coordinator. `AvailableIsRecent` rests on `SnapsRecent` (a
  payload in hand is no older than its refresh) and `ShownRecent`: the age of what
  is shown and the time left, of the timer or of a refresh under way, never add up
  to more than the horizon. `BackoffIsBounded` is the same argument (`NotSilent`)
  for the time since the last finish or cancellation. Both are for any interval,
  timeout, Retry-After and number of refreshes.
* **`ControlsProofs`**: `CInv` joins the coordinator's invariant with the six of the
  entities and `HolderReads` (whoever holds the debouncer has a refresh under way,
  on which `UpdateIsComing` rests when a request is dropped). `Coming` is what
  `UpdateIsComing` adds to `PollingAlive`: a state that is not the entity's own has
  a refresh under way or deferred, or one was cut off. The coordinator's part is not
  proved again: `StepRefines` shows that a step is one of `Coordinator`, and
  `ControlsUseCoordinator` makes it a theorem, so `ControlsKeepPolling` follows from
  `PollingNeverDies`. `CallsImplementVerdict` is the other refinement: each call,
  taken by itself, is one of `CommandVerdict`. `StateDoesNotFlicker` adds what the
  entity wrote: with an overlay it is the overlay or unavailable, for a refresh that
  ends writes through the overlay. `OnlyCancellationFakes` is the exact cause of the
  finding of `Controls_cancel`: in a behaviour in which no call is cancelled with
  its command in flight there is no fake state.
* **`EvdutyNumberProofs`**: `ShownIsHeld` is not inductive, for it is silent while a
  call is out. `Truth` adds that the value to revert to is the borne's
  until the borne changes, and that from then on the answer on its way tells the
  new one. `FallbackHoldsUnlessBoth` splits the finding of `EvdutyNumber_baseline`
  into its two causes: without a changing baseline, or without reloads and crashes,
  an entity that applied nothing shows the ceiling.
* **`EntriesProofs`**: `TypeOK`, `UniqueIdsDiffer`, `RunsItsToken`, which are
  inductive together, for any number of flows, entries and tokens.
  `ReauthTakesEffect` is not inductive: it rests on `OnePrompt` (an entry has one
  reauthentication flow at most) and `TokenGiven` (the entry holds the token of the
  flow that reloads it), which need each other. `OnlyReauthDuplicates` is the exact
  cause of the finding of `Entries_same`: if every token taken in reauthentication has
  the unique id of its entry, no token of an entry is added again.
* **`SetupProofs`**, for any entries, payloads and rows left behind: `TypeOK`, which
  says of two entries over one registry that a live entity's row is its entry's.
  `HistoryKept` is not inductive, since it is silent about entries that are down:
  `NoTwin` says of every doubled row that its corrected row, if there is one, was
  not made for the owner of the doubled one, which a platform set up before the
  migration would break. `NeverMerged` follows step by step. `LegacySensorsStay` and
  `OneSlider` rest on `LiveSource`: what is live is of a charger its entry may see
  and of a platform the entry's setup has got past, so that a platform finds none of
  its rows of its own entry's chargers live from before a reload
  (`NextPlatformFree`); of a charger that another entry names too, its row may be
  live, but as the other entry's. So `OneSlider` holds for every entry, and
  `LegacySensorsStay` for every charger that one entry alone names (`OnlyOf`).
  `WholeSetups` adds to them what each platform set up so far has made, entity by
  entity, from the one answer of the setup: nothing else, and all of it but for rows
  another entry names. `SteadyFlagsHaveSliders` is the exact cause of the finding of
  `Setup_slider`: a charger that one entry alone names, and whose
  `current_limit_controllable` is the same in all answers, has its slider.
  `ZonesShown` rests on `OptionsShown`, a lemma about `TimeZones` alone.

Only model-checked: the liveness properties (`AlwaysEnds`, `OutsideChangeSeen`,
`BackoffEnds`, `RevocationNoticed`, `CallsEnd`, `Converges`, `Recovers`,
`IntervalApplied`, `ComesUp`), for TLAPS has no rule
for fairness and `ENABLED` here; and the violations, which are traces; four of them
(`Controls_cancel`, `EvdutyNumber_baseline`, `Entries_same`, `Setup_slider`) have a
theorem beside them that says when the statement does hold, and `CommandPoll_buffer`
has `BufferSuffices`.

## What is abstracted, and what is not modelled

* A payload is the set of settings the entities read; a verdict other than
  acceptance is a refusal; HTTP statuses are grouped by what the handlers do.
* A command takes effect at the charger when it is accepted. If the charger
  reports it later, the display falls back to the old value until the next poll;
  no property here would see it.
* In `Controls` a second call that raises because the lock is held, and the
  cancellation of a call that waits for nothing, change nothing and are left out.
* A refresh notifies the listeners at its end whether or not it succeeded; Home
  Assistant skips the notice for repeated failures, when nothing changes.
* In `EvdutyNumber` the borne's current is changed by this entity alone, and the
  entity's availability is left out. After an answer that was lost, a call that
  was cancelled or replaced, or a single step that was refused, nobody knows what
  the borne holds, and `ShownIsHeld` says nothing.
* `Entries` merges the update listener's reload and the flow's own into one.
* `Setup` leaves out setups that fail (they are in `Entries`), unloads that fail,
  for whom a charger's rows were first made if two entries name it, an entity that
  the user enables or disables, and labels of time zones that are empty. A server
  that sends no `capabilities` is one that lists none: every platform treats the two
  alike.
* Not modelled: the values of sensors and their formatting; `STALE_GATED_SENSOR_KEYS`,
  a rule on one payload without state; the errors of the reboot button; the mapping
  of single HTTP statuses; diagnostics. None of them keeps state or waits.

## Plan

Done, in this order: `CommandPoll` (smallest, and the source of what a command
means), `Coordinator` (everything reads it), `Controls` over it, `EvdutyNumber`,
`Entries`, `TimeZones` and `Entities`, `Setup` over them, and the refinement of
`CommandVerdict` by `Controls`; the type invariants and the safety invariants of each
proved; `Freshness` over `Coordinator`; the conditions under which the statements of the
findings hold.

Left, by importance:

1. A delay between the acceptance of a command and its effect in `Controls`, and
   the further disagreements above as runs.
2. `Requests`: the mapping of HTTP statuses to exceptions, with the sensors'
   availability over them.
3. `Entries` and `Setup` as one specification, so that a setup that fails leaves
   the registry as it found it.
