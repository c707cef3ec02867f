# Verification of the Pylontech MQTT bridge

TLA+ models of the two programs of this repository, the TLC runs that check them
on small instances, and TLAPS proofs of their main safety properties for every
value of the constants.

Paths below are relative to the repository; line numbers are those of the commit
the models were translated from. `PROJECT.json` maps every definition to the
lines it stands for.

## 1. The system

A **sidecar** (`src/`, one Python process, usually a container) talks to the
console of a Pylontech battery stack over TCP or a serial line, parses what the
console prints, integrates power into energy counters and publishes one JSON
payload per poll cycle, with a retained availability topic and a last will. A
**Home Assistant integration** (`custom_components/pylontech_mqtt/`)
subscribes to both topics, validates the payloads and exposes entities.

```
 BMS console <-- TCP / serial --> BmsConnection          src/main.py
                                     | send_command (called)
              parsers  <----------  main() poll loop ----> EnergyTracker --> state file
                                     | paho publish, last will
                                  MQTT broker  (retained state, retained availability)
                                     | paho thread: _on_connect/_on_disconnect/_on_message
                                  PylontechCoordinator    coordinator.py
                                     | call_soon_threadsafe --> event loop
                                  entities, numbers, registry
```

### Components

| Component | State | Operations | What is hard | What makes it correct |
|---|---|---|---|---|
| Console link (`BmsConnection`, main.py:196-377) | socket or serial handle, stray-prompt flag; input on the wire | open and prime, flush, write, read to a terminator or the deadline, retry, close | late answers, a console's greeting, two terminators, stragglers, a peer that closes, retries | a response is the answer to its request, unless something was on its way that no flag tells of; what that can be is known; every call ends |
| Energy counters (`EnergyTracker`, main.py:399-549) | two counters, last sample, time of the last save, dirty flag; state file and temporary file | load, update, save, flush, invalidate | SIGTERM and SIGKILL at any statement, failed saves, restarts, sign changes | bounded loss, complete flush, nothing counted twice, a state file that is never torn, a faithful integral |
| Poll loop and shutdown (`main`, `_clean_shutdown`, main.py:553-986) | where it is in the cycle, device info, last reading; paho's connection; the retained availability and the wills owed by the broker | connect, poll cycle, retry, fallback discovery, publish, two error handlers, clean shutdown | exceptions and signals at any statement, broken connections nobody has noticed, wills that arrive late | only readings of this cycle are published; no energy across a failure; availability tells the truth in the end |
| Availability (`PylontechCoordinator`) | session, `last_update_success`, `data`, the staleness clock, the watchdog's timer, the event loop's queue | MQTT callbacks (paho's thread), their continuations (event loop), watchdog, refresh | two threads, check-then-act across them, retained replays, listeners that raise | stale data is shown for a bounded time; a lost broker and an announced offline win; a working sidecar is shown |
| Payload validation (`_validate_state_payload`) | none | one pure function | the two sides are released and installed apart | what it accepts is taken in whole or dropped whole; the two sides agree on keys and kinds |
| Parsers (`parser.py`, `parser_schema.py`, `structs.py`) | the reading being filled | table, key:value and regular-expression parsing, aggregation | columns that move, headers that share a prefix, wrapped or missing rows | each column is the header's own; rows of absent batteries are dropped; aggregates are over the batteries listed |
| Startup configuration (main.py:60-190) | none | parse and check the environment | ranges | what the rest of the program assumes of it |
| Capacity numbers (`number.py`, `capacity.py`) | capacity per battery, default capacity, `energy_stored` | restore, set, derive from the first spec, recompute | numbers added in tasks of their own between payloads, a debounced recomputation, reloads | the value shown is the one in force: the user's, else the spec's |
| Entities and discovery (`entity.py`, `sensor.py`) | ids seen, entities added | add on update, presence | batteries and cells that come and go, payloads before a platform is set up | one entity per id, unavailable while absent |
| Config entry lifecycle (`__init__.py`, `setup()` and `shutdown()` of the coordinator) | entry, coordinator in `hass.data`, client thread, timer, listeners, platforms | setup, unload, reload | platforms that unload in part or raise, an executor, callbacks in flight at shutdown | nothing runs for an entry that is gone |
| Identity migration (`__init__.py`) | device and entity registry | rename prefixes | prefixes of one another, several schemes | identities end under one prefix, none lost or merged |
| Config flow (`config_flow.py`) | forms waiting for their connection test | user step, reconfigure step | anything may happen to the entries during the test | no two entries come to share a broker, but for unique ids of an earlier version |
| Diagnostics (`diagnostics.py`) | none | read and redact | - | - |
| Console simulator (`scripts/pylon_stub.py`) | simulated pack, login level | commands, updater thread | a thread that updates under the dispatcher | - |
| Developer tools (`scripts/`, `.github/scripts/`) | - | - | - | not part of the running system |

### Interactions

* The poll loop calls `send_command`, the parsers, `EnergyTracker` and paho in one
  thread. The only concurrency in the sidecar is the SIGTERM handler, which
  raises `KeyboardInterrupt` at whatever statement the main thread executes
  (main.py:765-770), and paho's network thread.
* Sidecar and integration share two retained topics. The broker adds the last
  will, replays what it retains to every new subscription, and keeps the order of
  one session's messages.
* In the integration paho's thread never touches entities: it queues callbacks on
  Home Assistant's event loop with `call_soon_threadsafe`, but it does *read* the
  staleness clock (coordinator.py:329) before it queues.

The hazards these interactions create are listed, at their lines, in
`PROJECT.json`.

## 2. The modules

| Module | Models | Proofs |
|---|---|---|
| `EnergyTracker` | class `EnergyTracker`, the state file, signals, crashes, restarts | `EnergyTrackerProofs` |
| `PollLoop` | `main`, `_fetch_batteries_indexed`, `_enrich_batteries_indexed`, `_clean_shutdown`, availability at the broker | `PollLoopProofs` |
| `BmsConnection` | class `BmsConnection` against a console that answers as it likes | `BmsConnectionProofs` |
| `Availability` | abstract: for what reasons, and how soon, entities are hidden | - |
| `Coordinator` | `PylontechCoordinator` as far as availability goes, with an arbitrary sidecar and the broker around it; implements `Availability` | `BridgeProofs` |
| `Bridge` | the sidecar's poll loop in time, its session and will, composed with `Coordinator` (EXTENDS it); implements `Coordinator` | `BridgeProofs` |
| `Lifecycle` | `async_setup_entry`, `async_unload_entry`, `setup()`, `shutdown()`, with paho's thread, the executor and the event loop | `LifecycleProofs` |
| `ConsoleTables` | the table engine of parser.py and its schemas in parser_schema.py, as operators | `ReadingsProofs` |
| `Readings` | the `PylontechSystem` object over many polls: what the parsers put in it, what it keeps. EXTENDS `ConsoleTables` | `ReadingsProofs` |
| `Entities` | which payloads are taken in, the entities made for them, capacities and `energy_stored` | `EntitiesProofs` |
| `Identity` | config entries and registry identifiers: forms and their connection tests, user and reconfigure steps, setup with `_migrate_registry_identity`, discovery, removal, restarts | `IdentityProofs` |

The `MC*` modules define the small instances. Definitions named as *fault
variants* in their comments are plausible mistakes: each property is violated when
one of them replaces the definition it is a variant of, which shows the property
depends on that piece of code.

### EnergyTracker

`pc` is the statement about to run. `update()` is `SkipInterval` (first sample, gap
longer than `MaxInterval`, clock not advanced) or `BeginInterval`, `Integrate`,
`MarkDirty`, then, when a save is due, `WriteTmp`, `Replace`, `Record`; the cuts
are the statements where an interruption leaves different states behind. The zero
crossing has its own interruption point, between its two segments
(`InterruptAtCrossing`). `SaveFails` is the `OSError` of either half of `_save`.
`Interrupt` is SIGTERM wherever it lands (it runs `flush`); `Kill` is SIGKILL, a
power cut, or a second SIGTERM. `Start` is the constructor with `_load`.

Energies are integers in units of 1/(2*Scale) W s, so that crossings are exact;
floating point rounding is not modelled. `covered` is a history value carried with
the counters: the seconds whose energy they contain. `failed` and `cut` are
history variables.

### PollLoop

One action per statement (or group of statements with the same outcome) of the
poll cycle. `TryBody`, `GuardedSleeps`, `Unguarded` and `Cleanup` are the
statements by the `except` clause that covers them, which is all that matters to a
signal. A command's outcome is usable text, unusable text, an `OSError` or another
exception, according to the console's health (`bms`). Data is kept as provenance:
`reading` says of which cycle the aggregates are, `info_live` whether the device
info was read over the open connection, `gap` whether a cycle failed since the
energy sample was taken.

Around it: `link` is paho's connection (`dead` is broken but not noticed, when
publishes vanish without an error), `sessions` counts broken sessions whose will
the broker still owes, `avail` is the retained availability.

### BmsConnection

A piece of console output is a body, the "Command completed" line, the trailer
firmware prints, or a prompt, tagged with its relation to the request written
last (`own` or `late`). `Flush` and `WriteCommand` are separate steps, and bytes arrive
between them. `Poll` is one turn of the loop of `_read_until_prompt`; `Elapsed` lets an
empty read take a tick and any other read none or one. The console (`Write`, `Arrive`)
answers in any of `Responses`, or loses the request, and delivers piece by piece
whenever it likes.

A behaviour chooses one of `Settings` and keeps it: the link, and whether the console is
punctual (its answers come before the deadline or never, however close to it). The link
is a console of its own, which prompts whoever connects, besides answering the blank
line of the priming; or a transparent bridge to a serial console, or a serial line,
both of which go on delivering what was on its way (`Inherited`); bytes sent between two
connections may be lost (`Unheard`).

`clean` and `loose` are history variables: at the last flush nothing was still to come
but a prompt `_stray_prompt_pending` tells of; something was left on the way that it does
not tell of.

### Coordinator

paho's thread takes messages from `inflight` in order; `_on_message` is cut between
its read of the staleness clock and `call_soon_threadsafe`
(`_on_message_fresh`), so that the watchdog and the event loop can run in between.
`queue` is the event loop's queue; its callbacks run one at a time. `age` is the
time since `_last_message_monotonic`, up to `Stale + 1`; `timer` is the time to the
watchdog's next run. A payload is `valid`, `raises` (valid, but a listener raises:
the staleness clock is then not set, coordinator.py:387), `invalid` or
`undecodable`. Subscribing is two steps, each followed by the broker's replay of
what it retains.

`unserved` (time without a payload processed to its end), `verdict` (judged stale,
nothing usable published since), `by` and `last` are history variables.

### Availability, and what implements it

`Availability` is what a user is promised, with no broker, thread or timer: three
variables and six actions. Entities are hidden because word of an outage has come
(`HideAsTold`) or because their data is at least `Stale` old (`HideStale`), and for no
other reason; word that has come is not forgotten (`told` is cleared only by acting on
it); nothing older than `Stale + Period` is shown. `Promise` in `Coordinator` is the
refinement mapping: `shown` is `last_update_success`, `told` is a `_mark_unavailable`
waiting on the event loop, `exposure` is the time without a processed payload while
the entities are shown.

### Bridge

`Bridge` keeps `Coordinator` as it is and replaces the arbitrary sidecar at its other end
by the real one: the main thread is connecting, in a cycle, between the two publishes
of a cycle (main.py:925-926), asleep, in the 5 s of main.py:959, or hung; `spent` is
the time in that phase, `Limit` the most it can be. `wire` is its session, in which
`publish()` is refused without an exception while it is down (`Send`); `sessions` are
the broken sessions whose will the broker still owes; `console` answers well or not.
Every step of `Bridge` is one of `Coordinator` or leaves it alone, which is proved
(`ImplementsCoordinator`): what was shown of the coordinator with an arbitrary
environment holds with this one.

`missed` is a history variable: how many polls in a row have brought no usable payload
since data was last served, `Misses + 1` once something worse than a missed poll has
happened (a cycle that failed or hung, a session that broke at either end, a will).

### Lifecycle

A coordinator is named by the number of the setup that made it, because several exist
over time and what an old one left behind must be told from the new one's. `entry` is
the state Home Assistant shows, or the `await` an unload is at; `executor` is the
statement of `shutdown()` its thread is at; `queue` is the event loop, where payloads of
a client that is stopped by now stand before or behind the cancellation of its timer
and the end of its shutdown. `loop_stop()` is joined with paho's thread; `disconnect()`
of a client still connected then runs `_on_disconnect` in the executor. What
`async_on_unload` was given (the listeners, sensor.py:511, number.py:37) runs after
`async_unload_entry` has returned `True`, and not at all otherwise.

`raised` is a history variable: coordinators that an exception out of
`async_forward_entry_setups` or `async_unload_platforms` left behind. Nothing shuts
those down; the properties except them.

### ConsoleTables and Readings

A value is where it was printed: a cell of a table is the column that printed it, on
the line of which slot. Numbers, units and rounding are thus left out, and "the value
of the right column" becomes a statement TLC can check. A *layout* is the header of a
`pwr` table as one firmware prints it: its labels, their widths in words, and the
columns it prints data for. `Place` is one turn of the two indices of
`_resolve_indices` (parser.py:182-211), a recursive function over the header; `Shifted`
is the shift for a label some firmware omits (`_bat_header_postprocess`). A *line
state* says whether a slot's line is good, absent, dashed, garbled or broken.

`Readings` is one poll as the sequence of commands the loop sends, each of which may
succeed, print something unusable, or fail. The object outlives the poll: `age` marks
every part of it as this poll's (`now`), an earlier one's (`old`) or never read. What
the loop does with errors is `PollLoop`'s subject; what they leave in the reading is
this module's.

`PlainLayout` and `TypedLayout` say for which firmware a table can be read, and are the
hypotheses of two proofs. A *plain* layout begins with the schema's first column, has each label
once, and every column in it is one of the schema's, as wide as the schema says, or one
word under a label whose word begins none of the schema's; the last column may print more
tokens than the schema says, and only the SOC just before a final Coulomb may lack its
label. The `bat` table of the documentation and of the stub is such a layout: its Coulomb prints two
tokens ("42586 mAH", docs.md:34) where the schema has one (parser_schema.py:244-249). With
a column printed behind it, every later field would read its neighbour, against the
docstring of `parse_table`, which promises that inserted and reordered columns are handled. In a *typed* one, a column of the schema
prints what the schema's transform takes.

### Entities

`_process_payload` is the whole callback: validation, the default capacity from the
first spec that parses (`DeriveDefault`), `energy_stored`, and the listeners of the
platforms, which look for new ids (`AddNew`). It runs on the event loop without a
pause, and so does each of `SetupPlatform`, `async_added_to_hass` and
`async_set_native_value`; what interleaves are these, because Home Assistant adds every
entity in a task of its own. A number is `Pending` between being offered and being
added. `energy[b]` is not a product but the capacity it was computed with, 0 for none.

The callback may raise in two places. A spec that is no string passes the validation and
raises a `TypeError` that coordinator.py:375 does not catch: the payload is dropped, before
anything has changed, until some spec has parsed (`NotText`). A numeric sensor that is
given a text raises in Home Assistant, which ends the round of the listeners
(`Reached`): those behind it do not see this payload, and `_last_message_monotonic` is not
set (line 388), which is `raises` in `Coordinator`. When the entities are then marked
unavailable, no sensor reads anything and every listener is called (`_mark_unavailable`).

`refresh` is the debouncer of `async_request_refresh`: the first request runs at once,
one that comes within its cooldown waits for the end of it, and a payload cancels the
wait. `Reload` is an unload or a restart, with a new coordinator; `stored` is what
`RestoreNumber` gives back. Debouncer and store are external, modelled from how
number.py relies on them.

A payload says which console commands filled it (`read`) and which fields their replies
did not show (`lost`): the documented `stat` has no "Sys SOH" (docs.md:128), and `soh` is
then null (parser.py:415-418). `odd` are the fields in which another publisher put a text.
`PylontechSystem`, `PylontechBattery` and `PylontechCell` list the attributes of the
dataclasses, their kinds and their commands, and the three `*_SENSORS` the keys of
sensor.py, numeric when they have a unit, a device class or a state class. A module's four
measurements are one, a number or not. `user`, `spec_seen` and `blind` are history
variables.

### Identity

A registry identifier is a prefix and a thing; the prefix is the scheme it was made by
and what it was made of. `Setup` is the whole of `_migrate_registry_identity` followed
by the write of `_stack_id`; `MigrationFails` is the same when the registry refuses a
rename, with the renames before it done and the token not written. `Discover` is what
the platforms ask of the registry for a new id. Home Assistant's side (the registry,
what it keeps of removed entries, unloading that fails) is external and modelled from
how the code relies on it. `Legacy` entries start under one of the two older schemes.
`form` is what has been submitted for an entry, existing or to be made, and waits for
its connection test: other forms, setups, removals and restarts happen in between, and
the code compares what it finds *after* the test. A test that fails, or that its 10 s
timeout gives up on, is `ShowAgain`. `halted` is a history variable.

## 3. The runs

| Run | Question | Result |
|---|---|---|
| `EnergyTracker` | what is counted, lost and kept over signals, crashes, failed saves and restarts | holds |
| `PollLoop` | what is published and retained; convergence and termination | holds |
| `PollLoopSignal` | does a signal on any statement clean up, as the docstring of `_clean_shutdown` says | **violated**: the top of the loop and the `except` clauses are uncovered |
| `Console` | over a console, a bridge and a serial line, in time or late: is a response the answer to its own request, what can be on its way that no flag tells of, when does a read time out, does every call end | holds |
| `ConsoleTrail` | is a straggling prompt stripped wherever it shows up | **violated** with the real `$$` trailer, which comes first |
| `CoordinatorSafety` | does the coordinator implement `Availability`; lost broker, announced offline | holds |
| `CoordinatorReplay` | does only fresh data clear a staleness verdict | **violated** by the replay of a retained payload |
| `Readings` | is every value its own column's, does a bad line cost the others nothing, what of an earlier poll is left in a published reading | holds |
| `Entities` | which capacity is in force and shown, is every entity made once, whatever payloads raise, can the sensors read what is published | holds |
| `Identity` | do entities keep their identity and history over schemes, concurrent forms, reconfigures, failed migrations, removal and restarts | holds |
| `Bridge` | sidecar and integration together: does the watchdog ever raise a false alarm, does a working system end up shown and a silent one hidden | holds |
| `Lifecycle` | what of a coordinator outlives its entry, when unloads fail in part and callbacks are in flight | holds |

The type invariants of `EnergyTracker`, `PollLoop`, `Coordinator`, `Entities`, `Identity`,
`Bridge` and `Lifecycle` are proved for every instance and no longer part of the runs;
those of `BmsConnection` and `Readings` are checked and proved.

Each violated run checks a sentence of the repository's own documentation,
docstrings or comments; the quotations are under `findings`. `CoordinatorReplay`
excludes refreshes (`MaxRefreshes` 0); with one, and no lost connection, a capacity
number changed while the sidecar is silent violates the same property
(coordinator.py:407).

### What the properties say

* `CrashLossBounded`: while saves succeed, what a crash would lose spans less than
  `SaveInterval + MaxSaveTime` seconds. The second term is real: `_last_save_time`
  is read after the sync, so the saved sample is older than it.
* `FlushKeepsEverything`: a clean shutdown whose save succeeds leaves everything
  counted in the state file, except the interval a signal cut between `_integrate` and
  `_dirty = True` (main.py:480-481): `flush` sees nothing to save, and that interval
  is lost, against the docstring of `flush`.
* `NeverCountedTwice`, `FileNeverTorn`: across restarts, reloads and crashes in the
  middle of a save.
* `IntegrationFaithful`: an interval adds its signed trapezoid to the net, and a
  change of sign feeds both counters. `CountersNeverDecrease` follows, and is proved.
* `PublishedReadingIsCurrent`: whichever of the aggregate table and the fallback
  produced a reading, it is of this cycle, of at least one battery, with device
  info of this connection.
* `NoEnergyAcrossFailure`: both handlers drop the energy sample.
* `NeverOnlineWhileFailing`, `NotOnlineAfterExit`: between the explicit `offline`
  and the last will, one always gets there. `NotOnlineAfterExit` is about the
  first signal: a second one that cuts the publish of `_clean_shutdown` is
  followed by `disconnect()`, which makes the broker drop the will, and `online`
  stays retained. `SilenceIsSeen` has the same exception.
* `HealthyConverges`, `SilenceIsSeen`, `SignalEndsProcess`: liveness of the sidecar.
* `ResponseIsOwn`: over any link, with any console: if the flush left nothing to come but a
  prompt that is flagged, the response is the answer to its own request, first attempt
  or retry, and has its text. Otherwise the code cannot tell: an answer that arrives
  after the flush of its retry is read as the retry's.
* `OnlyFlaggedLeft`: with a punctual console and an unbroken connection a flush leaves
  nothing else, but for three leftovers: what `_open` finds (the second prompt of a console that
  greets, where the comment at main.py:231-234 counts on one flush of 0.05 s; the rest of an
  answer behind a bridge or on a serial line), the trailer, when the read ended before it,
  and what follows a line that came with less than the grace period left.
* `TimeoutMeansSilence`: with such a console a read times out only when its request was lost,
  or in that last case, in which the read has the line and drops it, against its
  docstring (main.py:261-262).
* `CallEnds`: however late or slow the console is.
* `KeepsPromise`: the coordinator implements `Availability`. In particular, without a
  break, entities are available at most `Stale + Period` after the last payload processed
  to its end (`StaleExposureBounded`, proved on its own too), although 'online' messages,
  replays, invalid payloads and refreshes go on coming; and a word of an outage is
  neither lost in the queue nor undone by what was queued before it.
* `LossIsSeen`, `OfflineIsFinal`: callbacks queued earlier do not undo them; the
  refresh is the one exception, and is named in the formula.
* `NoFalseAlarm`: the watchdog hides the entities only after more than `Misses` polls in
  a row brought nothing usable, or after real trouble, provided
  `(Misses + 1) * (Interval + MaxCycle) <= Stale` (`Margin`). This is what the comment at
  main.py:146-150 and `_warn_if_cycle_too_slow` are about. `UnwarnedSetupsSurviveAMiss`
  derives the margin for one miss from the warning's own condition; the comment alone
  would promise it of every `POLL_INTERVAL` up to 150, where it is true only of cycles
  that take no time, which is why the warning exists. `Margin` also asks that the
  reconnect delay (5 s) be no longer than `POLL_INTERVAL`: after an `OSError` the next
  cycle starts after the former, not the latter.
* `Converges`: once the console answers, the main thread runs and both ends stay
  connected, the entities become available *and stay so*: late wills, what is still
  queued, and a 'online' published over an old state are all overcome by the next cycles.
* `SilenceIsShown`: once no state reaches the broker any more, for whatever reason (a hang with
  the session up, a dead console, a crash, or a session that is gone while the thread goes
  on publishing into nothing), the entities end up unavailable for good, although
  'online' may still be retained and replayed. Its first hypothesis is that time goes on, i.e. sessions
  do not break and return without end within one tick.
* `NoThreadLeaks`: a running client thread or timer belongs to the coordinator in
  `hass.data` or to the one being shut down. That is the comment of `async_unload_entry`
  ("never leaked, even when platform unload partially fails"). It is about the answer
  `False`; when `async_unload_platforms` *raises*, `pop` and `shutdown` are skipped and the
  thread stays, as it does when `async_forward_entry_setups` raises (`raised`).
* `QuietOnceUnloaded`: after a successful unload no thread, timer or listener of any
  coordinator is left, so what its thread had queued finds nobody.
* `NoLateOffers`: since listeners go last, a payload that runs between the unloading of the
  platforms and the end of the unload offers new entities to a platform that is gone. It
  can happen then, and the property says that it cannot happen at any other time.
* `ColumnsAreOwn`: whatever columns a firmware inserts, moves or omits, a field of a
  battery is what its own column printed. Columns the console does not have are
  excepted: their fields read what stands at the default index (parser.py:227-229).
* `ReadableRowsSurvive`: a readable line keeps its place and all its values whatever
  the other lines look like. The battery of a garbled line is left out of the totals
  and of the energy counters, in a reading announced as good.
* `TotalsMatchBatteries`: the totals are those of the batteries beside them.
* `PublishedIsOfThisPoll`, `KnownIsKept` (proved only): two sides of an object that lives
  as long as the process. No battery, total, detail, cell or counter of an earlier poll
  is published; the clock and the device info, once read, are kept.
* `EnergyIsCurrent`: in whatever order payloads, specs, restored and changed capacities
  come, `energy_stored` is computed with the capacity the number shows, except while a
  refresh is due. The exception is real: the numbers of several modules are added within
  one cooldown, and all but the first wait for its end or the next payload, against the
  "immediately" of number.py:80-82.
* `UserCapacityKept`, `PrefilledFromSpec`: the user's capacity outlives everything; the
  spec's is what a new number starts from. `PrefilledFromSpec` excepts numbers added
  before the spec was read (`blind`): the first payloads of a sidecar that has not read
  `info` yet carry no spec, and the fallback they leave is then restored for ever.
* `OneEntityEach`: a platform set up before, between or after payloads, and modules and
  cells that leave and return: each gets its entities from each platform, once. The payload
  at which a sensor raises is excepted, the next one is not.
* `SensorsReadable`: sensor.py and structs.py, which are released separately, agree: every
  sensor reads a field the sidecar has, and no payload with the kinds of the dataclasses
  makes a numeric sensor raise, whatever commands filled it and whatever a reply lacked.
* `NoneLeftBehind`, `OneIdPerThing` (proved only): a running entry has all its entities
  under its current prefix, and no entry has one twice. They do *not* hold for an entry one of whose
  migrations raised half-way (`halted`): what was renamed carries a prefix that
  `_stack_id` does not record (`__init__.py:104-109`), and a reconfigure that follows
  does not find it. Without the exception TLC shows it in 14 steps.
* `OneEntryPerBroker`: over both steps of the config flow, whatever forms wait for their
  connection tests and whatever is removed meanwhile, two entries share a broker only if
  the unique id of one is not that of its broker. The user step compares Home Assistant's unique ids only
  (config_flow.py:226-229), so an entry of an earlier version, whose id was made in another
  way, *can* be joined on its broker.
* `MigratedIsOwn`, `ReinstallKeepsIdentity`: between entries, and between an entry and its
  successor; hence the hypothesis `Distinct` of the first.

### Bounds

* `EnergyTracker`: clock up to 6, `MaxInterval` 3, `SaveInterval` 2, a save that
  takes up to 1: three save intervals, gaps both shorter and longer than
  `MaxInterval`, several restarts. Powers -1 and 2 make crossings at a third of an
  interval (`Scale` 3).
* `PollLoop`: two batteries (a loop with a first and a last turn), two signals (the
  second one lands in the cleanup), two broken sessions (an old will after a new
  session's `online`). Level `high` with time synchronisation goes through every
  statement.
* `BmsConnection`: one retry, a deadline of three empty reads, a grace period of
  one, at most `Backlog` (5) pieces on their way: a whole answer behind a late prompt,
  or behind the rest of another. All but `CallEnds` is proved without these.
* `Coordinator`: one lost connection, one refresh, three messages in flight, two
  callbacks queued, `Stale` 1 and `Period` 2 (the timeout shorter than the watchdog's
  interval is the harder order; the proof covers all). `Prompt` is an environment
  used by `CoordinatorReplay` only, to show that it needs no slow event loop.
* `Bridge`: all durations one tick, `Stale` 2, so that the margin is exact (one tick more
  of anything is a false alarm); one broken session with its will, one lost connection
  and one refresh at the integration's end, two messages in flight, two callbacks. Every
  cycle of a good console delivers a usable payload in this instance (`MCValid`), with
  `Misses` 0; more misses and unusable payloads are covered by the proofs of
  `NoFalseAlarm` and of the refinement. `Prompt`: no tick passes while messages or
  callbacks wait, i.e. the event loop delays a callback by less than the margin is
  exact to; without it no bound on false alarms exists.
* `Lifecycle`: three setups (one that fails, one that is left behind, one after it), four
  callbacks waiting: two of shutdown's own and two of the client's. All three properties
  are proved without these bounds.
* `Readings`: two slots, two cells, 42 consoles: the stock `pwr` layout, a
  one-word column inserted at each place, each pair of neighbours swapped, six columns
  left out in turn, the newer firmware of the stub, and four `bat` layouts, all with a Coulomb of two tokens. Levels low, medium and high; every combination of line
  states. Two slots make a first and a later line, the parsers have no other memory
  between lines. Inserted labels of two words are left out: with them `ColumnsAreOwn`
  fails (`hazards`). The proofs replace these bounds by what `PlainConsoles` and
  `TypedConsoles` say of a layout; the ASSUME of `MCReadings` has TLC evaluate both on
  the 42 consoles.
* `Entities`: two modules (a second request within a cooldown, one module gone while the
  other stays) of one cell each, any subset of them in a payload, three kinds of payload
  of a sidecar and twelve of others. Capacities are steps 1 to 6 with a range of 2 to 5: the
  spec is beyond it, a value left by an earlier version below it, the user's inside it.
  No counter needs a bound. All properties are proved without these.
* `Identity`: two entries (one of which may be an earlier version's), three brokers of
  which two share a topic, two things (a first and a later rename), four registry ids
  and four uses of the config flow: enough to create both entries and reconfigure
  twice, both forms open at once. All properties are proved without these bounds.

Deadlock is checked everywhere but in `EnergyTracker` and `Identity`. In the first the
program really stops: with a state file of another JSON shape (`BadType`) it never
starts, since `_load` (main.py:444) does not catch the `TypeError`, although its
docstring says that it starts from 0 on any error; and the end of the bounded clock can
leave nothing to do. In `Identity` everything waits for the user.

### Fairness

* `PollLoop`: weak fairness of the main thread (every command has a deadline, every
  sleep ends), of paho noticing and repairing a broken connection, and of the
  broker expiring sessions. Signals, failures and the console's health have none.
* `BmsConnection`: weak fairness of the calling thread, which has a deadline, and of
  the arrival of what was sent.
* `Bridge`: weak fairness of the main thread (commands have deadlines, sleeps end), of
  the broker expiring broken sessions, of the integration's reconnecting, of paho's
  thread, of the event loop, of the watchdog and of time. None of the console, of the
  sidecar's session returning, of a hang ending, of crashes, losses or refreshes: these
  `Converges` and `SilenceIsShown` name as hypotheses where they matter.
* `Coordinator`, `Lifecycle`, `Readings`, `Entities`, `EnergyTracker`, `Identity`: none,
  they are about safety only.

## 4. The proofs

TLAPS proves, for every value of the constants allowed by the named assumptions:

* `EnergyTrackerProofs`: type correctness, `CrashLossBounded`,
  `FlushKeepsEverything`, `NeverCountedTwice`, `FileNeverTorn`,
  `IntegrationFaithful`, `CountersNeverDecrease`. `CrashLossBounded` is not
  inductive: the inductive invariant relates, at each `pc`, what is covered by the
  counters, by the temporary file and by the state file to `now`, `last_time` and
  `last_save_time`. `PowerAssumption` (a unit of energy that divides every power
  difference) is what makes the arithmetic of the crossing exact.
* `PollLoopProofs`: type correctness, `PublishedReadingIsCurrent`,
  `NoEnergyAcrossFailure`, `NeverOnlineWhileFailing`, `NotOnlineAfterExit`, for every
  number of batteries, level, signals and sessions. The invariant `IInv` (at the end
  of `PollLoop`) adds, among others, that a connection that is not up leaves
  `offline` behind once its will is out: an explicit `offline` lost on a dead
  connection is then made up for by the will.
* `BmsConnectionProofs`: type correctness, `ResponseIsOwn`, `OnlyFlaggedLeft` and
  `TimeoutMeansSilence`, for every link, console, set of answers, number of tries, deadline and
  grace period, from `ConfigAssumption` alone, which says what an answer is: text first, then
  a terminator, the prompt last, and between the line and the prompt at most the trailer.
  The strengthening is `IInv`: during a read, what is read, has arrived and is to
  come are in this order something older and one answer to the request written last (`Stream`),
  and after a clean flush what is older is a flagged prompt at most; when a punctual
  console's deadline has passed, what is still to come is what follows a line that was read
  (`Delivered`); and while nothing is loose every flush is clean.
* `BridgeProofs`, about `Coordinator`: type correctness, `StaleExposureBounded`, `LossIsSeen`,
  `OfflineIsFinal` and `KeepsPromise` (the refinement of `Availability`, one step per action), for every timeout, interval and bound. `Exposure` is the strengthening: once
  `unserved` exceeds `Stale`, so does the clock the watchdog reads, and what is left
  of its timer bounds the rest. `LossQueued`: the callback of a lost connection is
  the last one in the queue, because a client that is down receives nothing. `OfflineLast`:
  an 'offline' said last is the last message on its way, else the last callback in the
  queue, else done, and a client that has yet to subscribe is replayed it. `Clocks`
  says that the watchdog's clock and `unserved` run together, so that when the watchdog
  hides the entities their data is indeed at least `Stale` old.
* `BridgeProofs`, about `Bridge`: `ImplementsCoordinator`, from `InStep` (no phase outlasts its limit, and
  `Coordinator`'s `speaking` is "does not hang"); hence `KeepsPromise` and every invariant
  of `Coordinator`. `NoFalseAlarm` from `Margin` and `Prompt`, for every length of cycle and
  interval and every number of misses. `OnTime` is the strengthening: while only polls
  have been missed, a usable payload is on its way to the entities (`Carried`), or the
  age of the data and the time the next one may still take (`Wait`) together are within
  the polls missed so far. `UnwarnedSetupsSurviveAMiss` is its instance for what
  `_warn_if_cycle_too_slow` does not warn about.
* `LifecycleProofs`: type correctness, `NoThreadLeaks`, `QuietOnceUnloaded`, `NoLateOffers`,
  for any number of setups and callbacks. `OneAlive` adds that only the latest
  coordinator can be alive, and only while its entry is active; `Listening`, whose
  listeners there are; `QueueOrder`, that the cancellation of the timer stands before the
  end of the shutdown in the queue, and no payload of a coordinator behind it. The last
  holds because `loop_stop()` joins the thread before the executor returns.
* `ReadingsProofs`, about the loop: `TotalsMatchBatteries`, `PublishedIsOfThisPoll`,
  `KnownIsKept`, for every set of consoles and any number of slots and cells. The
  invariant `DataInv` says, at each command of the poll, which parts of the object are
  this poll's; these theorems hold whatever the parsers return.
* `ReadingsProofs`, about the parsers: type correctness; `ColumnsAreOwn` for every plain
  layout (`PlainConsoles`); `ReadableRowsSurvive` for every plain and typed one
  (`TypedConsoles`), any lines and any number of slots. The loops of the parser are
  recursive functions over a sequence, and what they compute is proved by induction over
  its indices, with a set of indices in the place of a predicate (`InductUpTo`).
  The walk over the header is right (`RightlyIndexed`) because its second index counts
  the data tokens of the labels passed; the shift for an unlabelled SOC makes up for the
  one it cannot count. A table keeps a line exactly when a person could read it
  (`PwrKeeps`, `BatKeeps`), since on a typed layout a transform refuses what is no value
  of its column and nothing else.
* `EntitiesProofs`: type correctness, `EnergyIsCurrent`, `UserCapacityKept`,
  `PrefilledFromSpec`, `OneEntityEach`, `SensorsReadable`, for any modules, cells,
  payloads, range and spec. `IInv` adds that the capacities in force are those the
  numbers show (`NumbersInForce`), that what the user set is shown or kept to be restored
  (`UserValueHeld`), and the same of the spec's capacity (`SpecValueHeld`). `DInv`, behind
  `OneEntityEach`, adds that a platform has offered an entity once if it has seen its id
  and never otherwise (`OfferedOnceSeen`), whichever listeners a raising one cut off.
  `SensorsReadable` compares the keys of the sensors with the attributes, for every set of
  commands that filled a payload and of fields its replies lacked.
* `IdentityProofs`: type correctness, `NoneLeftBehind`, `OneIdPerThing`,
  `OneEntryPerBroker`, `MigratedIsOwn`, `ReinstallKeepsIdentity`, for any number of entries, brokers, things
  and reconfigures. `Traceable` is the strengthening: at every moment, each item of an
  entry is under a prefix that entry's next migration looks for. `Registry` adds that a
  prefix and a thing name one item, which is why a rename that is not refused never
  merges two. `Graveyard` says the same of removed entries.

Only model-checked: liveness (`CallEnds`, `HealthyConverges`, `SilenceIsSeen`,
`SignalEndsProcess`, `Converges`, `SilenceIsShown`), since fairness and ENABLED are outside
TLAPS as used here; and the three violations. Every invariant and action property of the
other runs is proved, some under hypotheses that are written in their theorems:

| Theorem | Hypothesis | What it leaves out |
|---|---|---|
| `ColumnsStayOwn` | `PlainConsoles` | inserted labels of two words, or whose word begins a label of the schema; a label printed twice; data without a label other than the omitted SOC; a column of the schema wider than it says before the last one: a `bat` Coulomb (two tokens, the schema has one) that is not at the end of the line |
| `RowsSurvive` | also `TypedConsoles` | firmware that prints something else than the schema expects under a label it knows |
| `SoundSetupsDoNotFlap` | `Margin`, `Prompt` | setups with too short a timeout, an event loop that stalls |

The library's induction theorems take a predicate as an operator, which the
provers cannot instantiate. The inductions above therefore go over sets, through the
well-founded order on numbers below a bound; what arithmetic there is in them is linear.

## 5. Not modelled

* Startup configuration, but for the bound on `POLL_INTERVAL`: a sequence of independent
  checks that exit. The ranges they establish are the assumptions on the constants.
* Diagnostics: reads and redacts, changes no state.
* The console simulator (`scripts/pylon_stub.py`): it stands in for the hardware in
  development and tests, and is no part of the running system. What the models take from
  it is how a console frames its answers and which columns it prints.
* Developer and release tools (`pylon_cli.py`, `capture_transcript.py`,
  `update_dependencies.py`, `mutmut_report.py`, `check_action_pins.py`): terminal I/O, file
  rewriting and calls to GitHub, outside the running system.
* Logging, JSON formatting, translations and manifests.

What could be added: `PollLoop`'s own steps as the sidecar of `Bridge` in place of one
phase per cycle.

Known limits of what is modelled: numbers in readings are provenance, so arithmetic,
rounding and `generate_time_command` are not covered; a crash of Home Assistant
between its writes of the config entries and of the registry, and entries whose topic
was changed by the former options flow (`__init__.py:118-126`), are not in `Identity`;
`BmsConnection` does not know which battery an answer is about; in `Lifecycle` the platforms
of an entry are unloaded in one step, without payloads between the first and the second;
`Entities` leaves out entities whose addition is under way when a sensor raises, a crash of
Home Assistant before it has stored the numbers, the days after which it forgets those of
modules that stay away, and `available` as far as `last_update_success` goes,
which is `Coordinator`'s.

In the config flow, a connection test its timeout has given up on goes on in its executor
thread, where it ends by its own deadline of 5 s or by the operating system's connection
timeout; it writes nothing that anything reads.
