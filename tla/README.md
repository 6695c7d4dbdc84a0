# A specification of ha-wattpilot

TLA+ modules, TLC configurations and TLAPS proofs for the Home Assistant
integration in this repository (`src/custom_components/wattpilot`). They cover
what its tests reach least: tasks of one event loop that share fields across
their awaits, and the order in which a charger's frames, a user's service calls,
timers and cancellations can meet.

All paths below are under `src/custom_components/wattpilot/` unless they start
with `src/` or `tests/`.

## 1. The system

The integration keeps one WebSocket to a charger. `Connection` owns the socket
and its tasks, `Wattpilot` (the client) speaks the protocol over it and keeps a
cache of properties, `WattpilotHub` dispatches the client's pushes to entities,
and the config entry creates and retires the hub. Everything runs on one asyncio
loop: between two awaits a task is alone, and at each await any other may run.

| Component | State | Operations | Talks to |
|---|---|---|---|
| Connection, `api/connection.py` | socket, reader task, guard task, `_opening`, `_closing`, `_stopped`, two flags each with an event, `fatal_error` | `open`, `close`, `resume_reconnecting`, `begin`, `mark_*`, `fail`/`reject`, `send`; tasks `_open`, `_cancel_and_close`, `_message_loop`, `_guard_readiness` | the websockets library; calls back into the client for each frame, and on `begin` and `_close` |
| Client: commands, `api/client.py` 262-269, 344-359, 705-796 | request id, table of pending futures | `set_property`, `_send_command`, `_send`, `_on_response`, `_fail_pending_commands` | Connection; awaited by hub and services |
| Client: session, 585-703, 725-760 | device, hash cache, property cache | `_on_hello`, `_on_auth_*`, `_on_full_status`, `_on_delta_status` | `Connection.mark_*`, hub's push callback |
| Client: firmware, 434-509 | close count, the version to wait for | `install_firmware` | Connection (resume), `update.py` |
| Client: cloud API, next trip, coercion, 116-166, 361-432, 533-566 | the key `cak` | single commands, a wait for a key; pure conversions | commands |
| Hub, `hub.py` | torn-down and retired flags, subscription and two timers, last announcement, coalescing buffer, repair issues | `async_connect`, `start_dispatch`, `async_reconnect`, `async_disconnect`, `async_shutdown`, push and timer callbacks, `available`; wrappers `async_set_*` | client below, dispatcher signals to entities above |
| Entities, `entity.py` and platforms | last value written, last availability written | added, pushed, told of availability, removed | hub's cache and signals |
| Config entry, `__init__.py` | `runtime_data`, unique id | setup, finish, reload on firmware, adopt serial, unload, stop | hub, registries |
| Services, `services.py` | none | `disconnect_charger`, `reconnect_charger`, next trip, cloud | hub of a loaded entry |
| Sensors, `sensor.py`, `readings.py` | held maximum, idle timer of the average | pushed values, timer | Entities |
| Config flow, `config_flow.py` | the flow | forms, probe connection, reauth, reconfigure | client, entry |
| Registry migration, `registry_migration.py` | the entity registry | renames with collisions | setup |
| Diagnostics, `diagnostics.py`, `redaction.py` | none | pure redaction | hub |
| Tables and helpers, `descriptions.py`, `const.py`, `api/definition.py`, `api/models.py`, `api/auth.py`, `api/exceptions.py` | none | lookups, hashing | everything |
| `src/scripts`, `src/tests` | none | development | not part of the program |

External: the websockets library (a connection opens, delivers frames in order,
closes or drops), Home Assistant's core (setup, unload, dispatcher, timers) and the
charger (replays its complete status after each sign-in, in chunks, with deltas in
between; answers a command at most a few times, in one of two spellings of its id).

### What is hard here, and what makes each part correct

* *Connection.* Four kinds of task share its fields. An attempt takes over from a
  reader asleep in its backoff; a close cancels both; callers join the attempt,
  queue behind the close, or are cancelled themselves. Correct: no two transitions
  at once, one reader, no socket without a reader, quiet after a close, recovery
  that survives a failed attempt, a refusal that holds, an `open()` that returns
  only with the status of this very socket, and an end to every `open`, `close`
  and stalled socket.
* *Commands.* An answer may be early, late, repeated, spelled differently, or
  belong to a socket that is gone; timeout, cancellation and reset race it.
  Correct: the outcome is the charger's verdict, nobody waits for what was read or
  cannot come, nothing leaks, no future is finished twice, every command returns.
* *Hub and entities.* Values are held back by coalescing while availability is
  announced at once; a reconnect looks like an outage for a moment; services
  disconnect and reconnect while an entry is set up or unloaded. Correct: what
  entities show is current or about to be, values precede an announcement, only
  an outage takes entities down, no stale issue, silence after unload.
* *Session.* Any charger may answer at the address, and what it told last time is
  kept: its values, the hash of the password, the hash scheme. Correct: the cache
  holds values of the known charger only, an answer fits the charger that asked,
  a status counts as complete when all of it was read, and the pause between
  retries grows until then.
* *Firmware.* The charger restarts under a call that waits for it, and its new
  version asks for a reload that would close the connection the call waits on.
  Correct: nothing reopens a connection that was closed, every installation ends,
  and no entry keeps the entities of another firmware.
* *Entries and flows.* An entry may have to learn its serial from whoever answers,
  while forms, announcements and other setups run. Correct: one entry per charger,
  none replaced, and no hub on a charger that is another entry's.
* *What is worked out from several pushes.* An average that outlives its session,
  counters that fall, a start and a clock from different boots, offers and an
  installed version in either order, a key that comes while a call waits for it;
  each pushed at once or held back.
* *Settings.* A value goes through label or display unit, wire type and the
  charger's own mind, and comes back through a push that others race.
* *Registry migration.* Old ids that would meet in one new id, and a notice that
  counts what is left while it is renamed or deleted.

`PROJECT.json` lists every hazard at its line, with the properties that watch it
or the reason why none does.

## 2. Modules

| Module | What it is |
|---|---|
| `Connection` | `api/connection.py` in full: 20 variables, an action per stretch of code between two awaits |
| `ConnectionPromise` | what client and hub may rely on, in four variables; `Connection` implements it, `Firmware` is built on it |
| `RefusedFrames` | Connection with a history variable, for one divergence (section 6) |
| `Commands` | the commands of the client, with the socket reduced to what they notice |
| `Session` | the frames of the handshake and the status, what the client keeps of them, the pause between retries |
| `Hub` | hub, entities, services and the life of the entry, over a reduced client |
| `Firmware` | an installation and the reload on a new firmware, over ConnectionPromise |
| `Entries` | config entries, their setup, cards and forms: which entry owns which charger |
| `RegistryMigration` | the migration of unique ids and its notice |
| `Settings` | one writable property, its entity on any platform, the client's conversions and the charger |
| `AveragePower`, `Counters`, `ChargingDuration` | the sensors that remember something |
| `Offers` | the update entity's versions |
| `CloudApi` | the cloud switch and the wait for its key |
| `MC...` | instances for TLC; `MCPushed` is one instance of the last three rows |
| `...Proofs` | the theorems of Connection, Commands, Session, Hub, Firmware and Settings; `EntriesProofs` those of Entries and RegistryMigration, `PushedProofs` those of the five modules of MCPushed |

A definition named `...Faulty` is a plausible slip in the definition after it; no
specification uses it. `PROJECT.json` pairs each property with such a slip, which
TLC must catch under the property's own configuration.

### Connection

A task's program counter is a variable: `opening` for `_open`, `closing` for
`_cancel_and_close`, `reader[r]` for each `_message_loop`, `caller[c]` for each
`open()`. The values name the await it is suspended at ("stopping" is the await
for the cancelled reader, "shutting" the one for the socket). An action is named
for the task and what just came back to it: `AttemptConnected` is `_open_socket`
after the connect, `ReaderEnds` the loop behind the last frame. Cancellation is a
flag the task finds at its next step (`cancelled`, `doomed`), as in asyncio; it
can arrive when the awaited result is already there, and the model has both. In
`_close()` the library's `close()` may also raise (`AttemptShutRaises`,
`ClosingShutRaises`): the socket is forgotten, an attempt ends as failed. The two
other places that close a socket leave it in place and are modelled as returning.

`Quiet` states the one ordering asyncio gives and the code uses: callbacks that
are ready run before timers and the network are looked at again.

`link[s]` is the WebSocket itself: open, closing, closed (with unread frames) or
spent. `LinkDrops` and `LinkCloses` are external. Frames are reduced to what they
do to the connection: sign in, complete the status, refuse. Durations are
nondeterministic: each timeout can fire whenever its await has not ended.

`KeepsPromise` is the refinement: with `phase` from `stopped` and `closing`,
`connected` from `authenticated`, `refusal` from `fatalError` and `trying` from the
attempt, every step of Connection is a step of ConnectionPromise or a stutter.

### Commands

One program counter per request id, the table of pending keys, a future per
command, the socket by number. `Issue` allocates an id and registers the future
in one step, as there is no await in between; `Sent` and `SendFails` end the await
of the write; `Response` may hit any command already written, in either spelling,
more than once; `Interrupt` is the timeout or the caller's cancellation;
`Abandon` is `_fail_pending_commands`, called by `begin()` and the end of
`_close()`.

### Session

One action per handler; `AuthRequired` ends at the thread that hashes (`Hashed`,
`HashFails`) and `SendAuth` is the write after it. A frame is known by the charger
it comes from, so a cached value is the serial it came from, and a hash its
inputs. `make` is the kind of charger behind each serial: what decides on the
hash it expects and whether its firmware streams a status. It changes with
`Update`. The frames of a socket that closed can still be read (`Readable`) until
the reader moves on; a frame behind a refusal is dropped (`ReadEnds`). Connection
is reduced to what frames notice, its tasks to the reader (`loop`).

External and assumed: a charger greets, challenges, signs in and tells its
properties in this order, deltas only behind its first chunk; a firmware that
names its hash is not followed by one that does not. Every client has a password.

### Hub

`shown[k]` and `shownAvailable` are what each entity last wrote to Home
Assistant, which is what a user sees; `cache` is the client's. `UpdateAvailability`
is `_update_availability` with everything it does: the flush, the signal, the
issues. With an interval a frame's keys are handled one by one, so the announcement
can fall in the middle of a frame (`PushBuffered`); without, each key is delivered
as it comes (`PushAtOnce`). `phase` is how far the entry is, `call[c]` where each
service call, and the entry's own connect and shutdown, are suspended. The client
below is reduced to connected / initialised / refused, its attempt and its close;
a reader that has `ended` on a final refusal is one an attempt may still take over.
A close may raise ("raised"), and a service call may be cancelled while it waits for
one (`DisconnectCancelled`); either way the tear-down is announced, and the close,
which is shielded, goes on. The client is a coarser Connection, with its own names
for the same events, not an instance of it.

### Firmware

`install` is where `install_firmware_update` waits ("writing", "rebooting",
"connecting", "pausing"), `closes` the count it compares with `close_count`,
`overdue` its deadline. `_on_firmware` is `Deliver`, which sets `waiting` and
starts the poll of `_reload_once_settled`; `Schedule` is the poll that finds the
entry settled, `ReloadStarts` Home Assistant taking the lock. The connection is
an instance of ConnectionPromise and changes only by its actions (`PromiseKept`).
Assumed: a version never returns, and nobody tears the hub down while a reconnect
is queued (the schedule of `hub_shutdown`). `StaleIsRebuilt` and `Rebuilt` except
entries set up before the version was known (`knew`), for which the code compares
with nothing.

### Entries

`state[i]` is how far a setup is, with `SETUP_ERROR` split for the one that met
another charger ("mistaken"); `found[i]` the charger its hub is connected to;
`marker` and `strict` the permission to adopt and the serial insisted on. A form
is at most one probe per person. Which charger answers at an address changes at
any time (DHCP). The forwarding of the platforms is part of the end of the setup;
names and passwords are left out, as are an unload that fails and a restart of
Home Assistant. `_remove_ignored_card` awaits Home Assistant's removal of an entry
that was never loaded, which runs through without letting another task in.

### RegistryMigration

One action per entity migrated, then the count and the notice, and between setups
what owner and firmware do: renames, deletions, new reports. A suffix is known by
how it is treated; one ID chip stands for ten.

### Settings

`entity` is any description of any platform. A wish goes through the platform's
conversion and the client's coercion (`Writes`), the charger accepts, rejects or
stays silent, and its push comes back through cache and buffer (`HandlePush`,
`HandleCompanionPush` for the list of presets). Numbers are in hundredths; what
floating point makes of a product is every value it may come to (`Products`). A
NaN is refused up front. What a user may ask (`Amounts`, `Moments`), what the charger and
its app report (`Reports`) and the lists of presets (`Presets`) are constants: any
integers and any values of `Values`; `MCSettings` gives the ones TLC tries. `Values`
are what Python's json makes of a frame, told apart as the entities tell them: a number
and a time also read texts (`float("16")`, `int("27000")`), and a number shows NaN and the
infinities; so a text is one that `int()` reads ("digits"), one that only `float()`
reads ("decimal", "beyondText" where that is no finite number), or one that says no number.
`Largest` is the end of the floats, where `float()` of an int raises. Lists of countries and car profiles stand for
themselves in three members. The app does not change the energy's unit in the
middle of the two writes of a trip.

### What is worked out from several pushes

* `AveragePower`: the value on show, the stale average and the idle timer, in ticks.
  A reload forgets the stale average. Malformed averages are one value (`Bad`).
* `Counters`: the hold, the restored number and the reset ratio, for total and
  session energy, with and without nulls. Home Assistant's store on removal is an
  action; a crash before it is not modelled.
* `ChargingDuration`: boot clock and charging duration as two keys of one frame,
  over restarts of the charger, with floor division.
* `Offers`: the lists a charger may offer (a constant: any lists of spellings), the rank of each spelling, what the entity keeps of them,
  the installed version, the reload that follows it; frames arrive whole and a
  reload is a setup over a complete status.
* `CloudApi`: listener, event and timeouts of each call. The charger tells its keys
  in order, a timeout may fire in the turn in which the key comes.

## 3. Runs

| Run | Question | Instance | Distinct states |
|---|---|---|---|
| `connection` | No second reader, quiet after a close, loaded when open, recovery kept, and the refinement of ConnectionPromise | two callers, one attempt, one close, three readers, two sockets | 106,000 |
| `connection_live` | Do `open`, `close` and stalled sockets come to an end, and does a connection left alone get a socket again? | one caller | 70,000 |
| `commands` | Outcomes, waits and termination of commands | two commands, three sockets | 220,000 |
| `session` | Do cache, answer, status and pause belong to the charger at the other end? | two chargers of any make, two properties, a pause of 2 to 7 | 110,000 |
| `hub` | What entities show, announcements, and silence after unload | two properties, two values, two services, with and without coalescing | 1,726,000 |
| `hub_live` | Are tear-downs and recoveries shown? | one property, one value, two services | 203,000 |
| `hub_shutdown` | Is a shutdown for good under every schedule? *It is not.* | as `hub` | counterexample |
| `firmware` | Do installation and reload end, on a connection used as promised? | two versions, one disconnect | 519,000 |
| `entries` | Does every charger have one entry, and every entry its own charger? | two entries, two chargers, one address, two people | 827,000 |
| `registry` | Are ids unique and the notice exact? | three entities, two old prefixes, five suffixes, one rename | 605,000 |
| `settings` | Is what was asked for written, kept and shown? | every platform, two writes, one frame under way | 3,036,000 |
| `pushed` | Are conclusions from several pushes right? | five components, one at a time | 2,006,000 |

Bounds:

* *Two callers* (`Callers`): one opens, one joins, gives up or closes. Each may call
  again without end, so the number of calls is not bounded. `close()` and
  `resume_reconnecting()` are not tied to a caller and may be called at any time.
* *Three readers, two sockets*: names are reused once nothing refers to them.
  `NamesLeft` (MCConnection) says that there is always a free name, so that the
  bound keeps no step from happening; it holds in the instance of `connection`.
* `MaxId = 2`, `MaxSocket = 3`: two commands can be mixed up, and each can meet a
  reset, a new socket and another reset. The proofs are for any bound.
* *Two chargers, two properties* (`session`): the known one and another; a chunk,
  a delta and the rest of a stream. The sockets are not bounded. The upper limit of
  the pause is no multiple of its start, so that the cap is met.
* *Two keys, two values*: a frame carries one key, the other or both, repeated or
  changed. *Two services*: a disconnect and a reconnect overlap and meet the
  entry's own shutdown. `hub_live` keeps one key and one value; nothing in its
  two properties relates two.
* `MaxVersion = 2`, `MaxDisconnects = 1`: the version before and after one
  installation, and a service that closes once (reconnects are not counted). The
  theorems are for any of both.
* *One address, two chargers, two entries* (`entries`): with one address every
  charger is found where the other was. *Two people*: two forms on one entry or
  charger. The theorems are for any number.
* *Three entities*: two that collide and one in the way.
* `AskedAmounts`: fractions that round up, down and at a half, a negative number, a zero
  that one entity writes as null, and the ends of the two models' currents.
* `CallLimit = 2`, `Limit = 1` (`settings`): an entity's own write and the one
  behind it, or the two of a trip; a push under way while the next value is
  written. The held-back push comes on top. Each platform meets its regular values and
malformed ones: of another type, and for a number and a time also a text of digits or
with a fraction, NaN or an infinity, an int past the floats, a negative fraction.
* `pushed`: an idle minute of 3 ticks against an update interval of 0 or 2,
  averages 0 to 2; a counter to 24 in steps of half a displayed unit, so that a
  reset (a tenth) is more than one step; minutes of two ticks, sessions of up to 4,
  uptimes of up to 3, so that a restart falls into a session; lists that are empty,
  unreadable and out of order; two callers, two keys, two frames.
* Symmetry is used for names only, and only in runs without liveness.
* `CHECK_DEADLOCK FALSE` in the Hub runs and `registry`: an entry that was unloaded
  or removed stops.

`hub` and `hub_live` run `InTurnSpec`: nobody tears the hub down while an `open()`
still waits for an earlier close. `hub_shutdown` drops that assumption and shows
what it hides (section 6). A connection that comes up under a hub torn down
meanwhile is also announced, so without the assumption `ShownIsCurrent`,
`ValuesBeforeAnnouncement`, `TearDownIsTold` and `RecoveryIsShown` fail for the
same reason: the hub is told "up" while `_torn_down` says "down". Of the theorems of
`HubProofs` only those about `ShownIsCurrent` and the announcement need it.

Three properties of `pushed` hold under a condition they name: `PauseIsNotEnd`
without an update interval, `MinutesCarryOn` with one, and `NeverDips` over
removals for a charger that reports no null. Section 6 says what happens otherwise.

## 4. Fairness

* Tasks and callbacks: the event loop runs whatever is ready, so steps of tasks
  are fair. `Connection` uses strong fairness for steps that wait for network or
  timers: they are disabled for a moment whenever another callback is queued
  (`Quiet`), and asyncio does not starve the selector.
* Timeouts: `asyncio.timeout` and the library's keepalive end every wait for the
  charger, so *some* outcome of each await is fair, never a good one.
* `LinkCloses`: the library's close has a timeout of its own.
* Only `Recovers` assumes a friendly world, as its hypothesis: connects tried again
  and again succeed at some point (`ChargerIsReachable`).
* Frames, losses, service calls, unloads, cancellations and a close that raises have
  no fairness.
* `Hub`: both timers fire, queued callers go on, and a close ends. The last is
  `CloseCompletes` in Connection. An attempt need not end.
* `Firmware`: the loop delivers and polls, the deadline and the pause are timers,
  and a charger tells its version on a socket it completes (`Tells`). That a
  write, an attempt and a close come to an end is `CommandReturns`, `OpenAnswered`
  and `CloseCompletes` of the modules below. That the charger restarts, or that it
  can be reached, is not assumed.

## 5. Proofs

`tlapm` checks every step; nothing is assumed beyond the named assumptions on
constants: `None` is no reader or socket, `AutoReconnect` is Boolean; the bounds
of Commands, Firmware and RegistryMigration are naturals; the delays of Session
are, and its `None` is no charger; the entry's call is no service and `Unsent` no
value; the marks of Entries, AveragePower and RegistryMigration for "nothing" are
none of the things they mark the absence of; averages and times are naturals; a
counter's unit and a minute are positive, some call switches the cloud, and what a charger
offers is a list of spellings. In Settings a wish is an integer (a moment one of the
day's seconds), what may be asked of a number is far from `Largest` also in wire units
(`FloatAssumption`), and what the charger reports is any member of `Values`, in which
every value that Python's json makes of a frame has its counterpart (a number to two
decimals, a text by what it says): malformed values are not excluded. TLC evaluates them all.

* `ConnectionProofs`. For any sets of callers, readers and sockets:
  `Invariance` (`Spec => []Inv`), and from it type correctness, the six safety
  invariants, `OpenMeansLoaded`, `RecoveryKept`, and `PromiseKept`: Connection
  implements ConnectionPromise. No safety property is inductive alone. That a
  closed connection is quiet (`ClosedIsQuiet`) rests on who may start a reader
  (`ReaderPart`), that on a tear-down having taken the reader out of
  `message_loop_task` first, and that on attempt and close never running together
  (`TransitionsExclusive`). `Inv` adds these parts; one lemma per action shows
  that it keeps them.
* `CommandsProofs`. For any number of commands and sockets: `Invariance` and the
  safety properties. `Inv` adds that an id is fresh (`UnissuedPart`), that a future
  finished by an answer says what the answer said (`VerdictPart`), and that no
  command waits while a connect is pending (`BegunPart`), without which a reset
  between `begin()` and its connect could leave one behind. `FuturesFinishOnce`
  is an action property.
* `SessionProofs`. For any chargers, properties and delays: `Invariance`,
  `CacheIsOwn`, `AnswerFits`, `InitializedIsWhole`, `SerialIsKept` and
  `StallKeepsThePause`. `Inv` adds
  that behind an accepted hello is the known charger and its type (`KnownPart`),
  that a kept scheme is the right one unless the charger names another
  (`HashPart`), that a stream is noted between two chunks (`StreamPart`), and that
  a reader which pauses behind a refusal leaves no challenge on the socket
  (`PausePart`): read with the refusal cleared, it would be answered for the wrong
  charger.
* `HubProofs`. For any properties, values and number of services, and without
  `InTurn`: `Invariance`, `LatestIsBuffered`, `IssueMeansDown`, `GoneIsSilent`
  and `OutageTakesDown`. `Inv` ties the phase of the entry to its own call
  (`EntryPart`), subscription and buffer to the phase (`DispatchPart`), a
  connection to the absence of a refusal (`RefusalPart`), and a close to there
  being no connection until its callers go on (`ClosedPart`): a `disconnect` that
  ends late must not announce "down" over a reconnect that already succeeded.
  Under `InTurnSpec` also `ShownIsCurrent` and `ValuesBeforeAnnouncement`. They rest
  on `InTurnInv`: what an entity missed while nobody was subscribed comes again with
  the next complete status, and until it has come nobody is told that the charger is
  up (`CatchUpPart`). A stale `properties_initialized` or a late announcement would
  break this; none survives, because every tear-down has a caller that announces it, or that
  was cancelled and has (`CallerPart`), because a client whose hub is not subscribed rests (`QuietPart`),
  and because whoever queues behind a close has subscribed, which is where the
  assumption is used.
* `FirmwareProofs`. For any versions and number of disconnects: `Invariance`,
  `UncountedIsOpen` (while an installation waits and the count of closes still fits,
  nobody has closed the connection), `ClosedStaysClosed`, `VersionNoticed`,
  `StaleIsRebuilt` and `PromiseKept`. `Inv` adds that versions only grow
  (`GrowthPart`), that only a subscribed hub has an open connection (`OpenPart`), and that an
  entry whose version the reload compares with was built for that version unless
  the reload is on its way (`ReloadPart`).
* `EntriesProofs`. For any entries, chargers, addresses and people: `Invariance`,
  `OneHolder`, `CardsAreFree`, `ConnectedIsOwn`, `NoneReplaced` (no flow takes the
  place of an entry) and `IdentityIsFinal` (a serial is never exchanged). `Inv` says
  what a setup knows of an entry the flows write to meanwhile: whether it insists on
  a serial (`SetupFits`), and that a form about an entry ends with it (`FormsFit`);
  it is inductive together with `ConnectedIsOwn` and `CardsAreFree`. `OneHolder` is
  inductive on top of these.
* `PushedProofs`, over the constants of `MCPushed`. For any interval, limit and
  averages (AveragePower): `Invariance`, `ZeroWhenIdle`, and for a hub without an interval
  `LeftoverIsNotShown` and `PauseIsNotEnd`; `Inv` bounds how long the power has been off
  by what is left of the timer and the flush. For any unit and maximum (Counters):
  `NeverDips`; `HoldFits` says what the store, the hold and the last number on show have
  to do with each other in each phase of the entity. For any clock, minute and number of
  sessions (ChargingDuration): `MinutesCarryOn`. The minutes on show follow the charger
  through three copies, each of which may be behind; `Precedes` orders what two of them say
  of a session, and `LinkFits` and `SensorFits` are that each copy precedes the next, with
  the one exception of a frame half applied. That a restart in a session takes no minutes
  away is the arithmetic of `ChargerFits`. For any lists of versions (Offers):
  `UpdateIsInstallable`; `EntityFits` is what the two properties of a frame keep between
  them in either order. For any callers and keys (CloudApi): `SwitchGetsItsKey`; `KeysFit`
  adds that the keys a charger had since it took a call's write, those on their way and
  the client's last one are one history. `WatchedOneByOne` is the refinement that lets one
  run check all five: each behaviour of `MCSpec` is a behaviour of each.
* `EntriesProofs`, RegistryMigration. For any entities, prefixes and suffixes:
  `MigrationInvariance`, `UniqueIds`, `IssueIsExact`, `CollisionsAreReal` and
  `BoundToDevice`. The invariant ties the set of ids the migration keeps to the registry
  it is changing.
* `SettingsProofs`. For every description of every platform, whatever is asked and
  whatever the charger reports, with any number of frames on their way: `Invariance`,
  `ShownIsCharger`, `AskedIsShown` and `EnergyHasItsUnit`. The core is about the
  operators: `WishesAreWritable` (what any platform writes for any wish passes the client's
  coercion, and the coerced value reads back as the wish), by one lemma per platform;
  `ReadIsShown` (a value that reads back does so under every list of presets);
  `ScaledReadsBack` (what a product in floating point loses is what the rounding puts back);
  `ForeignKindIsUnknown` (what an entity cannot read shows as unknown). `Inv` carries them through the steps: each command
  on its way has such a value (`CallFits`), the second write of a trip energy is on its
  way only when the unit is set (`UnitFits`), the last frame or without one the cache is the
  charger's value, and a push held back is the cached one (`ShownFits`).

Every safety property of every passing run is stated by a theorem. Only model-checked:
all liveness (outside the prover's reach, with `ENABLED`) and `NamesLeft` (a statement about
the instance). Two limits of the SMT backend show in the models: a string with a space and a
Boolean field of a record in a table of descriptions are beyond it, so labels are
written as one word and nothing is proved of the type of such a field.

## 6. Findings

`hub_shutdown`: a `reconnect_charger` that waits behind a `disconnect_charger`
while the entry is unloaded outlives both closes and connects for a retired
hub, against the docstring of `async_shutdown` (`hub.py` 182-184).

More places where the code does not do what a comment, a document or a test says of
it, each a counterexample TLC finds when the property is checked alone, under
`SPECIFICATION Spec`, with the constants given here:

| Property | Module, constants | What happens |
|---|---|---|
| `GivenUpOpenLeavesNothing` | Connection, as `ConnectionLive.cfg` | A caller cancelled between the end of its attempt and its own next step leaves the connection standing; the comment in `open()` (`api/connection.py` 170-171) says that it takes the attempt down, socket and reader included. |
| `RefusedSocketIsSilent` | RefusedFrames (`RefusedSpec`), as `ConnectionLive.cfg` | The `break` behind a refusal takes one frame off the socket. If the connect after the backoff fails, the loop reads the same socket again, with the refusal cleared by `begin()`: later frames are handled, which the comment at `api/connection.py` 386-387 and two tests (`tests/test_api_lifecycle.py` 692, `tests/test_reconnect_seam.py` 98) exclude. |
| `CheckTakesDown` | Hub, as `Hub.cfg` | Entities written as available between the end of the replay and the announcement stay available through an outage that every check sees, against `src/README.md` 251-253: `_update_availability` finds nothing changed and returns (`hub.py` 343). |
| `DeltaCompletesNoStream` | Session, as `Session.cfg` | A chunk without a status object is skipped before it is noted as part of a stream (`api/client.py` 680-682). If it is the first, the next delta completes the status, which the docstring of `receive_delta_status` (`api/connection.py` 131-137) leaves to firmware that sends no stream. |
| `InstallIsSpared` | Firmware, `MaxVersion = 2`, `MaxDisconnects = 0` | A reload that was scheduled waits for the lock of a setup that is still forwarding its platforms; an installation begun meanwhile loses its connection to that reload, against `__init__.py` 182-185. |
| `FailedWhereStored` | Entries, two hosts, one person | An announcement during a setup stores the new address and reloads nothing; the setup fails at the old one and stays failed with the right address stored, which the docstring of `reload_failed_entry` (`const.py` 148-155) excludes. |
| `AdoptsAtItsAddress` | Entries, two hosts, one person | A setup under way at the old address uses the permission to adopt that a reconfiguration leaves "for the setup that follows" (`config_flow.py` 199-201). |
| `PauseIsNotEnd` without `interval = 0` | AveragePower, as `Pushed.cfg` | A pause whose end is in the cache but not yet flushed when the idle timer fires is taken for the end of the session (`sensor.py` 58, 384). |
| `NeverDips` without `~nulls` | Counters, as `Pushed.cfg` | A total that shows unknown when it is removed loses its hold: what Home Assistant stores is no number (`sensor.py` 304, 314-316). |
| `WaitsForTheKey` | CloudApi, one caller, `Limit = 2` | A key that comes and is cleared before the answer leaves the event set: the call fails at once as "arrived empty" instead of waiting (`api/client.py` 401, 413). |
| `MinutesCarryOn` without `buffered` | ChargingDuration, as `Pushed.cfg` | Without an interval the clock of a new boot is shown against the start of the old one, a negative duration between two pushes of one frame (`readings.py` 164-165). |
| `FallsBack` | Offers, as `Pushed.cfg` | The push of another firmware with nothing on offer leaves the version before as the latest: an update is shown that is not on offer, until the entry is set up again (`update.py` 130-131). |

## 7. Plan

Done: every module of section 2, model-checked and with its safety properties proved.
Left, in this order:

1. Hub's reduced client as an instance of ConnectionPromise, as in Firmware.
2. Redaction as a function over bounded payloads.

## 8. Not modelled

* How a hash is made (`api/auth.py`), and what a frame looks like on the wire.
* Sensors that map one value to one state and remember nothing (enums, prices,
  cards, texts, times), and the table of sensor descriptions; of countries and car
  profiles all but three.
* Device names, the log filter and its masks (`__init__.py` 55-110, `const.py`
  116-145), translations, diagnostics and redaction: they change nothing that
  another part reads.
* Development scripts and tests.
* Durations. The order of backoff, timeouts and the 30-second check is free, so
  nothing here speaks of how long an outage lasts; only AveragePower counts ticks.
* In Hub, a companion key (it is in Settings) and entities that need no property;
  the wrappers `async_set_*`, which call one command each.
* A failed unload, Home Assistant's own restart during a setup, a crash before it
  stores a sensor's last state.

## 9. Running

    tlc -workers 2 -config Connection.cfg MCConnection
    tlc -workers 2 -config Pushed.cfg MCPushed
    tlapm ConnectionProofs.tla

`PROJECT.json` names the module and configuration of every run. The longest,
`entries`, takes about two minutes on two cores.
