# Formal models of the radio control container (rcc1)

This directory holds TLA+ models of the C++ sources under `src/rcc1`, the TLC
configurations that model-check them, and TLAPS proofs of their main invariants.
`PROJECT.json` lists the components, runs, mutants, source map, findings,
hazards and theorems. This README explains them.

Most `.cpp` files under `src/rcc1/src` hold several drafts of the same class
one after another, each draft with its own `#include` block. The models follow
the **first draft** of each file, the one whose header the first draft of
`radio_manager.hpp` includes:

- `radio_manager.cpp` lines 1-93;
- `silvus_adapter.cpp` lines 1-60;
- `authenticator.cpp` lines 1-81.

The configuration manager is the exception, and two of its drafts are
modelled:

- `ConfigLoad` models the **third draft** of `config_manager.cpp` (lines
  230-391). `core::Application` (the second definition in `application.cpp`,
  lines 48-132) constructs it as `config::ConfigManager(path)`.
- `ConfigReload` models the **second draft** (lines 112-228,
  `config_manager.hpp` 57-81). This is the `ConfigManager` that
  `rcc::Application`, the class `main()` uses, holds. It is the only draft
  with a mutex, a `current()` and a `reload()`.

Line numbers below are those of the files as they stand.

## 1. Inventory

### Components and their state

| Component | Source | State | Operations |
|---|---|---|---|
| Radio adapter `SilvusAdapter` | `src/adapter/silvus_adapter.cpp`, `include/rcc/adapter/silvus_adapter.hpp` | `state_` (status, optional channel index, optional power), under its own `mutex_` | ctor (Offline), `connect`, `set_power`, `set_channel`, `refresh_state`, `state`, `capabilities` |
| Radio registry `RadioManager` | `src/radio/radio_manager.cpp`, `include/rcc/radio/radio_manager.hpp` | `radios_` (id → descriptor: adapter handle + cached state), `active_radio_`, under one `mutex_` | ctor/`load_from_config`, `start`, `stop`, `list_radios`, `active_radio`, `set_active_radio`, `get_adapter`, `get_state` |
| Application lifecycle | `src/core/application.cpp`, `src/core/main.cpp` | owned components | `start`: telemetry → radio manager → API gateway; `stop`: API gateway → radio manager → telemetry |
| Authenticator | `src/auth/authenticator.cpp` | `validator_` (optional), two allow flags, `allowed_roles_`; fixed after construction | ctor, `authorize(request, level)` |
| Command orchestrator | `src/command/orchestrator.cpp` | references only | `selectRadio`, `setPower`, `setChannel`: each a stub returning `Ok "stub"` and changing nothing |
| Configuration manager | `src/config/config_manager.cpp` | the parsed configuration; second draft: `config_` under `mutex_` | load, `current`, `reload`, `parseDuration` |
| Telemetry hub | `src/telemetry/telemetry_hub.cpp` | first drafts: none; third draft: calls into `dts::common` (EventBus, RingBuffer, SSEServer), a library not in the repository | `publish_*` |
| Audit logger | `src/audit/audit_logger.cpp` | none | `record` (formats and logs) |
| API gateway | `src/api/api_gateway.cpp` | HTTP transport | out of scope (spec §1) |

### Interactions

The application thread builds the registry. The registry's constructor runs
`load_from_config`, which keeps only the `"silvus"` entries and, through
`emplace`, only the first entry of a duplicated id. The application thread then
calls `start()` (application.cpp:115). Only after that does it start the API
gateway (application.cpp:118), so callers arrive only once `start` has
returned.

Callers then run concurrently:

- They use the registry API under the registry mutex.
- They may keep the `shared_ptr` that `get_adapter` returned and call the
  adapter directly, holding no registry lock.
- `get_state` (radio_manager.cpp:69) and `start` (lines 17-19) call into the
  adapter, taking the adapter mutex while they hold the registry mutex. That
  gives the lock order registry → adapter.

Finally the application thread calls `stop()` (application.cpp:127), which
clears the registry while handles may still be outstanding.

### What makes it hard

- Interleavings of the registry mutex, the per-adapter mutexes and callers that
  hold adapter handles.
- The transient `Busy` that `set_power` and `set_channel` store
  (silvus_adapter.cpp:33, :41).
- The descriptor cache, which is refreshed only at load and in `start`
  (radio_manager.cpp:87, :19).
- `stop()` racing `set_active_radio`.
- Lock ordering (registry → adapter).
- The authenticator's dereference of an empty `std::optional` (authenticator.cpp:42).
- The configuration draft whose `current()` returns a reference that escapes
  its lock, while `reload()` move-assigns `config_` member by member.
- `loadFromFile`'s catch block, which returns a half-filled configuration.
- `main`'s signal handler, which relies on a global pointer that is set late and
  never reset.

### Properties by component

- **Registry:**
  - as a whole, registry and adapters implement an atomic abstract API
    (`RadioFleetAbstract`);
  - the active radio is always registered;
  - `start` leaves every loaded radio cached Ready;
  - the cached descriptor state agrees with the adapter (spec §2: "state never
    silently diverges").
- **Adapter:** nobody ever observes the transient `Busy`.
- **Authenticator:** no anonymous control when a secret is configured;
  `authorize` is defined for every input.
- **Configuration:** a reload is all or nothing; a reader of `current()`
  sees one configuration.
- **Orchestrator (spec §4):** an unknown id yields `Unavailable`; every
  dispatched command is audited; out-of-range power is rejected. The stubs do
  none of this and change no state, so these are recorded as divergences
  found by reading (section 3) and not modelled.

## 2. Plan

1. `RadioFleet` (done): registry + adapters + application thread + callers.
2. `RadioFleetProofs` (done): type correctness and the lock invariants, by TLAPS.
3. `Authenticator` and `AuthenticatorProofs` (done).
4. `ConfigLoad` (done): `loadFromFile` and `parseDuration` of the third draft.
5. `RadioFleetAbstract` and `RadioFleetRefinement` (done): an atomic API.
   `RadioFleet` implements it under `INSTANCE ... WITH`, checked by TLC and
   proved by TLAPS.
6. `ConfigReload` (done): the second draft's `current()` and `reload()`.
7. `MainLifecycle` (done): `main`, `rcc::Application` and the signal handler.
8. `ConfigLoadProofs` and `ConfigReloadProofs` (done): `LoadFollowsFile`
   and `ReloadAllOrNothing` proved by TLAPS.

## 3. Module `RadioFleet`

**Constants.**
- `RadioIds`: ids that can occur.
- `ConfigRadios`: `config.radios` as a sequence of `[id, adapter]`.
- `Callers`: caller threads.
- `App`: the application thread.
- `PowerInputs` and `ChannelInputs`: argument sets.
- `MaxCalls`: a bound on each caller's calls.
- `NoRadio`, `NoThread`, `Unset`: model values for an empty optional, a free
  mutex and an unset optional field.

`ConfigAssumption` states what the proofs need of the constants.

**Variables.**

| Variable | Code |
|---|---|
| `radios` | key set of `radios_` |
| `cache` | `descriptor.state` |
| `active` | `active_radio_` |
| `mgrLock` | holder of `RadioManager::mutex_` |
| `adapter` | each adapter's `state_` |
| `adLock` | holder of each `SilvusAdapter::mutex_` |
| `pc`, `arg`, `todo` | control point, current radio, and start's remaining loop |
| `held` | the `AdapterPtr` a caller kept |
| `snap` | the last state a caller read |
| `calls` | calls made, bounded by `MaxCalls` |

**Actions.** A mutex-protected body with no inner blocking point is one step:

- `SetActiveRadio`, `GetAdapter`, `ListRadios`, `Stop`;
- `Connect`, `RefreshState`, `ReadState`.

A body that blocks on a second mutex while holding the first is split at that
point:

- `GetStateBegin` / `GetStateRead`;
- `StartBegin` / `StartConnect` / `StartCache` / `StartEnd`.

The two stores of `set_power` and `set_channel` are split around the transient
Busy: `SetPowerBegin` / `SetChannelBegin` / `CommandEnd`.

`Terminated` is the stutter once every caller has made its calls. Callers may
keep calling after `Stop`: `ApiGateway::stop` does not wait for in-flight
requests, and a handle from `get_adapter` outlives `stop`.

**Fairness.**
- `WF` on the start steps: the application thread runs `start` to completion.
- `WF` on each caller's continuation steps (`GetStateRead`, `CommandEnd`): a
  thread inside a locked body finishes it.
- No fairness on issuing new calls: callers may stop calling.

### Runs

| Run | Checks | Shows |
|---|---|---|
| `fleet` (pass) | `TypeOK`, `ActiveRadioRegistered`, `NeverObservedBusy`, `StartLeavesAllReady`, `AbstractSpec`, and the deadlock check | No interleaving of two callers with `start` and `stop` reaches a bad state. Holding the registry mutex while taking an adapter mutex never deadlocks. Every behaviour is a behaviour of the atomic API `RadioFleetAbstract`. |
| `fleet_lock` (violation) | `RegistryLockNotHeldAcrossAdapterCall` | `start` and `get_state` call into an adapter with the registry mutex held. |
| `fleet_cache` (violation) | `CacheMatchesAdapter` | `list_radios` reports a stale power/channel after `set_power` through a kept handle. |

**Bounds.** The runs use:

- three ids and four configuration entries: two Silvus radios, one unsupported
  adapter type, and a duplicate of the first id;
- two callers, each making three calls;
- two power values (20 and 70, in tenths of a watt; 70 is outside the 5 W
  range) and one channel.

Three calls per caller are enough for the longest bad patterns:

- a handle taken, then a command, then a read;
- `set_active_radio` racing `stop`.

Two callers are enough to expose every pairwise interleaving on one adapter
mutex. The `fleet` run reaches about 109,000 distinct states in about
10 seconds.

**Mutants.** Each property of `fleet` is broken by a plausible bug:

| Bug | Breaks |
|---|---|
| `set_channel` storing into `power_watts` | `TypeOK` |
| `stop` that keeps `active_radio_` | `ActiveRadioRegistered` |
| `state()` without the adapter lock | `NeverObservedBusy` |
| `start` leaving its loop early | `StartLeavesAllReady` |
| `get_adapter` not checking the id is still registered | `AbstractSpec` |

### Finding

The `fleet_cache` violation is a divergence between the spec and the code:

- The spec requires the Registry to commit each command's new state, and says
  that state never silently diverges from the hardware.
- The code refreshes `descriptor.state` only in `load_from_config` and in
  `start`, so `list_radios` returns stale values after `set_power` or
  `set_channel`.

### Lock scope

`fleet_lock` checks `RegistryLockNotHeldAcrossAdapterCall`. Spec §4.2 says no
registry lock is held across a call to an adapter. `start` (radio_manager.cpp
17-19) and `get_state` (line 69) call into the adapter with the registry mutex
held. The order is always registry → adapter and no adapter takes the registry
mutex, so `fleet` finds no deadlock; the cost is that one slow adapter stalls
every registry call.

### Divergences found by reading

These disagree with the spec, but the code has no state for a property to
tell apart, so no run checks them:

- `SilvusAdapter::set_power` (silvus_adapter.cpp:30-36) stores any wattage.
  Spec §4.1 says a command outside `capabilities().power_range_watts` is
  rejected with `InvalidRange`.
- The orchestrator's `selectRadio`, `setPower` and `setChannel` return
  `{Ok, "stub"}` for any id, including an unknown one, and write no audit
  record. Spec §4.3 requires `Unavailable` and an audit record.
- `RadioManager::stop` (radio_manager.cpp:24-28) only clears `radios_` and `active_radio_`. An
  adapter a caller still holds stays `Ready` and keeps accepting commands,
  while spec §4.3's state table has "any → Offline on manager stop/teardown".
  The model keeps `adapter` and `held` across `Stop`, so every later use of a
  held handle is explored.

## 4. Module `RadioFleetAbstract` and the refinement

`RadioFleetAbstract` states what the registry and its adapters promise
callers: the `RadioManager` API (radio_manager.hpp) and the `IRadioAdapter`
interface (radio_adapter.hpp) as atomic operations. Its variables are `phase`,
`radios`, `cache`, `active`, `radio`, `held` and `snap`. A command moves the
radio straight to its new state, and a read returns the radio's state at that
instant. `ListRadios` returns some registered radio's cached state, because
the cache is part of the promise (and is stale, see `fleet_cache`).

`RadioFleet` defines the mapping:

- `radio[r]` is `AbsState(adapter[r])`: the adapter's state with a transient
  `Busy` read as `Ready`. `Busy` is only visible while the adapter's mutex is
  held, so no caller can tell the difference.
- `phase` is `AbsPhase`, from the application thread's `pc`.
- `InitRadios` is `Loaded`, the ids `load_from_config` keeps.

Each split body maps to one abstract step at its effective point, and its
other steps map to stutters:

- `set_power`'s first store (to Busy) is the abstract command;
- `get_state` takes effect at its read;
- `start` maps connect and cache one to one.

`AbstractSpec == Abs!Spec` is a property of the `fleet` run. The theorem
`Implementation` in `RadioFleetRefinement` proves it for every value of the
constants (section 9).

## 5. Module `Authenticator`

**State.** The constructor's result is modelled:

- `validator`: `validator_.has_value()`;
- `allowViewer` and `allowControl`: the two anonymous-allow flags;
- `roles`: `allowed_roles_`.

`last` is the last decision `authorize` returned.

**Actions.**
- `Construct` (authenticator.cpp:9-24) runs once. It takes any secret and any
  allow list of length up to `MaxRoles`.
- `Authorize` decides one request. It takes a level and a header:
  - absent;
  - rejected by the bearer validator;
  - or a valid token with a scope.

  `Outcomes` follows the early returns of lines 27-60 in order.

Where `validator_` is empty and the anonymous shortcut is closed, line 42
dereferences an empty `std::optional`. That is undefined behaviour. The model
lets it either crash the process or reject the token. After a crash, `Crashed`
stutters.

| Run | Checks | Shows |
|---|---|---|
| `auth` (pass) | `SecretEnforced`, `RolesHonoured` | With a secret, nothing is admitted anonymously or without scope and role. A configured allow list is honoured in both modes. |
| `auth_ub` (violation) | `AuthorizeDefined` | With no secret and an allow list that omits "controller", a control request with any header reaches line 42. |

Mutants:
- taking the anonymous shortcut whatever the validator breaks `SecretEnforced`;
- letting the no-secret branch override the allow list breaks `RolesHonoured`.

## 6. Module `ConfigLoad`

**State.**
- `file`: the YAML document. It is chosen in `Init` from every combination of
  present or absent keys and small value sets.
- `cfg`: the `ContainerConfig` being filled.
- `stage`: the section `loadFromFile` has reached, or `done` / `failed`.

**Actions.** There is one action per section, in the code's order:

- `ParseSystem`
- `ParseAuth`
- `ParseTiming`
- `ParseTelemetry`
- `ParseChannels`

A conversion that throws ends the load in `failed`, with `cfg` as it stands.
That is what the catch block at lines 383-386 returns. The conversions that
throw are:

- `as<uint16_t>` on a port above 65535;
- `parseDuration` on a non-number or a suffix other than s, m or h;
- `parseRadio` on an entry without `model`.

`ParseDuration` models `parseDuration` by what it does:

- `""` gives 0 s;
- a value ending in a digit is seconds;
- the number is truncated by `static_cast<int>` before it is scaled (numbers
  are in tenths, so 1.5 is 15);
- a number beyond `INT_MAX` gives the negative `Wrapped`.

`ToHours` is `duration_cast<hours>`, which truncates toward zero.

| Run | Checks | Shows |
|---|---|---|
| `config` (pass) | `LoadFollowsFile` | For every file whose numbers fit in `int`, whole or fractional, the load succeeds exactly when the file is well formed. The result then equals a declarative reference `Expected`: each key or its default, `client_idle_timeout` over `heartbeat_timeout` over 60 s, and both cases of each suffix. |
| `config_defaults` (violation) | `FailedLoadUsesDefaults` | A failed load returns the keys stored before the throw, although the log says "Using defaults.". |

**Bounds.** `config` uses:

- the whole number 30 and the fraction 1.5;
- every suffix, including the unsupported `d`;
- `NaN` and `Huge`;
- ports 9000 and 70000.

That is 1,414,944 files and 5.4 million states in about 20 s.

**What is pinned, not judged.** `Expected` reads a duration as the whole
units written, with any fraction of a unit dropped (`WrittenSeconds`). So
`1.5m` is 60 s, as `static_cast<int>` makes it. It reads the retention in
whole hours, as `duration_cast<hours>` makes it, so `30m` is 0 hours. No spec
text, comment or test says what a fractional or sub-hour duration should
give. `LoadFollowsFile` therefore fixes these values to what the code computes
and does not call them wrong. What it does check is the rest:

- which files load;
- the defaults and override order;
- the suffix cases;
- that a rejected value fails the load.

**Mutant.** A `parseDuration` that accepts only lower-case suffixes breaks
`LoadFollowsFile`.

`UnitSeconds` is written as an IF chain over suffix sets, not a CASE. The code
(`config_manager.cpp` 258-270) is a switch. The two forms agree on every
suffix that reaches it, and the provers reason about the IF chain.

**Finding (code bug).** In the violation trace, `heartbeat_timeout: ""` stores
a 0 s idle timeout. Then `buffer_retention: "1d"` throws. The container runs
with a 0 s idle timeout instead of the default 60 s, and the log says defaults
are used.

## 7. Module `ConfigReload`

The second draft of `ConfigManager` is the one `rcc::Application` holds.
`current()` takes `mutex_` only to return a `const Config&`, and the caller
reads through that reference after the lock is gone.
`rcc::Application::initializeTelemetry` (application.cpp 31-43) does this:
it reads `cfg.telemetry`, then `cfg.container`. `reload()` parses into a
local `Config` outside the lock, then move-assigns `config_` under the lock.

**Data abstraction.** A file is a layout: for each of the six members of
`Config` (types.hpp 48-55), whether that section is absent, accepted, or
rejected by `parseConfig`'s checks. A parsed member is the file it came from,
or `Default`.

**Throws.** `parseConfig` throws in two cases:

- a missing `container` or `security` section;
- a rejected value, such as a non-positive duration or a radio without id,
  adapter or endpoint.

**Actions.**

- `Edit`: the file changes on disk at any time.
- `ReloadParse(w)`: a throw leaves `config_` untouched.
- `ReloadAssign(w)`: moves one member per step under `mutex_`, in declaration
  order, and releases the lock after the last.
- `Current(t)`: waits for the lock.
- `ReadMember(t)`: reads with no lock.

**Bounds.** There are four files:

- a full one;
- a minimal one (only the required sections);
- one with a bad timing value and no radios;
- one with everything missing.

The `reload` run has one reader and one reloader, with 3 reloads and 2 reads.
That gives about 4,200 states. `reload_torn` needs only one of each call.

| Run | Checks | Shows |
|---|---|---|
| `reload` (pass) | `ReloadAllOrNothing` | Whenever `mutex_` is free, `config_` is exactly the parse of one valid file. A file that throws, at whatever section, changes nothing. |
| `reload_torn` (violation) | `ConsistentSnapshot` | A reader takes the reference, reads `telemetry` of the old file, then `reload()` assigns and the reader reads `container` of the new one. The hub is built from two configurations. |

**Mutant.** Parsing straight into `config_` breaks `ReloadAllOrNothing`: a
throw then leaves the members parsed before it.

**Finding (code bug, config_manager.cpp:206).** The lock in `current()`
protects nothing once it returns. Any `reload()` concurrent with a reader is
a data race on `config_`. The model shows the member-level tear; within one
member, the race is undefined behaviour.

No caller in the repository calls `reload()`, so the race needs a future
caller (a SIGHUP handler, say). The second draft's instantiation of
`parseDurationSeconds` for hours (`std::chrono::hours::period`) is also
ill-formed as written. The model follows the evident intent: a duration
field that parses to a positive number of seconds is accepted.

## 8. Module `MainLifecycle`

The executable's entry point is `main()` in `src/core/main.cpp`. It uses
`rcc::Application`, the first definition in `application.cpp` (lines 1-45,
header `include/rcc/application.hpp`), whose `ConfigManager` is the second
draft of `config_manager.cpp`.

**State.**
- `pc`: main's next statement.
- `handlers`: the handlers are installed.
- `io`: the `io_context` local to the try block, as none, alive or destroyed.
- `ioStopped`: `io_context::stop` has been called on it.
- `registered`: `g_io_context` is set.
- `running`: `g_running`.
- `bus`: the application's event bus.
- `exitCode`: how the process ended.
- History flags for the properties: the signals delivered, whether a handler
  found a live `io_context` (`handled`), and whether it used a destroyed one
  (`dangling`).

**Actions.** There is one action per statement of `main`, and `Signal` for
SIGINT or SIGTERM. `Signal` applies:

- the default disposition before line 31, which kills the process;
- `handle_signal` after it.

`Construct` chooses whether the configuration file loads, is missing, or is
invalid. The last two throw out of the `Application` constructor, and the try
block then destroys `io_context`. `io_context.run()` returns only once the
`io_context` is stopped: the event bus keeps work queued. `Serve` is the
`io_context` dispatching in the meantime.

**Fairness.** `WF` on main's statements, because the main thread is scheduled.
There is no fairness on signals.

**Bound.** `MaxSignals` is 4. That allows one signal in each window of one
behaviour: before the install, between install and registration, while
serving, and after the `io_context` is destroyed.

| Run | Checks | Shows |
|---|---|---|
| `main` (pass) | `ShutdownOnSignal` | Once the handler reaches a live `io_context`, the process always ends, whatever statement the signal interrupted. |
| `main_lost` (violation) | `SignalShutsDown` | A signal between lines 31 and 40 is lost. `g_running` is never read, and the server keeps running. |
| `main_dangling` (violation) | `HandlerStopsLiveIo` | After `return 0`, or after a configuration error, `g_io_context` dangles. A signal then calls `stop()` on a destroyed object. |

**Mutant.** A handler that only clears `g_running` breaks `ShutdownOnSignal`.

## 9. Proofs

`Spec => []TypeOK`, `Spec => []NeverObservedBusy` and
`Spec => []ActiveRadioRegistered` are proved for every value of the constants
that satisfies `ConfigAssumption`.

`NeverObservedBusy` is not inductive on its own: a step `ReadState` could copy
a Busy state. The proof strengthens it to `IInv == TypeOK /\ LockInv`. The
conjuncts of `LockInv` are:

- `ArgsValid`: a thread inside a split body names a real radio;
- `HolderInCommand`: a caller between the two stores of a command holds that
  adapter's mutex;
- `LockedOnlyInCommand`: an adapter mutex is held only by such a caller, for
  that radio;
- `BusyOnlyLocked`: an adapter is Busy only while its mutex is held;
- `CacheNeverBusy`: no descriptor caches Busy, for every id, registered or not;
- `NeverObservedBusy` itself.

Together these say that Busy exists only inside a locked command. Every reader
(`ReadState`, `GetStateRead`, `StartCache`) waits for the adapter mutex, so it
never copies Busy.

The proof of `IInv` has three parts:

- `InitType` and `InitLockInv` show that `Init` satisfies it.
- `NextType` and `NextLockInv` show that every action preserves it. There is
  one step per action, with lemmas for the record updates and for the two
  branches of `get_state`.
- `Invariance` closes the induction with PTL.

`ActiveAlwaysRegistered` needs no strengthening. Only `Stop` and
`SetActiveRadio` change `radios` or `active`, and both keep the property.

TLC checked `IInv` as an invariant of the `fleet` configuration before the proof
was written.

`RadioFleetRefinement` proves `THEOREM Implementation == Spec => AbstractSpec`:
`RadioFleet` implements `RadioFleetAbstract` under the mapping of section 4.
There are three parts:

- `InitRefines`: `Init` maps to the abstract `Init`.
- `NextRefines`: under `RInv`, each action maps to an abstract step or a
  stutter. There is one step per action.
- `RefinementInvariance`: `Spec => []RInv`.

`RInv` is `IInv` strengthened with four facts the simulation needs:

- `CallersAfterStart`: a caller is mid-call only once `start` has returned,
  so its steps meet the abstract guard `Open`.
- `GetStateHolds`: between its lookup and its read, `get_state` holds the
  registry mutex and its id is still registered, so the read maps to
  `GetState` of a registered id.
- `BusyInCommand`: between a command's two stores its adapter is Busy, so the
  second store changes nothing visible through `AbsState` and is a stutter.
- `StartVisitsRegistered`: `start` connects and caches registered ids only,
  as the abstract `StartConnect` and `StartCache` require.

The step lemmas `PhaseOf` and `PhaseOfPrimed` evaluate `AbsPhase`, and
`MappedUnchanged` gives the stutter of steps that leave the mapped
variables alone.

**Not proved, only model-checked.**
- `StartLeavesAllReady` is liveness under fairness, out of TLAPS's reach here.
- Deadlock freedom needs ENABLED reasoning.

`AuthenticatorProofs` proves `Spec => []SecretEnforced` and
`Spec => []RolesHonoured`, for every set of secrets and roles and every
`MaxRoles`. Neither invariant is inductive alone. Both are proved from
`AuthInv == TypeOK /\ Unbuilt /\ SecretEnforced /\ RolesHonoured` together with
`FlagsFollowRoles`: without a validator, an allow flag is set only if the
allow list permits its role. `FlagsFollowRoles` is what keeps the anonymous
shortcut inside the allow list. Lemmas `GrantedChecked` and `AllowedRole`
state what an admitting outcome of `Outcomes` implies.

`ConfigReloadProofs` proves `THEOREM ReloadAtomic == Spec => []ReloadAllOrNothing`
for every set of reloaders, readers, files and sections. The invariant is not
inductive alone: midway through the section-by-section assignment, `config_`
is half old and half new. The proof strengthens it to
`IInv == TypeOK /\ ReadsInRange /\ UpdatedValid /\ LockedAssign /\ HalfMoved /\ ReloadAllOrNothing`.
The added conjuncts are:

- `UpdatedValid`: a thread about to assign holds the parse of a valid file in
  `updated`, since `reload` returns before the lock on an invalid or missing
  file.
- `LockedAssign`: only the mutex holder is mid-assignment (`next` in
  `2..Len(Order)`). Every other thread about to assign has not started
  (`next = 1`).
- `HalfMoved`: while `w` holds the mutex, the sections `Moved(w)` it has
  copied come from `updated[w]`, and the others come from one valid file.
  This is the conjunct that makes the final store restore a whole
  configuration.
- `ReadsInRange`: a reader's index stays inside `ReadOrder`.

The step lemmas (`ReloadParseStep`, `ReloadAssignStep`, `ReadMemberStep`,
`CurrentStep`, `QuietStep`) give one case per action. `ReloadAssignStep` splits
on whether the mutex is free and whether this is the last section. TLC checked
`IInv` with two reloaders and two reloads (57,672 states) before the proof.

`ConfigLoadProofs` proves `THEOREM LoadCorrect == Spec => []LoadFollowsFile`
for every set of ports, secrets and duration numbers, fractional ones
included. `LoadFollowsFile` speaks
only of the end of a load, so the proof uses `StageOK(file, stage, cfg)`. At
each stage it says:

- the checks of the sections parsed so far passed;
- `cfg` is the defaults overwritten by those sections' keys
  (`AfterSystem` ... `AfterTelemetry`, built from the record `Rec`);
- a `failed` stage had a key that does not convert.

The invariant is `IInv == file \in Files /\ stage \in Stages /\ (~HasHuge(file) => StageOK(...))`.
There is one step lemma per section (`SystemStep` ... `ChannelsStep`).
`DurationFacts` states what `parseDuration` returns for a handled or an
unhandled duration.

The only assumption is `ConfigLoadAssumption` (in `ConfigLoad`). It says
that the markers `Absent`, `Empty`, `NaN`, `Huge` and `Wrapped` are distinct
from each other and from the data. TLC evaluates it on both config runs.
Like the run, the theorem pins the code's truncation of fractions and of
sub-hour retentions (see section 6). It does not judge them.

TLC checked `IInv` with `Nums = {300, -20}` (5.4 million states) before the
proof.

Record updates with several fields, or with `@` under an IF, are beyond the
provers as written in the actions. The step lemmas therefore split on
`Absent` and rewrite each update as nested single-field updates of `Rec`.

## 10. Not modelled

- **Telemetry hub:** the first drafts format and log. The third draft
  forwards to `dts::common`'s EventBus, RingBuffer and SSEServer, a library
  that is not in the repository. It is built through a `TelemetryHub(io_context&)`
  constructor that no draft declares. Nothing of its own changes state.
- **Audit logger and API gateway:** formatting and I/O to external
  collaborators (the gateway is out of scope per spec §1).
- **Command orchestrator:** its three operations are stubs that print and
  return `Ok`. They change no state, so there is no action to model. The
  divergences from spec §4.3 are listed in section 3.
- **`core::Application::run`, `initialize` and its destructor:** no entry
  point constructs `core::Application`. Its `start`/`stop` ordering is in
  `RadioFleet`.
- **The async-signal safety of `handle_signal`:** `std::cout` and
  `io_context::stop` internals are not modelled. The handler is one atomic step.
- **Later drafts of the registry, adapter and authenticator:** no header of
  the build includes them. The third authenticator draft accepts any
  non-empty token with `radio:read` scope.
- **The second configuration draft's field-level parsing:** `ConfigReload`
  abstracts each section to accepted or rejected. The `uint16_t` cast of
  ports (config_manager.cpp:147) is listed as a hazard.
- **Configuration keys that cannot fail or that no component reads** (service
  name, listen address, issuer, audience, buffer size): their stores are part
  of the section actions but their values are not kept.
- **The YAML parsing itself:** out of scope per spec §1.
