----------------------------- MODULE RadioFleet -----------------------------
(***************************************************************************)
(* The radio registry (rcc::radio::RadioManager) together with the Silvus  *)
(* adapters it owns (rcc::adapter::SilvusAdapter), as concurrent objects.  *)
(*                                                                         *)
(* RadioManager keeps a map radios_ from id to descriptor (adapter handle  *)
(* and cached RadioState) and an optional active_radio_, all under one     *)
(* mutex_.  Each SilvusAdapter keeps its own state_ under its own mutex_.  *)
(* The application thread App constructs the manager, calls start() and    *)
(* finally stop(); caller threads use the public API concurrently once     *)
(* start() has returned (Application::start starts the API gateway after   *)
(* the radio manager).  A caller may keep the shared_ptr that get_adapter  *)
(* returned and invoke the adapter with no registry lock held.             *)
(*                                                                         *)
(* A mutex-protected body with no inner blocking point is one step.  The   *)
(* steps that hold a lock while blocking on another (get_state, start) and *)
(* the two stores of set_power/set_channel that pass through Busy are      *)
(* split, so that what another thread can observe in between is explored.  *)
(***************************************************************************)
EXTENDS Naturals, Sequences

CONSTANTS
    RadioIds,       \* ids that may occur in the configuration or a request
    ConfigRadios,   \* config.radios: a sequence of [id, adapter] entries
    Callers,        \* threads calling the RadioManager / adapter API
    App,            \* the application thread (start, stop)
    PowerInputs,    \* tenths of a watt a caller may pass to set_power
    ChannelInputs,  \* channel indices a caller may pass to set_channel
    MaxCalls,       \* bound on the calls each caller makes
    NoRadio,        \* empty std::optional<std::string> / null AdapterPtr
    NoThread,       \* no holder of a mutex
    Unset           \* empty std::optional<int> / std::optional<double>

ASSUME ConfigAssumption ==
    /\ ConfigRadios \in Seq([id : RadioIds, adapter : STRING])
    /\ App \notin Callers
    /\ NoRadio \notin RadioIds
    /\ NoThread \notin Callers \cup {App}
    /\ Unset \notin PowerInputs \cup ChannelInputs
    /\ PowerInputs \subseteq Nat
    /\ MaxCalls \in Nat

Threads == Callers \cup {App}

Status == {"Offline", "Discovering", "Ready", "Busy", "Recovering"}

\* common::RadioState
RadioState == [status : Status,
               channel : ChannelInputs \cup {Unset},
               power : PowerInputs \cup {Unset}]

\* A default-constructed common::RadioState (also what get_state returns
\* for an unknown id, and SilvusAdapter's state_ after its constructor).
DefaultState == [status |-> "Offline", channel |-> Unset, power |-> Unset]

\* load_from_config keeps the entries whose adapter is "silvus"; emplace
\* keeps the first descriptor of a duplicated id.
Loaded == {ConfigRadios[i].id :
             i \in {j \in DOMAIN ConfigRadios : ConfigRadios[j].adapter = "silvus"}}

VARIABLES
    radios,     \* the key set of RadioManager::radios_
    cache,      \* descriptor.state of each id (meaningful on radios)
    active,     \* RadioManager::active_radio_
    mgrLock,    \* holder of RadioManager::mutex_
    adapter,    \* SilvusAdapter::state_ of the adapter loaded for each id
    adLock,     \* holder of each SilvusAdapter::mutex_
    pc,         \* control point of each thread
    arg,        \* radio id the thread's current call is about
    todo,       \* ids start() has still to connect
    held,       \* AdapterPtr each caller obtained from get_adapter
    snap,       \* last RadioState each caller obtained (get_state, state())
    calls       \* calls each caller has made

vars == <<radios, cache, active, mgrLock, adapter, adLock, pc, arg, todo,
          held, snap, calls>>

CallerPcs == {"idle", "set_power_end", "set_channel_end", "get_state_read"}
AppPcs == {"loaded", "start_loop", "start_cache", "running", "stopped"}

TypeOK ==
    /\ radios \subseteq RadioIds
    /\ cache \in [RadioIds -> RadioState]
    /\ active \in RadioIds \cup {NoRadio}
    /\ mgrLock \in Threads \cup {NoThread}
    /\ adapter \in [RadioIds -> RadioState]
    /\ adLock \in [RadioIds -> Threads \cup {NoThread}]
    /\ pc \in [Threads -> CallerPcs \cup AppPcs]
    /\ arg \in [Threads -> RadioIds \cup {NoRadio}]
    /\ todo \subseteq RadioIds
    /\ held \in [Callers -> RadioIds \cup {NoRadio}]
    /\ snap \in [Callers -> RadioState]
    /\ calls \in [Callers -> 0..MaxCalls]

(***************************************************************************)
(* Construction: RadioManager's constructor runs load_from_config; every  *)
(* loaded adapter starts Offline and its descriptor caches that state.     *)
(***************************************************************************)
Init ==
    /\ radios = Loaded
    /\ cache = [r \in RadioIds |-> DefaultState]
    /\ active = NoRadio
    /\ mgrLock = NoThread
    /\ adapter = [r \in RadioIds |-> DefaultState]
    /\ adLock = [r \in RadioIds |-> NoThread]
    /\ pc = [t \in Threads |-> IF t = App THEN "loaded" ELSE "idle"]
    /\ arg = [t \in Threads |-> NoRadio]
    /\ todo = {}
    /\ held = [t \in Callers |-> NoRadio]
    /\ snap = [t \in Callers |-> DefaultState]
    /\ calls = [t \in Callers |-> 0]

-----------------------------------------------------------------------------
(***************************************************************************)
(* RadioManager::start and stop, run by the application thread.           *)
(***************************************************************************)

\* start(): take mutex_ and begin the loop over radios_.
StartBegin ==
    /\ pc[App] = "loaded"
    /\ mgrLock = NoThread
    /\ mgrLock' = App
    /\ todo' = radios
    /\ pc' = [pc EXCEPT ![App] = "start_loop"]
    /\ UNCHANGED <<radios, cache, active, adapter, adLock, arg, held, snap, calls>>

\* descriptor.adapter->connect() for the next entry (iteration order of an
\* unordered_map is unspecified), with mutex_ still held.  connect() sets
\* Ready and always returns Ok.
StartConnect ==
    /\ pc[App] = "start_loop"
    /\ \E r \in todo :
        /\ adLock[r] = NoThread
        /\ adapter' = [adapter EXCEPT ![r].status = "Ready"]
        /\ arg' = [arg EXCEPT ![App] = r]
    /\ pc' = [pc EXCEPT ![App] = "start_cache"]
    /\ UNCHANGED <<radios, cache, active, mgrLock, adLock, todo, held, snap, calls>>

\* result Ok: descriptor.state = descriptor.adapter->state().
StartCache ==
    /\ pc[App] = "start_cache"
    /\ adLock[arg[App]] = NoThread
    /\ cache' = [cache EXCEPT ![arg[App]] = adapter[arg[App]]]
    /\ todo' = todo \ {arg[App]}
    /\ pc' = [pc EXCEPT ![App] = "start_loop"]
    /\ UNCHANGED <<radios, active, mgrLock, adapter, adLock, arg, held, snap, calls>>

\* Mutant: the loop over radios_ is left before every entry is visited.
StartEndEarly ==
    /\ pc[App] = "start_loop"
    /\ mgrLock' = NoThread
    /\ pc' = [pc EXCEPT ![App] = "running"]
    /\ UNCHANGED <<radios, cache, active, adapter, adLock, arg, todo, held, snap, calls>>

\* End of the loop: the lock_guard releases mutex_.
StartEnd ==
    /\ pc[App] = "start_loop"
    /\ todo = {}
    /\ mgrLock' = NoThread
    /\ pc' = [pc EXCEPT ![App] = "running"]
    /\ UNCHANGED <<radios, cache, active, adapter, adLock, arg, todo, held, snap, calls>>

\* Mutant: stop() forgets active_radio_.reset().
StopKeepsActive ==
    /\ pc[App] = "running"
    /\ mgrLock = NoThread
    /\ radios' = {}
    /\ pc' = [pc EXCEPT ![App] = "stopped"]
    /\ UNCHANGED <<cache, active, mgrLock, adapter, adLock, arg, todo, held, snap, calls>>

\* stop(): radios_.clear(); active_radio_.reset().  Adapters that callers
\* still hold through a shared_ptr stay alive.
Stop ==
    /\ pc[App] = "running"
    /\ mgrLock = NoThread
    /\ radios' = {}
    /\ active' = NoRadio
    /\ pc' = [pc EXCEPT ![App] = "stopped"]
    /\ UNCHANGED <<cache, mgrLock, adapter, adLock, arg, todo, held, snap, calls>>

-----------------------------------------------------------------------------
(***************************************************************************)
(* Calls by caller threads.  A call may start once start() has returned.   *)
(***************************************************************************)
CanCall(t) ==
    /\ pc[t] = "idle"
    /\ pc[App] \in {"running", "stopped"}
    /\ calls[t] < MaxCalls

Called(t) == calls' = [calls EXCEPT ![t] = @ + 1]

\* set_active_radio(id): fails when id is not in radios_.
SetActiveRadio(t, id) ==
    /\ CanCall(t)
    /\ mgrLock = NoThread
    /\ active' = IF id \in radios THEN id ELSE active
    /\ Called(t)
    /\ UNCHANGED <<radios, cache, mgrLock, adapter, adLock, pc, arg, todo, held, snap>>

\* list_radios(): a copy of every descriptor, taken under mutex_; the
\* caller looks at the cached state of one of them.
ListRadios(t) ==
    /\ CanCall(t)
    /\ mgrLock = NoThread
    /\ \/ radios = {} /\ UNCHANGED snap
       \/ \E r \in radios : snap' = [snap EXCEPT ![t] = cache[r]]
    /\ Called(t)
    /\ UNCHANGED <<radios, cache, active, mgrLock, adapter, adLock, pc, arg, todo, held>>

\* Mutant: get_adapter hands out the adapter without checking that id is
\* still in radios_.
GetAdapterUnchecked(t, id) ==
    /\ CanCall(t)
    /\ mgrLock = NoThread
    /\ held' = [held EXCEPT ![t] = id]
    /\ Called(t)
    /\ UNCHANGED <<radios, cache, active, mgrLock, adapter, adLock, pc, arg, todo, snap>>

\* get_adapter(id): the adapter's shared_ptr, or nullptr for an unknown id.
GetAdapter(t, id) ==
    /\ CanCall(t)
    /\ mgrLock = NoThread
    /\ held' = [held EXCEPT ![t] = IF id \in radios THEN id ELSE NoRadio]
    /\ Called(t)
    /\ UNCHANGED <<radios, cache, active, mgrLock, adapter, adLock, pc, arg, todo, snap>>

\* get_state(id), first part: take mutex_, look id up; unknown -> {}.
GetStateBegin(t, id) ==
    /\ CanCall(t)
    /\ mgrLock = NoThread
    /\ IF id \in radios
          THEN /\ mgrLock' = t
               /\ pc' = [pc EXCEPT ![t] = "get_state_read"]
               /\ arg' = [arg EXCEPT ![t] = id]
               /\ UNCHANGED snap
          ELSE /\ snap' = [snap EXCEPT ![t] = DefaultState]
               /\ UNCHANGED <<mgrLock, pc, arg>>
    /\ Called(t)
    /\ UNCHANGED <<radios, cache, active, adapter, adLock, todo, held>>

\* get_state(id), second part: it->second.adapter->state() while mutex_ is
\* still held; then both lock_guards release.
GetStateRead(t) ==
    /\ pc[t] = "get_state_read"
    /\ adLock[arg[t]] = NoThread
    /\ snap' = [snap EXCEPT ![t] = adapter[arg[t]]]
    /\ mgrLock' = NoThread
    /\ pc' = [pc EXCEPT ![t] = "idle"]
    /\ UNCHANGED <<radios, cache, active, adapter, adLock, arg, todo, held, calls>>

-----------------------------------------------------------------------------
(***************************************************************************)
(* SilvusAdapter methods, called on an adapter a caller holds.             *)
(***************************************************************************)
AdapterCall(t) ==
    /\ CanCall(t)
    /\ held[t] # NoRadio
    /\ adLock[held[t]] = NoThread

\* connect(): state_.status = Ready under the adapter mutex.
Connect(t) ==
    /\ AdapterCall(t)
    /\ adapter' = [adapter EXCEPT ![held[t]].status = "Ready"]
    /\ Called(t)
    /\ UNCHANGED <<radios, cache, active, mgrLock, adLock, pc, arg, todo, held, snap>>

\* refresh_state(): Offline -> Ready, otherwise unchanged.
RefreshState(t) ==
    /\ AdapterCall(t)
    /\ adapter' = [adapter EXCEPT ![held[t]].status =
                      IF @ = "Offline" THEN "Ready" ELSE @]
    /\ Called(t)
    /\ UNCHANGED <<radios, cache, active, mgrLock, adLock, pc, arg, todo, held, snap>>

\* set_power(watts), first part: lock, power_watts = watts, status = Busy.
\* No range check against capabilities_.power_range_watts is made.
SetPowerBegin(t, w) ==
    /\ AdapterCall(t)
    /\ adLock' = [adLock EXCEPT ![held[t]] = t]
    /\ adapter' = [adapter EXCEPT ![held[t]].power = w, ![held[t]].status = "Busy"]
    /\ pc' = [pc EXCEPT ![t] = "set_power_end"]
    /\ arg' = [arg EXCEPT ![t] = held[t]]
    /\ Called(t)
    /\ UNCHANGED <<radios, cache, active, mgrLock, todo, held, snap>>

\* Mutant: set_channel copied from set_power stores into power_watts.
SetChannelBeginIntoPower(t, c) ==
    /\ AdapterCall(t)
    /\ adLock' = [adLock EXCEPT ![held[t]] = t]
    /\ adapter' = [adapter EXCEPT ![held[t]].power = c, ![held[t]].status = "Busy"]
    /\ pc' = [pc EXCEPT ![t] = "set_channel_end"]
    /\ arg' = [arg EXCEPT ![t] = held[t]]
    /\ Called(t)
    /\ UNCHANGED <<radios, cache, active, mgrLock, todo, held, snap>>

\* set_channel(index, freq), first part: channel_index = index, Busy.
\* frequency_mhz is discarded by the code, so it is not an input here.
SetChannelBegin(t, c) ==
    /\ AdapterCall(t)
    /\ adLock' = [adLock EXCEPT ![held[t]] = t]
    /\ adapter' = [adapter EXCEPT ![held[t]].channel = c, ![held[t]].status = "Busy"]
    /\ pc' = [pc EXCEPT ![t] = "set_channel_end"]
    /\ arg' = [arg EXCEPT ![t] = held[t]]
    /\ Called(t)
    /\ UNCHANGED <<radios, cache, active, mgrLock, todo, held, snap>>

\* Second part of set_power / set_channel: status = Ready, unlock, Ok.
CommandEnd(t) ==
    /\ pc[t] \in {"set_power_end", "set_channel_end"}
    /\ adapter' = [adapter EXCEPT ![arg[t]].status = "Ready"]
    /\ adLock' = [adLock EXCEPT ![arg[t]] = NoThread]
    /\ pc' = [pc EXCEPT ![t] = "idle"]
    /\ UNCHANGED <<radios, cache, active, mgrLock, arg, todo, held, snap, calls>>

\* Mutant: state() copies state_ without taking the adapter mutex.
ReadStateUnlocked(t) ==
    /\ CanCall(t)
    /\ held[t] # NoRadio
    /\ snap' = [snap EXCEPT ![t] = adapter[held[t]]]
    /\ Called(t)
    /\ UNCHANGED <<radios, cache, active, mgrLock, adapter, adLock, pc, arg, todo, held>>

\* state(): a copy of state_ taken under the adapter mutex.
ReadState(t) ==
    /\ AdapterCall(t)
    /\ snap' = [snap EXCEPT ![t] = adapter[held[t]]]
    /\ Called(t)
    /\ UNCHANGED <<radios, cache, active, mgrLock, adapter, adLock, pc, arg, todo, held>>

-----------------------------------------------------------------------------
\* Every caller has made its calls; the process idles in io_context::run()
\* until it is stopped.  A thread stuck on a mutex never gets here, so the
\* deadlock check reports it.
Terminated ==
    /\ \A t \in Callers : calls[t] = MaxCalls
    /\ UNCHANGED vars

StartSteps == StartBegin \/ StartConnect \/ StartCache \/ StartEnd

\* The steps a thread must take once a call has begun.
Continue(t) == GetStateRead(t) \/ CommandEnd(t)

CallerStep(t) ==
    \/ \E id \in RadioIds : SetActiveRadio(t, id) \/ GetAdapter(t, id)
                              \/ GetStateBegin(t, id)
    \/ ListRadios(t) \/ Connect(t) \/ RefreshState(t) \/ ReadState(t)
    \/ \E w \in PowerInputs : SetPowerBegin(t, w)
    \/ \E c \in ChannelInputs : SetChannelBegin(t, c)
    \/ Continue(t)

Next == StartSteps \/ Stop \/ (\E t \in Callers : CallerStep(t)) \/ Terminated

\* Threads are scheduled by the OS: a runnable thread eventually runs, so
\* Application::start runs RadioManager::start to its end and a call that
\* has begun is carried on.  Nothing obliges a caller to call, nor the
\* process to be stopped (stop() needs a signal).
Fairness == WF_vars(StartSteps) /\ \A t \in Callers : WF_vars(Continue(t))

Spec == Init /\ [][Next]_vars /\ Fairness

-----------------------------------------------------------------------------
(***************************************************************************)
(* Properties.                                                             *)
(***************************************************************************)

\* The active radio, when set, is a radio the registry manages: both
\* set_active_radio's lookup and stop()'s clear/reset happen under mutex_,
\* so no interleaving of selections with stop() leaves a dangling id.
ActiveRadioRegistered == active = NoRadio \/ active \in radios

\* No thread ever observes the transient Busy that set_power/set_channel
\* store between their two writes of state_.status: state() (called by
\* callers, by get_state and by start) copies state_ under the adapter mutex.
NeverObservedBusy ==
    /\ \A t \in Callers : snap[t].status # "Busy"
    /\ \A r \in radios : cache[r].status # "Busy"

\* start() eventually connects every radio loaded from the configuration
\* and its descriptor then caches Ready: the loop visits every entry of
\* radios_, connect() succeeds, and nothing afterwards writes the cache.
StartLeavesAllReady == <>(\A r \in Loaded : cache[r].status = "Ready")

\* The refinement mapping to RadioFleetAbstract.  A Busy adapter is the
\* radio already in the state its command leads to: set_power and
\* set_channel take effect at their first store, and their second store
\* (Busy to Ready) is a stutter.  The application thread's pc gives the
\* registry's phase.
AbsState(s) == IF s.status = "Busy" THEN [s EXCEPT !.status = "Ready"] ELSE s

AbsPhase == CASE pc[App] = "loaded" -> "loaded"
              [] pc[App] \in {"start_loop", "start_cache"} -> "starting"
              [] pc[App] = "running" -> "running"
              [] OTHER -> "stopped"

Abs == INSTANCE RadioFleetAbstract
         WITH InitRadios <- Loaded, phase <- AbsPhase,
              radio <- [r \in RadioIds |-> AbsState(adapter[r])]

\* The registry and its adapters implement the atomic API of
\* RadioFleetAbstract: every step of start, stop, the RadioManager calls
\* and the adapter calls is one atomic operation of that API or changes
\* nothing a caller can observe; in particular get_state and state()
\* return the radio's state at one instant, and a command's two stores
\* look like one.
AbstractSpec == Abs!Spec

\* Spec 4.2/4.3: the cached state of a descriptor is the state its adapter
\* reports once no command is in flight (list_radios and get_state agree).
CacheMatchesAdapter ==
    \A r \in radios :
        mgrLock = NoThread /\ adLock[r] = NoThread => cache[r] = adapter[r]

\* Spec 4.2: the registry mutex is never held across an adapter call, so
\* that a slow adapter cannot block list_radios/get_state on other radios.
\* start() (line 19) and get_state() (line 69) wait for an adapter's mutex
\* while they hold it.
RegistryLockNotHeldAcrossAdapterCall ==
    \A t \in Threads : mgrLock = t => pc[t] \notin {"start_cache", "get_state_read"}

=============================================================================
