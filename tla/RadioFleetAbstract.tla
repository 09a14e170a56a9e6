-------------------------- MODULE RadioFleetAbstract --------------------------
(***************************************************************************)
(* What the radio registry and its adapters promise their callers: the     *)
(* RadioManager API (radio_manager.hpp) and the IRadioAdapter interface    *)
(* (radio_adapter.hpp) as atomic operations.  Each call takes effect in    *)
(* one step; an adapter command moves the radio straight to its new state, *)
(* so no caller ever sees a command half done, and a state read returns    *)
(* the radio's state at that step.                                        *)
(*                                                                         *)
(* The application thread starts the registry (connecting and caching     *)
(* each registered radio) and eventually stops it; callers use the API    *)
(* once the registry has started.                                          *)
(***************************************************************************)
EXTENDS Naturals

CONSTANTS
    RadioIds,       \* ids a configuration or a request may name
    InitRadios,     \* the ids registered at construction
    Callers,        \* threads using the API
    PowerInputs,    \* wattages a caller may command
    ChannelInputs,  \* channels a caller may command
    NoRadio,        \* no id / no adapter
    Unset           \* an unset channel or power

Status == {"Offline", "Discovering", "Ready", "Busy", "Recovering"}

\* A radio's state as IRadioAdapter::state() reports it.
RadioState == [status : Status,
               channel : ChannelInputs \cup {Unset},
               power : PowerInputs \cup {Unset}]

DefaultState == [status |-> "Offline", channel |-> Unset, power |-> Unset]

VARIABLES
    phase,      \* where the registry's lifecycle is
    radios,     \* the registered ids
    cache,      \* the state the registry reports for each id
    active,     \* the active radio
    radio,      \* each radio's state
    held,       \* the adapter each caller holds
    snap        \* the state each caller last obtained

avars == <<phase, radios, cache, active, radio, held, snap>>

Init ==
    /\ phase = "loaded"
    /\ radios = InitRadios
    /\ cache = [r \in RadioIds |-> DefaultState]
    /\ active = NoRadio
    /\ radio = [r \in RadioIds |-> DefaultState]
    /\ held = [t \in Callers |-> NoRadio]
    /\ snap = [t \in Callers |-> DefaultState]

\* RadioManager::start: begin, connect and cache each radio, end.
BeginStart ==
    /\ phase = "loaded" /\ phase' = "starting"
    /\ UNCHANGED <<radios, cache, active, radio, held, snap>>

StartConnect(r) ==
    /\ phase = "starting" /\ r \in radios
    /\ radio' = [radio EXCEPT ![r].status = "Ready"]
    /\ UNCHANGED <<phase, radios, cache, active, held, snap>>

StartCache(r) ==
    /\ phase = "starting" /\ r \in radios
    /\ cache' = [cache EXCEPT ![r] = radio[r]]
    /\ UNCHANGED <<phase, radios, active, radio, held, snap>>

EndStart ==
    /\ phase = "starting" /\ phase' = "running"
    /\ UNCHANGED <<radios, cache, active, radio, held, snap>>

\* RadioManager::stop: the registry is emptied.
Stop ==
    /\ phase = "running" /\ phase' = "stopped"
    /\ radios' = {} /\ active' = NoRadio
    /\ UNCHANGED <<cache, radio, held, snap>>

\* The API is open once start() has returned.
Open == phase \in {"running", "stopped"}

SetActiveRadio(t, id) ==
    /\ Open
    /\ active' = IF id \in radios THEN id ELSE active
    /\ UNCHANGED <<phase, radios, cache, radio, held, snap>>

ListRadios(t) ==
    /\ Open
    /\ \/ radios = {} /\ UNCHANGED snap
       \/ \E r \in radios : snap' = [snap EXCEPT ![t] = cache[r]]
    /\ UNCHANGED <<phase, radios, cache, active, radio, held>>

GetAdapter(t, id) ==
    /\ Open
    /\ held' = [held EXCEPT ![t] = IF id \in radios THEN id ELSE NoRadio]
    /\ UNCHANGED <<phase, radios, cache, active, radio, snap>>

GetState(t, id) ==
    /\ Open
    /\ snap' = [snap EXCEPT ![t] = IF id \in radios THEN radio[id] ELSE DefaultState]
    /\ UNCHANGED <<phase, radios, cache, active, radio, held>>

\* The IRadioAdapter calls on the adapter a caller holds.
Command(t, new) ==
    /\ Open /\ held[t] # NoRadio
    /\ radio' = [radio EXCEPT ![held[t]] = new]
    /\ UNCHANGED <<phase, radios, cache, active, held, snap>>

Connect(t) == Command(t, [radio[held[t]] EXCEPT !.status = "Ready"])

RefreshState(t) ==
    Command(t, [radio[held[t]] EXCEPT !.status = IF @ = "Offline" THEN "Ready" ELSE @])

SetPower(t, w) == Command(t, [radio[held[t]] EXCEPT !.power = w, !.status = "Ready"])

SetChannel(t, c) == Command(t, [radio[held[t]] EXCEPT !.channel = c, !.status = "Ready"])

ReadState(t) ==
    /\ Open /\ held[t] # NoRadio
    /\ snap' = [snap EXCEPT ![t] = radio[held[t]]]
    /\ UNCHANGED <<phase, radios, cache, active, radio, held>>

Next ==
    \/ BeginStart \/ EndStart \/ Stop
    \/ \E r \in RadioIds : StartConnect(r) \/ StartCache(r)
    \/ \E t \in Callers :
          \/ \E id \in RadioIds : SetActiveRadio(t, id) \/ GetAdapter(t, id) \/ GetState(t, id)
          \/ ListRadios(t) \/ Connect(t) \/ RefreshState(t) \/ ReadState(t)
          \/ \E w \in PowerInputs : SetPower(t, w)
          \/ \E c \in ChannelInputs : SetChannel(t, c)

Spec == Init /\ [][Next]_avars

=============================================================================
