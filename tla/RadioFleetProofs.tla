------------------------- MODULE RadioFleetProofs -------------------------
(***************************************************************************)
(* Proofs about RadioFleet for every value of the constants.               *)
(*                                                                         *)
(* TypeOK is not inductive by itself: GetStateRead reads adapter[arg[t]],  *)
(* which is a RadioState only if the id get_state looked up is a radio id. *)
(* NeverObservedBusy needs to know that an adapter is Busy only while a    *)
(* caller is between the two stores of set_power/set_channel, holding the  *)
(* adapter mutex.  IInv adds both facts.                                   *)
(***************************************************************************)
EXTENDS RadioFleet, SequenceTheorems, TLAPS

EndPcs == {"set_power_end", "set_channel_end"}

\* A thread in the middle of a call is about a radio id.
ArgsValid ==
    \A t \in Threads :
        pc[t] \in EndPcs \cup {"get_state_read", "start_cache"} => arg[t] \in RadioIds

\* A caller between the two stores of a command holds that adapter's mutex.
HolderInCommand ==
    \A t \in Callers : pc[t] \in EndPcs => adLock[arg[t]] = t

\* An adapter mutex is held only by a caller between those two stores.
LockedOnlyInCommand ==
    \A r \in RadioIds :
        adLock[r] # NoThread => adLock[r] \in Callers /\ pc[adLock[r]] \in EndPcs
                               /\ arg[adLock[r]] = r

\* state_.status is Busy only while the adapter mutex is held.
BusyOnlyLocked ==
    \A r \in RadioIds : adapter[r].status = "Busy" => adLock[r] # NoThread

\* No cached descriptor state is Busy, on any id.
CacheNeverBusy == \A r \in RadioIds : cache[r].status # "Busy"

\* The part of the inductive invariant about locks and Busy.
LockInv ==
    /\ ArgsValid
    /\ HolderInCommand
    /\ LockedOnlyInCommand
    /\ BusyOnlyLocked
    /\ CacheNeverBusy
    /\ NeverObservedBusy

\* The inductive invariant.
IInv == TypeOK /\ LockInv

-----------------------------------------------------------------------------
USE ConfigAssumption

\* load_from_config only registers ids that occur in the configuration.
LEMMA LoadedIds == Loaded \subseteq RadioIds
  <1> SUFFICES ASSUME NEW i \in DOMAIN ConfigRadios
               PROVE  ConfigRadios[i].id \in RadioIds
    BY DEF Loaded
  <1>1. i \in 1..Len(ConfigRadios)
    OBVIOUS
  <1>2. ConfigRadios[i] \in [id : RadioIds, adapter : STRING]
    BY <1>1, ElementOfSeq, Zenon
  <1>3. QED
    BY <1>2

\* Storing a status in one adapter's state keeps the state map typed.
LEMMA StatusUpdateType ==
  ASSUME NEW f \in [RadioIds -> RadioState], NEW r \in RadioIds, NEW st \in Status
  PROVE  [f EXCEPT ![r].status = st] \in [RadioIds -> RadioState]
  BY DEF RadioState

\* So does storing set_power's value together with Busy ...
LEMMA PowerUpdateType ==
  ASSUME NEW f \in [RadioIds -> RadioState], NEW r \in RadioIds, NEW w \in PowerInputs
  PROVE  [f EXCEPT ![r].power = w, ![r].status = "Busy"] \in [RadioIds -> RadioState]
  BY DEF RadioState, Status

\* ... and set_channel's.
LEMMA ChannelUpdateType ==
  ASSUME NEW f \in [RadioIds -> RadioState], NEW r \in RadioIds, NEW c \in ChannelInputs
  PROVE  [f EXCEPT ![r].channel = c, ![r].status = "Busy"] \in [RadioIds -> RadioState]
  BY DEF RadioState, Status

\* The initial state is well typed.
LEMMA InitType == Init => TypeOK
  BY LoadedIds DEF Init, TypeOK, DefaultState, RadioState, Status, Threads,
                   CallerPcs, AppPcs

\* get_state on a registered id: the caller takes the registry mutex.
LEMMA GetStateFound ==
  ASSUME NEW t \in Callers, NEW id \in RadioIds, GetStateBegin(t, id), id \in radios
  PROVE  /\ calls' = [calls EXCEPT ![t] = @ + 1]
         /\ calls[t] < MaxCalls
         /\ pc[t] = "idle"
         /\ mgrLock' = t
         /\ pc' = [pc EXCEPT ![t] = "get_state_read"]
         /\ arg' = [arg EXCEPT ![t] = id]
         /\ UNCHANGED <<radios, cache, active, adapter, adLock, todo, held, snap>>
  BY DEF GetStateBegin, CanCall, Called

\* get_state on an unknown id returns a default-constructed state.
LEMMA GetStateMissing ==
  ASSUME NEW t \in Callers, NEW id \in RadioIds, GetStateBegin(t, id), id \notin radios
  PROVE  /\ calls' = [calls EXCEPT ![t] = @ + 1]
         /\ calls[t] < MaxCalls
         /\ pc[t] = "idle"
         /\ snap' = [snap EXCEPT ![t] = DefaultState]
         /\ UNCHANGED <<radios, cache, active, mgrLock, adapter, adLock, pc, arg,
                        todo, held>>
  BY DEF GetStateBegin, CanCall, Called

\* Every step keeps the variables in their types, given the ids the
\* threads in the middle of a call are about.
LEMMA NextType == TypeOK /\ ArgsValid /\ [Next]_vars => TypeOK'
  <1> SUFFICES ASSUME TypeOK, ArgsValid, [Next]_vars PROVE TypeOK'
    OBVIOUS
  <1> USE DEF TypeOK, Threads
  <1>1. CASE StartBegin
    BY <1>1 DEF StartBegin, AppPcs
  <1>2. CASE StartConnect
    <2>1. PICK r \in todo : /\ adapter' = [adapter EXCEPT ![r].status = "Ready"]
                            /\ arg' = [arg EXCEPT ![App] = r]
      BY <1>2 DEF StartConnect
    <2>2. adapter' \in [RadioIds -> RadioState]
      BY <2>1, StatusUpdateType DEF Status
    <2>3. QED
      BY <1>2, <2>1, <2>2 DEF StartConnect, AppPcs
  <1>3. CASE StartCache
    BY <1>3 DEF StartCache, AppPcs, ArgsValid
  <1>4. CASE StartEnd
    BY <1>4 DEF StartEnd, AppPcs
  <1>5. CASE Stop
    BY <1>5 DEF Stop, AppPcs
  <1>6. ASSUME NEW t \in Callers, NEW id \in RadioIds, SetActiveRadio(t, id)
        PROVE TypeOK'
    BY <1>6 DEF SetActiveRadio, CanCall, Called
  <1>7. ASSUME NEW t \in Callers, NEW id \in RadioIds, GetAdapter(t, id)
        PROVE TypeOK'
    BY <1>7 DEF GetAdapter, CanCall, Called
  <1>8. ASSUME NEW t \in Callers, NEW id \in RadioIds, GetStateBegin(t, id)
        PROVE TypeOK'
    <2>1. DefaultState \in RadioState
      BY DEF DefaultState, RadioState, Status
    <2>2. CASE id \in radios
      <3>1. /\ calls' = [calls EXCEPT ![t] = @ + 1]
            /\ calls[t] < MaxCalls
            /\ pc' = [pc EXCEPT ![t] = "get_state_read"]
            /\ mgrLock' = t
            /\ arg' = [arg EXCEPT ![t] = id]
            /\ UNCHANGED <<radios, cache, active, adapter, adLock, todo, held, snap>>
        BY <1>8, <2>2, GetStateFound
      <3>2. QED
        BY <3>1 DEF CallerPcs
    <2>3. CASE id \notin radios
      <3>1. /\ calls' = [calls EXCEPT ![t] = @ + 1]
            /\ calls[t] < MaxCalls
            /\ snap' = [snap EXCEPT ![t] = DefaultState]
            /\ UNCHANGED <<radios, cache, active, mgrLock, adapter, adLock, pc, arg,
                           todo, held>>
        BY <1>8, <2>3, GetStateMissing
      <3>2. QED
        BY <2>1, <3>1
    <2>4. QED
      BY <2>2, <2>3
  <1>9. ASSUME NEW t \in Callers, GetStateRead(t)
        PROVE TypeOK'
    <2>1. adapter[arg[t]] \in RadioState
      BY <1>9 DEF GetStateRead, ArgsValid
    <2>2. QED
      BY <1>9, <2>1 DEF GetStateRead, CallerPcs
  <1>10. ASSUME NEW t \in Callers, Connect(t)
         PROVE TypeOK'
    <2>1. held[t] \in RadioIds
      BY <1>10 DEF Connect, AdapterCall
    <2>2. adapter' \in [RadioIds -> RadioState]
      BY <1>10, <2>1, StatusUpdateType DEF Connect, Status
    <2>3. QED
      BY <1>10, <2>2 DEF Connect, AdapterCall, CanCall, Called
  <1>11. ASSUME NEW t \in Callers, RefreshState(t)
         PROVE TypeOK'
    <2>1. held[t] \in RadioIds
      BY <1>11 DEF RefreshState, AdapterCall
    <2>2. adapter' \in [RadioIds -> RadioState]
      <3>1. CASE adapter[held[t]].status = "Offline"
        BY <1>11, <2>1, <3>1, StatusUpdateType DEF RefreshState, Status
      <3>2. CASE adapter[held[t]].status # "Offline"
        BY <1>11, <2>1, <3>2, StatusUpdateType DEF RefreshState, RadioState
      <3>3. QED
        BY <3>1, <3>2
    <2>3. QED
      BY <1>11, <2>2 DEF RefreshState, AdapterCall, CanCall, Called
  <1>12. ASSUME NEW t \in Callers, NEW w \in PowerInputs, SetPowerBegin(t, w)
         PROVE TypeOK'
    <2>1. held[t] \in RadioIds
      BY <1>12 DEF SetPowerBegin, AdapterCall
    <2>2. adapter' \in [RadioIds -> RadioState]
      BY <1>12, <2>1, PowerUpdateType DEF SetPowerBegin
    <2>3. QED
      BY <1>12, <2>1, <2>2 DEF SetPowerBegin, AdapterCall, CanCall, Called, CallerPcs
  <1>13. ASSUME NEW t \in Callers, NEW c \in ChannelInputs, SetChannelBegin(t, c)
         PROVE TypeOK'
    <2>1. held[t] \in RadioIds
      BY <1>13 DEF SetChannelBegin, AdapterCall
    <2>2. adapter' \in [RadioIds -> RadioState]
      BY <1>13, <2>1, ChannelUpdateType DEF SetChannelBegin
    <2>3. QED
      BY <1>13, <2>1, <2>2 DEF SetChannelBegin, AdapterCall, CanCall, Called, CallerPcs
  <1>14. ASSUME NEW t \in Callers, CommandEnd(t)
         PROVE TypeOK'
    <2>1. arg[t] \in RadioIds
      BY <1>14 DEF CommandEnd, ArgsValid, EndPcs
    <2>2. adapter' \in [RadioIds -> RadioState]
      BY <1>14, <2>1, StatusUpdateType DEF CommandEnd, Status
    <2>3. QED
      BY <1>14, <2>2 DEF CommandEnd, CallerPcs
  <1>15. ASSUME NEW t \in Callers, ReadState(t)
         PROVE TypeOK'
    BY <1>15 DEF ReadState, AdapterCall, CanCall, Called
  <1>16. CASE Terminated \/ UNCHANGED vars
    BY <1>16 DEF Terminated, vars
  <1>18. ASSUME NEW t \in Callers, ListRadios(t)
         PROVE TypeOK'
    <2>1. snap' \in [Callers -> RadioState]
      <3>1. CASE radios = {} /\ UNCHANGED snap
        BY <3>1
      <3>2. CASE \E r \in radios : snap' = [snap EXCEPT ![t] = cache[r]]
        BY <3>2
      <3>3. QED
        BY <1>18, <3>1, <3>2 DEF ListRadios
    <2>2. /\ calls' = [calls EXCEPT ![t] = @ + 1]
          /\ calls[t] < MaxCalls
          /\ UNCHANGED <<radios, cache, active, mgrLock, adapter, adLock, pc, arg, todo,
                         held>>
      BY <1>18 DEF ListRadios, CanCall, Called
    <2>3. QED
      BY <2>1, <2>2
  <1>17. QED
    BY <1>1, <1>2, <1>3, <1>4, <1>5, <1>6, <1>7, <1>8, <1>9, <1>10, <1>11,
       <1>12, <1>13, <1>14, <1>15, <1>16, <1>18
    DEF Next, StartSteps, CallerStep, Continue

\* Every step keeps the lock discipline of the adapters.
LEMMA NextLockInv == TypeOK /\ LockInv /\ [Next]_vars => LockInv'
  <1> SUFFICES ASSUME TypeOK, LockInv, [Next]_vars PROVE LockInv'
    OBVIOUS
  <1> USE DEF LockInv, ArgsValid, HolderInCommand, LockedOnlyInCommand,
              BusyOnlyLocked, CacheNeverBusy, NeverObservedBusy, Threads, EndPcs
  <1>1. CASE StartBegin
    BY <1>1 DEF StartBegin, TypeOK
  <1>2. CASE StartConnect
    BY <1>2 DEF StartConnect, TypeOK
  <1>3. CASE StartCache
    BY <1>3 DEF StartCache, TypeOK
  <1>4. CASE StartEnd
    BY <1>4 DEF StartEnd, TypeOK
  <1>5. CASE Stop
    BY <1>5 DEF Stop, TypeOK
  <1>6. ASSUME NEW t \in Callers, NEW id \in RadioIds, SetActiveRadio(t, id)
        PROVE LockInv'
    BY <1>6 DEF SetActiveRadio, CanCall, Called, TypeOK
  <1>7. ASSUME NEW t \in Callers, NEW id \in RadioIds, GetAdapter(t, id)
        PROVE LockInv'
    BY <1>7 DEF GetAdapter, CanCall, Called, TypeOK
  <1>8. ASSUME NEW t \in Callers, NEW id \in RadioIds, GetStateBegin(t, id)
        PROVE LockInv'
    <2>1. CASE id \in radios
      <3>1. /\ pc[t] = "idle"
            /\ pc' = [pc EXCEPT ![t] = "get_state_read"]
            /\ mgrLock' = t
            /\ arg' = [arg EXCEPT ![t] = id]
            /\ UNCHANGED <<radios, cache, active, adapter, adLock, todo, held, snap>>
        BY <1>8, <2>1, GetStateFound
      <3>2. QED
        BY <3>1 DEF TypeOK
    <2>2. CASE id \notin radios
      <3>1. /\ snap' = [snap EXCEPT ![t] = DefaultState]
            /\ UNCHANGED <<radios, cache, active, mgrLock, adapter, adLock, pc, arg,
                           todo, held>>
        BY <1>8, <2>2, GetStateMissing
      <3>2. QED
        BY <3>1 DEF DefaultState, TypeOK
    <2>3. QED
      BY <2>1, <2>2
  <1>9. ASSUME NEW t \in Callers, GetStateRead(t)
        PROVE LockInv'
    BY <1>9 DEF GetStateRead, TypeOK
  <1>10. ASSUME NEW t \in Callers, Connect(t)
         PROVE LockInv'
    BY <1>10 DEF Connect, AdapterCall, CanCall, Called, TypeOK
  <1>11. ASSUME NEW t \in Callers, RefreshState(t)
         PROVE LockInv'
    BY <1>11 DEF RefreshState, AdapterCall, CanCall, Called, TypeOK
  <1>12. ASSUME NEW t \in Callers, NEW w \in PowerInputs, SetPowerBegin(t, w)
         PROVE LockInv'
    BY <1>12 DEF SetPowerBegin, AdapterCall, CanCall, Called, TypeOK
  <1>13. ASSUME NEW t \in Callers, NEW c \in ChannelInputs, SetChannelBegin(t, c)
         PROVE LockInv'
    BY <1>13 DEF SetChannelBegin, AdapterCall, CanCall, Called, TypeOK
  <1>14. ASSUME NEW t \in Callers, CommandEnd(t)
         PROVE LockInv'
    BY <1>14 DEF CommandEnd, TypeOK
  <1>15. ASSUME NEW t \in Callers, ReadState(t)
         PROVE LockInv'
    BY <1>15 DEF ReadState, AdapterCall, CanCall, Called, TypeOK
  <1>16. CASE Terminated \/ UNCHANGED vars
    BY <1>16 DEF Terminated, vars
  <1>18. ASSUME NEW t \in Callers, ListRadios(t)
         PROVE LockInv'
    <2>1. \A u \in Callers : snap'[u].status # "Busy"
      <3>1. CASE radios = {} /\ UNCHANGED snap
        BY <3>1
      <3>2. CASE \E r \in radios : snap' = [snap EXCEPT ![t] = cache[r]]
        BY <3>2 DEF TypeOK
      <3>3. QED
        BY <1>18, <3>1, <3>2 DEF ListRadios
    <2>2. QED
      BY <1>18, <2>1 DEF ListRadios, CanCall, Called, TypeOK
  <1>17. QED
    BY <1>1, <1>2, <1>3, <1>4, <1>5, <1>6, <1>7, <1>8, <1>9, <1>10, <1>11,
       <1>12, <1>13, <1>14, <1>15, <1>16, <1>18
    DEF Next, StartSteps, CallerStep, Continue

\* Initially no thread is in a call and every state is Offline.
LEMMA InitLockInv == Init => LockInv
  <1> SUFFICES ASSUME Init PROVE LockInv
    OBVIOUS
  <1>1. \A t \in Callers : pc[t] = "idle"
    BY DEF Init, Threads
  <1>2. pc[App] = "loaded"
    BY DEF Init, Threads
  <1>3. ArgsValid /\ HolderInCommand
    BY <1>1, <1>2 DEF ArgsValid, HolderInCommand, Threads, EndPcs
  <1>4. LockedOnlyInCommand /\ BusyOnlyLocked
    BY DEF Init, LockedOnlyInCommand, BusyOnlyLocked, DefaultState
  <1>5. CacheNeverBusy
    BY DEF Init, CacheNeverBusy, DefaultState
  <1>7. NeverObservedBusy
    BY <1>5, LoadedIds DEF Init, CacheNeverBusy, NeverObservedBusy, DefaultState
  <1>6. QED
    BY <1>3, <1>4, <1>5, <1>7 DEF LockInv

\* IInv holds in every reachable state.
THEOREM Invariance == Spec => []IInv
  <1>1. Init => IInv
    BY InitType, InitLockInv DEF IInv
  <1>2. IInv /\ [Next]_vars => IInv'
    BY NextType, NextLockInv DEF IInv, LockInv
  <1>3. QED
    BY <1>1, <1>2, PTL DEF Spec

\* Type correctness of the registry and adapter model.
THEOREM TypeCorrect == Spec => []TypeOK
  BY Invariance, PTL DEF IInv

\* No caller, and no descriptor of the registry, ever obtains an adapter
\* state showing the transient Busy of set_power / set_channel: the copies
\* state() makes under the adapter mutex never interleave with a command.
THEOREM BusyNeverObserved == Spec => []NeverObservedBusy
  BY Invariance, PTL DEF IInv, LockInv

\* The active radio is always one the registry manages, whatever the
\* interleaving of set_active_radio with stop().
THEOREM ActiveAlwaysRegistered == Spec => []ActiveRadioRegistered
  <1>1. Init => ActiveRadioRegistered
    BY DEF Init, ActiveRadioRegistered
  <1>2. ActiveRadioRegistered /\ [Next]_vars => ActiveRadioRegistered'
    <2> SUFFICES ASSUME ActiveRadioRegistered, [Next]_vars
                 PROVE  ActiveRadioRegistered'
      OBVIOUS
    <2> USE DEF ActiveRadioRegistered
    <2>1. CASE Stop
      BY <2>1 DEF Stop
    <2>2. ASSUME NEW t \in Callers, NEW id \in RadioIds, SetActiveRadio(t, id)
          PROVE  ActiveRadioRegistered'
      BY <2>2 DEF SetActiveRadio
    <2>3. ASSUME NEW t \in Callers, NEW id \in RadioIds, GetStateBegin(t, id)
          PROVE  ActiveRadioRegistered'
      BY <2>3 DEF GetStateBegin
    <2>4. CASE StartSteps \/ Terminated \/ UNCHANGED vars
      BY <2>4 DEF StartSteps, StartBegin, StartConnect, StartCache, StartEnd,
                  Terminated, vars
    <2>5. ASSUME NEW t \in Callers, NEW id \in RadioIds, GetAdapter(t, id)
          PROVE  ActiveRadioRegistered'
      BY <2>5 DEF GetAdapter
    <2>6. ASSUME NEW t \in Callers,
                 \/ ListRadios(t) \/ Connect(t) \/ RefreshState(t) \/ ReadState(t)
                 \/ \E w \in PowerInputs : SetPowerBegin(t, w)
                 \/ \E c \in ChannelInputs : SetChannelBegin(t, c)
                 \/ Continue(t)
          PROVE  ActiveRadioRegistered'
      <3>1. UNCHANGED <<radios, active>>
        BY <2>6 DEF ListRadios, Connect, RefreshState, ReadState, SetPowerBegin, SetChannelBegin,
                  Continue, GetStateRead, CommandEnd
      <3>2. QED
        BY <3>1
    <2>7. QED
      BY <2>1, <2>2, <2>3, <2>4, <2>5, <2>6 DEF Next, CallerStep
  <1>3. QED
    BY <1>1, <1>2, PTL DEF Spec

=============================================================================
