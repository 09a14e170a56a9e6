------------------------ MODULE RadioFleetRefinement ------------------------
(***************************************************************************)
(* Proof that RadioFleet implements RadioFleetAbstract under the mapping   *)
(* AbsState / AbsPhase of RadioFleet.                                      *)
(*                                                                         *)
(* The step simulation needs more than IInv: a get_state that has looked   *)
(* its id up must still find it registered when it reads the adapter (the  *)
(* abstract GetState reads radio[id] only for a registered id); a          *)
(* command's second store must find its adapter Busy, so that it maps to   *)
(* a stutter; start() must connect and cache registered ids; and a caller  *)
(* can be in a call only once start() has returned.  RInv adds these.      *)
(***************************************************************************)
EXTENDS RadioFleetProofs

\* A caller is in the middle of a call only after start() has returned.
CallersAfterStart ==
    \A t \in Callers : pc[t] # "idle" => pc[App] \in {"running", "stopped"}

\* get_state between its lookup and its read holds the registry mutex, and
\* the id it looked up is still registered.
GetStateHolds ==
    \A t \in Callers : pc[t] = "get_state_read" => mgrLock = t /\ arg[t] \in radios

\* Between the two stores of a command its adapter is Busy.
BusyInCommand ==
    \A t \in Callers : pc[t] \in EndPcs => adapter[arg[t]].status = "Busy"

\* start() visits registered ids, and caches the one it has just connected.
StartVisitsRegistered ==
    pc[App] \in {"start_loop", "start_cache"} =>
        /\ todo \subseteq radios
        /\ pc[App] = "start_cache" => arg[App] \in todo

\* The facts the refinement adds to IInv.
RExtra == CallersAfterStart /\ GetStateHolds /\ BusyInCommand /\ StartVisitsRegistered

\* The invariant the refinement proof rests on.
RInv == IInv /\ RExtra

-----------------------------------------------------------------------------
USE ConfigAssumption

\* Initially every caller is idle and start() has not begun.
LEMMA InitRExtra == Init => RExtra
  <1> SUFFICES ASSUME Init PROVE RExtra
    OBVIOUS
  <1>1. \A t \in Callers : pc[t] = "idle"
    BY DEF Init, Threads
  <1>2. pc[App] = "loaded"
    BY DEF Init, Threads
  <1>3. QED
    BY <1>1, <1>2 DEF RExtra, CallersAfterStart, GetStateHolds, BusyInCommand,
                      StartVisitsRegistered, EndPcs

\* Every step keeps RExtra, given IInv.
LEMMA NextRExtra == IInv /\ RExtra /\ [Next]_vars => RExtra'
  <1> SUFFICES ASSUME IInv, RExtra, [Next]_vars PROVE RExtra'
    OBVIOUS
  <1> USE DEF IInv, LockInv, ArgsValid, HolderInCommand, LockedOnlyInCommand,
              BusyOnlyLocked, TypeOK, Threads, EndPcs,
              RExtra, CallersAfterStart, GetStateHolds, BusyInCommand,
              StartVisitsRegistered
  <1>1. CASE StartBegin
    BY <1>1 DEF StartBegin
  <1>2. CASE StartConnect
    BY <1>2 DEF StartConnect
  <1>3. CASE StartCache
    BY <1>3 DEF StartCache
  <1>4. CASE StartEnd
    BY <1>4 DEF StartEnd
  <1>5. CASE Stop
    BY <1>5 DEF Stop
  <1>6. ASSUME NEW t \in Callers, NEW id \in RadioIds, SetActiveRadio(t, id)
        PROVE RExtra'
    BY <1>6 DEF SetActiveRadio, CanCall, Called
  <1>7. ASSUME NEW t \in Callers, NEW id \in RadioIds, GetAdapter(t, id)
        PROVE RExtra'
    BY <1>7 DEF GetAdapter, CanCall, Called
  <1>8. ASSUME NEW t \in Callers, NEW id \in RadioIds, GetStateBegin(t, id)
        PROVE RExtra'
    <2>1. CASE id \in radios
      <3>1. /\ pc[t] = "idle"
            /\ pc[App] \in {"running", "stopped"}
            /\ mgrLock = NoThread
            /\ pc' = [pc EXCEPT ![t] = "get_state_read"]
            /\ mgrLock' = t
            /\ arg' = [arg EXCEPT ![t] = id]
            /\ UNCHANGED <<radios, cache, active, adapter, adLock, todo, held, snap>>
        BY <1>8, <2>1, GetStateFound DEF GetStateBegin, CanCall
      <3>2. QED
        BY <2>1, <3>1
    <2>2. CASE id \notin radios
      <3>1. UNCHANGED <<radios, cache, active, mgrLock, adapter, adLock, pc, arg,
                        todo, held>>
        BY <1>8, <2>2, GetStateMissing
      <3>2. QED
        BY <3>1
    <2>3. QED
      BY <2>1, <2>2
  <1>9. ASSUME NEW t \in Callers, GetStateRead(t)
        PROVE RExtra'
    BY <1>9 DEF GetStateRead
  <1>10. ASSUME NEW t \in Callers, Connect(t)
         PROVE RExtra'
    BY <1>10 DEF Connect, AdapterCall, CanCall, Called
  <1>11. ASSUME NEW t \in Callers, RefreshState(t)
         PROVE RExtra'
    BY <1>11 DEF RefreshState, AdapterCall, CanCall, Called
  <1>12. ASSUME NEW t \in Callers, NEW w \in PowerInputs, SetPowerBegin(t, w)
         PROVE RExtra'
    BY <1>12 DEF SetPowerBegin, AdapterCall, CanCall, Called
  <1>13. ASSUME NEW t \in Callers, NEW c \in ChannelInputs, SetChannelBegin(t, c)
         PROVE RExtra'
    BY <1>13 DEF SetChannelBegin, AdapterCall, CanCall, Called
  <1>14. ASSUME NEW t \in Callers, CommandEnd(t)
         PROVE RExtra'
    BY <1>14 DEF CommandEnd
  <1>15. ASSUME NEW t \in Callers, ReadState(t)
         PROVE RExtra'
    BY <1>15 DEF ReadState, AdapterCall, CanCall, Called
  <1>16. CASE Terminated \/ UNCHANGED vars
    BY <1>16 DEF Terminated, vars
  <1>18. ASSUME NEW t \in Callers, ListRadios(t)
         PROVE RExtra'
    <2>1. UNCHANGED <<radios, cache, active, mgrLock, adapter, adLock, pc, arg, todo, held>>
      BY <1>18 DEF ListRadios
    <2>2. QED
      BY <2>1
  <1>17. QED
    BY <1>1, <1>2, <1>3, <1>4, <1>5, <1>6, <1>7, <1>8, <1>9, <1>10, <1>11,
       <1>12, <1>13, <1>14, <1>15, <1>16, <1>18
    DEF Next, StartSteps, CallerStep, Continue

\* RInv holds in every reachable state.
THEOREM RefinementInvariance == Spec => []RInv
  <1>1. Init => RInv
    BY InitType, InitLockInv, InitRExtra DEF RInv, IInv
  <1>2. RInv /\ [Next]_vars => RInv'
    BY NextType, NextLockInv, NextRExtra DEF RInv, IInv, LockInv
  <1>3. QED
    BY <1>1, <1>2, PTL DEF Spec

-----------------------------------------------------------------------------
(***************************************************************************)
(* The step simulation.                                                    *)
(***************************************************************************)

\* The mapped state of an adapter that is not Busy is its state.
LEMMA AbsStateIdle ==
  ASSUME NEW s \in RadioState, s.status # "Busy"
  PROVE  AbsState(s) = s
  BY DEF AbsState

\* An adapter whose mutex is free is not Busy, so it maps to itself.
LEMMA FreeAdapterMapsToItself ==
  ASSUME IInv, NEW r \in RadioIds, adLock[r] = NoThread
  PROVE  AbsState(adapter[r]) = adapter[r]
  BY AbsStateIdle DEF IInv, LockInv, BusyOnlyLocked, TypeOK

\* The phase of each control point of the application thread.
LEMMA PhaseOf ==
  /\ pc[App] = "loaded" => AbsPhase = "loaded"
  /\ pc[App] \in {"start_loop", "start_cache"} => AbsPhase = "starting"
  /\ pc[App] = "running" => AbsPhase = "running"
  /\ pc[App] = "stopped" => AbsPhase = "stopped"
  BY DEF AbsPhase

\* The same, one step later.
LEMMA PhaseOfPrimed ==
  /\ pc'[App] = "loaded" => AbsPhase' = "loaded"
  /\ pc'[App] \in {"start_loop", "start_cache"} => AbsPhase' = "starting"
  /\ pc'[App] = "running" => AbsPhase' = "running"
  /\ pc'[App] = "stopped" => AbsPhase' = "stopped"
  BY DEF AbsPhase

\* A step that leaves pc[App] and the adapters alone leaves the mapped
\* phase and radios alone.
LEMMA MappedUnchanged ==
  ASSUME pc'[App] = pc[App], adapter' = adapter
  PROVE  /\ AbsPhase' = AbsPhase
         /\ [r \in RadioIds |-> AbsState(adapter[r])]'
              = [r \in RadioIds |-> AbsState(adapter[r])]
  BY DEF AbsPhase, AbsState

\* A caller's step leaves the application thread where it is.
LEMMA CallerKeepsApp ==
  ASSUME NEW t \in Callers, TypeOK,
         \/ pc' = pc
         \/ \E v : pc' = [pc EXCEPT ![t] = v]
  PROVE  AbsPhase' = AbsPhase
  <1>1. t # App
    BY ConfigAssumption, Zenon
  <1>2. pc'[App] = pc[App]
    BY <1>1 DEF TypeOK, Threads
  <1>3. QED
    BY <1>2 DEF AbsPhase

\* The API is open to a caller that may call.
LEMMA CallerOpen ==
  ASSUME NEW t \in Callers, CanCall(t)
  PROVE  Abs!Open
  BY PhaseOf DEF CanCall, Abs!Open

\* The initial state maps to an initial state of RadioFleetAbstract.
LEMMA InitRefines == Init => Abs!Init
  <1> SUFFICES ASSUME Init PROVE Abs!Init
    OBVIOUS
  <1>1. pc[App] = "loaded"
    BY DEF Init, Threads
  <1>2. AbsPhase = "loaded"
    BY <1>1 DEF AbsPhase
  <1>3. [r \in RadioIds |-> AbsState(adapter[r])] = [r \in RadioIds |-> Abs!DefaultState]
    BY DEF Init, AbsState, DefaultState, Abs!DefaultState
  <1>4. QED
    BY <1>2, <1>3 DEF Init, Abs!Init, DefaultState, Abs!DefaultState

\* Every step maps to a step of RadioFleetAbstract or to a stutter.
LEMMA NextRefines == RInv /\ [Next]_vars => [Abs!Next]_Abs!avars
  <1> SUFFICES ASSUME RInv, [Next]_vars PROVE [Abs!Next]_Abs!avars
    OBVIOUS
  <1> DEFINE absRadio == [r \in RadioIds |-> AbsState(adapter[r])]
  <1>0. IInv /\ RExtra /\ TypeOK
    BY DEF RInv, IInv
  <1>1. CASE StartBegin
    <2>1. pc[App] = "loaded" /\ pc'[App] = "start_loop"
      BY <1>1, <1>0 DEF StartBegin, TypeOK, Threads
    <2>2. AbsPhase = "loaded" /\ AbsPhase' = "starting"
      BY <2>1, PhaseOf, PhaseOfPrimed
    <2>3. UNCHANGED <<radios, cache, active, adapter, held, snap>>
      BY <1>1 DEF StartBegin
    <2>4. [r \in RadioIds |-> AbsState(adapter[r])]'
            = [r \in RadioIds |-> AbsState(adapter[r])]
      BY <2>3
    <2>1a. Abs!BeginStart
      BY <2>2, <2>3, <2>4 DEF Abs!BeginStart
    <2>5. QED
      BY <2>1a DEF Abs!Next
  <1>2. CASE StartConnect
    <2>1. PICK r \in todo : /\ pc[App] = "start_loop"
                            /\ adLock[r] = NoThread
                            /\ adapter' = [adapter EXCEPT ![r].status = "Ready"]
                            /\ pc' = [pc EXCEPT ![App] = "start_cache"]
                            /\ UNCHANGED <<radios, cache, active, held, snap>>
      BY <1>2 DEF StartConnect
    <2>2. r \in radios /\ r \in RadioIds
      BY <2>1, <1>0 DEF RExtra, StartVisitsRegistered, TypeOK
    <2>3. AbsState(adapter[r]) = adapter[r]
      BY <2>1, <2>2, <1>0, FreeAdapterMapsToItself
    <2>4. absRadio' = [absRadio EXCEPT ![r].status = "Ready"]
      BY <2>1, <2>2, <2>3, <1>0 DEF AbsState, TypeOK, RadioState
    <2>5. AbsPhase = "starting" /\ AbsPhase' = "starting"
      BY <2>1, <1>0 DEF AbsPhase, TypeOK, Threads
    <2>6. Abs!StartConnect(r)
      BY <2>1, <2>2, <2>4, <2>5 DEF Abs!StartConnect
    <2>7. QED
      BY <2>2, <2>6 DEF Abs!Next
  <1>3. CASE StartCache
    <2>1. /\ pc[App] = "start_cache"
          /\ adLock[arg[App]] = NoThread
          /\ cache' = [cache EXCEPT ![arg[App]] = adapter[arg[App]]]
          /\ pc' = [pc EXCEPT ![App] = "start_loop"]
          /\ UNCHANGED <<radios, active, adapter, held, snap>>
      BY <1>3 DEF StartCache
    <2>2. arg[App] \in radios /\ arg[App] \in RadioIds
      BY <2>1, <1>0 DEF RExtra, StartVisitsRegistered, TypeOK
    <2>3. AbsState(adapter[arg[App]]) = adapter[arg[App]]
      BY <2>1, <2>2, <1>0, FreeAdapterMapsToItself
    <2>4. AbsPhase = "starting" /\ AbsPhase' = "starting"
      BY <2>1, <1>0 DEF AbsPhase, TypeOK, Threads
    <2>5. Abs!StartCache(arg[App])
      BY <2>1, <2>2, <2>3, <2>4 DEF Abs!StartCache
    <2>6. QED
      BY <2>2, <2>5 DEF Abs!Next
  <1>4. CASE StartEnd
    <2>1. pc[App] = "start_loop" /\ pc'[App] = "running"
      BY <1>4, <1>0 DEF StartEnd, TypeOK, Threads
    <2>2. AbsPhase = "starting" /\ AbsPhase' = "running"
      BY <2>1, PhaseOf, PhaseOfPrimed
    <2>3. UNCHANGED <<radios, cache, active, adapter, held, snap>>
      BY <1>4 DEF StartEnd
    <2>4. [r \in RadioIds |-> AbsState(adapter[r])]'
            = [r \in RadioIds |-> AbsState(adapter[r])]
      BY <2>3
    <2>5. Abs!EndStart
      BY <2>2, <2>3, <2>4 DEF Abs!EndStart
    <2>6. QED
      BY <2>5 DEF Abs!Next
  <1>5. CASE Stop
    <2>1. pc[App] = "running" /\ pc'[App] = "stopped"
      BY <1>5, <1>0 DEF Stop, TypeOK, Threads
    <2>2. AbsPhase = "running" /\ AbsPhase' = "stopped"
      BY <2>1, PhaseOf, PhaseOfPrimed
    <2>3. /\ radios' = {} /\ active' = NoRadio
          /\ UNCHANGED <<cache, adapter, held, snap>>
      BY <1>5 DEF Stop
    <2>4. [r \in RadioIds |-> AbsState(adapter[r])]'
            = [r \in RadioIds |-> AbsState(adapter[r])]
      BY <2>3
    <2>5. Abs!Stop
      BY <2>2, <2>3, <2>4 DEF Abs!Stop
    <2>6. QED
      BY <2>5 DEF Abs!Next
  <1>6. ASSUME NEW t \in Callers, NEW id \in RadioIds, SetActiveRadio(t, id)
        PROVE [Abs!Next]_Abs!avars
    <2>1. AbsPhase' = AbsPhase /\ Abs!Open
      BY <1>6, <1>0, CallerKeepsApp, CallerOpen DEF SetActiveRadio
    <2>2. Abs!SetActiveRadio(t, id)
      BY <1>6, <2>1 DEF SetActiveRadio, Abs!SetActiveRadio
    <2>3. QED
      BY <2>2 DEF Abs!Next
  <1>7. ASSUME NEW t \in Callers, NEW id \in RadioIds, GetAdapter(t, id)
        PROVE [Abs!Next]_Abs!avars
    <2>1. AbsPhase' = AbsPhase /\ Abs!Open
      BY <1>7, <1>0, CallerKeepsApp, CallerOpen DEF GetAdapter
    <2>2. Abs!GetAdapter(t, id)
      BY <1>7, <2>1 DEF GetAdapter, Abs!GetAdapter
    <2>3. QED
      BY <2>2 DEF Abs!Next
  <1>8. ASSUME NEW t \in Callers, NEW id \in RadioIds, GetStateBegin(t, id)
        PROVE [Abs!Next]_Abs!avars
    <2>1. AbsPhase' = AbsPhase /\ Abs!Open
      BY <1>8, <1>0, CallerKeepsApp, CallerOpen DEF GetStateBegin
    <2>2. CASE id \in radios
      <3>1. UNCHANGED <<radios, cache, active, adapter, held, snap>>
        BY <1>8, <2>2, GetStateFound
      <3>2. QED
        BY <2>1, <3>1 DEF Abs!avars
    <2>3. CASE id \notin radios
      <3>1. /\ snap' = [snap EXCEPT ![t] = DefaultState]
            /\ UNCHANGED <<radios, cache, active, adapter, held>>
        BY <1>8, <2>3, GetStateMissing
      <3>2. Abs!GetState(t, id)
        BY <2>1, <2>3, <3>1 DEF Abs!GetState, DefaultState, Abs!DefaultState
      <3>3. QED
        BY <3>2 DEF Abs!Next
    <2>4. QED
      BY <2>2, <2>3
  <1>9. ASSUME NEW t \in Callers, GetStateRead(t)
        PROVE [Abs!Next]_Abs!avars
    <2>1. /\ pc[t] = "get_state_read"
          /\ adLock[arg[t]] = NoThread
          /\ snap' = [snap EXCEPT ![t] = adapter[arg[t]]]
          /\ pc' = [pc EXCEPT ![t] = "idle"]
          /\ UNCHANGED <<radios, cache, active, adapter, held>>
      BY <1>9 DEF GetStateRead
    <2>2. arg[t] \in radios /\ arg[t] \in RadioIds
      BY <2>1, <1>0 DEF RExtra, GetStateHolds, TypeOK
    <2>3. pc[App] \in {"running", "stopped"}
      BY <2>1, <1>0 DEF RExtra, CallersAfterStart
    <2>4. AbsPhase' = AbsPhase /\ Abs!Open
      BY <2>1, <2>3, <1>0, CallerKeepsApp, PhaseOf DEF Abs!Open
    <2>5. AbsState(adapter[arg[t]]) = adapter[arg[t]]
      BY <2>1, <2>2, <1>0, FreeAdapterMapsToItself
    <2>6. Abs!GetState(t, arg[t])
      BY <2>1, <2>2, <2>4, <2>5 DEF Abs!GetState
    <2>7. QED
      BY <2>2, <2>6 DEF Abs!Next
  <1>10. ASSUME NEW t \in Callers, Connect(t)
         PROVE [Abs!Next]_Abs!avars
    <2> DEFINE r == held[t]
    <2>1. /\ CanCall(t) /\ r # NoRadio /\ adLock[r] = NoThread
          /\ adapter' = [adapter EXCEPT ![r] = [adapter[r] EXCEPT !.status = "Ready"]]
          /\ UNCHANGED <<radios, cache, active, held, snap, pc>>
      BY <1>10 DEF Connect, AdapterCall
    <2>2. r \in RadioIds
      BY <2>1, <1>0 DEF TypeOK
    <2>3. AbsState(adapter[r]) = adapter[r]
      BY <2>1, <2>2, <1>0, FreeAdapterMapsToItself
    <2>4. AbsState([adapter[r] EXCEPT !.status = "Ready"])
            = [adapter[r] EXCEPT !.status = "Ready"]
      BY <2>2, <1>0 DEF AbsState, TypeOK, RadioState
    <2>5. AbsPhase' = AbsPhase /\ Abs!Open
      BY <2>1, <1>0, CallerKeepsApp, CallerOpen
    <2>6. absRadio' = [absRadio EXCEPT ![r] = [adapter[r] EXCEPT !.status = "Ready"]]
      BY <2>1, <2>2, <2>4, <1>0 DEF TypeOK
    <2>8. absRadio[r] = adapter[r]
      BY <2>2, <2>3
    <2>9. Abs!Connect(t)
      BY <2>1, <2>5, <2>6, <2>8 DEF Abs!Connect, Abs!Command
    <2>7. QED
      BY <2>9 DEF Abs!Next
  <1>11. ASSUME NEW t \in Callers, RefreshState(t)
         PROVE [Abs!Next]_Abs!avars
    <2> DEFINE r == held[t]
               e == [adapter[r] EXCEPT !.status = IF @ = "Offline" THEN "Ready" ELSE @]
    <2>1. /\ CanCall(t) /\ r # NoRadio /\ adLock[r] = NoThread
          /\ adapter' = [adapter EXCEPT ![r] = e]
          /\ UNCHANGED <<radios, cache, active, held, snap, pc>>
      BY <1>11 DEF RefreshState, AdapterCall
    <2>2. r \in RadioIds
      BY <2>1, <1>0 DEF TypeOK
    <2>3. AbsState(adapter[r]) = adapter[r]
      BY <2>1, <2>2, <1>0, FreeAdapterMapsToItself
    <2>4. AbsState(e) = e
      BY <2>2, <2>3, <1>0 DEF AbsState, TypeOK, RadioState
    <2>5. AbsPhase' = AbsPhase /\ Abs!Open
      BY <2>1, <1>0, CallerKeepsApp, CallerOpen
    <2>6. absRadio' = [absRadio EXCEPT ![r] = e]
      BY <2>1, <2>2, <2>4, <1>0 DEF TypeOK
    <2>8. absRadio[r] = adapter[r]
      BY <2>2, <2>3
    <2>9. Abs!RefreshState(t)
      BY <2>1, <2>5, <2>6, <2>8 DEF Abs!RefreshState, Abs!Command
    <2>7. QED
      BY <2>9 DEF Abs!Next
  <1>12. ASSUME NEW t \in Callers, NEW w \in PowerInputs, SetPowerBegin(t, w)
         PROVE [Abs!Next]_Abs!avars
    <2> DEFINE r == held[t]
               e == [adapter[r] EXCEPT !.power = w, !.status = "Busy"]
               a == [adapter[r] EXCEPT !.power = w, !.status = "Ready"]
    <2>1. /\ CanCall(t) /\ r # NoRadio /\ adLock[r] = NoThread
          /\ adapter' = [adapter EXCEPT ![r] = e]
          /\ pc' = [pc EXCEPT ![t] = "set_power_end"]
          /\ UNCHANGED <<radios, cache, active, held, snap>>
      BY <1>12 DEF SetPowerBegin, AdapterCall
    <2>2. r \in RadioIds
      BY <2>1, <1>0 DEF TypeOK
    <2>3. AbsState(adapter[r]) = adapter[r]
      BY <2>1, <2>2, <1>0, FreeAdapterMapsToItself
    <2>4. AbsState(e) = a
      BY <2>2, <1>0 DEF AbsState, TypeOK, RadioState
    <2>5. AbsPhase' = AbsPhase /\ Abs!Open
      BY <2>1, <1>0, CallerKeepsApp, CallerOpen
    <2>6. absRadio' = [absRadio EXCEPT ![r] = a]
      BY <2>1, <2>2, <2>4, <1>0 DEF TypeOK
    <2>8. absRadio[r] = adapter[r]
      BY <2>2, <2>3
    <2>9. Abs!SetPower(t, w)
      BY <2>1, <2>5, <2>6, <2>8 DEF Abs!SetPower, Abs!Command
    <2>10. QED
      BY <2>9 DEF Abs!Next
  <1>13. ASSUME NEW t \in Callers, NEW c \in ChannelInputs, SetChannelBegin(t, c)
         PROVE [Abs!Next]_Abs!avars
    <2> DEFINE r == held[t]
               e == [adapter[r] EXCEPT !.channel = c, !.status = "Busy"]
               a == [adapter[r] EXCEPT !.channel = c, !.status = "Ready"]
    <2>1. /\ CanCall(t) /\ r # NoRadio /\ adLock[r] = NoThread
          /\ adapter' = [adapter EXCEPT ![r] = e]
          /\ pc' = [pc EXCEPT ![t] = "set_channel_end"]
          /\ UNCHANGED <<radios, cache, active, held, snap>>
      BY <1>13 DEF SetChannelBegin, AdapterCall
    <2>2. r \in RadioIds
      BY <2>1, <1>0 DEF TypeOK
    <2>3. AbsState(adapter[r]) = adapter[r]
      BY <2>1, <2>2, <1>0, FreeAdapterMapsToItself
    <2>4. AbsState(e) = a
      BY <2>2, <1>0 DEF AbsState, TypeOK, RadioState
    <2>5. AbsPhase' = AbsPhase /\ Abs!Open
      BY <2>1, <1>0, CallerKeepsApp, CallerOpen
    <2>6. absRadio' = [absRadio EXCEPT ![r] = a]
      BY <2>1, <2>2, <2>4, <1>0 DEF TypeOK
    <2>8. absRadio[r] = adapter[r]
      BY <2>2, <2>3
    <2>9. Abs!SetChannel(t, c)
      BY <2>1, <2>5, <2>6, <2>8 DEF Abs!SetChannel, Abs!Command
    <2>10. QED
      BY <2>9 DEF Abs!Next
  <1>14. ASSUME NEW t \in Callers, CommandEnd(t)
         PROVE [Abs!Next]_Abs!avars
    <2> DEFINE r == arg[t]
    <2>1. /\ pc[t] \in EndPcs
          /\ adapter' = [adapter EXCEPT ![r] = [adapter[r] EXCEPT !.status = "Ready"]]
          /\ pc' = [pc EXCEPT ![t] = "idle"]
          /\ UNCHANGED <<radios, cache, active, held, snap>>
      BY <1>14 DEF CommandEnd, EndPcs
    <2>2. r \in RadioIds /\ adapter[r].status = "Busy"
      BY <2>1, <1>0 DEF IInv, LockInv, ArgsValid, Threads, RExtra, BusyInCommand
    <2>3. AbsState(adapter[r]) = [adapter[r] EXCEPT !.status = "Ready"]
      BY <2>2 DEF AbsState
    <2>4. AbsState([adapter[r] EXCEPT !.status = "Ready"])
            = [adapter[r] EXCEPT !.status = "Ready"]
      BY <2>2, <1>0 DEF AbsState, TypeOK, RadioState
    <2>5. absRadio' = absRadio
      BY <2>1, <2>2, <2>3, <2>4, <1>0 DEF TypeOK
    <2>6. AbsPhase' = AbsPhase
      BY <2>1, <1>0, CallerKeepsApp
    <2>7. QED
      BY <2>1, <2>5, <2>6 DEF Abs!avars
  <1>15. ASSUME NEW t \in Callers, ReadState(t)
         PROVE [Abs!Next]_Abs!avars
    <2> DEFINE r == held[t]
    <2>1. /\ CanCall(t) /\ r # NoRadio /\ adLock[r] = NoThread
          /\ snap' = [snap EXCEPT ![t] = adapter[r]]
          /\ UNCHANGED <<radios, cache, active, held, adapter, pc>>
      BY <1>15 DEF ReadState, AdapterCall
    <2>2. r \in RadioIds
      BY <2>1, <1>0 DEF TypeOK
    <2>3. absRadio[r] = adapter[r]
      BY <2>1, <2>2, <1>0, FreeAdapterMapsToItself
    <2>4. AbsPhase' = AbsPhase /\ Abs!Open
      BY <2>1, <1>0, CallerKeepsApp, CallerOpen
    <2>5. Abs!ReadState(t)
      BY <2>1, <2>3, <2>4 DEF Abs!ReadState
    <2>6. QED
      BY <2>5 DEF Abs!Next
  <1>16. CASE Terminated \/ UNCHANGED vars
    <2>1. UNCHANGED vars
      BY <1>16 DEF Terminated
    <2>2. pc'[App] = pc[App] /\ adapter' = adapter
      BY <2>1 DEF vars
    <2>3. QED
      BY <2>1, <2>2, MappedUnchanged DEF vars, Abs!avars
  <1>18. ASSUME NEW t \in Callers, ListRadios(t)
         PROVE [Abs!Next]_Abs!avars
    <2>1. /\ CanCall(t)
          /\ \/ radios = {} /\ UNCHANGED snap
             \/ \E r \in radios : snap' = [snap EXCEPT ![t] = cache[r]]
          /\ UNCHANGED <<radios, cache, active, adapter, held, pc>>
      BY <1>18 DEF ListRadios
    <2>2. AbsPhase' = AbsPhase /\ Abs!Open
      BY <2>1, <1>0, CallerKeepsApp, CallerOpen
    <2>3. absRadio' = absRadio
      BY <2>1
    <2>4. Abs!ListRadios(t)
      BY <2>1, <2>2, <2>3 DEF Abs!ListRadios
    <2>5. QED
      BY <2>4 DEF Abs!Next
  <1>17. QED
    BY <1>1, <1>2, <1>3, <1>4, <1>5, <1>6, <1>7, <1>8, <1>9, <1>10, <1>11,
       <1>12, <1>13, <1>14, <1>15, <1>16, <1>18
    DEF Next, StartSteps, CallerStep, Continue

\* The registry and its adapters implement the atomic API of
\* RadioFleetAbstract, for every configuration, set of callers and bound
\* on calls: set_power and set_channel, whose two stores pass through
\* Busy, and get_state, which reads an adapter under the registry lock,
\* each behave as one atomic operation on the radio.
THEOREM Implementation == Spec => AbstractSpec
  <1>1. Init => Abs!Init
    BY InitRefines
  <1>2. RInv /\ [Next]_vars => [Abs!Next]_Abs!avars
    BY NextRefines
  <1>3. QED
    BY <1>1, <1>2, RefinementInvariance, PTL DEF Spec, AbstractSpec, Abs!Spec

=============================================================================
