------------------------- MODULE ConfigReloadProofs -------------------------
(***************************************************************************)
(* Proof that reload() of the second ConfigManager draft is all or        *)
(* nothing: whenever mutex_ is free, config_ is the parse of one valid     *)
(* file (ReloadAllOrNothing), for every set of files, layouts and threads. *)
(*                                                                         *)
(* The invariant alone is not inductive: while a reloader holds mutex_,    *)
(* config_ is part new and part old, and the step that releases the lock  *)
(* must know the new part is a whole valid parse.  IInv says what a        *)
(* reloader's move assignment looks like at each point: the members it     *)
(* has moved are those of its parsed file, the others those of the valid   *)
(* file config_ held before, and only the lock holder has begun moving.    *)
(***************************************************************************)
EXTENDS ConfigReload, TLAPS

\* The members a reloader's move assignment has already moved.
Moved(w) == {Order[i] : i \in 1..(next[w] - 1)}

\* A reloader that reached the assignment parsed a valid file.
UpdatedValid ==
    \A w \in Reloaders : pc[w] = "assign" => \E f \in Files : Valid(f) /\ updated[w] = Parsed(f)

\* Only a reloader in its assignment holds mutex_, and it has moved at
\* least one member and not yet the last; a reloader waiting for the lock
\* has moved none.
LockedAssign ==
    /\ mutex \in Reloaders \cup {NoThread}
    /\ \A w \in Reloaders :
          /\ mutex = w => pc[w] = "assign" /\ next[w] \in 2..Len(Order)
          /\ pc[w] = "assign" /\ mutex # w => next[w] = 1

\* While w holds mutex_, config_ is updated[w] on the moved members and
\* the parse of one valid file on the others.
HalfMoved ==
    \A w \in Reloaders :
        mutex = w =>
            \E g \in Files :
                /\ Valid(g)
                /\ \A s \in Sections :
                      config[s] = IF s \in Moved(w) THEN updated[w][s] ELSE Parsed(g)[s]

\* A reader in the middle of its reads has not read every member it reads.
ReadsInRange == \A t \in Readers : pc[t] = "read" => Len(seen[t]) < Len(ReadOrder)

\* The inductive invariant.
IInv == TypeOK /\ ReadsInRange /\ UpdatedValid /\ LockedAssign /\ HalfMoved /\ ReloadAllOrNothing

-----------------------------------------------------------------------------
\* Facts about the members' order.

LEMMA OrderFacts ==
    /\ Len(Order) = 6
    /\ Sections = {Order[i] : i \in 1..6}
    /\ \A i \in 1..6 : Order[i] \in Sections
    /\ Len(ReadOrder) = 2
    /\ \A k \in 1..2 : ReadOrder[k] \in Sections
  <1>1. Len(Order) = 6 /\ Len(ReadOrder) = 2
    BY DEF Order, ReadOrder
  <1>2. Sections = {Order[i] : i \in 1..6}
    BY <1>1 DEF Sections
  <1>3. ReadOrder[1] = Order[3] /\ ReadOrder[2] = Order[1]
    BY DEF Order, ReadOrder
  <1>4. QED
    BY <1>1, <1>2, <1>3

\* Moving member n adds Order[n] to the members moved before it.
LEMMA MovedNext ==
    ASSUME NEW n \in 1..6
    PROVE  {Order[i] : i \in 1..n} = {Order[i] : i \in 1..(n - 1)} \cup {Order[n]}
  BY SMT

\* The parse of a file is a Config.
LEMMA ParsedType == \A f \in Files : Parsed(f) \in Configs
  BY DEF Parsed, Configs

\* The lock is never held by the free-lock value.
LEMMA NoThreadFacts == NoThread \notin Reloaders /\ NoThread \notin Readers
  BY ReloadAssumption, Zenon

-----------------------------------------------------------------------------
LEMMA InitIInv == Init => IInv
  <1> SUFFICES ASSUME Init PROVE IInv
    OBVIOUS
  <1>1. TypeOK
    BY ParsedType DEF Init, TypeOK, Threads, Valid
  <1>2. \A t \in Threads : pc[t] = "idle"
    BY DEF Init
  <1>3. mutex = NoThread
    BY DEF Init
  <1>4. ReadsInRange /\ UpdatedValid
    BY <1>2 DEF ReadsInRange, UpdatedValid, Threads
  <1>5. LockedAssign /\ HalfMoved
    BY <1>2, <1>3, NoThreadFacts DEF LockedAssign, HalfMoved, Threads
  <1>6. ReloadAllOrNothing
    BY <1>3 DEF Init, ReloadAllOrNothing
  <1>7. QED
    BY <1>1, <1>4, <1>5, <1>6 DEF IInv

\* Every step keeps the type invariant.  A reloader in its assignment
\* moves a member that exists (LockedAssign bounds next), and a reader
\* reads one that exists (ReadsInRange bounds its reads).
LEMMA NextType == IInv /\ [Next]_vars => TypeOK'
  <1> SUFFICES ASSUME IInv, [Next]_vars PROVE TypeOK'
    OBVIOUS
  <1>0. TypeOK /\ ReadsInRange /\ LockedAssign
    BY DEF IInv
  <1> USE DEF TypeOK, Threads
  <1>1. CASE Edit
    BY <1>0, <1>1 DEF Edit
  <1>2. ASSUME NEW w \in Reloaders, ReloadParse(w) PROVE TypeOK'
    <2>1. CASE Valid(disk)
      <3>1. Parsed(disk) \in Configs
        BY <1>0, ParsedType
      <3>2. 1 \in 1..(Len(Order) + 1)
        BY OrderFacts
      <3>3. /\ updated' = [updated EXCEPT ![w] = Parsed(disk)]
            /\ next' = [next EXCEPT ![w] = 1]
            /\ pc' = [pc EXCEPT ![w] = "assign"]
            /\ calls' = [calls EXCEPT ![w] = calls[w] + 1]
            /\ UNCHANGED <<disk, config, mutex, seen>>
        BY <1>2, <2>1 DEF ReloadParse
      <3>4. updated' \in [Reloaders -> Configs]
        BY <1>0, <3>1, <3>3
      <3>5. next' \in [Reloaders -> 1..(Len(Order) + 1)]
        BY <1>0, <3>2, <3>3
      <3>6. pc' \in [Threads -> {"idle", "assign", "read"}] /\ calls' \in [Threads -> Nat]
        BY <1>0, <3>3
      <3>7. QED
        BY <1>0, <3>3, <3>4, <3>5, <3>6
    <2>2. CASE ~Valid(disk)
      BY <1>0, <1>2, <2>2 DEF ReloadParse
    <2>3. QED
      BY <2>1, <2>2
  <1>3. ASSUME NEW w \in Reloaders, ReloadAssign(w) PROVE TypeOK'
    <2>1. next[w] \in 1..6
      BY <1>0, <1>3, NoThreadFacts, OrderFacts DEF ReloadAssign, LockedAssign
    <2>2. Order[next[w]] \in Sections
      BY <2>1, OrderFacts
    <2>3. updated[w][Order[next[w]]] \in Files \cup {Default}
      BY <1>0, <2>2 DEF Configs
    <2>4. next[w] + 1 \in 1..(Len(Order) + 1)
      BY <2>1, OrderFacts
    <2>5. QED
      BY <1>0, <1>3, <2>1, <2>2, <2>3, <2>4 DEF ReloadAssign, Configs
  <1>4. ASSUME NEW t \in Readers, Current(t) PROVE TypeOK'
    BY <1>0, <1>4 DEF Current
  <1>5. ASSUME NEW t \in Readers, ReadMember(t) PROVE TypeOK'
    <2>1. Len(seen[t]) + 1 \in 1..2
      BY <1>0, <1>5, OrderFacts DEF ReadMember, ReadsInRange
    <2>2. config[ReadOrder[Len(seen[t]) + 1]] \in Files \cup {Default}
      BY <1>0, <2>1, OrderFacts DEF Configs
    <2>3. QED
      BY <1>0, <1>5, <2>2 DEF ReadMember
  <1>6. CASE Done
    BY <1>0, <1>6 DEF Done, vars
  <1>7. CASE UNCHANGED vars
    BY <1>0, <1>7 DEF vars
  <1>8. QED
    BY <1>1, <1>2, <1>3, <1>4, <1>5, <1>6, <1>7 DEF Next

\* Steps that change neither config_, mutex_, a reloader's progress nor
\* whether it is assigning keep every conjunct about the reload.
LEMMA QuietStep ==
    ASSUME IInv, TypeOK',
           UNCHANGED <<config, mutex, updated, next>>,
           \A w \in Reloaders : (pc'[w] = "assign") <=> (pc[w] = "assign"),
           ReadsInRange'
    PROVE  IInv'
  <1>1. UpdatedValid'
    BY DEF IInv, UpdatedValid
  <1>2. LockedAssign'
    BY DEF IInv, LockedAssign
  <1>3. HalfMoved'
    BY DEF IInv, HalfMoved, Moved
  <1>4. ReloadAllOrNothing'
    BY DEF IInv, ReloadAllOrNothing
  <1>5. QED
    BY <1>1, <1>2, <1>3, <1>4 DEF IInv

\* A reloader in its assignment is not in the middle of reads, and a
\* thread in the middle of reads does not hold the lock.
LEMMA ReadMemberStep ==
    ASSUME IInv, NEW t \in Readers, ReadMember(t)
    PROVE  IInv'
  <1>1. TypeOK'
    BY NextType DEF Next
  <1> DEFINE k == Len(seen[t]) + 1
  <1>2. pc[t] = "read" /\ k \in 1..2
    BY OrderFacts DEF IInv, ReadsInRange, ReadMember, TypeOK
  <1>3. /\ seen' = [seen EXCEPT ![t] = Append(seen[t], config[ReadOrder[k]])]
        /\ pc' = IF k = 2 THEN [pc EXCEPT ![t] = "idle"] ELSE pc
        /\ UNCHANGED <<disk, config, mutex, updated, next, calls>>
    BY OrderFacts DEF ReadMember
  <1>4. Len(seen'[t]) = k
    BY <1>3 DEF IInv, TypeOK
  <1>5. ReadsInRange'
    BY <1>2, <1>3, <1>4, OrderFacts DEF IInv, ReadsInRange, TypeOK, Threads
  <1>6. \A w \in Reloaders : (pc'[w] = "assign") <=> (pc[w] = "assign")
    BY <1>2, <1>3 DEF IInv, TypeOK, Threads
  <1>7. QED
    BY <1>1, <1>3, <1>5, <1>6, QuietStep

\* current() takes the lock only while it is free.
LEMMA CurrentStep ==
    ASSUME IInv, NEW t \in Readers, Current(t)
    PROVE  IInv'
  <1>1. TypeOK'
    BY NextType DEF Next
  <1>2. ReadsInRange'
    BY OrderFacts DEF IInv, ReadsInRange, Current, TypeOK
  <1>3. \A w \in Reloaders : (pc'[w] = "assign") <=> (pc[w] = "assign")
    BY DEF Current, IInv, TypeOK, Threads
  <1>4. QED
    BY <1>1, <1>2, <1>3, QuietStep DEF Current

\* reload() parses outside the lock: a valid file becomes the reloader's
\* pending Config with nothing moved yet; an invalid one changes nothing.
LEMMA ReloadParseStep ==
    ASSUME IInv, NEW w \in Reloaders, ReloadParse(w)
    PROVE  IInv'
  <1> USE DEF IInv
  <1>1. TypeOK'
    BY NextType DEF Next
  <1>2. ReadsInRange'
    BY DEF ReadsInRange, ReloadParse, TypeOK, Threads
  <1>3. mutex # w
    BY DEF ReloadParse, LockedAssign
  <1>4. CASE Valid(disk)
    <2>1. UpdatedValid'
      BY <1>4 DEF UpdatedValid, ReloadParse, TypeOK, Threads
    <2>0. /\ updated' = [updated EXCEPT ![w] = Parsed(disk)]
          /\ next' = [next EXCEPT ![w] = 1]
          /\ pc' = [pc EXCEPT ![w] = "assign"]
          /\ UNCHANGED <<config, mutex>>
      BY <1>4 DEF ReloadParse
    <2>2. LockedAssign'
      BY <1>3, <2>0, NoThreadFacts DEF LockedAssign, TypeOK, Threads
    <2>3. HalfMoved'
      <3> SUFFICES ASSUME NEW v \in Reloaders, mutex' = v
                   PROVE  \E g \in Files :
                            /\ Valid(g)
                            /\ \A s \in Sections :
                                  config'[s] = IF s \in Moved(v)' THEN updated'[v][s]
                                                                 ELSE Parsed(g)[s]
        BY DEF HalfMoved
      <3>1. v # w /\ mutex = v
        BY <1>3, <2>0
      <3>2. updated'[v] = updated[v] /\ Moved(v)' = Moved(v)
        BY <3>1, <2>0 DEF Moved, TypeOK
      <3>3. QED
        BY <3>1, <3>2, <2>0 DEF HalfMoved
    <2>4. ReloadAllOrNothing'
      BY DEF ReloadAllOrNothing, ReloadParse
    <2>5. QED
      BY <1>1, <1>2, <2>1, <2>2, <2>3, <2>4
  <1>5. CASE ~Valid(disk)
    BY <1>1, <1>2, <1>5, QuietStep DEF ReloadParse
  <1>6. QED
    BY <1>4, <1>5

\* One member moved under the lock: the first step takes the free lock
\* from a whole valid Config, the last releases it over a whole new one.
LEMMA ReloadAssignStep ==
    ASSUME IInv, NEW w \in Reloaders, ReloadAssign(w)
    PROVE  IInv'
  <1> USE DEF IInv
  <1> DEFINE n == next[w]
             s0 == Order[n]
  <1>1. TypeOK'
    BY NextType DEF Next
  <1>2. ReadsInRange'
    BY DEF ReadsInRange, ReloadAssign, TypeOK, Threads
  <1>3. UpdatedValid'
    BY DEF UpdatedValid, ReloadAssign, TypeOK, Threads
  <1>4. w # NoThread
    BY NoThreadFacts
  <1>5. /\ pc[w] = "assign"
        /\ config' = [config EXCEPT ![s0] = updated[w][s0]]
        /\ next' = [next EXCEPT ![w] = n + 1]
        /\ mutex' = IF n = 6 THEN NoThread ELSE w
        /\ pc' = IF n = 6 THEN [pc EXCEPT ![w] = "idle"] ELSE pc
        /\ UNCHANGED updated
    BY OrderFacts DEF ReloadAssign
  <1>6. n \in 1..6 /\ s0 \in Sections
    BY <1>5, OrderFacts, NoThreadFacts DEF LockedAssign, TypeOK
  <1>7. Moved(w)' = Moved(w) \cup {s0}
    BY <1>5, <1>6, MovedNext DEF Moved, TypeOK
  <1>8. \A s \in Sections : config'[s] = IF s = s0 THEN updated[w][s0] ELSE config[s]
    BY <1>5, <1>6 DEF TypeOK, Configs
  <1>9. \A v \in Reloaders \ {w} : next'[v] = next[v] /\ pc'[v] = pc[v] /\ Moved(v)' = Moved(v)
    BY <1>5 DEF TypeOK, Threads, Moved
  <1>10. CASE mutex = NoThread
    <2>1. n = 1
      BY <1>4, <1>5, <1>10 DEF LockedAssign
    <2>2. PICK g \in Files : Valid(g) /\ config = Parsed(g)
      BY <1>10 DEF ReloadAllOrNothing
    <2>3. Moved(w)' = {s0}
      <3>1. Moved(w) = {}
        BY <2>1 DEF Moved
      <3>2. QED
        BY <1>7, <3>1
    <2>4. mutex' = w /\ pc' = pc /\ next'[w] = 2
      BY <1>5, <2>1 DEF TypeOK
    <2>5. LockedAssign'
      <3>1. \A v \in Reloaders \ {w} : pc[v] = "assign" => next[v] = 1
        BY <1>10, NoThreadFacts DEF LockedAssign
      <3>2. QED
        BY <1>5, <1>9, <2>4, <3>1, OrderFacts DEF LockedAssign
    <2>6. HalfMoved'
      <3> SUFFICES ASSUME NEW v \in Reloaders, mutex' = v
                   PROVE  \E h \in Files :
                            /\ Valid(h)
                            /\ \A s \in Sections :
                                  config'[s] = IF s \in Moved(v)' THEN updated'[v][s]
                                                                 ELSE Parsed(h)[s]
        BY DEF HalfMoved
      <3>1. v = w
        BY <2>4
      <3>2. \A s \in Sections :
               config'[s] = IF s \in Moved(w)' THEN updated'[w][s] ELSE Parsed(g)[s]
        BY <1>5, <1>8, <2>2, <2>3
      <3>3. QED
        BY <2>2, <3>1, <3>2
    <2>7. ReloadAllOrNothing'
      BY <1>4, <2>4 DEF ReloadAllOrNothing
    <2>8. QED
      BY <1>1, <1>2, <1>3, <2>5, <2>6, <2>7
  <1>11. CASE mutex = w
    <2>1. n \in 2..6
      BY <1>11, OrderFacts DEF LockedAssign
    <2>2. PICK g \in Files :
              /\ Valid(g)
              /\ \A s \in Sections :
                    config[s] = IF s \in Moved(w) THEN updated[w][s] ELSE Parsed(g)[s]
      BY <1>11 DEF HalfMoved
    <2>3. \A v \in Reloaders \ {w} : pc[v] = "assign" => next[v] = 1
      BY <1>11 DEF LockedAssign
    <2>4. CASE n = 6
      <3>1. Moved(w) \cup {s0} = Sections
        BY <2>4, OrderFacts DEF Moved
      <3>2. PICK f \in Files : Valid(f) /\ updated[w] = Parsed(f)
        BY <1>5 DEF UpdatedValid
      <3>3. \A s \in Sections : config'[s] = Parsed(f)[s]
        BY <1>5, <1>7, <1>8, <2>2, <3>1, <3>2
      <3>4. config' \in [Sections -> Files \cup {Default}]
        BY <1>1 DEF TypeOK, Configs
      <3>5. config' = Parsed(f)
        BY <3>3, <3>4 DEF Parsed
      <3>6. mutex' = NoThread /\ pc'[w] = "idle"
        BY <1>5, <2>4 DEF TypeOK, Threads
      <3>7. LockedAssign'
        BY <1>9, <2>3, <3>6, NoThreadFacts DEF LockedAssign
      <3>8. HalfMoved'
        BY <3>6, NoThreadFacts DEF HalfMoved
      <3>9. ReloadAllOrNothing'
        BY <3>2, <3>5 DEF ReloadAllOrNothing
      <3>10. QED
        BY <1>1, <1>2, <1>3, <3>7, <3>8, <3>9
    <2>5. CASE n # 6
      <3>1. mutex' = w /\ pc' = pc /\ next'[w] \in 2..6
        BY <1>5, <2>1, <2>5 DEF TypeOK
      <3>2. LockedAssign'
        BY <1>5, <1>9, <2>3, <3>1, OrderFacts DEF LockedAssign
      <3>3. HalfMoved'
        <4> SUFFICES ASSUME NEW v \in Reloaders, mutex' = v
                     PROVE  \E h \in Files :
                              /\ Valid(h)
                              /\ \A s \in Sections :
                                    config'[s] = IF s \in Moved(v)' THEN updated'[v][s]
                                                                   ELSE Parsed(h)[s]
          BY DEF HalfMoved
        <4>1. v = w
          BY <3>1
        <4>2. \A s \in Sections :
                 config'[s] = IF s \in Moved(w)' THEN updated'[w][s] ELSE Parsed(g)[s]
          BY <1>5, <1>7, <1>8, <2>2
        <4>3. QED
          BY <2>2, <4>1, <4>2
      <3>4. ReloadAllOrNothing'
        BY <1>4, <3>1 DEF ReloadAllOrNothing
      <3>5. QED
        BY <1>1, <1>2, <1>3, <3>2, <3>3, <3>4
    <2>6. QED
      BY <2>4, <2>5
  <1>12. QED
    BY <1>5, <1>10, <1>11 DEF ReloadAssign, LockedAssign

LEMMA NextIInv == IInv /\ [Next]_vars => IInv'
  <1> SUFFICES ASSUME IInv, [Next]_vars PROVE IInv'
    OBVIOUS
  <1>1. CASE Edit
    <2>1. TypeOK'
      BY <1>1, NextType DEF IInv, Next
    <2>0. UNCHANGED <<pc, seen>>
      BY <1>1 DEF Edit
    <2>2. ReadsInRange'
      BY <2>0 DEF IInv, ReadsInRange
    <2>3. QED
      BY <1>1, <2>1, <2>2, QuietStep DEF Edit
  <1>2. ASSUME NEW w \in Reloaders, ReloadParse(w) PROVE IInv'
    BY <1>2, ReloadParseStep
  <1>3. ASSUME NEW w \in Reloaders, ReloadAssign(w) PROVE IInv'
    BY <1>3, ReloadAssignStep
  <1>4. ASSUME NEW t \in Readers, Current(t) PROVE IInv'
    BY <1>4, CurrentStep
  <1>5. ASSUME NEW t \in Readers, ReadMember(t) PROVE IInv'
    BY <1>5, ReadMemberStep
  <1>6. CASE Done \/ UNCHANGED vars
    BY <1>6 DEF Done, vars, IInv, TypeOK, ReadsInRange, UpdatedValid, LockedAssign,
                HalfMoved, Moved, ReloadAllOrNothing
  <1>7. QED
    BY <1>1, <1>2, <1>3, <1>4, <1>5, <1>6 DEF Next

\* reload() is all or nothing (ReloadAllOrNothing, checked by the reload
\* run): for every set of files, layouts, readers and reloaders, whenever
\* no thread holds mutex_ the configuration is the parse of one valid file.
THEOREM ReloadAtomic == Spec => []ReloadAllOrNothing
  <1>1. Init => IInv
    BY InitIInv
  <1>2. IInv /\ [Next]_vars => IInv'
    BY NextIInv
  <1>3. IInv => ReloadAllOrNothing
    BY DEF IInv
  <1>4. QED
    BY <1>1, <1>2, <1>3, PTL DEF Spec

=============================================================================
