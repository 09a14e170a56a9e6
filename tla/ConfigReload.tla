---------------------------- MODULE ConfigReload ----------------------------
(***************************************************************************)
(* The second draft of config::ConfigManager (config_manager.cpp lines     *)
(* 112-228, config/types.hpp, config_manager.hpp lines 57-81): current()   *)
(* and reload() called from several threads, as its mutex_ is there for.   *)
(*                                                                         *)
(* A configuration is kept section by section (the members of Config, in   *)
(* declaration order); each section holds the file it was parsed from, or  *)
(* Default when the file lacks it.  A file is a layout: for each section   *)
(* whether it is absent, present and accepted, or present and rejected by *)
(* parseConfig's checks (a non-positive duration, a radio entry without    *)
(* id, adapter or endpoint).  The file on disk may be edited at any time.  *)
(*                                                                         *)
(* reload() parses into a local Config outside the lock, then assigns      *)
(* config_ under mutex_; Config's move assignment moves the members one    *)
(* by one.  current() takes the lock only to return a reference: the       *)
(* caller reads the members through it after the lock is released, as      *)
(* rcc::Application::initializeTelemetry does (application.cpp 32-42).     *)
(***************************************************************************)
EXTENDS Naturals, Sequences

CONSTANTS
    Readers,    \* threads calling current() and reading through the reference
    Reloaders,  \* threads calling reload()
    Files,      \* the contents the configuration file may have
    Layout,     \* Layout[f][s]: "absent", "ok" or "bad"
    NoThread,   \* mutex_ is free
    Default,    \* a section left at its default
    MaxReloads, \* reload() calls per reloading thread
    MaxReads    \* current() calls per reading thread

\* The members of Config in declaration order (types.hpp 48-55).
Order == <<"container", "network", "telemetry", "security", "timing", "radios">>

Sections == {Order[i] : i \in 1..Len(Order)}

ASSUME ReloadAssumption ==
    /\ Layout \in [Files -> [Sections -> {"absent", "ok", "bad"}]]
    /\ Default \notin Files
    /\ NoThread \notin Readers \cup Reloaders
    /\ MaxReloads \in Nat /\ MaxReads \in Nat

\* The members initializeTelemetry reads through current()'s reference:
\* cfg.telemetry, then cfg.container.
ReadOrder == <<"telemetry", "container">>

\* parseConfig throws in section s: a missing container or security
\* section, or a value its checks reject.
FailsIn(f, s) ==
    \/ Layout[f][s] = "bad"
    \/ s \in {"container", "security"} /\ Layout[f][s] = "absent"

\* parseConfig(root) returns: no section fails.
Valid(f) == \A s \in Sections : ~FailsIn(f, s)

\* The Config parseConfig builds from f.
Parsed(f) == [s \in Sections |-> IF Layout[f][s] = "ok" THEN f ELSE Default]

\* The index in Order of the section where parsing f throws.
FailIndex(f) == CHOOSE i \in 1..Len(Order) :
                    FailsIn(f, Order[i]) /\ \A j \in 1..(i - 1) : ~FailsIn(f, Order[j])

Configs == [Sections -> Files \cup {Default}]

VARIABLES
    disk,       \* the file at path_
    config,     \* config_
    mutex,      \* holder of mutex_
    pc,         \* each thread's point in its call
    updated,    \* reload's local Config
    next,       \* index of the next member the move assignment moves
    seen,       \* the members a reader has read through the reference, in order
    calls       \* calls each thread has made

vars == <<disk, config, mutex, pc, updated, next, seen, calls>>

Threads == Readers \cup Reloaders

TypeOK ==
    /\ disk \in Files
    /\ config \in Configs
    /\ mutex \in Threads \cup {NoThread}
    /\ pc \in [Threads -> {"idle", "assign", "read"}]
    /\ updated \in [Reloaders -> Configs]
    /\ next \in [Reloaders -> 1..(Len(Order) + 1)]
    /\ seen \in [Readers -> Seq(Files \cup {Default})]
    /\ calls \in [Threads -> Nat]

\* ConfigManager(path): config_(loadFromFile(path_)); a file that throws
\* leaves no ConfigManager, so the initial file is valid.
Init ==
    /\ disk \in {f \in Files : Valid(f)}
    /\ config = Parsed(disk)
    /\ mutex = NoThread
    /\ pc = [t \in Threads |-> "idle"]
    /\ updated = [w \in Reloaders |-> Parsed(disk)]
    /\ next = [w \in Reloaders |-> 1]
    /\ seen = [t \in Readers |-> <<>>]
    /\ calls = [t \in Threads |-> 0]

\* The file is rewritten on disk.
Edit == \E f \in Files : disk' = f /\ UNCHANGED <<config, mutex, pc, updated, next, seen, calls>>

\* Mutant: parseConfig fills config_ itself, without the lock, so a
\* throw leaves the members parsed before it.
ReloadInPlace(w) ==
    /\ pc[w] = "idle"
    /\ calls[w] < MaxReloads
    /\ calls' = [calls EXCEPT ![w] = @ + 1]
    /\ IF Valid(disk)
          THEN /\ updated' = [updated EXCEPT ![w] = Parsed(disk)]
               /\ next' = [next EXCEPT ![w] = 1]
               /\ pc' = [pc EXCEPT ![w] = "assign"]
               /\ UNCHANGED config
          ELSE /\ config' = [s \in Sections |->
                               IF \E i \in 1..(FailIndex(disk) - 1) : Order[i] = s
                               THEN Parsed(disk)[s] ELSE config[s]]
               /\ UNCHANGED <<updated, next, pc>>
    /\ UNCHANGED <<disk, mutex, seen>>

\* reload(): Config updated = loadFromFile(path_), outside the lock.  A
\* throw leaves reload with config_ untouched; otherwise the thread goes
\* on to take the lock.
ReloadParse(w) ==
    /\ pc[w] = "idle"
    /\ calls[w] < MaxReloads
    /\ calls' = [calls EXCEPT ![w] = @ + 1]
    /\ IF Valid(disk)
          THEN /\ updated' = [updated EXCEPT ![w] = Parsed(disk)]
               /\ next' = [next EXCEPT ![w] = 1]
               /\ pc' = [pc EXCEPT ![w] = "assign"]
          ELSE UNCHANGED <<updated, next, pc>>
    /\ UNCHANGED <<disk, config, mutex, seen>>

\* std::scoped_lock lock(mutex_), then config_ = std::move(updated), one
\* member per step; the lock is released after the last one.
ReloadAssign(w) ==
    /\ pc[w] = "assign"
    /\ mutex \in {NoThread, w}
    /\ LET s == Order[next[w]]
           last == next[w] = Len(Order)
       IN  /\ config' = [config EXCEPT ![s] = updated[w][s]]
           /\ next' = [next EXCEPT ![w] = @ + 1]
           /\ mutex' = IF last THEN NoThread ELSE w
           /\ pc' = IF last THEN [pc EXCEPT ![w] = "idle"] ELSE pc
    /\ UNCHANGED <<disk, updated, seen, calls>>

\* current(): lock, return the reference to config_, unlock.
Current(t) ==
    /\ pc[t] = "idle"
    /\ calls[t] < MaxReads
    /\ mutex = NoThread
    /\ calls' = [calls EXCEPT ![t] = @ + 1]
    /\ pc' = [pc EXCEPT ![t] = "read"]
    /\ seen' = [seen EXCEPT ![t] = <<>>]
    /\ UNCHANGED <<disk, config, mutex, updated, next>>

\* The caller reads the next member through the reference, with no lock.
ReadMember(t) ==
    /\ pc[t] = "read"
    /\ LET k == Len(seen[t]) + 1
       IN  /\ seen' = [seen EXCEPT ![t] = Append(@, config[ReadOrder[k]])]
           /\ pc' = IF k = Len(ReadOrder) THEN [pc EXCEPT ![t] = "idle"] ELSE pc
    /\ UNCHANGED <<disk, config, mutex, updated, next, calls>>

Done ==
    /\ \A t \in Threads : pc[t] = "idle"
    /\ \A w \in Reloaders : calls[w] = MaxReloads
    /\ \A t \in Readers : calls[t] = MaxReads
    /\ UNCHANGED vars

Next ==
    \/ Edit
    \/ \E w \in Reloaders : ReloadParse(w) \/ ReloadAssign(w)
    \/ \E t \in Readers : Current(t) \/ ReadMember(t)
    \/ Done

Spec == Init /\ [][Next]_vars

-----------------------------------------------------------------------------
(***************************************************************************)
(* Properties                                                              *)
(***************************************************************************)

\* reload() is all or nothing: whenever no thread holds mutex_, config_ is
\* the whole Config parsed from one file that passed every check of
\* parseConfig; a file that throws part-way changes nothing.
ReloadAllOrNothing ==
    mutex = NoThread => \E f \in Files : Valid(f) /\ config = Parsed(f)

\* A caller of current() that has read all the members it wanted read them
\* from one configuration, as initializeTelemetry assumes when it builds
\* the hub from cfg.telemetry and cfg.container together.
ConsistentSnapshot ==
    \A t \in Readers :
        pc[t] = "idle" /\ Len(seen[t]) = Len(ReadOrder) =>
            \E f \in Files : \A k \in 1..Len(ReadOrder) : seen[t][k] = Parsed(f)[ReadOrder[k]]

=============================================================================
