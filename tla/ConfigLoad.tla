----------------------------- MODULE ConfigLoad -----------------------------
(***************************************************************************)
(* ConfigManager::loadFromFile of the third draft of config_manager.cpp    *)
(* (lines 230-391), the ConfigManager that core::Application constructs.   *)
(*                                                                         *)
(* The YAML file is an input chosen in Init: for each key the model keeps  *)
(* whether it is present and a value from a small set; a missing section   *)
(* reads as all of its keys missing, as it does in the code.  The load     *)
(* runs section by section in the code's order and writes cfg as it goes;  *)
(* a key whose conversion throws (a port out of uint16 range, a duration   *)
(* parseDuration rejects, a channel entry without "model") ends the load   *)
(* in the catch block, which returns cfg as it stands.                     *)
(*                                                                         *)
(* A duration string is a number and a suffix.  The number is what stod   *)
(* reads, in tenths (so that static_cast<int> truncation shows), NaN when  *)
(* stod throws, or Huge when it exceeds INT_MAX.                           *)
(***************************************************************************)
EXTENDS Integers

CONSTANTS
    Nums,       \* numbers a duration string may hold, in tenths
    Ports,      \* values of system.port (in or out of uint16 range)
    Secrets,    \* values of auth.jwt_secret
    Absent,     \* a key that is not in the file
    NaN,        \* a number part stod rejects
    Huge,       \* a number part above INT_MAX
    Empty,      \* the empty duration string ""
    Wrapped     \* the negative duration static_cast<int>(Huge) yields

\* Suffixes parseDuration may meet; "" is a value ending in a digit.
Suffixes == {"", "s", "S", "m", "M", "h", "H", "d"}

ASSUME ConfigLoadAssumption ==
    /\ Nums \subseteq Int
    /\ Ports \subseteq Nat
    /\ Wrapped \notin Int
    \* Absent, NaN, Huge and Empty stand for no value of the file or of a
    \* conversion: a missing key, a thrown stod, an out-of-range number
    \* and the empty string.
    /\ NaN \notin Int /\ NaN # Wrapped /\ NaN # Huge /\ Huge \notin Int
    /\ Absent \notin Ports /\ Absent \notin Secrets /\ Absent # Empty /\ Absent # 4
    /\ Absent \notin {"radio", "no_model"}
    /\ Absent \notin [num : Nums \cup {NaN, Huge}, suffix : Suffixes]
    /\ Empty \notin [num : Nums \cup {NaN, Huge}, suffix : Suffixes]

Durations == [num : Nums \cup {NaN, Huge}, suffix : Suffixes] \cup {Empty}

\* channels.radio_channels entries: a well-formed one, or one whose
\* parseRadio throws because "model" is missing.
Channels == {Absent, "radio", "no_model"}

\* The file, key by key.
Files == [port : Ports \cup {Absent}, jwtSecret : Secrets \cup {Absent},
          heartbeat : Durations \cup {Absent}, retention : Durations \cup {Absent},
          maxClients : {Absent, 4}, idleTimeout : Durations \cup {Absent},
          channel : Channels]

\* ContainerConfig's defaults (config_manager.hpp, NetworkConfig to ContainerConfig): port 8002,
\* jwtSecret "dev-secret", 1 h retention, 8 clients, 60 s idle timeout.
Defaults == [port |-> 8002, jwtSecret |-> "dev-secret", retention |-> 1,
             maxClients |-> 8, idleTimeout |-> 60, radios |-> 0]

\* Integer division truncating toward zero, as C++ conversions do.
TruncDiv(a, b) == IF a >= 0 THEN a \div b ELSE -((-a) \div b)

\* static_cast<int>(numeric), numeric in tenths.
TruncTenths(n) == TruncDiv(n, 10)

\* The suffixes parseDuration's switch handles.
Handled == {"", "s", "S", "m", "M", "h", "H"}

\* The unit of a handled suffix, in seconds; a value ending in a digit is
\* read as seconds.
UnitSeconds(sfx) ==
    IF sfx \in {"m", "M"} THEN 60
    ELSE IF sfx \in {"h", "H"} THEN 3600
    ELSE 1

\* Whether parseDuration throws: stod on a non-number, or a suffix the
\* switch does not handle.
DurationThrows(d) ==
    d # Empty /\ (d.num = NaN \/ d.suffix \notin Handled)

\* Mutant: the upper-case suffixes fall through to the throwing default.
ParseDurationLowerOnly(d) ==
    IF d = Empty THEN 0
    ELSE IF d.num = NaN \/ d.suffix \notin {"", "s", "m", "h"} THEN NaN
    ELSE IF d.num = Huge THEN Wrapped
    ELSE TruncTenths(d.num) * UnitSeconds(d.suffix)

\* parseDuration(value) in seconds: "" gives 0; the number is truncated to
\* int before it is scaled by its unit; Huge is out of int range and the
\* conversion yields INT_MIN (x86-64 cvttsd2si), a negative duration.
\* A thrown exception is NaN here.
ParseDuration(d) ==
    IF d = Empty THEN 0
    ELSE IF DurationThrows(d) THEN NaN
    ELSE IF d.num = Huge THEN Wrapped
    ELSE TruncTenths(d.num) * UnitSeconds(d.suffix)

\* std::chrono::duration_cast<std::chrono::hours>(seconds).
ToHours(s) == IF s = Wrapped THEN Wrapped ELSE TruncDiv(s, 3600)

VARIABLES
    file,   \* the YAML document
    cfg,    \* the ContainerConfig being filled
    stage   \* the section loadFromFile is at; "done" or "failed" at the end

vars == <<file, cfg, stage>>

Values == Int \cup {Wrapped, "dev-secret"} \cup Secrets

TypeOK ==
    /\ file \in Files
    /\ cfg \in [{"port", "jwtSecret", "retention", "maxClients", "idleTimeout", "radios"}
                -> Values]
    /\ stage \in {"system", "auth", "timing", "telemetry", "channels", "done", "failed"}

\* ContainerConfig cfg{} before the try block, for any file on disk.
Init ==
    /\ file \in Files
    /\ cfg = Defaults
    /\ stage = "system"

\* system: port = as<uint16_t>() throws out of range.
ParseSystem ==
    /\ stage = "system"
    /\ IF file.port # Absent /\ file.port > 65535
          THEN stage' = "failed" /\ UNCHANGED cfg
          ELSE /\ cfg' = IF file.port = Absent THEN cfg ELSE [cfg EXCEPT !.port = file.port]
               /\ stage' = "auth"
    /\ UNCHANGED file

\* auth: jwt_secret (issuer and audience are not distinguished here).
ParseAuth ==
    /\ stage = "auth"
    /\ cfg' = IF file.jwtSecret = Absent THEN cfg ELSE [cfg EXCEPT !.jwtSecret = file.jwtSecret]
    /\ stage' = "timing"
    /\ UNCHANGED file

\* timing: telemetry.heartbeat_timeout, then events.buffer_retention (cast to
\* hours); either parseDuration may throw, the first after nothing, the
\* second after the heartbeat has been stored.
ParseTiming ==
    /\ stage = "timing"
    /\ LET hb == IF file.heartbeat = Absent THEN cfg.idleTimeout ELSE ParseDuration(file.heartbeat)
           rt == IF file.retention = Absent THEN NaN ELSE ParseDuration(file.retention)
       IN  IF hb = NaN THEN stage' = "failed" /\ UNCHANGED cfg
           ELSE IF file.retention # Absent /\ rt = NaN
                THEN stage' = "failed" /\ cfg' = [cfg EXCEPT !.idleTimeout = hb]
           ELSE /\ stage' = "telemetry"
                /\ cfg' = [cfg EXCEPT !.idleTimeout = hb,
                                      !.retention = IF file.retention = Absent THEN @
                                                    ELSE ToHours(rt)]
    /\ UNCHANGED file

\* telemetry: max_clients, then client_idle_timeout (overrides the
\* heartbeat value of the timing section).
ParseTelemetry ==
    /\ stage = "telemetry"
    /\ LET mc == IF file.maxClients = Absent THEN cfg.maxClients ELSE file.maxClients
           it == IF file.idleTimeout = Absent THEN cfg.idleTimeout
                 ELSE ParseDuration(file.idleTimeout)
       IN  IF it = NaN THEN stage' = "failed" /\ cfg' = [cfg EXCEPT !.maxClients = mc]
           ELSE stage' = "channels" /\ cfg' = [cfg EXCEPT !.maxClients = mc, !.idleTimeout = it]
    /\ UNCHANGED file

\* channels.radio_channels: parseRadio reads radio_id and model with as<>,
\* which throws on a missing key; the entry is pushed only once parsed.
ParseChannels ==
    /\ stage = "channels"
    /\ IF file.channel = "no_model"
          THEN stage' = "failed" /\ UNCHANGED cfg
          ELSE /\ cfg' = IF file.channel = "radio" THEN [cfg EXCEPT !.radios = 1] ELSE cfg
               /\ stage' = "done"
    /\ UNCHANGED file

\* loadFromFile has returned cfg (after the catch block or normally).
Returned == stage \in {"done", "failed"} /\ UNCHANGED vars

Next == ParseSystem \/ ParseAuth \/ ParseTiming \/ ParseTelemetry \/ ParseChannels \/ Returned

Spec == Init /\ [][Next]_vars

-----------------------------------------------------------------------------
(***************************************************************************)
(* A reference for what a loaded file should give, key by key.             *)
(***************************************************************************)

\* The seconds a duration string denotes: the whole units written, any
\* fraction of a unit dropped ("1.5m" is one minute), times the unit.
WrittenSeconds(d) == IF d = Empty THEN 0 ELSE TruncDiv(d.num, 10) * UnitSeconds(d.suffix)

\* A duration every step of which the code handles.
GoodDuration(d) == d = Absent \/ d = Empty \/ (d.num \in Nums /\ d.suffix \in Handled)

\* A file with a duration number out of int range.
HasHuge(f) ==
    \E d \in {f.heartbeat, f.retention, f.idleTimeout} : d \in Durations \ {Empty} /\ d.num = Huge

WellFormed(f) ==
    /\ f.port = Absent \/ f.port <= 65535
    /\ GoodDuration(f.heartbeat) /\ GoodDuration(f.retention) /\ GoodDuration(f.idleTimeout)
    /\ f.channel # "no_model"

\* client_idle_timeout wins over heartbeat_timeout, which wins over the
\* default.
Expected(f) ==
    [port |-> IF f.port = Absent THEN Defaults.port ELSE f.port,
     jwtSecret |-> IF f.jwtSecret = Absent THEN Defaults.jwtSecret ELSE f.jwtSecret,
     retention |-> IF f.retention = Absent THEN Defaults.retention
                   ELSE TruncDiv(WrittenSeconds(f.retention), 3600),
     maxClients |-> IF f.maxClients = Absent THEN Defaults.maxClients ELSE f.maxClients,
     idleTimeout |-> IF f.idleTimeout # Absent THEN WrittenSeconds(f.idleTimeout)
                     ELSE IF f.heartbeat # Absent THEN WrittenSeconds(f.heartbeat)
                     ELSE Defaults.idleTimeout,
     radios |-> IF f.channel = "radio" THEN 1 ELSE 0]

-----------------------------------------------------------------------------
(***************************************************************************)
(* Properties                                                              *)
(***************************************************************************)

\* A file whose durations fit in int loads exactly when every key converts,
\* and then gives each key's value (or its default), with the override
\* order of the timing and telemetry sections and both case spellings of
\* every suffix parseDuration accepts.
LoadFollowsFile ==
    stage \in {"done", "failed"} /\ ~HasHuge(file) =>
        /\ (stage = "done") = WellFormed(file)
        /\ stage = "done" => cfg = Expected(file)

\* When loading fails, loadFromFile "Using defaults." (its log message,
\* line 385): the configuration returned is ContainerConfig's defaults.
FailedLoadUsesDefaults == stage = "failed" => cfg = Defaults

=============================================================================
