-------------------------- MODULE ConfigLoadProofs --------------------------
(***************************************************************************)
(* Proof that loadFromFile follows the file (LoadFollowsFile) for every    *)
(* set of ports, secrets and duration numbers, fractional ones included.  *)
(*                                                                         *)
(* LoadFollowsFile speaks only of the end of the load.  The invariant it   *)
(* rests on, LoadInv, says what cfg holds at each stage: the defaults      *)
(* overwritten by the keys of the sections parsed so far, every one of    *)
(* which converted; and that a failed load had a key that does not.  The  *)
(* file does not change during the load, so each stage's content is a     *)
(* function of the file alone.                                             *)
(***************************************************************************)
EXTENDS ConfigLoad, TLAPS

\* The keys of each section convert.
SystemOK(f) == f.port = Absent \/ f.port <= 65535
TimingOK(f) == GoodDuration(f.heartbeat) /\ GoodDuration(f.retention)
TelemetryOK(f) == GoodDuration(f.idleTimeout)

\* A ContainerConfig, field by field.
Rec(p, j, r, m, i, n) ==
    [port |-> p, jwtSecret |-> j, retention |-> r, maxClients |-> m, idleTimeout |-> i,
     radios |-> n]

\* The value each key of f gives once its section has been parsed.
PortOf(f) == IF f.port = Absent THEN Defaults.port ELSE f.port
SecretOf(f) == IF f.jwtSecret = Absent THEN Defaults.jwtSecret ELSE f.jwtSecret
HeartbeatOf(f) == IF f.heartbeat = Absent THEN Defaults.idleTimeout ELSE WrittenSeconds(f.heartbeat)
RetentionOf(f) ==
    IF f.retention = Absent THEN Defaults.retention ELSE TruncDiv(WrittenSeconds(f.retention), 3600)
ClientsOf(f) == IF f.maxClients = Absent THEN Defaults.maxClients ELSE f.maxClients
IdleOf(f) == IF f.idleTimeout = Absent THEN HeartbeatOf(f) ELSE WrittenSeconds(f.idleTimeout)

\* cfg once each section has been parsed from f.
AfterSystem(f) == Rec(PortOf(f), "dev-secret", 1, 8, 60, 0)
AfterAuth(f) == Rec(PortOf(f), SecretOf(f), 1, 8, 60, 0)
AfterTiming(f) == Rec(PortOf(f), SecretOf(f), RetentionOf(f), 8, HeartbeatOf(f), 0)
AfterTelemetry(f) == Rec(PortOf(f), SecretOf(f), RetentionOf(f), ClientsOf(f), IdleOf(f), 0)

\* What c holds at stage st of a load of f.
StageOK(f, st, c) ==
    /\ st = "system" => c = Defaults
    /\ st = "auth" => SystemOK(f) /\ c = AfterSystem(f)
    /\ st = "timing" => SystemOK(f) /\ c = AfterAuth(f)
    /\ st = "telemetry" => SystemOK(f) /\ TimingOK(f) /\ c = AfterTiming(f)
    /\ st = "channels" => SystemOK(f) /\ TimingOK(f) /\ TelemetryOK(f) /\ c = AfterTelemetry(f)
    /\ st = "done" => WellFormed(f) /\ c = Expected(f)
    /\ st = "failed" => ~WellFormed(f)

\* The load of a file without Huge is where StageOK says it is.
LoadInv == ~HasHuge(file) => StageOK(file, stage, cfg)

Stages == {"system", "auth", "timing", "telemetry", "channels", "done", "failed"}

\* The inductive invariant.
IInv == file \in Files /\ stage \in Stages /\ LoadInv

\* The defaults as a Rec.
LEMMA DefaultsRec == Defaults = Rec(8002, "dev-secret", 1, 8, 60, 0)
  BY DEF Defaults, Rec

-----------------------------------------------------------------------------
\* The facts of ConfigLoadAssumption the proofs use.
LEMMA Distinct ==
    /\ Nums \subseteq Int /\ Ports \subseteq Nat
    /\ NaN \notin Int /\ NaN # Wrapped /\ Huge \notin Int /\ Wrapped \notin Int
    /\ Absent \notin Ports /\ Absent \notin Secrets /\ Absent # 4
    /\ Absent # "radio" /\ Absent # "no_model"
    /\ Absent \notin Durations
    /\ \A d \in Durations : d # Empty => d \in [num : Nums \cup {NaN, Huge}, suffix : Suffixes]
  <1>1. Absent \notin Durations
    BY ConfigLoadAssumption, Zenon DEF Durations
  <1>2. \A d \in Durations : d # Empty => d \in [num : Nums \cup {NaN, Huge}, suffix : Suffixes]
    BY Zenon DEF Durations
  <1>3. QED
    BY <1>1, <1>2, ConfigLoadAssumption, Zenon

\* parseDuration of a duration of the file without Huge: the written
\* seconds when every step is handled, a throw otherwise.
LEMMA DurationFacts ==
    ASSUME NEW d \in Durations, d = Empty \/ d.num # Huge
    PROVE  /\ GoodDuration(d) => /\ ParseDuration(d) = WrittenSeconds(d)
                                 /\ WrittenSeconds(d) \in Int
           /\ ~GoodDuration(d) => ParseDuration(d) = NaN
  <1>1. CASE d = Empty
    BY <1>1, Distinct DEF ParseDuration, WrittenSeconds, GoodDuration
  <1>2. CASE d # Empty
    <2>1. d \in [num : Nums \cup {NaN, Huge}, suffix : Suffixes]
      BY <1>2, Distinct
    <2>2. CASE d.num \in Nums /\ d.suffix \in Handled
      <3>1. d.num \in Int
        BY <2>2, Distinct
      <3>2. UnitSeconds(d.suffix) \in {1, 60, 3600}
        BY DEF UnitSeconds
      <3>3. ~DurationThrows(d) /\ d.num # Huge
        BY <1>2, <2>2, Distinct DEF DurationThrows
      <3>4. ParseDuration(d) = TruncTenths(d.num) * UnitSeconds(d.suffix)
        BY <1>2, <3>3 DEF ParseDuration
      <3>5. QED
        BY <1>2, <2>2, <3>1, <3>2, <3>4 DEF GoodDuration, WrittenSeconds, TruncTenths, TruncDiv
    <2>3. CASE ~(d.num \in Nums /\ d.suffix \in Handled)
      <3>1. d.num = NaN \/ d.suffix \notin Handled
        BY <1>2, <2>1, <2>3
      <3>2. ~GoodDuration(d)
        BY <1>2, <2>3, Distinct DEF GoodDuration
      <3>3. QED
        BY <1>2, <3>1, <3>2 DEF ParseDuration, DurationThrows
    <2>4. QED
      BY <2>2, <2>3
  <1>3. QED
    BY <1>1, <1>2

\* The keys of a file, by kind.
LEMMA FileFields ==
    ASSUME NEW f \in Files
    PROVE  /\ f.port \in Ports \cup {Absent}
           /\ f.jwtSecret \in Secrets \cup {Absent}
           /\ f.heartbeat \in Durations \cup {Absent}
           /\ f.retention \in Durations \cup {Absent}
           /\ f.idleTimeout \in Durations \cup {Absent}
           /\ f.maxClients \in {Absent, 4}
           /\ f.channel \in Channels
  BY DEF Files

\* A duration key of a file without Huge: absent keys are fine; a present
\* one parses to its written seconds when it is good and throws otherwise.
LEMMA DurationKey ==
    ASSUME NEW d \in Durations \cup {Absent},
           d \in Durations => d = Empty \/ d.num # Huge
    PROVE  /\ d = Absent => GoodDuration(d)
           /\ d # Absent /\ GoodDuration(d) =>
                 ParseDuration(d) = WrittenSeconds(d) /\ WrittenSeconds(d) \in Int
           /\ d # Absent /\ ~GoodDuration(d) => ParseDuration(d) = NaN
  <1>1. d = Absent => GoodDuration(d)
    BY DEF GoodDuration
  <1>2. d # Absent => d \in Durations
    OBVIOUS
  <1>3. QED
    BY <1>1, <1>2, DurationFacts

\* The three duration keys of a file without Huge.
LEMMA NoHugeKeys ==
    ASSUME NEW f \in Files, ~HasHuge(f)
    PROVE  \A d \in {f.heartbeat, f.retention, f.idleTimeout} :
              d \in Durations => d = Empty \/ d.num # Huge
  BY DEF HasHuge

\* A file is well formed exactly when each section's keys convert and the
\* channel entry has a model.
LEMMA WellFormedBySection ==
    ASSUME NEW f
    PROVE  WellFormed(f) <=> SystemOK(f) /\ TimingOK(f) /\ TelemetryOK(f) /\ f.channel # "no_model"
  BY DEF WellFormed, SystemOK, TimingOK, TelemetryOK

LEMMA InitIInv == Init => IInv
  <1> SUFFICES ASSUME Init PROVE IInv
    OBVIOUS
  <1>1. file \in Files /\ stage \in Stages
    BY DEF Init, Stages
  <1>2. StageOK(file, stage, cfg)
    BY DEF Init, StageOK
  <1>3. QED
    BY <1>1, <1>2 DEF IInv, LoadInv

\* system: a port out of uint16 range fails the load, any other is stored.
LEMMA SystemStep ==
    ASSUME IInv, ~HasHuge(file), ParseSystem
    PROVE  StageOK(file, stage', cfg')
  <1>1. stage = "system" /\ cfg = Defaults /\ file \in Files
    BY DEF ParseSystem, IInv, LoadInv, StageOK
  <1>2. file.port \in Ports \cup {Absent}
    BY <1>1, FileFields
  <1>3. CASE file.port # Absent /\ file.port > 65535
    <2>1. stage' = "failed"
      BY <1>3 DEF ParseSystem
    <2>2. file.port \in Nat
      <3>1. file.port \in Ports /\ Ports \subseteq Nat
        BY <1>2, <1>3, Distinct
      <3>2. QED
        BY <3>1
    <2>3. ~SystemOK(file)
      BY <1>3, <2>2 DEF SystemOK
    <2>4. QED
      BY <2>1, <2>3, WellFormedBySection DEF StageOK
  <1>4. CASE ~(file.port # Absent /\ file.port > 65535)
    <2>1. stage' = "auth"
          /\ cfg' = IF file.port = Absent THEN cfg ELSE [cfg EXCEPT !.port = file.port]
      BY <1>4 DEF ParseSystem
    <2>2. SystemOK(file)
      <3>1. CASE file.port = Absent
        BY <3>1 DEF SystemOK
      <3>2. CASE file.port # Absent
        <4>1. file.port \in Nat
          <5>1. file.port \in Ports /\ Ports \subseteq Nat
            BY <1>2, <3>2, Distinct
          <5>2. QED
            BY <5>1
        <4>2. QED
          BY <1>4, <3>2, <4>1 DEF SystemOK
      <3>3. QED
        BY <3>1, <3>2
    <2>3. cfg' = AfterSystem(file)
      <3>1. CASE file.port = Absent
        <4>1. cfg' = Defaults
          BY <1>1, <2>1, <3>1
        <4>2. AfterSystem(file) = Rec(8002, "dev-secret", 1, 8, 60, 0)
          BY <3>1 DEF AfterSystem, PortOf, Defaults
        <4>3. QED
          BY <4>1, <4>2, DefaultsRec
      <3>2. CASE file.port # Absent
        <4>1. cfg' = [Defaults EXCEPT !.port = file.port]
          BY <1>1, <2>1, <3>2
        <4>2. [Rec(8002, "dev-secret", 1, 8, 60, 0) EXCEPT !.port = file.port]
              = Rec(file.port, "dev-secret", 1, 8, 60, 0)
          BY DEF Rec
        <4>3. AfterSystem(file) = Rec(file.port, "dev-secret", 1, 8, 60, 0)
          BY <3>2 DEF AfterSystem, PortOf
        <4>4. QED
          BY <4>1, <4>2, <4>3, DefaultsRec
      <3>3. QED
        BY <3>1, <3>2
    <2>4. QED
      BY <2>1, <2>2, <2>3 DEF StageOK
  <1>5. QED
    BY <1>3, <1>4

\* auth: the secret, if present, is stored.
LEMMA AuthStep ==
    ASSUME IInv, ~HasHuge(file), ParseAuth
    PROVE  StageOK(file, stage', cfg')
  <1>1. stage = "auth" /\ SystemOK(file) /\ cfg = AfterSystem(file)
    BY DEF ParseAuth, IInv, LoadInv, StageOK
  <1>2. stage' = "timing"
        /\ cfg' = IF file.jwtSecret = Absent THEN cfg ELSE [cfg EXCEPT !.jwtSecret = file.jwtSecret]
    BY DEF ParseAuth
  <1>3. cfg' = AfterAuth(file)
    <2>1. CASE file.jwtSecret = Absent
      BY <1>1, <1>2, <2>1 DEF AfterSystem, AfterAuth, SecretOf, Defaults
    <2>2. CASE file.jwtSecret # Absent
      <3>1. cfg' = [Rec(PortOf(file), "dev-secret", 1, 8, 60, 0) EXCEPT !.jwtSecret = file.jwtSecret]
        BY <1>1, <1>2, <2>2 DEF AfterSystem
      <3>2. [Rec(PortOf(file), "dev-secret", 1, 8, 60, 0) EXCEPT !.jwtSecret = file.jwtSecret]
            = Rec(PortOf(file), file.jwtSecret, 1, 8, 60, 0)
        BY DEF Rec
      <3>3. QED
        BY <2>2, <3>1, <3>2 DEF AfterAuth, SecretOf
    <2>3. QED
      BY <2>1, <2>2
  <1>4. QED
    BY <1>1, <1>2, <1>3 DEF StageOK

\* timing: the heartbeat is stored as idleTimeout and the retention, in
\* hours, once both convert; a throw of either fails the load.
LEMMA TimingStep ==
    ASSUME IInv, ~HasHuge(file), ParseTiming
    PROVE  StageOK(file, stage', cfg')
  <1> DEFINE hb == IF file.heartbeat = Absent THEN cfg.idleTimeout ELSE ParseDuration(file.heartbeat)
             rt == IF file.retention = Absent THEN NaN ELSE ParseDuration(file.retention)
             P == PortOf(file)
             S == SecretOf(file)
  <1>1. stage = "timing" /\ SystemOK(file) /\ cfg = Rec(P, S, 1, 8, 60, 0) /\ file \in Files
    BY DEF ParseTiming, IInv, LoadInv, StageOK, AfterAuth
  <1>2. IF hb = NaN THEN stage' = "failed" /\ UNCHANGED cfg
        ELSE IF file.retention # Absent /\ rt = NaN
             THEN stage' = "failed" /\ cfg' = [cfg EXCEPT !.idleTimeout = hb]
        ELSE /\ stage' = "telemetry"
             /\ cfg' = [cfg EXCEPT !.idleTimeout = hb,
                                   !.retention = IF file.retention = Absent THEN @
                                                 ELSE ToHours(rt)]
    BY DEF ParseTiming
  <1>3. /\ file.heartbeat \in Durations \cup {Absent}
        /\ file.heartbeat \in Durations => file.heartbeat = Empty \/ file.heartbeat.num # Huge
        /\ file.retention \in Durations \cup {Absent}
        /\ file.retention \in Durations => file.retention = Empty \/ file.retention.num # Huge
    BY <1>1, FileFields, NoHugeKeys
  <1>4. cfg.idleTimeout = 60
    BY <1>1 DEF Rec
  <1>5. GoodDuration(file.heartbeat) => hb = HeartbeatOf(file) /\ hb \in Int
    BY <1>3, <1>4, DurationKey DEF HeartbeatOf, Defaults
  <1>6. ~GoodDuration(file.heartbeat) => hb = NaN
    BY <1>3, DurationKey DEF GoodDuration
  <1>7. GoodDuration(file.retention) /\ file.retention # Absent =>
            rt = WrittenSeconds(file.retention) /\ rt \in Int
    BY <1>3, DurationKey
  <1>8. ~GoodDuration(file.retention) => file.retention # Absent /\ rt = NaN
    BY <1>3, DurationKey DEF GoodDuration
  <1>9. CASE ~TimingOK(file)
    <2>1. stage' = "failed"
      <3>1. CASE ~GoodDuration(file.heartbeat)
        BY <1>2, <1>6, <3>1
      <3>2. CASE GoodDuration(file.heartbeat)
        <4>1. hb # NaN
          BY <1>5, <3>2, Distinct
        <4>2. file.retention # Absent /\ rt = NaN
          BY <1>8, <1>9, <3>2 DEF TimingOK
        <4>3. QED
          BY <1>2, <4>1, <4>2
      <3>3. QED
        BY <3>1, <3>2
    <2>2. QED
      BY <1>9, <2>1, WellFormedBySection DEF StageOK
  <1>10. CASE TimingOK(file)
    <2>1. hb = HeartbeatOf(file) /\ hb \in Int /\ hb # NaN
      BY <1>5, <1>10, Distinct DEF TimingOK
    <2>2. ~(file.retention # Absent /\ rt = NaN)
      BY <1>7, <1>10, Distinct DEF TimingOK
    <2>3. stage' = "telemetry"
          /\ cfg' = [cfg EXCEPT !.idleTimeout = hb,
                                !.retention = IF file.retention = Absent THEN @ ELSE ToHours(rt)]
      BY <1>2, <2>1, <2>2
    <2>4. cfg' = AfterTiming(file)
      <3>1. CASE file.retention = Absent
        <4>1. cfg' = [[cfg EXCEPT !.idleTimeout = hb] EXCEPT !.retention = cfg.retention]
          BY <2>3, <3>1
        <4>2. [cfg EXCEPT !.idleTimeout = hb] = Rec(P, S, 1, 8, hb, 0)
          BY <1>1 DEF Rec
        <4>3. cfg.retention = 1
          BY <1>1 DEF Rec
        <4>4. [Rec(P, S, 1, 8, hb, 0) EXCEPT !.retention = 1] = Rec(P, S, 1, 8, hb, 0)
          BY DEF Rec
        <4>5. cfg' = Rec(P, S, 1, 8, hb, 0)
          BY <4>1, <4>2, <4>3, <4>4
        <4>6. QED
          BY <2>1, <3>1, <4>5 DEF AfterTiming, RetentionOf, Defaults
      <3>2. CASE file.retention # Absent
        <4>1. ToHours(rt) = RetentionOf(file)
          BY <1>7, <1>10, <3>2, Distinct DEF TimingOK, ToHours, RetentionOf
        <4>2. cfg' = [[cfg EXCEPT !.idleTimeout = hb] EXCEPT !.retention = ToHours(rt)]
          BY <2>3, <3>2
        <4>3. [cfg EXCEPT !.idleTimeout = hb] = Rec(P, S, 1, 8, hb, 0)
          BY <1>1 DEF Rec
        <4>4. [Rec(P, S, 1, 8, hb, 0) EXCEPT !.retention = ToHours(rt)]
              = Rec(P, S, ToHours(rt), 8, hb, 0)
          BY DEF Rec
        <4>5. QED
          BY <2>1, <4>1, <4>2, <4>3, <4>4 DEF AfterTiming
      <3>3. QED
        BY <3>1, <3>2
    <2>5. QED
      BY <1>1, <1>10, <2>3, <2>4 DEF StageOK
  <1>11. QED
    BY <1>9, <1>10

\* telemetry: maxClients is stored, and the idle timeout once it converts
\* (the heartbeat's value stays when the key is absent).
LEMMA TelemetryStep ==
    ASSUME IInv, ~HasHuge(file), ParseTelemetry
    PROVE  StageOK(file, stage', cfg')
  <1> DEFINE mc == IF file.maxClients = Absent THEN cfg.maxClients ELSE file.maxClients
             it == IF file.idleTimeout = Absent THEN cfg.idleTimeout
                   ELSE ParseDuration(file.idleTimeout)
             P == PortOf(file)
             S == SecretOf(file)
             R == RetentionOf(file)
             HB == HeartbeatOf(file)
  <1>1. /\ stage = "telemetry" /\ SystemOK(file) /\ TimingOK(file) /\ file \in Files
        /\ cfg = Rec(P, S, R, 8, HB, 0)
    BY DEF ParseTelemetry, IInv, LoadInv, StageOK, AfterTiming
  <1>2. IF it = NaN THEN stage' = "failed" /\ cfg' = [cfg EXCEPT !.maxClients = mc]
        ELSE stage' = "channels" /\ cfg' = [cfg EXCEPT !.maxClients = mc, !.idleTimeout = it]
    BY DEF ParseTelemetry
  <1>3. /\ file.heartbeat \in Durations \cup {Absent}
        /\ file.heartbeat \in Durations => file.heartbeat = Empty \/ file.heartbeat.num # Huge
        /\ file.idleTimeout \in Durations \cup {Absent}
        /\ file.idleTimeout \in Durations => file.idleTimeout = Empty \/ file.idleTimeout.num # Huge
    BY <1>1, FileFields, NoHugeKeys
  <1>4. HB \in Int
    BY <1>1, <1>3, DurationKey DEF TimingOK, HeartbeatOf, Defaults
  <1>5. cfg.idleTimeout = HB /\ cfg.maxClients = 8
    BY <1>1 DEF Rec
  <1>6. mc = ClientsOf(file)
    BY <1>5 DEF ClientsOf, Defaults
  <1>7. TelemetryOK(file) => it = IdleOf(file) /\ it # NaN
    BY <1>3, <1>4, <1>5, Distinct, DurationKey DEF TelemetryOK, IdleOf
  <1>8. ~TelemetryOK(file) => it = NaN
    BY <1>3, DurationKey DEF TelemetryOK, GoodDuration
  <1>9. CASE ~TelemetryOK(file)
    <2>1. stage' = "failed"
      BY <1>2, <1>8, <1>9
    <2>2. QED
      BY <1>9, <2>1, WellFormedBySection DEF StageOK
  <1>10. CASE TelemetryOK(file)
    <2>1. stage' = "channels" /\ cfg' = [[cfg EXCEPT !.maxClients = mc] EXCEPT !.idleTimeout = it]
      BY <1>2, <1>7, <1>10
    <2>2. [cfg EXCEPT !.maxClients = mc] = Rec(P, S, R, mc, HB, 0)
      BY <1>1 DEF Rec
    <2>3. [Rec(P, S, R, mc, HB, 0) EXCEPT !.idleTimeout = it] = Rec(P, S, R, mc, it, 0)
      BY DEF Rec
    <2>4. cfg' = AfterTelemetry(file)
      BY <1>6, <1>7, <1>10, <2>1, <2>2, <2>3 DEF AfterTelemetry
    <2>5. QED
      BY <1>1, <1>10, <2>1, <2>4 DEF StageOK
  <1>11. QED
    BY <1>9, <1>10

\* Expected is AfterTelemetry with the channel entry counted.
LEMMA ExpectedAfterTelemetry ==
    ASSUME NEW f \in Files, f.channel # "no_model"
    PROVE  Expected(f) = IF f.channel = "radio" THEN [AfterTelemetry(f) EXCEPT !.radios = 1]
                         ELSE AfterTelemetry(f)
  <1>1. Expected(f) = Rec(PortOf(f), SecretOf(f), RetentionOf(f), ClientsOf(f), IdleOf(f),
                          IF f.channel = "radio" THEN 1 ELSE 0)
    BY DEF Expected, Rec, PortOf, SecretOf, RetentionOf, ClientsOf, IdleOf, HeartbeatOf
  <1>2. [AfterTelemetry(f) EXCEPT !.radios = 1]
        = Rec(PortOf(f), SecretOf(f), RetentionOf(f), ClientsOf(f), IdleOf(f), 1)
    BY DEF AfterTelemetry, Rec
  <1>3. QED
    BY <1>1, <1>2 DEF AfterTelemetry

\* channels: an entry without model fails the load, a radio is counted.
LEMMA ChannelsStep ==
    ASSUME IInv, ~HasHuge(file), ParseChannels
    PROVE  StageOK(file, stage', cfg')
  <1>1. /\ stage = "channels" /\ file \in Files
        /\ SystemOK(file) /\ TimingOK(file) /\ TelemetryOK(file)
        /\ cfg = AfterTelemetry(file)
    BY DEF ParseChannels, IInv, LoadInv, StageOK
  <1>2. CASE file.channel = "no_model"
    <2>1. stage' = "failed"
      BY <1>2 DEF ParseChannels
    <2>2. QED
      BY <1>2, <2>1, WellFormedBySection DEF StageOK
  <1>3. CASE file.channel # "no_model"
    <2>1. stage' = "done"
          /\ cfg' = IF file.channel = "radio" THEN [cfg EXCEPT !.radios = 1] ELSE cfg
      BY <1>3 DEF ParseChannels
    <2>2. WellFormed(file)
      BY <1>1, <1>3, WellFormedBySection
    <2>3. cfg' = Expected(file)
      BY <1>1, <1>3, <2>1, ExpectedAfterTelemetry
    <2>4. QED
      BY <2>1, <2>2, <2>3 DEF StageOK
  <1>4. QED
    BY <1>2, <1>3

-----------------------------------------------------------------------------
\* Every step of the load keeps the inductive invariant.
LEMMA NextIInv == IInv /\ [Next]_vars => IInv'
  <1> SUFFICES ASSUME IInv, [Next]_vars PROVE IInv'
    OBVIOUS
  <1>1. file' = file /\ file' \in Files
    BY DEF Next, ParseSystem, ParseAuth, ParseTiming, ParseTelemetry, ParseChannels,
           Returned, vars, IInv
  <1>2. stage' \in Stages
    BY DEF Next, ParseSystem, ParseAuth, ParseTiming, ParseTelemetry, ParseChannels,
           Returned, vars, IInv, Stages
  <1>3. LoadInv'
    <2> SUFFICES ASSUME ~HasHuge(file) PROVE StageOK(file, stage', cfg')
      BY <1>1 DEF LoadInv
    <2>1. CASE ParseSystem
      BY <2>1, SystemStep
    <2>2. CASE ParseAuth
      BY <2>2, AuthStep
    <2>3. CASE ParseTiming
      BY <2>3, TimingStep
    <2>4. CASE ParseTelemetry
      BY <2>4, TelemetryStep
    <2>5. CASE ParseChannels
      BY <2>5, ChannelsStep
    <2>6. CASE Returned \/ UNCHANGED vars
      BY <2>6 DEF Returned, vars, IInv, LoadInv
    <2>7. QED
      BY <2>1, <2>2, <2>3, <2>4, <2>5, <2>6 DEF Next
  <1>4. QED
    BY <1>1, <1>2, <1>3 DEF IInv

\* At the end of a load, StageOK is LoadFollowsFile.
LEMMA IInvLoadFollowsFile == IInv => LoadFollowsFile
  <1> SUFFICES ASSUME IInv, stage \in {"done", "failed"}, ~HasHuge(file)
               PROVE  LoadFollowsFile
    BY DEF LoadFollowsFile
  <1>1. StageOK(file, stage, cfg)
    BY DEF IInv, LoadInv
  <1>2. WellFormed(file) \in BOOLEAN
    BY DEF WellFormed
  <1>3. CASE stage = "done"
    <2>1. WellFormed(file) /\ cfg = Expected(file)
      BY <1>1, <1>3 DEF StageOK
    <2>2. QED
      BY <1>2, <1>3, <2>1 DEF LoadFollowsFile
  <1>4. CASE stage = "failed"
    <2>1. stage # "done" /\ ~WellFormed(file)
      BY <1>1, <1>4 DEF StageOK
    <2>2. QED
      BY <1>2, <2>1 DEF LoadFollowsFile
  <1>5. QED
    BY <1>3, <1>4

\* loadFromFile (config_manager.cpp) returns true exactly for a well-formed
\* file, and then holds the configuration the file describes; it returns
\* false when a key does not convert.  This holds for every set of ports,
\* secrets and duration numbers; a fraction of a unit is dropped.
THEOREM LoadCorrect == Spec => []LoadFollowsFile
  <1>1. IInv /\ [Next]_vars => IInv'
    BY NextIInv
  <1>2. QED
    BY <1>1, InitIInv, IInvLoadFollowsFile, PTL DEF Spec

=============================================================================
