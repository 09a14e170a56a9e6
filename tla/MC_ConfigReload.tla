--------------------------- MODULE MC_ConfigReload ---------------------------
(***************************************************************************)
(* ConfigReload for TLC.  Four contents of the configuration file: a full  *)
(* one, one with only the required sections and telemetry, one whose       *)
(* timing section has a non-positive probe interval (parseConfig throws    *)
(* after container, network, telemetry and security have been parsed),    *)
(* and a missing file (loadFromFile throws before parsing).                *)
(***************************************************************************)
EXTENDS ConfigReload

MCFiles == {"full", "minimal", "badTiming", "missing"}

MCLayout ==
    [f \in MCFiles |->
        CASE f = "full"      -> [s \in Sections |-> "ok"]
          [] f = "minimal"   -> [s \in Sections |->
                                   IF s \in {"container", "telemetry", "security"}
                                   THEN "ok" ELSE "absent"]
          [] f = "badTiming" -> [s \in Sections |->
                                   IF s = "timing" THEN "bad"
                                   ELSE IF s = "radios" THEN "absent" ELSE "ok"]
          [] f = "missing"   -> [s \in Sections |-> "absent"]]

=============================================================================
