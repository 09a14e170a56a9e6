--------------------------- MODULE MC_RadioFleet ---------------------------
(***************************************************************************)
(* A small fleet for TLC: two Silvus radios, one entry of an adapter type  *)
(* load_from_config does not support, a duplicated id, two callers.        *)
(***************************************************************************)
EXTENDS RadioFleet

CONSTANTS r1, r2, r3

\* r3 uses an unsupported adapter type and is skipped; r1 appears twice.
MCConfigRadios ==
    << [id |-> r1, adapter |-> "silvus"],
       [id |-> r2, adapter |-> "silvus"],
       [id |-> r3, adapter |-> "harris"],
       [id |-> r1, adapter |-> "silvus"] >>

\* set_power(2.0) and set_power(7.0), in tenths of a watt.
MCPowerInputs == {20, 70}
=============================================================================
