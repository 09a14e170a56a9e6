---------------------------- MODULE MC_ConfigLoad ----------------------------
(***************************************************************************)
(* ConfigLoad on small files: one whole duration number (30, in tenths     *)
(* 300) and one fractional one (1.5) under every suffix, NaN and Huge; a   *)
(* port in and one out of uint16 range; one configured secret.             *)
(***************************************************************************)
EXTENDS ConfigLoad

MCPorts == {9000, 70000}

MCSecrets == {"k1"}

=============================================================================
