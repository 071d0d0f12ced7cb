----------------------------- MODULE MCConfigs ------------------------------
(* Instances of Configs for TLC. *)
EXTENDS Configs
=============================================================================
