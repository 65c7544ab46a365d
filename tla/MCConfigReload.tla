-------------------------- MODULE MCConfigReload --------------------------
(* Small instances of ConfigReload for TLC.                                *)
EXTENDS ConfigReload, TLC

MCHot == {"a", "b"}
MCCold == {"r"}
==========================================================================
