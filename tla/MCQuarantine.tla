---------------------------- MODULE MCQuarantine ----------------------------
(* The instances of Quarantine are all in the cfg files. *)
EXTENDS Quarantine
=============================================================================
