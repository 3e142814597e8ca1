-------------------------- MODULE MCCominRollout --------------------------
(* One canary, one server and one agent, control plane first. *)
EXTENDS CominRollout

MCCanaryRing == <<"node05">>
MCOrder == <<"server01", "node01">>
=============================================================================
