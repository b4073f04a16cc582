-------------------------- MODULE MCDiscoveryService --------------------------
(* Small instances of DiscoveryService for TLC. *)
EXTENDS DiscoveryService, TLC

AllStrategies == {"ask_once", "polling", "broadcast"}
===============================================================================
