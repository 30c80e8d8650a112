----------------------------- MODULE MCTciClient -----------------------------
(* TciClient for TLC: the constants come from the configuration.             *)
EXTENDS TciClient

ASSUME RoomForRead
==============================================================================
