--------------------------- MODULE MCSkimmerSession ---------------------------
(* SkimmerSession for TLC: the instances are in the cfg files. *)
EXTENDS SkimmerSession
===============================================================================
