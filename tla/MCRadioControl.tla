---------------------------- MODULE MCRadioControl ----------------------------
(* RadioControl for TLC: the instances are in the cfg files. *)
EXTENDS RadioControl
===============================================================================
