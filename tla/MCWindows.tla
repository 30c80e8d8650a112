------------------------------- MODULE MCWindows -------------------------------
(* Windows for TLC: the instance is in the cfg file, but for the captures     *)
(* that may be played, which are sequences.                                   *)
EXTENDS Windows

TwoFiles == {<<0, 1, 3>>, <<0, 2>>}
===============================================================================
