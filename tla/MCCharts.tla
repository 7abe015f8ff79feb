------------------------------ MODULE MCCharts ------------------------------
(***************************************************************************)
(* Charts for TLC: what is measured at each time, twice the same and then  *)
(* below zero.                                                             *)
(***************************************************************************)
EXTENDS Charts

Temperatures == [t \in Time |-> IF t = 3 THEN -12 ELSE 215]
=============================================================================
