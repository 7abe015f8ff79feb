---------------------------- MODULE MCAdminPage ----------------------------
(***************************************************************************)
(* The instance of AdminPage that TLC checks.                              *)
(***************************************************************************)
EXTENDS AdminPage

\* What a page may post.
AnyTable == SensorMap
============================================================================
