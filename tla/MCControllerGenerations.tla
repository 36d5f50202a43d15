----------------------- MODULE MCControllerGenerations -----------------------
(* Two generations, the second of which replaces the first, and a wrapper  *)
(* more than generations, for an intent that is emitted twice.             *)
EXTENDS ControllerGenerations
=============================================================================
