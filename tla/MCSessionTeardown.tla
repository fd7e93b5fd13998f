------------------------- MODULE MCSessionTeardown -------------------------
(***************************************************************************)
(* SessionTeardown, two ways: two sessions that are created, exit, and are *)
(* closed with their owner while a drain runs; and one session that        *)
(* clients also use, close and release.                                    *)
(***************************************************************************)
EXTENDS SessionTeardown
=============================================================================
