-------------------------- MODULE MCRemoteSession --------------------------
(***************************************************************************)
(* Two panes of one remote session.                                        *)
(***************************************************************************)
EXTENDS RemoteSession
=============================================================================
