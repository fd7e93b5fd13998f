--------------------------- MODULE MCAttachFence ---------------------------
(***************************************************************************)
(* AttachFence with one lineage whose attempts overlap on several          *)
(* connections; only what is stale or delayed differs between attempts.    *)
(***************************************************************************)
EXTENDS AttachFence
=============================================================================
