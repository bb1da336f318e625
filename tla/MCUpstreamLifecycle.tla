------------------------- MODULE MCUpstreamLifecycle -------------------------
(* Instances of UpstreamLifecycle for TLC. *)
EXTENDS UpstreamLifecycle
=============================================================================
