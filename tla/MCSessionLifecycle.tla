------------------------ MODULE MCSessionLifecycle --------------------------
(* SessionLifecycle with model-value callers, for TLC. *)
EXTENDS SessionLifecycle
=============================================================================
