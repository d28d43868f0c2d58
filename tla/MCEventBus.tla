----------------------------- MODULE MCEventBus -----------------------------
(* EventBus with a few events and subscriptions. *)
EXTENDS EventBus
=============================================================================
