----------------------------- MODULE MCLocalBus -----------------------------
(***************************************************************************)
(* LocalBus for a few calls and handlers.                                  *)
(***************************************************************************)
EXTENDS LocalBus
=============================================================================
