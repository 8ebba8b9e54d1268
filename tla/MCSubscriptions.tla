-------------------------- MODULE MCSubscriptions --------------------------
(***************************************************************************)
(* The instance of Subscriptions for TLC.                                  *)
(***************************************************************************)
EXTENDS Subscriptions, TLC
=============================================================================
