----------------------------- MODULE MCRelayer -----------------------------
(* The instance of Relayer for TLC. *)
EXTENDS Relayer, TLC
=============================================================================
