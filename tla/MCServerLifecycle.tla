-------------------------- MODULE MCServerLifecycle --------------------------
(***************************************************************************)
(* Two processes on one data directory, three handlers, two slots.         *)
(***************************************************************************)
EXTENDS ServerLifecycle
=============================================================================
