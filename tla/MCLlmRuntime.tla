---------------------------- MODULE MCLlmRuntime ----------------------------
(***************************************************************************)
(* The model server under one watchdog task: three process ids name the    *)
(* server an address was left to and the two that overlapping spawns make. *)
(***************************************************************************)
EXTENDS LlmRuntime

CONSTANTS p1, p2, p3, d1
=============================================================================
