---------------------------- MODULE MCLlmStreams ----------------------------
(***************************************************************************)
(* One streamed answer over the model server.                              *)
(***************************************************************************)
EXTENDS LlmStreams

CONSTANTS p1, p2, d1, s1
=============================================================================
