-------------------------- MODULE MCStreamRecorder --------------------------
(* Every stream of a few tokens, cut into chunks of one or two. *)
EXTENDS StreamRecorder
=============================================================================
