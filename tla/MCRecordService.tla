--------------------------- MODULE MCRecordService --------------------------
(* Three requests, one or two of them streams of at most two chunks. *)
EXTENDS RecordService, TLC

(* Requests of one kind are interchangeable. *)
RequestSymmetry ==
  Permutations(StreamRequests) \cup Permutations(Requests \ StreamRequests)
=============================================================================
