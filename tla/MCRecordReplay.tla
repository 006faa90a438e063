--------------------------- MODULE MCRecordReplay ---------------------------
(* Three requests; two of them ask the same, and one may be a stream. *)
EXTENDS RecordReplay

CONSTANTS r1, r2, r3, a, b

TwoHashes == [r \in Requests |-> IF r = r3 THEN b ELSE a]
=============================================================================
