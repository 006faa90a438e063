--------------------------- MODULE MCReplayService --------------------------
(***************************************************************************)
(* A few requests against small cassettes.  Hash "s" belongs to stream     *)
(* requests.  Recorded cassettes pair each hash with the shape recording   *)
(* gives it; edited ones, as a cassette file changed by hand, do not, or   *)
(* lack a stable hash.                                                     *)
(***************************************************************************)
EXTENDS ReplayService, Sequences, TLC

Entry(h) == [hash |-> h, shape |-> IF h \in StreamHashes THEN "Stream" ELSE "NonStream"]

RecordedCassettes(n) == [0..(n - 1) -> {Entry(h) : h \in Hashes}]

Edited(shape, h) == [hash |-> h, shape |-> shape]

From(seq) == [i \in 0..(Len(seq) - 1) |-> seq[i + 1]]

(* A stream hash recorded without a stream, and an unhashed interaction.   *)
EditedCassettes ==
  LET n == Edited("NonStream", CHOOSE h \in StreamHashes : TRUE)
      t == Edited("Stream", CHOOSE h \in StreamHashes : TRUE)
      p == Edited("Stream", CHOOSE h \in Hashes \ StreamHashes : TRUE)
  IN  {From(<<n, t>>), From(<<t, n>>), From(<<p, n, p>>), From(<<t, n, t>>),
       From(<<p, Edited("Stream", NoHash)>>)}

SmallCassettes == UNION {RecordedCassettes(n) : n \in 0..3} \cup EditedCassettes

RequestSymmetry == Permutations(Requests)
=============================================================================
