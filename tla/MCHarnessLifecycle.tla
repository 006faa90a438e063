------------------------- MODULE MCHarnessLifecycle -------------------------
(* Embedded harnesses of any mode on two addresses and one cassette path. *)
EXTENDS HarnessLifecycle

CONSTANTS a1, a2

(* An invalid configuration fails before its mode matters.                 *)
SmallConfigs ==
  {c \in Config({a1, a2}) : ~c.valid => c.mode = "Verify"}
=============================================================================
