--------------------------- MODULE MCCassetteStore --------------------------
(* Three appends, two process kills and one power failure, all interleaved. *)
EXTENDS CassetteStore, TLC
=============================================================================
