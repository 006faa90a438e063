----------------------------- MODULE CassetteLog ----------------------------
(***************************************************************************)
(* What a record-mode cassette promises: a log that only grows at its end, *)
(* one interaction at a time, and an acknowledgement that is given only    *)
(* for an interaction already in the log.  A power failure may take the    *)
(* log back to an earlier version of itself, never to anything else.       *)
(***************************************************************************)
EXTENDS Sequences, SequencesExt

CONSTANT Interactions

VARIABLES
  log,     \* the interactions in the cassette
  acked    \* the interactions whose append returned Ok, in order

logVars == <<log, acked>>

Holds(x) == x \in ToSet(log)

Init == log = <<>> /\ acked = <<>>

Persist(x) ==
  /\ ~Holds(x)
  /\ log' = Append(log, x)
  /\ UNCHANGED acked

Acknowledge(x) ==
  /\ Holds(x) /\ x \notin ToSet(acked)
  /\ acked' = Append(acked, x)
  /\ UNCHANGED log

(* What stays acknowledged is what the earlier version holds. *)
FallBack ==
  \E earlier \in Prefixes(log), kept \in Prefixes(acked) :
    /\ ToSet(kept) = ToSet(acked) \cap ToSet(earlier)
    /\ log' = earlier /\ acked' = kept

Next ==
  \/ \E x \in Interactions : Persist(x) \/ Acknowledge(x)
  \/ FallBack

Spec == Init /\ [][Next]_logVars
=============================================================================
