-------------------------- MODULE ReplayEngineCalls -------------------------
(***************************************************************************)
(* The matching engine under one caller that mixes its three operations    *)
(* freely: next_match, peek_match, and commit_match of the last match it   *)
(* peeked, however many calls ago that was and however often it commits.   *)
(***************************************************************************)
EXTENDS ReplayEngine, Sequences

VARIABLES
  peeked,   \* the last position peek_match returned, or -1
  handed    \* the positions handed out, in order

vars == <<engineVars, peeked, handed>>

Init ==
  /\ EngineInit
  /\ EveryInteractionHashed
  /\ peeked = -1
  /\ handed = <<>>

CallNext(h) ==
  /\ NextMatch(h)
  /\ handed' = IF IsMatch(PeekMatch(h)) THEN Append(handed, PeekMatch(h).at) ELSE handed
  /\ UNCHANGED peeked

CallPeek(h) ==
  /\ IsMatch(PeekMatch(h))
  /\ peeked' = PeekMatch(h).at
  /\ UNCHANGED <<engineVars, handed>>

CallCommit ==
  /\ CommitMatch(peeked)
  /\ handed' = IF CanCommit(peeked) THEN Append(handed, peeked) ELSE handed
  /\ UNCHANGED peeked

Next == CallCommit \/ \E h \in Hashes : CallNext(h) \/ CallPeek(h)

Spec == Init /\ [][Next]_vars

-----------------------------------------------------------------------------
HandedOut == {handed[k] : k \in 1..Len(handed)}

(* However the calls are mixed, and however stale the peek a commit acts   *)
(* on, no interaction is handed out twice and the engine has consumed what *)
(* it handed out, no more and no less.                                     *)
NothingHandedOutTwice ==
  /\ Len(handed) = Cardinality(HandedOut)
  /\ HandedOut = Replayed

(* In sequential-strict mode the interactions are handed out as recorded,  *)
(* without a gap: a stale commit cannot skip the cursor past one.          *)
StrictOrderHasNoGaps ==
  mode = "SequentialStrict" => \A k \in 1..Len(handed) : handed[k] = k - 1
=============================================================================
