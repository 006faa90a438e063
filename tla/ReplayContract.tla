--------------------------- MODULE ReplayContract ---------------------------
(***************************************************************************)
(* What replay promises its clients, with no engine, lock or counter: a    *)
(* cassette is a stock of recordings, every request is answered in one     *)
(* step, and an answer is taken from the stock by the request it answers.  *)
(* In sequential-strict mode only the oldest remaining recording may be    *)
(* taken; in keyed mode the oldest one with the request's hash.            *)
(***************************************************************************)
EXTENDS Integers

CONSTANTS
  Requests,       \* the requests of one replay session
  Hashes,         \* the stable hashes a request may have
  StreamHashes,   \* the hashes of requests that ask for a stream
  MalformedBody,  \* a body that is not JSON, so has no hash to match by
  Cassettes,
  NoHash

VARIABLES
  recorded,    \* the cassette
  ordered,     \* TRUE in sequential-strict mode
  asked,       \* what each request carries: its hash, or MalformedBody
  remaining,   \* positions not replayed yet
  answer       \* Requests -> Unanswered, Refused or a position

contractVars == <<recorded, ordered, asked, remaining, answer>>

Unanswered == -1
Refused == -2

(* The recording a request with hash h may be answered from, if any. *)
Offered(h) ==
  {i \in remaining :
     /\ recorded[i].hash = h
     /\ \A j \in remaining :
          ordered \/ recorded[j].hash = h => i <= j}

(* A stream request is answered only from a recorded stream. *)
Playable(i, h) == h \in StreamHashes => recorded[i].shape = "Stream"

Answerable(r) == {i \in Offered(asked[r]) : Playable(i, asked[r])}

Init ==
  /\ recorded \in Cassettes
  /\ ordered \in BOOLEAN
  /\ asked \in [Requests -> Hashes \cup {MalformedBody}]
  /\ remaining = DOMAIN recorded
  /\ answer = [r \in Requests |-> Unanswered]

Replay(r) ==
  /\ answer[r] = Unanswered
  /\ \E i \in Answerable(r) :
       /\ remaining' = remaining \ {i}
       /\ answer' = [answer EXCEPT ![r] = i]
  /\ UNCHANGED <<recorded, ordered, asked>>

(* A refusal is allowed exactly when nothing can be played for the request *)
(* at that moment, and it leaves the stock alone.                          *)
Refuse(r) ==
  /\ answer[r] = Unanswered
  /\ Answerable(r) = {}
  /\ answer' = [answer EXCEPT ![r] = Refused]
  /\ UNCHANGED <<recorded, ordered, asked, remaining>>

Next == \E r \in Requests : Replay(r) \/ Refuse(r)

Spec == Init /\ [][Next]_contractVars
=============================================================================
