---------------------------- MODULE CassetteStore ---------------------------
(***************************************************************************)
(* The filesystem cassette store (FilesystemCassetteStore) of record mode: *)
(* a cassette in memory, mirrored to one file by writing a sibling         *)
(* temporary file and renaming it over the cassette after each append.     *)
(*                                                                         *)
(* Every system call is a step that may fail, the process may be killed    *)
(* between any two of them and started again, and the machine may lose     *)
(* power.  A file's content is a sequence of interactions, or Torn: bytes  *)
(* that do not decode as a cassette (an empty or half-written file).       *)
(***************************************************************************)
EXTENDS Naturals, Sequences, SequencesExt

CONSTANTS
  Interactions,    \* the interactions a session may append, each once
  MaxRestarts,     \* bound on process kills
  MaxPowerLosses,  \* bound on power failures
  Absent,          \* the content of a name that refers to no file
  Torn,            \* the content of a file that does not decode
  NotOpen          \* the memory of a store that is not open

ASSUME BoundsAssumption == MaxRestarts \in Nat /\ MaxPowerLosses \in Nat

ASSUME ContentsAssumption ==
  /\ Absent # Torn
  /\ {Absent, Torn, NotOpen} \cap Seq(Interactions) = {}

VARIABLES
  file,        \* what the cassette's name refers to
  temp,        \* what the temporary name refers to
  tempSynced,  \* sync_all succeeded on the temporary file
  survivors,   \* the contents a power failure may leave under the name
  memory,      \* the in-memory cassette, NotOpen when no store is open
  pc,          \* the system call the open store makes next
  purpose,     \* what the running flush is for
  submitted,   \* interactions handed to append so far
  acked,       \* those whose append returned Ok, in order
  refused,     \* those whose append returned Err
  restarts, powerLosses

diskVars == <<file, temp, tempSynced, survivors>>
historyVars == <<submitted, acked, refused>>
boundVars == <<restarts, powerLosses>>
vars == <<diskVars, memory, pc, purpose, historyVars, boundVars>>

Readable(content) == content \notin {Absent, Torn}
LogOf(content) == IF Readable(content) THEN content ELSE <<>>
Held(content) == ToSet(LogOf(content))

Init ==
  /\ file = Absent /\ temp = Absent /\ tempSynced = FALSE
  /\ survivors = {Absent}
  /\ memory = NotOpen /\ pc = "closed" /\ purpose = "none"
  /\ submitted = {} /\ acked = <<>> /\ refused = {}
  /\ restarts = 0 /\ powerLosses = 0

-----------------------------------------------------------------------------
(* Opening.  A missing cassette is created by a flush of an empty one; one *)
(* that does not decode is an error and nothing is opened.  The start-up   *)
(* probe opens the same way and then flushes what it opened, so a missing  *)
(* cassette is flushed twice: "seed" is the first of the two.              *)
(* Mutant: the probe writes an empty cassette over an existing one.        *)
ProbeWithEmptyCassette(why) ==
  /\ pc = "closed"
  /\ file # Torn
  /\ memory' = IF file = Absent \/ why = "probe" THEN <<>> ELSE file
  /\ IF file # Absent /\ why = "open"
     THEN pc' = "idle" /\ purpose' = "none"
     ELSE pc' = "create" /\ purpose' = IF file = Absent /\ why = "probe" THEN "seed" ELSE why
  /\ UNCHANGED <<diskVars, historyVars, boundVars>>

OpenOrCreateForRecord(why) ==
  /\ pc = "closed"
  /\ file # Torn
  /\ memory' = IF file = Absent THEN <<>> ELSE file
  /\ IF file # Absent /\ why = "open"
     THEN pc' = "idle" /\ purpose' = "none"
     ELSE pc' = "create" /\ purpose' = IF file = Absent /\ why = "probe" THEN "seed" ELSE why
  /\ UNCHANGED <<diskVars, historyVars, boundVars>>

Open == OpenOrCreateForRecord("open")
ProbeRecordWriteAccess == OpenOrCreateForRecord("probe")

(* append: push in memory, then flush. *)
AppendInteraction(x) ==
  /\ pc = "idle"
  /\ x \notin submitted
  /\ memory' = Append(memory, x)
  /\ submitted' = submitted \cup {x}
  /\ pc' = "create" /\ purpose' = "append"
  /\ UNCHANGED <<diskVars, acked, refused, boundVars>>

-----------------------------------------------------------------------------
(* Mutant: a failed append is not rolled back in memory. *)
FlushFailsWithoutPop ==
  /\ purpose' = "none"
  /\ IF purpose = "append"
     THEN refused' = refused \cup {Last(memory)} /\ pc' = "idle" /\ UNCHANGED memory
     ELSE memory' = NotOpen /\ pc' = "closed" /\ UNCHANGED refused
  /\ UNCHANGED <<submitted, acked, boundVars>>

(* The end of a flush.  An append that fails pops what it pushed; a failed *)
(* open or probe drops the store, and so does a probe that succeeds.       *)
FlushFails ==
  /\ purpose' = "none"
  /\ IF purpose = "append"
     THEN /\ memory' = Front(memory)
          /\ refused' = refused \cup {Last(memory)}
          /\ pc' = "idle"
     ELSE memory' = NotOpen /\ pc' = "closed" /\ UNCHANGED refused
  /\ UNCHANGED <<submitted, acked, boundVars>>

FlushSucceeds ==
  /\ pc = "renamed"
  /\ purpose' = IF purpose = "seed" THEN "probe" ELSE "none"
  /\ pc' = CASE purpose = "seed" -> "create"
              [] purpose = "probe" -> "closed"
              [] OTHER -> "idle"
  /\ memory' = IF purpose = "probe" THEN NotOpen ELSE memory
  /\ acked' = IF purpose = "append" THEN Append(acked, Last(memory)) ELSE acked
  /\ UNCHANGED <<diskVars, submitted, refused, boundVars>>

Proceed(here, there) ==
  /\ pc = here
  /\ pc' = there
  /\ UNCHANGED <<memory, purpose, historyVars, boundVars>>

(* create(temp) truncates a leftover one; permissions are copied when the  *)
(* cassette's metadata can be read.                                        *)
CreateTemp ==
  /\ temp' = Torn /\ tempSynced' = FALSE
  /\ \/ Proceed("create", "write")
     \/ file # Absent /\ Proceed("create", "permissions")
  /\ UNCHANGED <<file, survivors>>

CreateTempFails ==
  /\ pc = "create" /\ FlushFails
  /\ UNCHANGED diskVars

SetPermissions ==
  /\ Proceed("permissions", "write")
  /\ UNCHANGED diskVars

(* The early return of set_permissions leaves the temporary file behind.   *)
SetPermissionsFails ==
  /\ pc = "permissions" /\ FlushFails
  /\ UNCHANGED diskVars

WriteTemp ==
  /\ temp' = memory
  /\ Proceed("write", "sync")
  /\ UNCHANGED <<file, tempSynced, survivors>>

(* Mutant: the temporary file is renamed without sync_all. *)
SkipSync ==
  /\ Proceed("sync", "rename")
  /\ UNCHANGED diskVars

SyncTemp ==
  /\ tempSynced' = TRUE
  /\ Proceed("sync", "rename")
  /\ UNCHANGED <<file, temp, survivors>>

(* A failed write or sync removes the temporary file, if removing works.   *)
WriteOrSyncFails ==
  /\ pc \in {"write", "sync"} /\ FlushFails
  /\ temp' \in {Absent, Torn, temp}
  /\ UNCHANGED <<file, tempSynced, survivors>>

(* The directory is not synced, so after a power failure the name may      *)
(* still refer to any earlier version; and to garbage, were the temporary  *)
(* file renamed before its bytes are on the disk.                          *)
RenameTemp ==
  /\ file' = temp /\ temp' = Absent
  /\ survivors' = survivors \cup {temp, IF tempSynced THEN temp ELSE Torn}
  /\ Proceed("rename", "renamed")
  /\ UNCHANGED tempSynced

(* Mutant: a failed rename goes unnoticed. *)
RenameFailureIgnored ==
  /\ Proceed("rename", "renamed")
  /\ UNCHANGED diskVars

RenameFails ==
  /\ pc = "rename" /\ FlushFails
  /\ UNCHANGED diskVars

-----------------------------------------------------------------------------
(* The process is killed: memory goes, files stay. *)
Kill ==
  /\ pc # "closed" /\ restarts < MaxRestarts
  /\ restarts' = restarts + 1
  /\ memory' = NotOpen /\ pc' = "closed" /\ purpose' = "none"
  /\ UNCHANGED <<diskVars, historyVars, powerLosses>>

(* Power fails: the name refers to some version that may have survived.    *)
(* The history acked ends with the last interaction that version holds.    *)
PowerLoss ==
  /\ powerLosses < MaxPowerLosses
  /\ powerLosses' = powerLosses + 1
  /\ memory' = NotOpen /\ pc' = "closed" /\ purpose' = "none"
  /\ file' \in survivors /\ survivors' = {file'}
  /\ temp' \in {Absent, Torn, temp} /\ tempSynced' = FALSE
  /\ \E n \in 0..Len(acked) :
       /\ n > 0 => acked[n] \in Held(file')
       /\ \A k \in DOMAIN acked : k > n => acked[k] \notin Held(file')
       /\ acked' = SubSeq(acked, 1, n)
  /\ UNCHANGED <<submitted, refused, restarts>>

FlushStep ==
  \/ CreateTemp \/ CreateTempFails \/ SetPermissions \/ SetPermissionsFails
  \/ WriteTemp \/ SyncTemp \/ WriteOrSyncFails \/ RenameTemp \/ RenameFails
  \/ FlushSucceeds

Next ==
  \/ Open \/ ProbeRecordWriteAccess
  \/ \E x \in Interactions : AppendInteraction(x)
  \/ FlushStep
  \/ Kill \/ PowerLoss

Spec == Init /\ [][Next]_vars

-----------------------------------------------------------------------------
(* The cassette can always be opened again: whatever step fails, whenever  *)
(* the process is killed or power is lost, neither the name nor any        *)
(* version a power failure may bring back is a half-written file.          *)
CassetteNeverTorn == file # Torn /\ Torn \notin survivors

(* An append that fails at any of its system calls leaves no trace: an    *)
(* open store between appends mirrors the file exactly, and what was       *)
(* refused is not in the cassette, nor written to it later by the next     *)
(* append's flush of everything in memory.                                 *)
FailedAppendsAreUndone ==
  /\ pc = "idle" => memory = file
  /\ Held(file) \cap refused = {}

(* What an append acknowledged is in the cassette, once and in the order   *)
(* it was acknowledged, through every process kill, failed append and probe. *)
AckedInteractionsKept ==
  /\ ToSet(acked) \subseteq Held(file)
  /\ \A j, k \in DOMAIN acked : \A m, n \in DOMAIN LogOf(file) :
       LogOf(file)[m] = acked[j] /\ LogOf(file)[n] = acked[k] => (m < n <=> j < k)

(* The store implements the abstract log: a renamed file is a persisted    *)
(* interaction, a successful append its acknowledgement.                   *)
Log == INSTANCE CassetteLog WITH log <- LogOf(file)

ImplementsLog == Log!Spec
=============================================================================
