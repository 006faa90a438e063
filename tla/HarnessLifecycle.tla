-------------------------- MODULE HarnessLifecycle --------------------------
(***************************************************************************)
(* Harnesses that are started and shut down over one cassette path: the    *)
(* order of start-up (validate, prepare the cassette, open it for the      *)
(* server, bind), what a failed start leaves behind, and what the stores   *)
(* of several harnesses do to one file.                                    *)
(*                                                                         *)
(* All stores of a path share one temporary name, so names and files are   *)
(* told apart: a name refers to a file (an inode), and a store that has    *)
(* created the temporary file goes on writing to that file, whatever its   *)
(* name has become.                                                        *)
(***************************************************************************)
EXTENDS Naturals, Sequences, SequencesExt, FiniteSets

CONSTANTS
  Harnesses,
  Configs,       \* the configurations to start them with, see Config
  Interactions,  \* what clients have recorded, each once
  OldSession,    \* an interaction an earlier session left in the cassette
  HandOver,      \* when a recorder is started, see MayStart
  Empty, Torn    \* contents that do not decode: no bytes, other bytes

ASSUME HarnessesAssumption == IsFiniteSet(Harnesses)
ASSUME HandOverAssumption == HandOver \in {"quiet", "afterShutdown"}
ASSUME InteractionsAssumption == OldSession \notin Interactions
ASSUME ContentsAssumption ==
  {Empty, Torn} \cap Seq(Interactions \cup {OldSession}) = {}

Inodes == 1..(Cardinality(Harnesses) + 2)
NoFile == 0

(* "valid" is the outcome of validate_config; "addr" the listen address.   *)
Config(addresses) ==
  [mode : {"Record", "Replay", "Verify"}, valid : BOOLEAN, addr : addresses]

VARIABLES
  config,      \* of each harness
  phase,       \* where its start_harness, or its life after it, is
  memory,      \* its in-memory cassette
  io,          \* the system call its running flush makes next
  flushes,     \* the flushes it still has to make in this phase
  fd,          \* the temporary file it has open
  clientGone,  \* the client whose exchange is being appended went away
  orphans,     \* appends whose client went away before they had the store
  cassetteAt,  \* the file the cassette's name refers to
  tempAt,      \* the file the temporary name refers to
  content,     \* of every file
  submitted,   \* interactions handed to an append
  acked        \* interactions whose append returned Ok, in order

diskVars == <<cassetteAt, tempAt, content>>
historyVars == <<submitted, acked>>
flushVars == <<io, flushes, fd>>
clientVars == <<clientGone, orphans>>
vars == <<config, phase, memory, flushVars, clientVars, diskVars, historyVars>>

CassetteFile == IF cassetteAt = NoFile THEN Empty ELSE content[cassetteAt]
Readable(bytes) == bytes \notin {Empty, Torn}

(* No cassette yet, one of an earlier session, or a file that is none.     *)
LifecycleInit ==
  /\ phase = [h \in Harnesses |-> "off"]
  /\ memory = [h \in Harnesses |-> <<>>]
  /\ io = [h \in Harnesses |-> "idle"]
  /\ flushes = [h \in Harnesses |-> 0]
  /\ fd = [h \in Harnesses |-> NoFile]
  /\ clientGone = [h \in Harnesses |-> FALSE]
  /\ orphans = [h \in Harnesses |-> {}]
  /\ tempAt = NoFile
  /\ \/ cassetteAt = NoFile /\ content = [i \in Inodes |-> Empty] /\ acked = <<>>
     \/ /\ cassetteAt = 1
        /\ \E old \in {Torn, <<OldSession>>} :
             /\ content = [i \in Inodes |-> IF i = 1 THEN old ELSE Empty]
             /\ acked = IF old = Torn THEN <<>> ELSE old
  /\ submitted = {}

Init == config \in [Harnesses -> Configs] /\ LifecycleInit

Records(h) == config[h].mode = "Record"

-----------------------------------------------------------------------------
(* Who may be started when is up to the caller.  Recorders of one path     *)
(* come one after the other, the next when the last has been shut down; in *)
(* "quiet" use no append of a client that went away goes on or waits.      *)
Over(g) ==
  /\ phase[g] \in {"off", "failed", "stopped"}
  /\ HandOver = "quiet" => io[g] = "idle" /\ orphans[g] = {}

MayStart(h) ==
  \/ ~Records(h)
  \/ \A g \in Harnesses : Records(g) => Over(g)

Goes(h, to) == phase' = [phase EXCEPT ![h] = to]

StartHarness(h) ==
  /\ phase[h] = "off"
  /\ MayStart(h)
  /\ Goes(h, IF config[h].valid THEN "prepare" ELSE "failed")
  /\ UNCHANGED <<config, memory, flushVars, clientVars, diskVars, historyVars>>

(* The phases of a recorder's start-up. *)
Following(p) ==
  CASE p = "prepare" -> "probe" [] p = "probe" -> "server" [] p = "server" -> "bind"
    [] OTHER -> p

StartingUp(h) == phase[h] \in {"prepare", "probe", "server"}

(* Mutant: an existing cassette is opened as a new one. *)
OpenAsNew(h) ==
  /\ Records(h) /\ StartingUp(h) /\ io[h] = "idle"
  /\ memory' = [memory EXCEPT ![h] = <<>>]
  /\ io' = [io EXCEPT ![h] = "create"]
  /\ flushes' = [flushes EXCEPT ![h] = IF phase[h] = "probe" THEN 2 ELSE 1]
  /\ UNCHANGED <<config, phase, fd, clientVars, diskVars, historyVars>>

(* open_or_create_for_record: in prepare_cassette, in the write probe and  *)
(* for the server.  A new cassette is flushed; the probe flushes always.   *)
(* The file does not decode, or it or its directory cannot be opened or    *)
(* made.                                                                   *)
OpenOrCreateForRecord(h) ==
  /\ Records(h) /\ StartingUp(h) /\ io[h] = "idle"
  /\ \/ Goes(h, "failed")
        /\ UNCHANGED <<memory, io, flushes>>
     \/ LET isNew == cassetteAt = NoFile
            due   == (IF isNew THEN 1 ELSE 0) + (IF phase[h] = "probe" THEN 1 ELSE 0)
        IN  /\ isNew \/ Readable(CassetteFile)
            /\ memory' = [memory EXCEPT ![h] = IF isNew THEN <<>> ELSE CassetteFile]
            /\ flushes' = [flushes EXCEPT ![h] = due]
            /\ IF due = 0 THEN Goes(h, Following(phase[h])) /\ UNCHANGED io
               ELSE io' = [io EXCEPT ![h] = "create"] /\ UNCHANGED phase
  /\ UNCHANGED <<config, fd, clientVars, diskVars, historyVars>>

(* open_for_replay: once in prepare_cassette and once more for the server. *)
OpenForReplay(h) ==
  /\ ~Records(h) /\ StartingUp(h)
  /\ \/ Goes(h, "failed") /\ UNCHANGED memory
     \/ /\ Readable(CassetteFile)
        /\ Goes(h, IF config[h].mode = "Verify" THEN "failed"
                   ELSE IF phase[h] = "prepare" THEN "server" ELSE "bind")
        /\ memory' = [memory EXCEPT ![h] = CassetteFile]
  /\ UNCHANGED <<config, flushVars, clientVars, diskVars, historyVars>>

-----------------------------------------------------------------------------
Listening(g) == phase[g] \in {"serving", "stopping"}

(* A graceful shutdown drops the listener at some point, before the last   *)
(* connections end.                                                        *)
BindListener(h) ==
  LET others(phases) ==
        {g \in Harnesses : phase[g] \in phases /\ config[g].addr = config[h].addr}
  IN  /\ phase[h] = "bind"
      /\ \/ others({"serving"}) = {} /\ Goes(h, "serving")
         \/ others({"serving", "stopping"}) # {} /\ Goes(h, "failed")
  /\ UNCHANGED <<config, memory, flushVars, clientVars, diskVars, historyVars>>

(* The upstream client, or the replay engine, cannot be built. *)
FromConfigFails(h) ==
  /\ phase[h] = "bind"
  /\ Goes(h, "failed")
  /\ UNCHANGED <<config, memory, flushVars, clientVars, diskVars, historyVars>>

(* shutdown signals the serving task and waits until its connections end.  *)
(* An append is waited for only while its client waits too.                *)
Shutdown(h) ==
  /\ phase[h] = "serving"
  /\ Goes(h, "stopping")
  /\ UNCHANGED <<config, memory, flushVars, clientVars, diskVars, historyVars>>

ServerStops(h) ==
  /\ phase[h] = "stopping"
  /\ io[h] = "idle" \/ clientGone[h]
  /\ Goes(h, "stopped")
  /\ UNCHANGED <<config, memory, flushVars, clientVars, diskVars, historyVars>>

TakesStore(h, x) ==
  /\ Records(h) /\ io[h] = "idle"
  /\ memory' = [memory EXCEPT ![h] = Append(@, x)]
  /\ io' = [io EXCEPT ![h] = "create"]
  /\ flushes' = [flushes EXCEPT ![h] = 1]
  /\ UNCHANGED <<config, phase, fd, diskVars, acked>>

AppendInteraction(h, x) ==
  /\ Listening(h) /\ x \notin submitted
  /\ TakesStore(h, x)
  /\ submitted' = submitted \cup {x}
  /\ clientGone' = [clientGone EXCEPT ![h] = FALSE]
  /\ UNCHANGED orphans

(* A client leaves while its append, on the blocking pool, waits for the   *)
(* mutex of the store; it gets it even after the server has stopped.       *)
LeaveBeforeAppend(h, x) ==
  /\ Records(h) /\ Listening(h) /\ x \notin submitted
  /\ submitted' = submitted \cup {x}
  /\ orphans' = [orphans EXCEPT ![h] = @ \cup {x}]
  /\ UNCHANGED <<config, phase, memory, flushVars, clientGone, diskVars, acked>>

AppendOrphan(h, x) ==
  /\ x \in orphans[h]
  /\ TakesStore(h, x)
  /\ orphans' = [orphans EXCEPT ![h] = @ \ {x}]
  /\ clientGone' = [clientGone EXCEPT ![h] = TRUE]
  /\ UNCHANGED submitted

Disconnect(h) ==
  /\ Listening(h) /\ io[h] # "idle" /\ ~clientGone[h]
  /\ clientGone' = [clientGone EXCEPT ![h] = TRUE]
  /\ UNCHANGED <<config, phase, memory, flushVars, orphans, diskVars, historyVars>>

-----------------------------------------------------------------------------
InUse == {cassetteAt, tempAt} \cup {fd[h] : h \in Harnesses}

(* Mutant: an existing cassette is rewritten in place. *)
CreateInPlace(h) ==
  LET file == IF cassetteAt # NoFile THEN cassetteAt ELSE 1
  IN  /\ io[h] = "create"
      /\ tempAt' = file
      /\ fd' = [fd EXCEPT ![h] = file]
      /\ content' = [content EXCEPT ![file] = Empty]
      /\ io' = [io EXCEPT ![h] = "write"]
      /\ UNCHANGED <<config, phase, memory, flushes, clientVars, cassetteAt, historyVars>>

(* A flush: the temporary file is created or an existing one truncated.    *)
CreateTemp(h) ==
  LET file == IF tempAt # NoFile THEN tempAt
              ELSE CHOOSE i \in Inodes \ InUse : \A j \in Inodes \ InUse : i <= j
  IN  /\ io[h] = "create"
      /\ tempAt' = file
      /\ fd' = [fd EXCEPT ![h] = file]
      /\ content' = [content EXCEPT ![file] = Empty]
      /\ io' = [io EXCEPT ![h] = "write"]
      /\ UNCHANGED <<config, phase, memory, flushes, clientVars, cassetteAt, historyVars>>

(* Writing starts at the beginning of the file; bytes another store wrote  *)
(* there are overwritten as far as the new ones reach.                     *)
Overwritten(old, new) ==
  IF old = Empty THEN {new}
  ELSE IF old = Torn THEN {new, Torn}
  ELSE IF IsPrefix(old, new) THEN {new}
  ELSE IF IsPrefix(new, old) THEN {Torn}
  ELSE {new, Torn}

WriteTemp(h) ==
  /\ io[h] = "write"
  /\ \E bytes \in Overwritten(content[fd[h]], memory[h]) :
       content' = [content EXCEPT ![fd[h]] = bytes]
  /\ io' = [io EXCEPT ![h] = "rename"]
  /\ UNCHANGED <<config, phase, memory, flushes, fd, clientVars, cassetteAt, tempAt,
                 historyVars>>

FlushDone(h) ==
  /\ flushes' = [flushes EXCEPT ![h] = @ - 1]
  /\ io' = [io EXCEPT ![h] = IF flushes[h] = 2 THEN "create" ELSE "idle"]
  /\ fd' = [fd EXCEPT ![h] = NoFile]
  /\ IF flushes[h] = 2 THEN UNCHANGED phase ELSE Goes(h, Following(phase[h]))
  /\ acked' = IF StartingUp(h) THEN acked ELSE Append(acked, Last(memory[h]))
  /\ UNCHANGED <<config, memory, clientVars, submitted>>

RenameTemp(h) ==
  /\ io[h] = "rename" /\ tempAt # NoFile
  /\ cassetteAt' = tempAt /\ tempAt' = NoFile
  /\ FlushDone(h)
  /\ UNCHANGED content

(* A failed append pops what it pushed; a failed start drops the store.    *)
FlushFails(h) ==
  /\ flushes' = [flushes EXCEPT ![h] = 0]
  /\ io' = [io EXCEPT ![h] = "idle"]
  /\ fd' = [fd EXCEPT ![h] = NoFile]
  /\ IF StartingUp(h) THEN Goes(h, "failed") /\ UNCHANGED memory
     ELSE memory' = [memory EXCEPT ![h] = Front(@)] /\ UNCHANGED phase
  /\ UNCHANGED <<config, clientVars, historyVars>>

CreateFails(h) == io[h] = "create" /\ FlushFails(h) /\ UNCHANGED diskVars

(* Mutant: the flush reports success although nothing was written. *)
WriteFailureIgnored(h) ==
  /\ io[h] = "write"
  /\ tempAt' = NoFile
  /\ FlushDone(h)
  /\ UNCHANGED <<cassetteAt, content>>

(* A failed write removes whatever has the temporary name by then. *)
WriteFails(h) ==
  /\ io[h] = "write"
  /\ tempAt' = NoFile
  /\ content' = [content EXCEPT ![fd[h]] = IF fd[h] = cassetteAt THEN Torn ELSE Empty]
  /\ FlushFails(h)
  /\ UNCHANGED cassetteAt

(* Among other reasons, another store has renamed the temporary file. *)
RenameFails(h) ==
  /\ io[h] = "rename"
  /\ FlushFails(h)
  /\ UNCHANGED diskVars

FlushStep(h) ==
  \/ CreateTemp(h) \/ CreateFails(h) \/ WriteTemp(h) \/ WriteFails(h)
  \/ RenameTemp(h) \/ RenameFails(h)

HarnessStep(h) ==
  \/ StartHarness(h) \/ OpenOrCreateForRecord(h) \/ OpenForReplay(h)
  \/ FromConfigFails(h) \/ BindListener(h) \/ Shutdown(h) \/ ServerStops(h)
  \/ \E x \in Interactions :
       AppendInteraction(h, x) \/ LeaveBeforeAppend(h, x) \/ AppendOrphan(h, x)
  \/ Disconnect(h) \/ FlushStep(h)

Next == \E h \in Harnesses : HarnessStep(h)

Spec == Init /\ [][Next]_vars

-----------------------------------------------------------------------------
(* What any session was told is recorded is in the cassette, in order,     *)
(* through every later start on its path that fails at validation, while   *)
(* opening, probing or binding, and through every shutdown.                *)
AckedInteractionsStay ==
  acked # <<>> =>
    /\ Readable(CassetteFile)
    /\ ToSet(acked) \subseteq ToSet(CassetteFile)
    /\ \A j, k \in DOMAIN acked : \A m, n \in DOMAIN CassetteFile :
         CassetteFile[m] = acked[j] /\ CassetteFile[n] = acked[k] => (m < n <=> j < k)

(* "The record-mode cassette store only appends new interactions to the    *)
(* logical end of the session and never reorders or mutates earlier        *)
(* interactions": the cassette a name refers to is only ever extended.     *)
CassetteOnlyGrows ==
  [][LET old == CassetteFile IN
     Readable(old) => Readable(CassetteFile') /\ IsPrefix(old, CassetteFile')]_vars

(* A replay harness serves a beginning of the cassette, although a         *)
(* recorder may rewrite the file between and after its two readings.       *)
ReplayServesAPrefix ==
  \A h \in Harnesses :
    ~Records(h) /\ Listening(h) =>
      Readable(CassetteFile) /\ IsPrefix(memory[h], CassetteFile)
=============================================================================
