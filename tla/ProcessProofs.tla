---------------------------- MODULE ProcessProofs ---------------------------
(***************************************************************************)
(* Proofs about processes and embedded harnesses on one cassette path, for *)
(* every session, when recorders hand the path over quietly: acknowledged  *)
(* interactions stay, the cassette is only ever extended, a replayer       *)
(* serves a beginning of it, an exit status tells the truth, and a process *)
(* runs what it was asked to.                                              *)
(*                                                                         *)
(* LifecycleInv is what every step of a harness preserves: a store that    *)
(* writes is alone, writes to the file that has the temporary name and     *)
(* never to the cassette, and holds what the cassette holds and what was   *)
(* acknowledged.  The rest of IInv says what each stage of a process may   *)
(* have touched.                                                           *)
(***************************************************************************)
EXTENDS Process, CommonLemmas, FiniteSetTheorems

Recorded == Interactions \cup {OldSession}
Phases == {"off", "prepare", "probe", "server", "bind", "serving", "stopping",
           "stopped", "failed"}

LifecycleTypeOK ==
  /\ config = [h \in Harnesses |-> config[h]]
  /\ phase \in [Harnesses -> Phases]
  /\ memory \in [Harnesses -> Seq(Recorded)]
  /\ io \in [Harnesses -> {"idle", "create", "write", "rename"}]
  /\ flushes \in [Harnesses -> 0..2]
  /\ fd \in [Harnesses -> Inodes \cup {NoFile}]
  /\ clientGone \in [Harnesses -> BOOLEAN]
  /\ orphans \in [Harnesses -> SUBSET Interactions]
  /\ cassetteAt \in Inodes \cup {NoFile} /\ tempAt \in Inodes \cup {NoFile}
  /\ content \in [Inodes -> Seq(Recorded) \cup {Empty, Torn}]
  /\ submitted \subseteq Interactions /\ acked \in Seq(Recorded)

(* Of the recorders, only one is between its start and its last append.    *)
OneRecorder ==
  \A g, h \in Harnesses : Records(g) /\ Records(h) /\ ~Over(g) /\ ~Over(h) => g = h

(* The cassette never has the temporary name as well.                      *)
NamesApart == cassetteAt # NoFile => cassetteAt # tempAt

(* The cassette holds exactly what was acknowledged, each once.            *)
CassetteIsAcked ==
  /\ acked = IF Readable(CassetteFile) THEN CassetteFile ELSE <<>>
  /\ ToSet(acked) \subseteq submitted \cup {OldSession}
  /\ \A j, k \in DOMAIN acked : acked[j] = acked[k] => j = k

(* A flush is a recorder's, has flushes to make, and writes to the file    *)
(* that has the temporary name.                                            *)
FlushUnderway(h) ==
  /\ io[h] # "idle" =>
       /\ Records(h)
       /\ StartingUp(h) \/ phase[h] \in {"serving", "stopping", "stopped"}
       /\ flushes[h] \in IF StartingUp(h) THEN {1, 2} ELSE {1}
  /\ fd[h] = IF io[h] \in {"write", "rename"} THEN tempAt ELSE NoFile
  /\ io[h] \in {"write", "rename"} =>
       tempAt # NoFile /\ content[tempAt] = IF io[h] = "write" THEN Empty ELSE memory[h]

(* What the memory of a recorder's store is to the cassette, also when the *)
(* server has stopped and appends still wait for the store.                *)
StoreIsCurrent(h) ==
  Records(h) =>
    /\ io[h] = "idle" /\ (phase[h] \in {"bind", "serving", "stopping"} \/ orphans[h] # {}) =>
         Readable(CassetteFile) /\ memory[h] = CassetteFile
    /\ io[h] # "idle" /\ StartingUp(h) =>
         /\ memory[h] = acked
         /\ Readable(CassetteFile) \/ cassetteAt = NoFile
    /\ io[h] # "idle" /\ ~StartingUp(h) =>
         /\ Readable(CassetteFile)
         /\ \E x \in submitted : /\ x \notin ToSet(acked) \cup orphans[h]
                                 /\ memory[h] = Append(CassetteFile, x)

(* Appends wait for the store of a recorder that serves or has served.     *)
OrphansWait(h) ==
  /\ orphans[h] \subseteq submitted /\ orphans[h] \cap ToSet(acked) = {}
  /\ orphans[h] # {} => Records(h) /\ phase[h] \in {"serving", "stopping", "stopped"}

(* A replayer's cassette is a beginning of the one on the disk.            *)
ReplayerIsBehind(h) ==
  ~Records(h) /\ phase[h] \in {"bind", "serving", "stopping"} =>
    Readable(CassetteFile) /\ IsPrefix(memory[h], CassetteFile)

(* Nothing runs that was not configured to. *)
RunsAsConfigured(h) ==
  /\ phase[h] \notin {"off", "stopped", "failed"} => config[h].valid
  /\ phase[h] \in {"bind", "serving", "stopping"} => config[h].mode # "Verify"

Sound(h) ==
  /\ FlushUnderway(h) /\ StoreIsCurrent(h) /\ OrphansWait(h)
  /\ ReplayerIsBehind(h) /\ RunsAsConfigured(h)

LifecycleInv ==
  /\ LifecycleTypeOK /\ OneRecorder /\ NamesApart /\ CassetteIsAcked
  /\ \A h \in Harnesses : Sound(h)
-----------------------------------------------------------------------------
(* What a step does to the cassette, to the other harnesses and to itself. *)

LEMMA CassetteFileType ==
  ASSUME LifecycleTypeOK
  PROVE  /\ CassetteFile \in Seq(Recorded) \cup {Empty, Torn}
         /\ Readable(CassetteFile) => CassetteFile \in Seq(Recorded) /\ cassetteAt # NoFile
         /\ NoFile \notin Inodes
BY DEF LifecycleTypeOK, CassetteFile, Readable, NoFile, Inodes

LEMMA SequencesAreReadable ==
  ASSUME NEW s \in Seq(Recorded)
  PROVE  Readable(s)
BY ContentsAssumption DEF Readable, Recorded

(* The step of a harness that takes no other recorder's turn. *)
LEMMA OneRecorderStays ==
  ASSUME OneRecorder, NEW h \in Harnesses, config' = config,
         \A g \in Harnesses \ {h} : Over(g)' <=> Over(g),
         Records(h) => \/ Over(h)' \/ ~Over(h)
                       \/ \A g \in Harnesses : Records(g) => Over(g)
  PROVE  OneRecorder'
BY DEF OneRecorder, Records

Grows(old, new) == Readable(old) => Readable(new) /\ IsPrefix(old, new)

(* While a recorder is busy the others are over, and replayers only read.  *)
LEMMA OthersStaySound ==
  ASSUME LifecycleInv, LifecycleTypeOK', HandOver = "quiet", NEW h \in Harnesses,
         Records(h), ~Over(h),
         config' = config, Grows(CassetteFile, CassetteFile'),
         NEW g \in Harnesses \ {h},
         phase'[g] = phase[g], memory'[g] = memory[g], io'[g] = io[g], fd'[g] = fd[g],
         orphans'[g] = orphans[g]
  PROVE  Sound(g)'
<1>1. /\ Records(g) => phase[g] \in {"off", "failed", "stopped"} /\ io[g] = "idle"
      /\ orphans[g] = {}
  BY DEF LifecycleInv, OneRecorder, Over, Sound, OrphansWait
<1>2. io[g] = "idle" /\ fd[g] = NoFile
  BY <1>1 DEF LifecycleInv, Sound, FlushUnderway
<1>3. FlushUnderway(g)'
  BY <1>2 DEF FlushUnderway
<1>4. StoreIsCurrent(g)'
  BY <1>1 DEF StoreIsCurrent, Records
<1>5. ReplayerIsBehind(g)'
  <2> SUFFICES ASSUME ~Records(g), phase[g] \in {"bind", "serving", "stopping"}
               PROVE  Readable(CassetteFile') /\ IsPrefix(memory[g], CassetteFile')
    BY DEF ReplayerIsBehind, Records
  <2>1. Readable(CassetteFile) /\ IsPrefix(memory[g], CassetteFile)
    BY DEF LifecycleInv, Sound, ReplayerIsBehind
  <2>2. Readable(CassetteFile') /\ IsPrefix(CassetteFile, CassetteFile')
    BY <2>1 DEF Grows
  <2>3. CassetteFile \in Seq(Recorded) /\ CassetteFile' \in Seq(Recorded)
    BY <2>1, <2>2, CassetteFileType DEF LifecycleInv, LifecycleTypeOK, CassetteFile, Readable, NoFile, Inodes
  <2>4. memory[g] \in Seq(Recorded) BY DEF LifecycleInv, LifecycleTypeOK
  <2> QED BY <2>1, <2>2, <2>3, <2>4, PrefixOfPrefix
<1>6. RunsAsConfigured(g)'
  BY DEF LifecycleInv, Sound, RunsAsConfigured
<1>7. OrphansWait(g)' BY <1>1 DEF OrphansWait
<1> QED BY <1>3, <1>4, <1>5, <1>6, <1>7 DEF Sound

(* Nothing a harness is sound by changes. *)
LEMMA UndisturbedStaysSound ==
  ASSUME LifecycleInv, NEW g \in Harnesses, UNCHANGED <<diskVars, historyVars>>,
         config'[g] = config[g], phase'[g] = phase[g], memory'[g] = memory[g], io'[g] = io[g],
         fd'[g] = fd[g], flushes'[g] = flushes[g], orphans'[g] = orphans[g]
  PROVE  Sound(g)'
<1>1. UNCHANGED <<cassetteAt, tempAt, content, submitted, acked>> /\ CassetteFile' = CassetteFile
  BY DEF diskVars, historyVars, CassetteFile
<1>2. Sound(g) BY DEF LifecycleInv
<1> QED BY <1>1, <1>2 DEF Sound, FlushUnderway, StoreIsCurrent, OrphansWait,
                          ReplayerIsBehind, RunsAsConfigured, Records, StartingUp
-----------------------------------------------------------------------------
(* One lemma for each kind of step. *)

Disk == <<diskVars, historyVars>>

(* A step that only takes a harness to another phase. *)
LEMMA PhaseStep ==
  ASSUME LifecycleInv, HandOver = "quiet", NEW h \in Harnesses, NEW to \in Phases,
         Goes(h, to), UNCHANGED <<config, memory, flushVars, clientVars, Disk>>,
         io[h] # "idle" \/ orphans[h] # {} =>
           {phase[h], to} \subseteq {"serving", "stopping", "stopped"},
         Records(h) => \/ to \in {"failed", "stopped"} \/ ~Over(h)
                       \/ \A g \in Harnesses : Records(g) => Over(g),
         to \in {"bind", "serving", "stopping"} => phase[h] \in {"bind", "serving", "stopping"},
         to \notin {"stopped", "failed"} => config[h].valid
  PROVE  LifecycleInv'
<1>1. /\ UNCHANGED <<config, memory, io, flushes, fd, clientGone, orphans, cassetteAt, tempAt,
                     content, submitted, acked>>
      /\ CassetteFile' = CassetteFile
  BY DEF flushVars, clientVars, Disk, diskVars, historyVars, CassetteFile
<1>2. /\ phase' \in [Harnesses -> Phases] /\ phase'[h] = to
      /\ \A g \in Harnesses \ {h} : phase'[g] = phase[g]
  BY DEF Goes, LifecycleInv, LifecycleTypeOK
<1>3. LifecycleTypeOK' BY <1>1, <1>2 DEF LifecycleInv, LifecycleTypeOK
<1>4. OneRecorder'
  <2>1. \A g \in Harnesses \ {h} : Over(g)' <=> Over(g) BY <1>1, <1>2 DEF Over
  <2>2. ~Over(h) \/ (io[h] = "idle" /\ orphans[h] = {}) BY DEF Over
  <2>3. to \in {"failed", "stopped"} /\ io[h] = "idle" /\ orphans[h] = {} => Over(h)'
    BY <1>1, <1>2 DEF Over
  <2> QED BY <1>1, <2>1, <2>2, <2>3, OneRecorderStays DEF LifecycleInv
<1>5. NamesApart' /\ CassetteIsAcked'
  BY <1>1 DEF LifecycleInv, NamesApart, CassetteIsAcked
<1>6. \A g \in Harnesses \ {h} : Sound(g)'
  BY <1>1, <1>2, UndisturbedStaysSound DEF Disk
<1>7. Sound(h)'
  <2>1. Sound(h) BY DEF LifecycleInv
  <2>2. FlushUnderway(h)'
    BY <1>1, <1>2, <2>1 DEF Sound, FlushUnderway, StartingUp, Records
  <2>3. StoreIsCurrent(h)'
    BY <1>1, <1>2, <2>1 DEF Sound, StoreIsCurrent, StartingUp, Records
  <2>4. ReplayerIsBehind(h)'
    BY <1>1, <1>2, <2>1 DEF Sound, ReplayerIsBehind, Records
  <2>5. RunsAsConfigured(h)'
    BY <1>1, <1>2, <2>1 DEF Sound, RunsAsConfigured
  <2>6. OrphansWait(h)'
    BY <1>1, <1>2, <2>1 DEF Sound, OrphansWait, Records
  <2> QED BY <2>2, <2>3, <2>4, <2>5, <2>6 DEF Sound
<1> QED BY <1>3, <1>4, <1>5, <1>6, <1>7 DEF LifecycleInv

LEMMA OpenOrCreateStep ==
  ASSUME LifecycleInv, HandOver = "quiet", NEW h \in Harnesses, OpenOrCreateForRecord(h)
  PROVE  LifecycleInv'
<1> USE DEF StartingUp
<1>1. /\ UNCHANGED <<config, fd, clientGone, orphans, cassetteAt, tempAt, content, submitted,
                     acked>>
      /\ CassetteFile' = CassetteFile
      /\ Records(h) /\ StartingUp(h) /\ io[h] = "idle"
  BY DEF OpenOrCreateForRecord, clientVars, diskVars, historyVars, CassetteFile
<1>2. LifecycleTypeOK BY DEF LifecycleInv
<1>3. acked \in Seq(Recorded) /\ (cassetteAt = NoFile => CassetteFile = Empty)
  BY <1>2 DEF LifecycleTypeOK, CassetteFile
<1>4. /\ acked = IF Readable(CassetteFile) THEN CassetteFile ELSE <<>>
      /\ orphans[h] = {}
  BY <1>1 DEF LifecycleInv, CassetteIsAcked, Sound, OrphansWait
<1>5. cassetteAt = NoFile => ~Readable(CassetteFile) BY <1>3 DEF Readable
<1>6. CASE Goes(h, "failed") /\ UNCHANGED <<memory, io, flushes>>
  <2>1. /\ Goes(h, "failed") /\ UNCHANGED <<config, memory, flushVars, clientVars, Disk>>
    BY <1>6 DEF OpenOrCreateForRecord, flushVars, Disk
  <2> QED BY <1>1, <1>4, <2>1, PhaseStep DEF Phases
<1>7. CASE /\ cassetteAt = NoFile \/ Readable(CassetteFile)
           /\ LET due == (IF cassetteAt = NoFile THEN 1 ELSE 0) + (IF phase[h] = "probe" THEN 1 ELSE 0)
              IN  /\ memory' = [memory EXCEPT ![h] =
                                   IF cassetteAt = NoFile THEN <<>> ELSE CassetteFile]
                  /\ flushes' = [flushes EXCEPT ![h] = due]
                  /\ IF due = 0 THEN Goes(h, Following(phase[h])) /\ UNCHANGED io
                     ELSE io' = [io EXCEPT ![h] = "create"] /\ UNCHANGED phase
  <2> DEFINE due == (IF cassetteAt = NoFile THEN 1 ELSE 0) + (IF phase[h] = "probe" THEN 1 ELSE 0)
  <2>1. /\ memory' = [memory EXCEPT ![h] = acked]
        /\ flushes' = [flushes EXCEPT ![h] = due]
        /\ IF due = 0 THEN phase' = [phase EXCEPT ![h] = Following(phase[h])] /\ io' = io
           ELSE io' = [io EXCEPT ![h] = "create"] /\ phase' = phase
    BY <1>4, <1>5, <1>7 DEF Goes
  <2>2. /\ due \in 0..2 /\ (due = 0 => phase[h] \in {"prepare", "server"} /\ Readable(CassetteFile))
    BY <1>1, <1>7
  <2> HIDE DEF due
  <2>3. Following("prepare") = "probe" /\ Following("server") = "bind"
    BY DEF Following
  <2>4. /\ \A g \in Harnesses \ {h} : /\ phase'[g] = phase[g] /\ memory'[g] = memory[g]
                                      /\ io'[g] = io[g] /\ flushes'[g] = flushes[g]
        /\ memory'[h] = acked /\ flushes'[h] = due
        /\ \/ due = 0 /\ io'[h] = "idle" /\ phase'[h] \in {"probe", "bind"}
           \/ due \in {1, 2} /\ io'[h] = "create" /\ phase'[h] = phase[h]
    BY <1>1, <1>2, <2>1, <2>2, <2>3 DEF LifecycleTypeOK
  <2>5. LifecycleTypeOK'
    <3>1. memory' \in [Harnesses -> Seq(Recorded)] /\ flushes' \in [Harnesses -> 0..2]
      BY <1>2, <1>3, <2>1, <2>2 DEF LifecycleTypeOK
    <3>2. /\ phase' \in [Harnesses -> Phases]
          /\ io' \in [Harnesses -> {"idle", "create", "write", "rename"}]
      BY <1>2, <2>1, <2>2, <2>3 DEF LifecycleTypeOK, Phases
    <3> QED BY <1>1, <1>2, <3>1, <3>2 DEF LifecycleTypeOK
  <2>6. OneRecorder'
    <3>1. \A g \in Harnesses \ {h} : Over(g)' <=> Over(g) BY <1>1, <2>4 DEF Over
    <3>2. ~Over(h) BY <1>1 DEF Over
    <3> QED BY <1>1, <3>1, <3>2, OneRecorderStays DEF LifecycleInv
  <2>7. NamesApart' /\ CassetteIsAcked'
    BY <1>1 DEF LifecycleInv, NamesApart, CassetteIsAcked
  <2>8. \A g \in Harnesses \ {h} : Sound(g)'
    BY <1>1, <2>4, UndisturbedStaysSound DEF diskVars, historyVars
  <2>9. Sound(h)'
    <3>1. Sound(h) BY DEF LifecycleInv
    <3>2. FlushUnderway(h)' BY <1>1, <2>4, <3>1 DEF Sound, FlushUnderway, Records
    <3>3. StoreIsCurrent(h)'
      BY <1>1, <1>4, <1>7, <2>2, <2>4, <3>1 DEF Sound, StoreIsCurrent, Records
    <3>4. ReplayerIsBehind(h)' BY <1>1 DEF ReplayerIsBehind, Records
    <3>5. RunsAsConfigured(h)'
      BY <1>1, <2>4, <3>1 DEF Sound, RunsAsConfigured, Records
    <3>6. OrphansWait(h)' BY <1>1, <1>4 DEF OrphansWait
    <3> QED BY <3>2, <3>3, <3>4, <3>5, <3>6 DEF Sound
  <2> QED BY <2>5, <2>6, <2>7, <2>8, <2>9 DEF LifecycleInv
<1> QED BY <1>6, <1>7 DEF OpenOrCreateForRecord

LEMMA OpenForReplayStep ==
  ASSUME LifecycleInv, HandOver = "quiet", NEW h \in Harnesses, OpenForReplay(h)
  PROVE  LifecycleInv'
<1> USE DEF StartingUp
<1>1. /\ UNCHANGED <<config, io, flushes, fd, clientGone, orphans, cassetteAt, tempAt, content,
                     submitted, acked>>
      /\ CassetteFile' = CassetteFile
      /\ ~Records(h) /\ StartingUp(h)
  BY DEF OpenForReplay, flushVars, clientVars, diskVars, historyVars, CassetteFile
<1>2. LifecycleTypeOK /\ Sound(h) BY DEF LifecycleInv
<1>3. io[h] = "idle" /\ orphans[h] = {} BY <1>1, <1>2 DEF Sound, FlushUnderway, OrphansWait
<1>4. CASE Goes(h, "failed") /\ UNCHANGED memory
  <2>1. /\ Goes(h, "failed") /\ UNCHANGED <<config, memory, flushVars, clientVars, Disk>>
    BY <1>4 DEF OpenForReplay, Disk
  <2> QED BY <1>1, <1>3, <2>1, PhaseStep DEF Phases
<1>5. CASE /\ Readable(CassetteFile)
           /\ Goes(h, IF config[h].mode = "Verify" THEN "failed"
                      ELSE IF phase[h] = "prepare" THEN "server" ELSE "bind")
           /\ memory' = [memory EXCEPT ![h] = CassetteFile]
  <2> DEFINE to == IF config[h].mode = "Verify" THEN "failed"
                   ELSE IF phase[h] = "prepare" THEN "server" ELSE "bind"
  <2>1. /\ phase' = [phase EXCEPT ![h] = to]
        /\ to \in {"failed", "server", "bind"} /\ (config[h].mode = "Verify" => to = "failed")
    BY <1>5 DEF Goes
  <2> HIDE DEF to
  <2>2. memory' = [memory EXCEPT ![h] = CassetteFile] BY <1>5
  <2>3. CassetteFile \in Seq(Recorded) /\ IsPrefix(CassetteFile, CassetteFile)
    BY <1>2, <1>5, CassetteFileType, PrefixOfItself
  <2>4. /\ phase' \in [Harnesses -> Phases] /\ memory' \in [Harnesses -> Seq(Recorded)]
        /\ phase'[h] = to /\ memory'[h] = CassetteFile
        /\ \A g \in Harnesses \ {h} : phase'[g] = phase[g] /\ memory'[g] = memory[g]
    BY <1>2, <2>1, <2>2, <2>3 DEF LifecycleTypeOK, Phases
  <2>5. LifecycleTypeOK' BY <1>1, <1>2, <2>4 DEF LifecycleTypeOK
  <2>6. OneRecorder'
    <3>1. \A g \in Harnesses \ {h} : Over(g)' <=> Over(g) BY <1>1, <2>4 DEF Over
    <3> QED BY <1>1, <3>1, OneRecorderStays DEF LifecycleInv
  <2>7. NamesApart' /\ CassetteIsAcked'
    BY <1>1 DEF LifecycleInv, NamesApart, CassetteIsAcked
  <2>8. \A g \in Harnesses \ {h} : Sound(g)'
    BY <1>1, <2>4, UndisturbedStaysSound DEF diskVars, historyVars
  <2>9. Sound(h)'
    <3>1. FlushUnderway(h)' BY <1>1, <1>2, <1>3 DEF Sound, FlushUnderway
    <3>2. StoreIsCurrent(h)' BY <1>1 DEF StoreIsCurrent, Records
    <3>3. ReplayerIsBehind(h)' BY <1>1, <1>5, <2>3, <2>4 DEF ReplayerIsBehind
    <3>4. RunsAsConfigured(h)' BY <1>1, <1>2, <2>1, <2>4 DEF Sound, RunsAsConfigured
    <3>5. OrphansWait(h)' BY <1>1, <1>3 DEF OrphansWait
    <3> QED BY <3>1, <3>2, <3>3, <3>4, <3>5 DEF Sound
  <2> QED BY <2>5, <2>6, <2>7, <2>8, <2>9 DEF LifecycleInv
<1> QED BY <1>4, <1>5 DEF OpenForReplay

(* An append gets the store: of a client that waits, or of one that went   *)
(* away before.                                                            *)
LEMMA TakesStoreStep ==
  ASSUME LifecycleInv, HandOver = "quiet", NEW h \in Harnesses,
         NEW x \in Interactions, TakesStore(h, x),
         Listening(h) \/ orphans[h] # {}, x \notin ToSet(acked),
         submitted' = submitted \cup {x}, orphans' = [orphans EXCEPT ![h] = @ \ {x}],
         clientGone' \in [Harnesses -> BOOLEAN]
  PROVE  LifecycleInv'
<1>1. /\ UNCHANGED <<config, phase, fd, cassetteAt, tempAt, content, acked>>
      /\ CassetteFile' = CassetteFile
      /\ Records(h) /\ io[h] = "idle"
  BY DEF TakesStore, diskVars, CassetteFile
<1>2. LifecycleTypeOK /\ Sound(h) BY DEF LifecycleInv
<1>3. phase[h] \in {"serving", "stopping", "stopped"}
  BY <1>2 DEF Listening, Sound, OrphansWait
<1>4. Readable(CassetteFile) /\ memory[h] = CassetteFile /\ acked = CassetteFile
  BY <1>1, <1>2 DEF LifecycleInv, Sound, StoreIsCurrent, CassetteIsAcked, Listening
<1>5. acked \in Seq(Recorded) /\ Append(acked, x) \in Seq(Recorded)
  BY <1>2 DEF LifecycleTypeOK, Recorded
<1>6. /\ memory' = [memory EXCEPT ![h] = Append(acked, x)]
      /\ io' = [io EXCEPT ![h] = "create"] /\ flushes' = [flushes EXCEPT ![h] = 1]
  BY <1>2, <1>4 DEF TakesStore, LifecycleTypeOK
<1>7. /\ memory'[h] = Append(acked, x) /\ io'[h] = "create" /\ flushes'[h] = 1
      /\ orphans'[h] = orphans[h] \ {x}
      /\ \A g \in Harnesses \ {h} :
           memory'[g] = memory[g] /\ io'[g] = io[g] /\ orphans'[g] = orphans[g]
  BY <1>2, <1>6 DEF LifecycleTypeOK
<1>8. LifecycleTypeOK'
  <2>1. memory' \in [Harnesses -> Seq(Recorded)] BY <1>2, <1>5, <1>6 DEF LifecycleTypeOK
  <2>2. /\ io' \in [Harnesses -> {"idle", "create", "write", "rename"}]
        /\ flushes' \in [Harnesses -> 0..2]
    BY <1>2, <1>6 DEF LifecycleTypeOK
  <2>3. orphans' \in [Harnesses -> SUBSET Interactions] BY <1>2 DEF LifecycleTypeOK
  <2> QED BY <1>1, <1>2, <2>1, <2>2, <2>3 DEF LifecycleTypeOK
<1>9. ~Over(h) BY DEF Over, Listening
<1>10. OneRecorder'
  <2>1. \A g \in Harnesses \ {h} : Over(g)' <=> Over(g) BY <1>1, <1>7 DEF Over
  <2> QED BY <1>1, <1>9, <2>1, OneRecorderStays DEF LifecycleInv
<1>11. NamesApart' /\ CassetteIsAcked'
  BY <1>1 DEF LifecycleInv, NamesApart, CassetteIsAcked
<1>12. \A g \in Harnesses \ {h} : Sound(g)'
  <2>1. Grows(CassetteFile, CassetteFile')
    BY <1>1, <1>4, <1>5, PrefixOfItself DEF Grows
  <2> QED BY <1>1, <1>7, <1>8, <1>9, <2>1, OthersStaySound
<1>13. Sound(h)'
  <2>1. FlushUnderway(h)' BY <1>1, <1>2, <1>3, <1>7 DEF Sound, FlushUnderway, StartingUp, Records
  <2>2. StoreIsCurrent(h)'
    BY <1>1, <1>3, <1>4, <1>7 DEF StoreIsCurrent, StartingUp, Records
  <2>3. ReplayerIsBehind(h)' BY <1>1 DEF ReplayerIsBehind, Records
  <2>4. RunsAsConfigured(h)' BY <1>1, <1>2 DEF Sound, RunsAsConfigured
  <2>5. OrphansWait(h)' BY <1>1, <1>2, <1>7 DEF Sound, OrphansWait, Records
  <2> QED BY <2>1, <2>2, <2>3, <2>4, <2>5 DEF Sound
<1> QED BY <1>8, <1>10, <1>11, <1>12, <1>13 DEF LifecycleInv

LEMMA AppendStep ==
  ASSUME LifecycleInv, HandOver = "quiet", NEW h \in Harnesses, NEW x \in Interactions,
         AppendInteraction(h, x) \/ AppendOrphan(h, x)
  PROVE  LifecycleInv'
<1>1. LifecycleTypeOK /\ OrphansWait(h) BY DEF LifecycleInv, Sound
<1>2. CASE AppendInteraction(h, x)
  <2>1. /\ Listening(h) /\ TakesStore(h, x) /\ submitted' = submitted \cup {x}
        /\ x \notin submitted /\ orphans' = orphans
        /\ clientGone' \in [Harnesses -> BOOLEAN]
    BY <1>1, <1>2 DEF AppendInteraction, LifecycleTypeOK
  <2>2. x \notin ToSet(acked)
    BY <2>1, InteractionsAssumption DEF LifecycleInv, CassetteIsAcked
  <2>3. orphans' = [orphans EXCEPT ![h] = @ \ {x}]
    BY <1>1, <2>1 DEF OrphansWait, LifecycleTypeOK
  <2> QED BY <2>1, <2>2, <2>3, TakesStoreStep
<1>3. CASE AppendOrphan(h, x)
  <2>1. /\ x \in orphans[h] /\ TakesStore(h, x) /\ submitted' = submitted
        /\ orphans' = [orphans EXCEPT ![h] = @ \ {x}]
        /\ clientGone' \in [Harnesses -> BOOLEAN]
    BY <1>1, <1>3 DEF AppendOrphan, LifecycleTypeOK
  <2>2. x \notin ToSet(acked) /\ submitted' = submitted \cup {x}
    BY <1>1, <2>1 DEF OrphansWait
  <2> QED BY <2>1, <2>2, TakesStoreStep
<1> QED BY <1>2, <1>3

(* A client leaves before its append has the store. *)
LEMMA LeaveStep ==
  ASSUME LifecycleInv, HandOver = "quiet", NEW h \in Harnesses, NEW x \in Interactions,
         LeaveBeforeAppend(h, x)
  PROVE  LifecycleInv'
<1>1. LifecycleTypeOK /\ Sound(h) BY DEF LifecycleInv
<1>2. /\ UNCHANGED <<config, phase, memory, io, flushes, fd, clientGone, cassetteAt, tempAt,
                     content, acked>>
      /\ CassetteFile' = CassetteFile
      /\ Records(h) /\ phase[h] \in {"serving", "stopping"}
      /\ x \notin submitted /\ submitted' = submitted \cup {x}
      /\ orphans' = [orphans EXCEPT ![h] = @ \cup {x}]
  BY DEF LeaveBeforeAppend, flushVars, diskVars, Listening, CassetteFile
<1>3. /\ orphans'[h] = orphans[h] \cup {x}
      /\ \A g \in Harnesses \ {h} : orphans'[g] = orphans[g]
  BY <1>1, <1>2 DEF LifecycleTypeOK
<1>4. LifecycleTypeOK' BY <1>1, <1>2 DEF LifecycleTypeOK
<1>5. ~Over(h) BY <1>2 DEF Over
<1>6. OneRecorder'
  <2>1. \A g \in Harnesses \ {h} : Over(g)' <=> Over(g) BY <1>2, <1>3 DEF Over
  <2> QED BY <1>2, <1>5, <2>1, OneRecorderStays DEF LifecycleInv
<1>7. NamesApart' /\ CassetteIsAcked'
  BY <1>2 DEF LifecycleInv, NamesApart, CassetteIsAcked
<1>8. \A g \in Harnesses \ {h} : Sound(g)'
  <2>1. Grows(CassetteFile, CassetteFile')
    BY <1>1, <1>2, CassetteFileType, PrefixOfItself DEF Grows
  <2> QED BY <1>2, <1>3, <1>4, <1>5, <2>1, OthersStaySound
<1>9. x \notin ToSet(acked)
  BY <1>2, InteractionsAssumption DEF LifecycleInv, CassetteIsAcked
<1>10. Sound(h)'
  <2>1. FlushUnderway(h)' BY <1>1, <1>2 DEF Sound, FlushUnderway, StartingUp, Records
  <2>2. StoreIsCurrent(h)'
    BY <1>1, <1>2, <1>3 DEF Sound, StoreIsCurrent, StartingUp, Records
  <2>3. ReplayerIsBehind(h)' BY <1>2 DEF ReplayerIsBehind, Records
  <2>4. RunsAsConfigured(h)' BY <1>1, <1>2 DEF Sound, RunsAsConfigured
  <2>5. OrphansWait(h)' BY <1>1, <1>2, <1>3, <1>9 DEF Sound, OrphansWait, Records
  <2> QED BY <2>1, <2>2, <2>3, <2>4, <2>5 DEF Sound
<1> QED BY <1>4, <1>6, <1>7, <1>8, <1>10 DEF LifecycleInv

LEMMA FreshFile ==
  ASSUME LifecycleInv, HandOver = "quiet", NEW h \in Harnesses, io[h] = "create"
  PROVE  LET file == IF tempAt # NoFile THEN tempAt
                     ELSE CHOOSE i \in Inodes \ InUse : \A j \in Inodes \ InUse : i <= j
         IN  file \in Inodes /\ file # cassetteAt /\ file # NoFile
<1>1. LifecycleTypeOK BY DEF LifecycleInv
<1>2. CASE tempAt # NoFile
  BY <1>1, <1>2 DEF LifecycleTypeOK, LifecycleInv, NamesApart, NoFile
<1>3. CASE tempAt = NoFile
  <2>1. \A g \in Harnesses : fd[g] = NoFile
    BY <1>3 DEF LifecycleInv, Sound, FlushUnderway
  <2>2. InUse = {cassetteAt, NoFile}
    BY <1>3, <2>1 DEF InUse
  <2>3. 1 \in Inodes /\ 2 \in Inodes /\ \A i \in Inodes : i \in Nat /\ 1 <= i
    BY HarnessesAssumption, FS_CardinalityType DEF Inodes
  <2> DEFINE free == Inodes \ InUse
             least == IF cassetteAt = 1 THEN 2 ELSE 1
  <2>4. least \in free /\ \A j \in free : least <= j
    BY <2>2, <2>3 DEF NoFile
  <2> HIDE DEF free
  <2>5. (CHOOSE i \in free : \A j \in free : i <= j) \in free
    BY <2>4
  <2>6. free \subseteq Inodes /\ cassetteAt \notin free /\ NoFile \notin free
    BY <2>2 DEF free
  <2> QED BY <1>3, <2>5, <2>6 DEF free
<1> QED BY <1>2, <1>3

(* A step of a running flush that leaves the cassette's file alone and     *)
(* goes on to the next system call.                                        *)
LEMMA FlushGoesOn ==
  ASSUME LifecycleInv, HandOver = "quiet", NEW h \in Harnesses, io[h] # "idle",
         UNCHANGED <<config, phase, memory, flushes, clientVars, cassetteAt, historyVars>>,
         NEW next \in {"write", "rename"}, io' = [io EXCEPT ![h] = next],
         NEW file \in Inodes, file # cassetteAt, tempAt' = file,
         fd' = [fd EXCEPT ![h] = file],
         content' = [content EXCEPT ![file] = IF next = "write" THEN Empty ELSE memory[h]]
  PROVE  LifecycleInv'
<1>1. LifecycleTypeOK /\ Sound(h) BY DEF LifecycleInv
<1>2. Records(h) /\ ~Over(h) /\ file # NoFile
  BY <1>1 DEF Sound, FlushUnderway, Over, Inodes, NoFile
<1>3. UNCHANGED <<clientGone, orphans, submitted, acked>> /\ CassetteFile' = CassetteFile
  BY <1>1 DEF clientVars, historyVars, CassetteFile, LifecycleTypeOK
<1>4. /\ io'[h] = next /\ fd'[h] = file
      /\ content'[file] = IF next = "write" THEN Empty ELSE memory[h]
      /\ \A g \in Harnesses \ {h} : io'[g] = io[g] /\ fd'[g] = fd[g]
  BY <1>1 DEF LifecycleTypeOK
<1>5. LifecycleTypeOK'
  <2>1. content' \in [Inodes -> Seq(Recorded) \cup {Empty, Torn}]
    BY <1>1 DEF LifecycleTypeOK
  <2>2. /\ io' \in [Harnesses -> {"idle", "create", "write", "rename"}]
        /\ fd' \in [Harnesses -> Inodes \cup {NoFile}]
    BY <1>1 DEF LifecycleTypeOK
  <2> QED BY <1>1, <1>3, <2>1, <2>2 DEF LifecycleTypeOK
<1>6. OneRecorder'
  <2>1. \A g \in Harnesses \ {h} : Over(g)' <=> Over(g) BY <1>3, <1>4 DEF Over
  <2> QED BY <1>2, <2>1, OneRecorderStays DEF LifecycleInv
<1>7. NamesApart' /\ CassetteIsAcked'
  BY <1>3 DEF LifecycleInv, NamesApart, CassetteIsAcked
<1>8. \A g \in Harnesses \ {h} : Sound(g)'
  <2>1. Grows(CassetteFile, CassetteFile')
    BY <1>1, <1>3, CassetteFileType, PrefixOfItself DEF Grows
  <2> QED BY <1>2, <1>3, <1>4, <1>5, <2>1, OthersStaySound
<1>9. Sound(h)'
  <2>1. FlushUnderway(h)'
    BY <1>1, <1>2, <1>4 DEF Sound, FlushUnderway, StartingUp, Records
  <2>2. StoreIsCurrent(h)'
    BY <1>1, <1>3, <1>4 DEF Sound, StoreIsCurrent, StartingUp, Records
  <2>3. ReplayerIsBehind(h)' BY <1>2 DEF ReplayerIsBehind, Records
  <2>4. RunsAsConfigured(h)' BY <1>1 DEF Sound, RunsAsConfigured
  <2>5. OrphansWait(h)' BY <1>1, <1>3 DEF Sound, OrphansWait, Records
  <2> QED BY <2>1, <2>2, <2>3, <2>4, <2>5 DEF Sound
<1> QED BY <1>5, <1>6, <1>7, <1>8, <1>9 DEF LifecycleInv

(* A flush that fails takes the append back, or the start with it.         *)
LEMMA FlushFailsStep ==
  ASSUME LifecycleInv, HandOver = "quiet", NEW h \in Harnesses, io[h] # "idle", FlushFails(h),
         cassetteAt' = cassetteAt, tempAt' \in {tempAt, NoFile},
         content' \in [Inodes -> Seq(Recorded) \cup {Empty, Torn}],
         \A i \in Inodes : i # tempAt => content'[i] = content[i]
  PROVE  LifecycleInv'
<1>1. LifecycleTypeOK /\ Sound(h) BY DEF LifecycleInv
<1>2. Records(h) /\ ~Over(h)
  BY <1>1 DEF Sound, FlushUnderway, Over
<1>3. UNCHANGED <<config, clientGone, orphans, submitted, acked>>
  BY DEF FlushFails, clientVars, historyVars
<1>4. CassetteFile' = CassetteFile
  <2>1. cassetteAt # NoFile => cassetteAt \in Inodes /\ cassetteAt # tempAt
    BY <1>1 DEF LifecycleInv, LifecycleTypeOK, NamesApart
  <2> QED BY <2>1 DEF CassetteFile
<1>5. /\ io' = [io EXCEPT ![h] = "idle"] /\ fd' = [fd EXCEPT ![h] = NoFile]
      /\ flushes' = [flushes EXCEPT ![h] = 0]
  BY DEF FlushFails
<1>6. \/ StartingUp(h) /\ phase' = [phase EXCEPT ![h] = "failed"] /\ memory' = memory
      \/ /\ ~StartingUp(h) /\ phase' = phase
         /\ memory' = [memory EXCEPT ![h] = Front(memory[h])]
  BY <1>1 DEF FlushFails, Goes, LifecycleTypeOK
<1>7. ~StartingUp(h) => /\ Readable(CassetteFile) /\ CassetteFile \in Seq(Recorded)
                        /\ Front(memory[h]) = CassetteFile
  <2>1. SUFFICES ASSUME ~StartingUp(h)
                 PROVE  /\ Readable(CassetteFile) /\ CassetteFile \in Seq(Recorded)
                        /\ Front(memory[h]) = CassetteFile
    OBVIOUS
  <2>2. PICK x \in submitted : Readable(CassetteFile) /\ memory[h] = Append(CassetteFile, x)
    BY <1>1, <1>2, <2>1 DEF Sound, StoreIsCurrent
  <2>3. CassetteFile \in Seq(Recorded) /\ x \in Recorded
    BY <1>1, <2>2, CassetteFileType DEF LifecycleTypeOK, Recorded
  <2> QED BY <2>2, <2>3, FrontLastOfAppend
<1>8. /\ io'[h] = "idle" /\ fd'[h] = NoFile
      /\ \A g \in Harnesses \ {h} : /\ phase'[g] = phase[g] /\ memory'[g] = memory[g]
                                    /\ io'[g] = io[g] /\ fd'[g] = fd[g]
      /\ \/ phase'[h] = "failed" /\ StartingUp(h)
         \/ phase'[h] = phase[h] /\ ~StartingUp(h) /\ memory'[h] = CassetteFile
  BY <1>1, <1>5, <1>6, <1>7 DEF LifecycleTypeOK
<1>9. LifecycleTypeOK'
  <2>1. /\ io' \in [Harnesses -> {"idle", "create", "write", "rename"}]
        /\ fd' \in [Harnesses -> Inodes \cup {NoFile}] /\ flushes' \in [Harnesses -> 0..2]
    BY <1>1, <1>5 DEF LifecycleTypeOK
  <2>2. phase' \in [Harnesses -> Phases]
    BY <1>1, <1>6 DEF LifecycleTypeOK, Phases
  <2>3. memory' \in [Harnesses -> Seq(Recorded)]
    BY <1>1, <1>6, <1>7 DEF LifecycleTypeOK
  <2> QED BY <1>1, <1>3, <2>1, <2>2, <2>3 DEF LifecycleTypeOK
<1>10. OneRecorder'
  <2>1. \A g \in Harnesses \ {h} : Over(g)' <=> Over(g) BY <1>3, <1>8 DEF Over
  <2> QED BY <1>2, <1>3, <2>1, OneRecorderStays DEF LifecycleInv
<1>11. NamesApart' /\ CassetteIsAcked'
  BY <1>3, <1>4 DEF LifecycleInv, NamesApart, CassetteIsAcked, LifecycleTypeOK
<1>12. \A g \in Harnesses \ {h} : Sound(g)'
  <2>1. Grows(CassetteFile, CassetteFile')
    BY <1>1, <1>4, CassetteFileType, PrefixOfItself DEF Grows
  <2> QED BY <1>2, <1>3, <1>8, <1>9, <2>1, OthersStaySound
<1>13. Sound(h)'
  <2>1. FlushUnderway(h)' BY <1>8 DEF FlushUnderway
  <2>2. OrphansWait(h)'
    BY <1>1, <1>3, <1>8 DEF Sound, OrphansWait, Records, StartingUp
  <2>3. StoreIsCurrent(h)'
    BY <1>3, <1>4, <1>7, <1>8, <2>2 DEF StoreIsCurrent, OrphansWait, Records
  <2>4. ReplayerIsBehind(h)' BY <1>2, <1>3 DEF ReplayerIsBehind, Records
  <2>5. RunsAsConfigured(h)' BY <1>1, <1>3, <1>8 DEF Sound, RunsAsConfigured
  <2> QED BY <2>1, <2>2, <2>3, <2>4, <2>5 DEF Sound
<1> QED BY <1>9, <1>10, <1>11, <1>12, <1>13 DEF LifecycleInv
LEMMA CreateOrWriteStep ==
  ASSUME LifecycleInv, HandOver = "quiet", NEW h \in Harnesses,
         CreateTemp(h) \/ WriteTemp(h)
  PROVE  LifecycleInv'
<1>1. LifecycleTypeOK /\ Sound(h) BY DEF LifecycleInv
<1>2. CASE CreateTemp(h)
  <2> DEFINE file == IF tempAt # NoFile THEN tempAt
                     ELSE CHOOSE i \in Inodes \ InUse : \A j \in Inodes \ InUse : i <= j
  <2>1. io[h] = "create" BY <1>2 DEF CreateTemp
  <2>2. file \in Inodes /\ file # cassetteAt BY <2>1, FreshFile
  <2>3. /\ UNCHANGED <<config, phase, memory, flushes, clientVars, cassetteAt, historyVars>>
        /\ io' = [io EXCEPT ![h] = "write"] /\ tempAt' = file
        /\ fd' = [fd EXCEPT ![h] = file] /\ content' = [content EXCEPT ![file] = Empty]
    BY <1>2 DEF CreateTemp
  <2> HIDE DEF file
  <2> QED BY <2>1, <2>2, <2>3, FlushGoesOn
<1>3. CASE WriteTemp(h)
  <2>1. io[h] = "write" BY <1>3 DEF WriteTemp
  <2>2. fd[h] = tempAt /\ tempAt # NoFile /\ content[tempAt] = Empty
    BY <1>1, <2>1 DEF Sound, FlushUnderway
  <2>3. /\ UNCHANGED <<config, phase, memory, flushes, clientVars, cassetteAt, historyVars>>
        /\ io' = [io EXCEPT ![h] = "rename"]
        /\ content' = [content EXCEPT ![tempAt] = memory[h]]
        /\ tempAt' = tempAt /\ fd' = fd
    BY <1>3, <2>2 DEF WriteTemp, Overwritten
  <2>4. fd' = [fd EXCEPT ![h] = tempAt] /\ tempAt \in Inodes /\ tempAt # cassetteAt
    BY <1>1, <2>2, <2>3 DEF LifecycleTypeOK, LifecycleInv, NamesApart
  <2> QED BY <2>1, <2>3, <2>4, FlushGoesOn
<1> QED BY <1>2, <1>3

LEMMA FailureStep ==
  ASSUME LifecycleInv, HandOver = "quiet", NEW h \in Harnesses,
         CreateFails(h) \/ WriteFails(h) \/ RenameFails(h)
  PROVE  LifecycleInv'
<1>1. LifecycleTypeOK /\ Sound(h) BY DEF LifecycleInv
<1>2. CASE CreateFails(h) \/ RenameFails(h)
  <2>1. io[h] # "idle" /\ FlushFails(h) /\ UNCHANGED <<cassetteAt, tempAt, content>>
    BY <1>2 DEF CreateFails, RenameFails, diskVars
  <2> QED BY <1>1, <2>1, FlushFailsStep DEF LifecycleTypeOK
<1>3. CASE WriteFails(h)
  <2>1. /\ io[h] = "write" /\ FlushFails(h) /\ cassetteAt' = cassetteAt /\ tempAt' = NoFile
        /\ \E bytes \in {Empty, Torn} : content' = [content EXCEPT ![fd[h]] = bytes]
    BY <1>3 DEF WriteFails
  <2>2. fd[h] = tempAt BY <1>1, <2>1 DEF Sound, FlushUnderway
  <2>3. /\ content' \in [Inodes -> Seq(Recorded) \cup {Empty, Torn}]
        /\ \A i \in Inodes : i # tempAt => content'[i] = content[i]
    BY <1>1, <2>1, <2>2 DEF LifecycleTypeOK
  <2> QED BY <2>1, <2>3, FlushFailsStep
<1> QED BY <1>2, <1>3

(* The rename makes the memory of the store that writes the cassette.      *)
LEMMA RenamedMemory ==
  ASSUME LifecycleInv, HandOver = "quiet", NEW h \in Harnesses, RenameTemp(h)
  PROVE  /\ Records(h) /\ ~Over(h)
         /\ CassetteFile' = memory[h] /\ Readable(memory[h])
         /\ Grows(CassetteFile, memory[h])
         /\ \/ StartingUp(h) /\ memory[h] = acked /\ acked' = acked
            \/ /\ ~StartingUp(h)
               /\ \E x \in submitted : /\ x \notin ToSet(acked) \cup orphans[h]
                                       /\ memory[h] = Append(acked, x) /\ acked' = Append(acked, x)
<1>1. LifecycleTypeOK /\ Sound(h) BY DEF LifecycleInv
<1>2. /\ io[h] = "rename" /\ tempAt # NoFile /\ cassetteAt' = tempAt /\ content' = content
      /\ acked' = IF StartingUp(h) THEN acked ELSE Append(acked, Last(memory[h]))
  BY DEF RenameTemp, FlushDone
<1>3. Records(h) /\ ~Over(h)
  BY <1>1, <1>2 DEF Sound, FlushUnderway, Over
<1>4. CassetteFile' = memory[h]
  BY <1>1, <1>2 DEF Sound, FlushUnderway, CassetteFile
<1>5. memory[h] \in Seq(Recorded) /\ acked \in Seq(Recorded) /\ submitted \subseteq Recorded
  BY <1>1 DEF LifecycleTypeOK, Recorded
<1>6. Readable(memory[h]) BY <1>5, SequencesAreReadable
<1>7. Readable(CassetteFile) => CassetteFile = acked
  BY DEF LifecycleInv, CassetteIsAcked
<1>8. CASE StartingUp(h)
  <2>1. memory[h] = acked BY <1>1, <1>2, <1>3, <1>8 DEF Sound, StoreIsCurrent
  <2>2. Grows(CassetteFile, memory[h])
    BY <1>5, <1>6, <1>7, <2>1, PrefixOfItself DEF Grows
  <2> QED BY <1>2, <1>3, <1>4, <1>6, <1>8, <2>1, <2>2
<1>9. CASE ~StartingUp(h)
  <2>1. PICK x \in submitted : /\ x \notin ToSet(acked) \cup orphans[h]
                               /\ memory[h] = Append(acked, x)
    BY <1>1, <1>2, <1>3, <1>7, <1>9 DEF Sound, StoreIsCurrent
  <2>2. x \in Recorded /\ Last(Append(acked, x)) = x
    BY <1>5, FrontLastOfAppend
  <2>3. acked' = Append(acked, x) BY <1>2, <1>9, <2>1, <2>2
  <2>4. IsPrefix(acked, Append(acked, x))
    BY <1>5, <2>2, PrefixOfItself, PrefixOfAppend
  <2>5. Grows(CassetteFile, memory[h]) BY <1>6, <1>7, <2>1, <2>4 DEF Grows
  <2> QED BY <1>3, <1>4, <1>6, <1>9, <2>1, <2>3, <2>5
<1> QED BY <1>8, <1>9

LEMMA RenameStep ==
  ASSUME LifecycleInv, HandOver = "quiet", NEW h \in Harnesses, RenameTemp(h)
  PROVE  LifecycleInv'
<1>1. LifecycleTypeOK /\ Sound(h) BY DEF LifecycleInv
<1>2. /\ Records(h) /\ ~Over(h) /\ CassetteFile' = memory[h] /\ Readable(memory[h])
      /\ Grows(CassetteFile, memory[h])
  BY RenamedMemory
<1>3. /\ UNCHANGED <<config, memory, clientGone, orphans, submitted, content>>
      /\ cassetteAt' = tempAt /\ tempAt' = NoFile /\ tempAt # NoFile /\ io[h] = "rename"
      /\ flushes' = [flushes EXCEPT ![h] = flushes[h] - 1]
      /\ io' = [io EXCEPT ![h] = IF flushes[h] = 2 THEN "create" ELSE "idle"]
      /\ fd' = [fd EXCEPT ![h] = NoFile]
      /\ IF flushes[h] = 2 THEN phase' = phase
         ELSE phase' = [phase EXCEPT ![h] = Following(phase[h])]
  BY <1>1 DEF RenameTemp, FlushDone, clientVars, Goes, LifecycleTypeOK
<1>4. /\ flushes[h] \in {1, 2} /\ (flushes[h] = 2 => StartingUp(h))
      /\ StartingUp(h) \/ phase[h] \in {"serving", "stopping", "stopped"}
  BY <1>1, <1>3 DEF Sound, FlushUnderway
<1>5. /\ \A p \in {"serving", "stopping", "stopped"} : Following(p) = p
      /\ \A p \in {"prepare", "probe", "server"} : Following(p) \in {"probe", "server", "bind"}
  BY DEF Following
<1>6. acked' \in Seq(Recorded)
  <2>1. memory[h] \in Seq(Recorded) BY <1>1 DEF LifecycleTypeOK
  <2> QED BY <2>1, RenamedMemory
<1>7. LifecycleTypeOK'
  <2>1. flushes' \in [Harnesses -> 0..2] BY <1>1, <1>3, <1>4 DEF LifecycleTypeOK
  <2>2. /\ io' \in [Harnesses -> {"idle", "create", "write", "rename"}]
        /\ fd' \in [Harnesses -> Inodes \cup {NoFile}]
    BY <1>1, <1>3 DEF LifecycleTypeOK
  <2>3. phase' \in [Harnesses -> Phases]
    BY <1>1, <1>3, <1>4, <1>5 DEF LifecycleTypeOK, Phases, StartingUp
  <2> QED BY <1>1, <1>3, <1>6, <2>1, <2>2, <2>3 DEF LifecycleTypeOK
<1>8. /\ fd'[h] = NoFile
      /\ \A g \in Harnesses \ {h} : /\ phase'[g] = phase[g] /\ memory'[g] = memory[g]
                                    /\ io'[g] = io[g] /\ fd'[g] = fd[g]
      /\ \/ flushes[h] = 2 /\ io'[h] = "create" /\ phase'[h] = phase[h] /\ flushes'[h] = 1
         \/ flushes[h] = 1 /\ io'[h] = "idle" /\ phase'[h] = Following(phase[h])
  BY <1>1, <1>3, <1>4 DEF LifecycleTypeOK
<1>9. OneRecorder'
  <2>1. \A g \in Harnesses \ {h} : Over(g)' <=> Over(g) BY <1>3, <1>8 DEF Over
  <2> QED BY <1>2, <1>3, <2>1, OneRecorderStays DEF LifecycleInv
<1>10. NamesApart' BY <1>3 DEF NamesApart
<1>11. acked' = memory[h] BY RenamedMemory
<1>12. CassetteIsAcked'
  <2>1. acked' = IF Readable(CassetteFile)' THEN CassetteFile' ELSE <<>>
    BY <1>2, <1>11 DEF Readable
  <2>2. CASE acked' = acked
    BY <1>3, <2>1, <2>2 DEF LifecycleInv, CassetteIsAcked
  <2>3. ASSUME NEW x \in submitted, x \notin ToSet(acked), acked' = Append(acked, x)
        PROVE  CassetteIsAcked'
    <3>1. acked \in Seq(Recorded) /\ x \in Recorded BY <1>1 DEF LifecycleTypeOK, Recorded
    <3>2. ToSet(acked') = ToSet(acked) \cup {x} BY <2>3, <3>1, ElementsOfAppend
    <3>3. \A j, k \in DOMAIN acked' : acked'[j] = acked'[k] => j = k
      <4>1. /\ DOMAIN acked' = 1..(Len(acked) + 1) /\ acked'[Len(acked) + 1] = x
            /\ \A k \in 1..Len(acked) : acked'[k] = acked[k]
        BY <2>3, <3>1
      <4>2. \A k \in 1..Len(acked) : acked[k] # x BY <2>3, <3>1 DEF ToSet
      <4>3. \A j, k \in 1..Len(acked) : acked[j] = acked[k] => j = k
        BY <3>1 DEF LifecycleInv, CassetteIsAcked
      <4>4. Len(acked) \in Nat /\ \A k \in 1..(Len(acked) + 1) : k = Len(acked) + 1 \/ k \in 1..Len(acked)
        BY <3>1
      <4> QED BY <4>1, <4>2, <4>3, <4>4
    <3> QED BY <1>3, <2>1, <3>2, <3>3 DEF LifecycleInv, CassetteIsAcked
  <2> QED BY <2>2, <2>3, RenamedMemory
<1>13. \A g \in Harnesses \ {h} : Sound(g)'
  BY <1>2, <1>3, <1>7, <1>8, OthersStaySound
<1>14. Sound(h)'
  <2>1. Readable(CassetteFile)' BY <1>2 DEF Readable
  <2>2. FlushUnderway(h)'
    BY <1>2, <1>3, <1>4, <1>8 DEF FlushUnderway, StartingUp, Records
  <2>3. StoreIsCurrent(h)'
    BY <1>2, <1>3, <1>4, <1>8, <1>11, <2>1 DEF StoreIsCurrent, StartingUp, Records
  <2>4. ReplayerIsBehind(h)' BY <1>2, <1>3 DEF ReplayerIsBehind, Records
  <2>5. RunsAsConfigured(h)'
    <3>1. config[h].mode = "Record" /\ config' = config BY <1>2, <1>3 DEF Records
    <3>2. phase[h] \notin {"off", "stopped", "failed"} => config[h].valid
      BY <1>1 DEF Sound, RunsAsConfigured
    <3>3. phase[h] \in {"off", "stopped", "failed"} => phase'[h] = phase[h]
      BY <1>4, <1>5, <1>8 DEF StartingUp
    <3> QED BY <3>1, <3>2, <3>3 DEF RunsAsConfigured
  <2>6. OrphansWait(h)'
    <3>1. orphans[h] \cap ToSet(acked') = {}
      <4>1. OrphansWait(h) BY <1>1 DEF Sound
      <4>2. ASSUME NEW x \in submitted, x \notin ToSet(acked) \cup orphans[h],
                   acked' = Append(acked, x)
            PROVE  orphans[h] \cap ToSet(acked') = {}
        <5>1. acked \in Seq(Recorded) /\ x \in Recorded BY <1>1 DEF LifecycleTypeOK, Recorded
        <5>2. ToSet(acked') = ToSet(acked) \cup {x} BY <4>2, <5>1, ElementsOfAppend
        <5> QED BY <4>1, <4>2, <5>2 DEF OrphansWait
      <4> QED BY <4>1, <4>2, RenamedMemory DEF OrphansWait
    <3>2. phase[h] \in {"serving", "stopping", "stopped"} => phase'[h] = phase[h]
      BY <1>4, <1>5, <1>8
    <3> QED BY <1>1, <1>3, <3>1, <3>2 DEF Sound, OrphansWait, Records
  <2> QED BY <2>2, <2>3, <2>4, <2>5, <2>6 DEF Sound
<1> QED BY <1>7, <1>9, <1>10, <1>12, <1>13, <1>14 DEF LifecycleInv
-----------------------------------------------------------------------------
(* Every step of a harness, and what the invariant says of the cassette.   *)

LEMMA LifecycleInitInv ==
  ASSUME LifecycleInit, config = [h \in Harnesses |-> config[h]]
  PROVE  LifecycleInv
<1>1. /\ Cardinality(Harnesses) \in Nat /\ 1 \in Inodes
      /\ <<OldSession>> \in Seq(Recorded) /\ <<>> \in Seq(Recorded)
  BY HarnessesAssumption, FS_CardinalityType DEF Inodes, Recorded
<1>2. Readable(<<OldSession>>) /\ ~Readable(Empty) /\ ~Readable(Torn)
  BY <1>1, SequencesAreReadable DEF Readable
<1>3. LifecycleTypeOK
  <2>1. content \in [Inodes -> Seq(Recorded) \cup {Empty, Torn}] /\ acked \in Seq(Recorded)
    <3>1. CASE content = [i \in Inodes |-> Empty] /\ acked = <<>>
      BY <1>1, <3>1
    <3>2. ASSUME NEW old \in {Torn, <<OldSession>>},
                 content = [i \in Inodes |-> IF i = 1 THEN old ELSE Empty],
                 acked = IF old = Torn THEN <<>> ELSE old
          PROVE  content \in [Inodes -> Seq(Recorded) \cup {Empty, Torn}] /\ acked \in Seq(Recorded)
      <4>1. old \in Seq(Recorded) \cup {Empty, Torn} /\ (old # Torn => old \in Seq(Recorded))
        BY <1>1
      <4> QED BY <1>1, <3>2, <4>1
    <3> QED BY <3>1, <3>2 DEF LifecycleInit
  <2>2. cassetteAt \in Inodes \cup {NoFile} BY <1>1 DEF LifecycleInit
  <2> QED BY <1>1, <2>1, <2>2 DEF LifecycleInit, LifecycleTypeOK, Phases
<1>4. OneRecorder
  BY DEF LifecycleInit, OneRecorder, Over
<1>5. NamesApart BY DEF LifecycleInit, NamesApart
<1>6. CassetteIsAcked
  <2>1. \/ CassetteFile \in {Empty, Torn} /\ acked = <<>>
        \/ CassetteFile = <<OldSession>> /\ acked = <<OldSession>>
    <3>1. CASE cassetteAt = NoFile
      BY <3>1 DEF LifecycleInit, CassetteFile, NoFile
    <3>2. CASE cassetteAt # NoFile
      <4>1. PICK old \in {Torn, <<OldSession>>} :
              /\ cassetteAt = 1 /\ content = [i \in Inodes |-> IF i = 1 THEN old ELSE Empty]
              /\ acked = IF old = Torn THEN <<>> ELSE old
        BY <3>2 DEF LifecycleInit
      <4>2. CassetteFile = old BY <1>1, <3>2, <4>1 DEF CassetteFile
      <4>3. <<OldSession>> # Torn BY <1>2
      <4> QED BY <4>1, <4>2, <4>3
    <3> QED BY <3>1, <3>2
  <2>2. acked = IF Readable(CassetteFile) THEN CassetteFile ELSE <<>>
    BY <1>2, <2>1
  <2>3. ToSet(acked) \subseteq {OldSession} /\ \A j, k \in DOMAIN acked : acked[j] = acked[k] => j = k
    BY <2>1 DEF ToSet
  <2> QED BY <2>2, <2>3 DEF CassetteIsAcked
<1>7. \A h \in Harnesses : Sound(h)
  BY DEF LifecycleInit, Sound, FlushUnderway, StoreIsCurrent, OrphansWait, ReplayerIsBehind,
         RunsAsConfigured
<1> QED BY <1>3, <1>4, <1>5, <1>6, <1>7 DEF LifecycleInv

LEMMA HarnessStepInv ==
  ASSUME LifecycleInv, HandOver = "quiet", NEW h \in Harnesses, HarnessStep(h)
  PROVE  LifecycleInv'
<1>1. LifecycleTypeOK /\ Sound(h) BY DEF LifecycleInv
<1> USE DEF Disk, Phases
<1>2. CASE StartHarness(h)
  <2>1. /\ phase[h] = "off" /\ MayStart(h)
        /\ Goes(h, IF config[h].valid THEN "prepare" ELSE "failed")
        /\ UNCHANGED <<config, memory, flushVars, clientVars, Disk>>
    BY <1>2 DEF StartHarness
  <2>2. io[h] = "idle" /\ orphans[h] = {}
    BY <1>1, <2>1 DEF Sound, FlushUnderway, OrphansWait, StartingUp
  <2>3. Records(h) => \A g \in Harnesses : Records(g) => Over(g)
    BY <2>1 DEF MayStart
  <2> QED BY <2>1, <2>2, <2>3, PhaseStep
<1>3. CASE OpenOrCreateForRecord(h) BY <1>3, OpenOrCreateStep
<1>4. CASE OpenForReplay(h) BY <1>4, OpenForReplayStep
<1>5. CASE BindListener(h) \/ FromConfigFails(h)
  <2>1. PICK to \in {"failed", "serving"} :
          Goes(h, to) /\ UNCHANGED <<config, memory, flushVars, clientVars, Disk>>
    BY <1>5 DEF BindListener, FromConfigFails
  <2>2. phase[h] = "bind" BY <1>5 DEF BindListener, FromConfigFails
  <2>3. io[h] = "idle" /\ orphans[h] = {}
    BY <1>1, <2>2 DEF Sound, FlushUnderway, OrphansWait, StartingUp
  <2>4. ~Over(h) /\ config[h].valid BY <1>1, <2>2 DEF Over, Sound, RunsAsConfigured
  <2> QED BY <2>1, <2>2, <2>3, <2>4, PhaseStep
<1>6. CASE Shutdown(h) \/ ServerStops(h)
  <2>1. PICK to \in {"stopping", "stopped"} :
          Goes(h, to) /\ UNCHANGED <<config, memory, flushVars, clientVars, Disk>>
    BY <1>6 DEF Shutdown, ServerStops
  <2>2. phase[h] \in {"serving", "stopping"} BY <1>6 DEF Shutdown, ServerStops
  <2>3. ~Over(h) /\ config[h].valid BY <1>1, <2>2 DEF Over, Sound, RunsAsConfigured
  <2> QED BY <2>1, <2>2, <2>3, PhaseStep
<1>7. ASSUME NEW x \in Interactions,
             AppendInteraction(h, x) \/ LeaveBeforeAppend(h, x) \/ AppendOrphan(h, x)
      PROVE  LifecycleInv'
  BY <1>7, AppendStep, LeaveStep
<1>8. CASE Disconnect(h)
  <2>1. /\ UNCHANGED <<config, phase, memory, io, flushes, fd, orphans, diskVars, historyVars>>
        /\ clientGone' \in [Harnesses -> BOOLEAN]
    BY <1>1, <1>8 DEF Disconnect, flushVars, LifecycleTypeOK
  <2>2. LifecycleTypeOK'
    BY <1>1, <2>1 DEF LifecycleTypeOK, diskVars, historyVars
  <2>3. OneRecorder' /\ NamesApart' /\ CassetteIsAcked'
    BY <2>1 DEF LifecycleInv, OneRecorder, Records, Over, NamesApart, CassetteIsAcked,
                CassetteFile, diskVars, historyVars
  <2>4. \A g \in Harnesses : Sound(g)' BY <2>1, UndisturbedStaysSound
  <2> QED BY <2>2, <2>3, <2>4 DEF LifecycleInv
<1>9. CASE FlushStep(h)
  BY <1>9, CreateOrWriteStep, FailureStep, RenameStep DEF FlushStep
<1> QED BY <1>2, <1>3, <1>4, <1>5, <1>6, <1>7, <1>8, <1>9 DEF HarnessStep

(* Whatever a harness does, the cassette it finds is only extended.        *)
LEMMA HarnessStepGrows ==
  ASSUME LifecycleInv, HandOver = "quiet", NEW h \in Harnesses, HarnessStep(h)
  PROVE  Grows(CassetteFile, CassetteFile')
<1>1. LifecycleTypeOK /\ Sound(h) BY DEF LifecycleInv
<1>2. CassetteFile' = CassetteFile => Grows(CassetteFile, CassetteFile')
  BY <1>1, CassetteFileType, PrefixOfItself DEF Grows
<1>3. CASE UNCHANGED diskVars
  BY <1>2, <1>3 DEF diskVars, CassetteFile
<1>4. CASE RenameTemp(h)
  BY <1>4, RenamedMemory
<1>5. ASSUME NEW file \in Inodes, file # cassetteAt, cassetteAt' = cassetteAt,
             NEW bytes, content' = [content EXCEPT ![file] = bytes]
      PROVE  Grows(CassetteFile, CassetteFile')
  <2>1. CassetteFile' = CassetteFile BY <1>1, <1>5 DEF CassetteFile, LifecycleTypeOK
  <2> QED BY <1>2, <2>1
<1>6. CASE CreateTemp(h)
  <2> DEFINE file == IF tempAt # NoFile THEN tempAt
                     ELSE CHOOSE i \in Inodes \ InUse : \A j \in Inodes \ InUse : i <= j
  <2>1. io[h] = "create" BY <1>6 DEF CreateTemp
  <2>2. file \in Inodes /\ file # cassetteAt BY <2>1, FreshFile
  <2>3. cassetteAt' = cassetteAt /\ content' = [content EXCEPT ![file] = Empty]
    BY <1>6 DEF CreateTemp
  <2> HIDE DEF file
  <2> QED BY <1>5, <2>2, <2>3
<1>7. CASE WriteTemp(h) \/ WriteFails(h)
  <2>1. io[h] = "write" BY <1>7 DEF WriteTemp, WriteFails
  <2>2. fd[h] \in Inodes /\ fd[h] # cassetteAt
    BY <1>1, <2>1 DEF Sound, FlushUnderway, LifecycleTypeOK, LifecycleInv, NamesApart
  <2>3. cassetteAt' = cassetteAt /\ \E bytes : content' = [content EXCEPT ![fd[h]] = bytes]
    BY <1>7 DEF WriteTemp, WriteFails
  <2> QED BY <1>5, <2>2, <2>3
<1> QED BY <1>3, <1>4, <1>6, <1>7
        DEF HarnessStep, StartHarness, OpenOrCreateForRecord, OpenForReplay, FromConfigFails,
            BindListener, Shutdown, ServerStops, AppendInteraction, LeaveBeforeAppend,
            AppendOrphan, TakesStore, Disconnect, FlushStep, CreateFails, RenameFails

LEMMA InvKeepsAcked == LifecycleInv => AckedInteractionsStay
<1> SUFFICES ASSUME LifecycleInv, acked # <<>>
             PROVE  /\ Readable(CassetteFile) /\ CassetteFile = acked
                    /\ \A j, k \in DOMAIN acked : acked[j] = acked[k] => j = k
  BY DEF AckedInteractionsStay
<1> QED BY DEF LifecycleInv, CassetteIsAcked

LEMMA InvServesAPrefix == LifecycleInv => ReplayServesAPrefix
BY DEF LifecycleInv, Sound, ReplayerIsBehind, ReplayServesAPrefix, Listening

-----------------------------------------------------------------------------
(* The processes. *)
Stages == {"embedded", "absent", "launched", "parsing", "loading", "running", "exited"}

ProcessTypeOK ==
  /\ launch \in Sessions
  /\ stage \in [Harnesses -> Stages]
  /\ settings = [h \in Harnesses |-> settings[h]]
  /\ output = [h \in Harnesses |-> output[h]]
  /\ exit = [h \in Harnesses |-> exit[h]]

(* Before its configuration is loaded a process has touched nothing, and   *)
(* it has no settings before it has parsed.                                *)
Untouched(h) ==
  /\ phase[h] = "off" /\ io[h] = "idle" /\ orphans[h] = {} /\ fd[h] = NoFile
  /\ memory[h] = <<>>

StagesInOrder(h) ==
  /\ stage[h] \notin {"embedded", "absent"} =>
       launch[h].kind = "process" /\ config[h].mode = ModeOf(launch[h].command)
  /\ stage[h] \in {"absent", "launched", "parsing", "loading"} => Untouched(h)
  /\ stage[h] \in {"launched", "parsing"} => settings[h] = Nothing

(* From then on it has the configuration its launch asks for.              *)
Loaded(h) ==
  stage[h] \in {"loading", "running"} =>
    LET built == BuildConfig(launch[h]) IN
    /\ launch[h].command \in DOMAIN Modes
    /\ settings[h] = built
    /\ ValidLocales(built)
    /\ config[h] = [mode |-> built.mode, valid |-> ValidateConfig(built), addr |-> built.listen]

(* What a process that is gone leaves behind, and says.                    *)
Exited(h) ==
  stage[h] = "exited" =>
    /\ io[h] = "idle" /\ orphans[h] = {} /\ fd[h] = NoFile
    /\ phase[h] \in {"off", "failed", "stopped"}
    /\ settings[h] = Nothing => memory[h] = <<>> /\ phase[h] \in {"off", "stopped"}
    /\ exit[h] = 0 =>
         \/ launch[h].command = "help" /\ output[h].stream = "stdout" /\ phase[h] = "off"
         \/ phase[h] = "stopped" /\ config[h].valid /\ config[h].mode # "Verify"
    /\ exit[h] = 2 =>
         launch[h].command = "wrong" /\ output[h].stream = "stderr" /\ phase[h] = "off"

OutputLocalized(h) ==
  output[h] # Nothing => output[h].localizer = SelectCliLocalizer(launch[h].early)

(* A server that has stopped was configured to run.                        *)
StoppedAsConfigured(h) ==
  stage[h] = "running" /\ phase[h] = "stopped" => config[h].valid /\ config[h].mode # "Verify"

Orderly(h) ==
  /\ StagesInOrder(h) /\ Loaded(h) /\ Exited(h) /\ OutputLocalized(h) /\ StoppedAsConfigured(h)

IInv == LifecycleInv /\ ProcessTypeOK /\ \A h \in Harnesses : Orderly(h)
-----------------------------------------------------------------------------
(* What the steps of a process do to the harnesses. *)

LEMMA LoadConfigInv ==
  ASSUME IInv, NEW h \in Harnesses, LoadConfig(h)
  PROVE  /\ LifecycleInv'
         /\ UNCHANGED <<phase, memory, io, fd, orphans>>
         /\ \A g \in Harnesses : config'[g].mode = config[g].mode
         /\ \A g \in Harnesses \ {h} : config'[g] = config[g]
<1> DEFINE built == BuildConfig(launch[h])
<1>1. /\ stage[h] = "parsing" /\ launch[h].command \in DOMAIN Modes
      /\ config' = [config EXCEPT ![h] = [mode |-> built.mode, valid |-> ValidateConfig(built),
                                          addr |-> built.listen]]
      /\ UNCHANGED <<phase, memory, io, flushes, fd, clientGone, orphans, diskVars, historyVars>>
  BY DEF LoadConfig, flushVars, clientVars
<1>2. built.mode = Modes[launch[h].command] BY DEF BuildConfig
<1>3. /\ config[h].mode = Modes[launch[h].command]
      /\ phase[h] = "off" /\ io[h] = "idle" /\ orphans[h] = {} /\ fd[h] = NoFile
  BY <1>1 DEF IInv, Orderly, StagesInOrder, Untouched, ModeOf
<1> HIDE DEF built
<1>4. LifecycleInv /\ LifecycleTypeOK BY DEF IInv, LifecycleInv
<1>5. /\ config'[h].mode = config[h].mode
      /\ \A g \in Harnesses \ {h} : config'[g] = config[g]
      /\ config' = [g \in Harnesses |-> config'[g]]
  BY <1>1, <1>2, <1>3, <1>4 DEF LifecycleTypeOK
<1>6. \A g \in Harnesses : config'[g].mode = config[g].mode BY <1>5
<1>7. LifecycleTypeOK'
  BY <1>1, <1>4, <1>5 DEF LifecycleTypeOK, diskVars, historyVars
<1>8. OneRecorder' /\ NamesApart' /\ CassetteIsAcked'
  <2>1. \A g \in Harnesses : (Records(g)' <=> Records(g)) /\ (Over(g)' <=> Over(g))
    BY <1>1, <1>6 DEF Records, Over
  <2> QED BY <1>1, <1>4, <2>1 DEF LifecycleInv, OneRecorder, NamesApart, CassetteIsAcked,
                                  CassetteFile, diskVars, historyVars
<1>9. \A g \in Harnesses \ {h} : Sound(g)'
  BY <1>1, <1>4, <1>5, UndisturbedStaysSound
<1>10. Sound(h)'
  <2>1. phase'[h] = "off" /\ io'[h] = "idle" /\ orphans'[h] = {} /\ fd'[h] = NoFile
    BY <1>1, <1>3
  <2> QED BY <2>1 DEF Sound, FlushUnderway, StoreIsCurrent, OrphansWait, ReplayerIsBehind,
                      RunsAsConfigured
<1> QED BY <1>1, <1>5, <1>6, <1>7, <1>8, <1>9, <1>10 DEF LifecycleInv

LEMMA KilledInv ==
  ASSUME IInv, HandOver = "quiet", NEW h \in Harnesses, Killed(h)
  PROVE  /\ LifecycleInv'
         /\ CassetteFile' = CassetteFile
         /\ UNCHANGED <<config, memory>>
         /\ \A g \in Harnesses \ {h} : /\ phase'[g] = phase[g] /\ io'[g] = io[g]
                                       /\ fd'[g] = fd[g] /\ orphans'[g] = orphans[g]
         /\ phase'[h] = "stopped" /\ io'[h] = "idle" /\ orphans'[h] = {} /\ fd'[h] = NoFile
<1>1. LifecycleInv /\ LifecycleTypeOK /\ Sound(h) BY DEF IInv, LifecycleInv
<1>2. /\ phase' = [phase EXCEPT ![h] = "stopped"] /\ io' = [io EXCEPT ![h] = "idle"]
      /\ flushes' = [flushes EXCEPT ![h] = 0] /\ fd' = [fd EXCEPT ![h] = NoFile]
      /\ orphans' = [orphans EXCEPT ![h] = {}]
      /\ UNCHANGED <<config, memory, clientGone, cassetteAt, tempAt, submitted, acked>>
      /\ \/ content' = content
         \/ io[h] = "write" /\ content' = [content EXCEPT ![fd[h]] = Torn]
  BY DEF Killed, historyVars
<1>3. /\ phase'[h] = "stopped" /\ io'[h] = "idle" /\ orphans'[h] = {} /\ fd'[h] = NoFile
      /\ \A g \in Harnesses \ {h} : /\ phase'[g] = phase[g] /\ io'[g] = io[g]
                                    /\ fd'[g] = fd[g] /\ flushes'[g] = flushes[g]
                                    /\ orphans'[g] = orphans[g]
  BY <1>1, <1>2 DEF LifecycleTypeOK
<1>4. io[h] = "write" => Records(h) /\ ~Over(h) /\ fd[h] = tempAt /\ fd[h] # cassetteAt
  BY <1>1 DEF Sound, FlushUnderway, Over, LifecycleInv, NamesApart
<1>5. CassetteFile' = CassetteFile
  BY <1>1, <1>2, <1>4 DEF CassetteFile, LifecycleTypeOK
<1>6. LifecycleTypeOK'
  <2>1. /\ phase' \in [Harnesses -> Phases]
        /\ io' \in [Harnesses -> {"idle", "create", "write", "rename"}]
    BY <1>1, <1>2 DEF LifecycleTypeOK, Phases
  <2>2. flushes' \in [Harnesses -> 0..2] /\ fd' \in [Harnesses -> Inodes \cup {NoFile}]
    BY <1>1, <1>2 DEF LifecycleTypeOK
  <2>3. content' \in [Inodes -> Seq(Recorded) \cup {Empty, Torn}]
    BY <1>1, <1>2 DEF LifecycleTypeOK
  <2>4. orphans' \in [Harnesses -> SUBSET Interactions] BY <1>1, <1>2 DEF LifecycleTypeOK
  <2> QED BY <1>1, <1>2, <2>1, <2>2, <2>3, <2>4 DEF LifecycleTypeOK
<1>7. OneRecorder'
  <2>1. \A g \in Harnesses \ {h} : Over(g)' <=> Over(g) BY <1>3 DEF Over
  <2>2. Over(h)' BY <1>3 DEF Over
  <2> QED BY <1>1, <1>2, <2>1, <2>2, OneRecorderStays DEF LifecycleInv
<1>8. NamesApart' /\ CassetteIsAcked'
  BY <1>1, <1>2, <1>5 DEF LifecycleInv, NamesApart, CassetteIsAcked
<1>9. \A g \in Harnesses \ {h} : Sound(g)'
  <2>1. CASE content' = content
    BY <1>1, <1>2, <1>3, <2>1, UndisturbedStaysSound DEF diskVars, historyVars
  <2>2. CASE io[h] = "write"
    <3>1. Grows(CassetteFile, CassetteFile')
      BY <1>1, <1>5, CassetteFileType, PrefixOfItself DEF Grows
    <3> QED BY <1>1, <1>2, <1>3, <1>4, <1>6, <2>2, <3>1, OthersStaySound
  <2> QED BY <1>2, <2>1, <2>2
<1>10. Sound(h)'
  BY <1>1, <1>3 DEF Sound, FlushUnderway, StoreIsCurrent, OrphansWait, ReplayerIsBehind,
                    RunsAsConfigured
<1> QED BY <1>2, <1>3, <1>5, <1>6, <1>7, <1>8, <1>9, <1>10 DEF LifecycleInv

LEMMA UndisturbedInv ==
  ASSUME LifecycleInv, UNCHANGED vars
  PROVE  LifecycleInv'
<1>1. /\ UNCHANGED <<config, phase, memory, io, flushes, fd, clientGone, orphans, diskVars,
                     historyVars>>
      /\ UNCHANGED <<cassetteAt, tempAt, content, submitted, acked>>
  BY DEF vars, flushVars, clientVars, diskVars, historyVars
<1>2. LifecycleTypeOK' BY <1>1 DEF LifecycleInv, LifecycleTypeOK
<1>3. OneRecorder' /\ NamesApart' /\ CassetteIsAcked'
  BY <1>1 DEF LifecycleInv, OneRecorder, Records, Over, NamesApart, CassetteIsAcked, CassetteFile
<1>4. \A g \in Harnesses : Sound(g)' BY <1>1, UndisturbedStaysSound
<1> QED BY <1>2, <1>3, <1>4 DEF LifecycleInv

(* A harness's step is its own, and only a stopping server comes to a stop.*)
LEMMA HarnessStepIsLocal ==
  ASSUME LifecycleInv, NEW h \in Harnesses, HarnessStep(h)
  PROVE  /\ config' = config
         /\ \A g \in Harnesses \ {h} : /\ phase'[g] = phase[g] /\ memory'[g] = memory[g]
                                       /\ io'[g] = io[g] /\ fd'[g] = fd[g]
                                       /\ orphans'[g] = orphans[g]
         /\ phase'[h] = "stopped" => phase[h] \in {"stopping", "stopped"}
<1>1. LifecycleTypeOK BY DEF LifecycleInv
<1>2. \A p : Following(p) = "stopped" => p = "stopped" BY DEF Following
<1> USE DEF LifecycleTypeOK, Goes, flushVars, clientVars
<1>3. CASE StartHarness(h) \/ BindListener(h) \/ FromConfigFails(h) \/ Shutdown(h) \/ ServerStops(h)
  BY <1>1, <1>3 DEF StartHarness, BindListener, FromConfigFails, Shutdown, ServerStops
<1>4. CASE OpenOrCreateForRecord(h)
  BY <1>1, <1>2, <1>4 DEF OpenOrCreateForRecord, StartingUp
<1>5. CASE OpenForReplay(h)
  BY <1>1, <1>5 DEF OpenForReplay
<1>6. ASSUME NEW x \in Interactions,
             AppendInteraction(h, x) \/ LeaveBeforeAppend(h, x) \/ AppendOrphan(h, x)
      PROVE  /\ config' = config /\ phase' = phase /\ fd' = fd
             /\ \A g \in Harnesses \ {h} :
                  memory'[g] = memory[g] /\ io'[g] = io[g] /\ orphans'[g] = orphans[g]
  BY <1>1, <1>6 DEF AppendInteraction, LeaveBeforeAppend, AppendOrphan, TakesStore
<1>7. CASE Disconnect(h)
  BY <1>1, <1>7 DEF Disconnect
<1>8. CASE CreateTemp(h) \/ WriteTemp(h)
  BY <1>1, <1>8 DEF CreateTemp, WriteTemp
<1>9. CASE RenameTemp(h)
  BY <1>1, <1>2, <1>9 DEF RenameTemp, FlushDone
<1>10. CASE FlushFails(h)
  BY <1>1, <1>10 DEF FlushFails
<1> QED BY <1>3, <1>4, <1>5, <1>6, <1>7, <1>8, <1>9, <1>10
        DEF HarnessStep, FlushStep, CreateFails, WriteFails, RenameFails

LEMMA OthersStayOrderly ==
  ASSUME NEW g \in Harnesses, Orderly(g), launch' = launch,
         stage'[g] = stage[g], settings'[g] = settings[g], output'[g] = output[g],
         exit'[g] = exit[g], config'[g] = config[g], phase'[g] = phase[g],
         memory'[g] = memory[g], io'[g] = io[g], fd'[g] = fd[g], orphans'[g] = orphans[g]
  PROVE  Orderly(g)'
BY DEF Orderly, StagesInOrder, Untouched, Loaded, Exited, OutputLocalized, StoppedAsConfigured

(* Steps that read the command line and leave the harnesses alone.         *)
LEMMA StageStep ==
  ASSUME IInv, ProcessTypeOK', NEW h \in Harnesses, UNCHANGED <<vars, launch, settings>>,
         \A g \in Harnesses \ {h} :
           stage'[g] = stage[g] /\ output'[g] = output[g] /\ exit'[g] = exit[g],
         stage[h] \in {"launched", "parsing", "loading"},
         \/ output'[h] = output[h]
         \/ output'[h].localizer = SelectCliLocalizer(launch[h].early),
         \/ stage[h] = "launched" /\ stage'[h] = "parsing"
         \/ stage[h] = "loading" /\ stage'[h] = "running"
         \/ /\ stage'[h] = "exited"
            /\ exit'[h] = 0 => launch[h].command = "help" /\ output'[h].stream = "stdout"
            /\ exit'[h] = 2 => launch[h].command = "wrong" /\ output'[h].stream = "stderr"
  PROVE  IInv'
<1>1. LifecycleInv' BY UndisturbedInv DEF IInv
<1>2. UNCHANGED <<config, phase, memory, io, fd, orphans>> BY DEF vars, flushVars, clientVars
<1>3. \A g \in Harnesses \ {h} : Orderly(g)'
  BY <1>2, OthersStayOrderly DEF IInv
<1>4. Orderly(h)'
  <2>1. Orderly(h) BY DEF IInv
  <2>2. Untouched(h) /\ (stage[h] # "loading" => settings[h] = Nothing)
    BY <2>1 DEF Orderly, StagesInOrder
  <2>3. StagesInOrder(h)' BY <1>2, <2>1, <2>2 DEF Orderly, StagesInOrder, Untouched
  <2>4. Loaded(h)' BY <1>2, <2>1 DEF Orderly, Loaded
  <2>5. Exited(h)' BY <1>2, <2>2 DEF Exited, Untouched
  <2>6. OutputLocalized(h)' BY <2>1 DEF Orderly, OutputLocalized
  <2>7. StoppedAsConfigured(h)' BY <1>2, <2>2 DEF StoppedAsConfigured, Untouched
  <2> QED BY <2>3, <2>4, <2>5, <2>6, <2>7 DEF Orderly
<1> QED BY <1>1, <1>3, <1>4 DEF IInv

LEMMA ProcessStepInv ==
  ASSUME IInv, NEW h \in Harnesses,
         \/ InitializeTracing(h) \/ DisplayCliOutput(h) \/ DisplayCliParseError(h)
         \/ LoadConfigFails(h) \/ BuildLanguageLoader(h) \/ BuildRuntimeFails(h)
  PROVE  IInv'
<1>1. ProcessTypeOK BY DEF IInv
<1> USE DEF Reaches, Exits
<1>2. UNCHANGED <<vars, launch, settings>>
  BY DEF InitializeTracing, DisplayCliOutput, DisplayCliParseError, LoadConfigFails,
         BuildLanguageLoader, BuildRuntimeFails
<1>3. \/ output' = output
      \/ \E stream : output' = [output EXCEPT ![h] =
           [stream |-> stream, localizer |-> SelectCliLocalizer(launch[h].early)]]
  BY DEF InitializeTracing, DisplayCliOutput, DisplayCliParseError, LoadConfigFails,
         BuildLanguageLoader, BuildRuntimeFails, Writes
<1>4. /\ \E to \in {"parsing", "running", "exited"} : stage' = [stage EXCEPT ![h] = to]
      /\ exit' = exit \/ \E status : exit' = [exit EXCEPT ![h] = status]
  BY DEF InitializeTracing, DisplayCliOutput, DisplayCliParseError, LoadConfigFails,
         BuildLanguageLoader, BuildRuntimeFails, Writes
<1>5. ProcessTypeOK'
  BY <1>1, <1>2, <1>3, <1>4 DEF ProcessTypeOK, Stages
<1>6. \A g \in Harnesses \ {h} :
        stage'[g] = stage[g] /\ output'[g] = output[g] /\ exit'[g] = exit[g]
  BY <1>1, <1>3, <1>4 DEF ProcessTypeOK
<1>7. \/ output'[h] = output[h]
      \/ output'[h].localizer = SelectCliLocalizer(launch[h].early)
  BY <1>1, <1>3 DEF ProcessTypeOK
<1>8. /\ stage[h] \in {"launched", "parsing", "loading"}
      /\ \/ stage[h] = "launched" /\ stage'[h] = "parsing"
         \/ stage[h] = "loading" /\ stage'[h] = "running"
         \/ /\ stage'[h] = "exited"
            /\ exit'[h] = 0 => launch[h].command = "help" /\ output'[h].stream = "stdout"
            /\ exit'[h] = 2 => launch[h].command = "wrong" /\ output'[h].stream = "stderr"
  <2>1. CASE InitializeTracing(h) \/ BuildLanguageLoader(h)
    BY <1>1, <2>1 DEF InitializeTracing, BuildLanguageLoader, ProcessTypeOK
  <2>2. CASE LoadConfigFails(h) \/ BuildRuntimeFails(h)
    BY <1>1, <2>2 DEF LoadConfigFails, BuildRuntimeFails, ProcessTypeOK
  <2>3. CASE DisplayCliOutput(h) \/ DisplayCliParseError(h)
    BY <1>1, <2>3 DEF DisplayCliOutput, DisplayCliParseError, Writes, ProcessTypeOK
  <2> QED BY <2>1, <2>2, <2>3
<1> QED BY <1>2, <1>5, <1>6, <1>7, <1>8, StageStep

LEMMA LoadConfigStep ==
  ASSUME IInv, NEW h \in Harnesses, LoadConfig(h)
  PROVE  IInv'
<1> DEFINE built == BuildConfig(launch[h])
           configured == [mode |-> built.mode, valid |-> ValidateConfig(built), addr |-> built.listen]
<1>1. /\ LifecycleInv' /\ UNCHANGED <<phase, memory, io, fd, orphans>>
      /\ config'[h].mode = config[h].mode
      /\ \A g \in Harnesses \ {h} : config'[g] = config[g]
  BY LoadConfigInv
<1>2. /\ stage[h] = "parsing" /\ launch[h].command \in DOMAIN Modes /\ ValidLocales(built)
      /\ settings' = [settings EXCEPT ![h] = built] /\ config' = [config EXCEPT ![h] = configured]
      /\ stage' = [stage EXCEPT ![h] = "loading"] /\ UNCHANGED <<launch, output, exit>>
  BY DEF LoadConfig, Reaches
<1> HIDE DEF built
<1>3. /\ stage'[h] = "loading" /\ settings'[h] = built /\ config'[h] = configured
      /\ \A g \in Harnesses \ {h} : stage'[g] = stage[g] /\ settings'[g] = settings[g]
  BY <1>2 DEF IInv, ProcessTypeOK, LifecycleInv, LifecycleTypeOK
<1>4. ProcessTypeOK' BY <1>2 DEF IInv, ProcessTypeOK, Stages
<1>5. \A g \in Harnesses \ {h} : Orderly(g)'
  BY <1>1, <1>2, <1>3, OthersStayOrderly DEF IInv
<1>6. Orderly(h)'
  <2>1. Orderly(h) BY DEF IInv
  <2>2. StagesInOrder(h)'
    BY <1>1, <1>2, <1>3, <2>1 DEF Orderly, StagesInOrder, Untouched
  <2>3. Loaded(h)' BY <1>2, <1>3 DEF Loaded, built
  <2>4. Exited(h)' /\ StoppedAsConfigured(h)' BY <1>3 DEF Exited, StoppedAsConfigured
  <2>5. OutputLocalized(h)' BY <1>2, <2>1 DEF Orderly, OutputLocalized
  <2> QED BY <2>2, <2>3, <2>4, <2>5 DEF Orderly
<1> QED BY <1>1, <1>4, <1>5, <1>6 DEF IInv

LEMMA RunHarnessStep ==
  ASSUME IInv, HandOver = "quiet", NEW h \in Harnesses, RunHarness(h)
  PROVE  IInv'
<1>1. /\ stage[h] \in {"embedded", "running"} /\ HarnessStep(h)
      /\ UNCHANGED <<launch, stage, settings, output, exit>>
  BY DEF RunHarness, processVars
<1>2. LifecycleInv' BY <1>1, HarnessStepInv DEF IInv
<1>3. /\ config' = config
      /\ \A g \in Harnesses \ {h} : /\ phase'[g] = phase[g] /\ memory'[g] = memory[g]
                                    /\ io'[g] = io[g] /\ fd'[g] = fd[g]
                                    /\ orphans'[g] = orphans[g]
      /\ phase'[h] = "stopped" => phase[h] \in {"stopping", "stopped"}
  BY <1>1, HarnessStepIsLocal DEF IInv
<1>4. ProcessTypeOK' BY <1>1 DEF IInv, ProcessTypeOK
<1>5. \A g \in Harnesses \ {h} : Orderly(g)'
  BY <1>1, <1>3, OthersStayOrderly DEF IInv
<1>6. Orderly(h)'
  <2>1. Orderly(h) /\ RunsAsConfigured(h) BY DEF IInv, LifecycleInv, Sound
  <2>2. StagesInOrder(h)' /\ Loaded(h)' /\ OutputLocalized(h)' /\ Exited(h)'
    BY <1>1, <1>3, <2>1 DEF Orderly, StagesInOrder, Loaded, OutputLocalized, Exited
  <2>3. StoppedAsConfigured(h)'
    BY <1>1, <1>3, <2>1 DEF Orderly, StoppedAsConfigured, RunsAsConfigured
  <2> QED BY <2>2, <2>3 DEF Orderly
<1> QED BY <1>2, <1>4, <1>5, <1>6 DEF IInv

LEMMA HarnessReturnsStep ==
  ASSUME IInv, NEW h \in Harnesses, HarnessReturns(h)
  PROVE  IInv'
<1>1. /\ stage[h] = "running" /\ io[h] = "idle" /\ orphans[h] = {}
      /\ phase[h] \in {"failed", "stopped"}
      /\ stage' = [stage EXCEPT ![h] = "exited"]
      /\ \E status \in {0, 1} : /\ exit' = [exit EXCEPT ![h] = status]
                                /\ status = 0 => phase[h] = "stopped"
      /\ UNCHANGED <<vars, launch, settings, output>>
  BY DEF HarnessReturns, Exits
<1>2. LifecycleInv' BY <1>1, UndisturbedInv DEF IInv
<1>3. UNCHANGED <<config, phase, memory, io, fd, orphans>>
  BY <1>1 DEF vars, flushVars, clientVars
<1>4. /\ stage'[h] = "exited" /\ exit'[h] \in {0, 1} /\ (exit'[h] = 0 => phase[h] = "stopped")
      /\ \A g \in Harnesses \ {h} : stage'[g] = stage[g] /\ exit'[g] = exit[g]
      /\ ProcessTypeOK'
  BY <1>1 DEF IInv, ProcessTypeOK, Stages
<1>5. \A g \in Harnesses \ {h} : Orderly(g)'
  BY <1>1, <1>3, <1>4, OthersStayOrderly DEF IInv
<1>6. Orderly(h)'
  <2>1. Orderly(h) /\ FlushUnderway(h) BY DEF IInv, LifecycleInv, Sound
  <2>2. fd[h] = NoFile BY <1>1, <2>1 DEF FlushUnderway
  <2>3. settings[h] # Nothing
    BY <1>1, <2>1, SessionsAssumption DEF Orderly, Loaded, StagesInOrder, IInv, ProcessTypeOK
  <2>4. StagesInOrder(h)' /\ Loaded(h)' /\ OutputLocalized(h)' /\ StoppedAsConfigured(h)'
    BY <1>1, <1>3, <1>4, <2>1 DEF Orderly, StagesInOrder, Loaded, OutputLocalized, StoppedAsConfigured
  <2>5. phase[h] = "stopped" => config[h].valid /\ config[h].mode # "Verify"
    BY <1>1, <2>1 DEF Orderly, StoppedAsConfigured
  <2>6. Exited(h)' BY <1>1, <1>3, <1>4, <2>2, <2>3, <2>5 DEF Exited
  <2> QED BY <2>4, <2>6 DEF Orderly
<1> QED BY <1>2, <1>4, <1>5, <1>6 DEF IInv

LEMMA KilledStep ==
  ASSUME IInv, HandOver = "quiet", NEW h \in Harnesses, Killed(h)
  PROVE  IInv'
<1>1. /\ LifecycleInv' /\ UNCHANGED <<config, memory>>
      /\ \A g \in Harnesses \ {h} : /\ phase'[g] = phase[g] /\ io'[g] = io[g]
                                    /\ fd'[g] = fd[g] /\ orphans'[g] = orphans[g]
      /\ phase'[h] = "stopped" /\ io'[h] = "idle" /\ orphans'[h] = {} /\ fd'[h] = NoFile
  BY KilledInv
<1>2. /\ stage[h] \in {"parsing", "loading", "running"}
      /\ stage' = [stage EXCEPT ![h] = "exited"] /\ exit' = [exit EXCEPT ![h] = 137]
      /\ UNCHANGED <<launch, settings, output>>
  BY DEF Killed, Exits
<1>3. /\ stage'[h] = "exited" /\ exit'[h] = 137
      /\ \A g \in Harnesses \ {h} : stage'[g] = stage[g] /\ exit'[g] = exit[g]
      /\ ProcessTypeOK'
  BY <1>2 DEF IInv, ProcessTypeOK, Stages
<1>4. \A g \in Harnesses \ {h} : Orderly(g)'
  BY <1>1, <1>2, <1>3, OthersStayOrderly DEF IInv
<1>5. Orderly(h)'
  <2>1. Orderly(h) BY DEF IInv
  <2>2. settings[h] = Nothing => memory[h] = <<>>
    BY <1>2, <2>1, SessionsAssumption
       DEF Orderly, Loaded, StagesInOrder, Untouched, IInv, ProcessTypeOK
  <2>3. StagesInOrder(h)' /\ Loaded(h)' /\ OutputLocalized(h)' /\ StoppedAsConfigured(h)'
    BY <1>1, <1>2, <1>3, <2>1 DEF Orderly, StagesInOrder, Loaded, OutputLocalized, StoppedAsConfigured
  <2>4. Exited(h)' BY <1>1, <1>2, <1>3, <2>2 DEF Exited
  <2> QED BY <2>3, <2>4 DEF Orderly
<1> QED BY <1>1, <1>3, <1>4, <1>5 DEF IInv
-----------------------------------------------------------------------------
(* The invariant, for every session whose recorders hand over quietly.     *)

LEMMA InitIInv == ProcessInit => IInv
<1> SUFFICES ASSUME ProcessInit PROVE IInv OBVIOUS
<1>1. config = [h \in Harnesses |-> config[h]]
  BY DEF ProcessInit
<1>2. LifecycleInv BY <1>1, LifecycleInitInv DEF ProcessInit
<1>3. \A h \in Harnesses : /\ stage[h] \in {"embedded", "absent", "launched"}
                           /\ stage[h] = "launched" => launch[h].kind = "process"
  BY SessionsAssumption DEF ProcessInit
<1>4. ProcessTypeOK
  <2>1. stage \in [Harnesses -> Stages] BY <1>3 DEF ProcessInit, Stages
  <2> QED BY <2>1 DEF ProcessInit, ProcessTypeOK
<1>5. \A h \in Harnesses : Orderly(h)
  <2> SUFFICES ASSUME NEW h \in Harnesses PROVE Orderly(h) OBVIOUS
  <2>1. Untouched(h) /\ settings[h] = Nothing /\ output[h] = Nothing
    BY DEF ProcessInit, LifecycleInit, Untouched
  <2>2. stage[h] = "launched" => config[h].mode = ModeOf(launch[h].command)
    BY <1>3 DEF ProcessInit, FirstConfig
  <2>3. StagesInOrder(h) BY <1>3, <2>1, <2>2 DEF StagesInOrder
  <2>4. Loaded(h) /\ Exited(h) /\ OutputLocalized(h) /\ StoppedAsConfigured(h)
    BY <1>3, <2>1 DEF Loaded, Exited, OutputLocalized, StoppedAsConfigured
  <2> QED BY <2>3, <2>4 DEF Orderly
<1> QED BY <1>2, <1>4, <1>5 DEF IInv

LEMMA NextIInv ==
  ASSUME IInv, HandOver = "quiet", [ProcessNext]_allVars
  PROVE  IInv'
<1>1. CASE UNCHANGED allVars
  <2>1. /\ UNCHANGED vars /\ UNCHANGED <<launch, stage, settings, output, exit>>
        /\ UNCHANGED <<config, phase, memory, io, fd, orphans>>
    BY <1>1 DEF allVars, processVars, vars, flushVars, clientVars
  <2>2. LifecycleInv' BY <2>1, UndisturbedInv DEF IInv
  <2>3. ProcessTypeOK' BY <2>1 DEF IInv, ProcessTypeOK
  <2>4. \A h \in Harnesses : Orderly(h)' BY <2>1, OthersStayOrderly DEF IInv
  <2> QED BY <2>2, <2>3, <2>4 DEF IInv
<1>2. CASE ProcessNext
  BY <1>2, ProcessStepInv, LoadConfigStep, RunHarnessStep, HarnessReturnsStep, KilledStep
     DEF ProcessNext
<1> QED BY <1>1, <1>2

LEMMA AlwaysIInv == ASSUME HandOver = "quiet" PROVE ProcessSpec => []IInv
<1>1. ProcessInit => IInv BY InitIInv
<1>2. IInv /\ [ProcessNext]_allVars => IInv' BY NextIInv
<1> QED BY <1>1, <1>2, PTL DEF ProcessSpec

(* What a session was told is recorded is in the cassette, once and in     *)
(* order (FilesystemCassetteStore::append), whatever later starts, kills   *)
(* and failures of any number of harnesses do.                             *)
THEOREM AckedStay ==
  ASSUME HandOver = "quiet" PROVE ProcessSpec => []AckedInteractionsStay
<1>1. IInv => AckedInteractionsStay BY InvKeepsAcked DEF IInv
<1> QED BY <1>1, AlwaysIInv, PTL

(* A replay harness serves a beginning of the cassette, although it reads  *)
(* it twice and a recorder may rewrite it meanwhile (open_for_replay).     *)
THEOREM ServesAPrefix ==
  ASSUME HandOver = "quiet" PROVE ProcessSpec => []ReplayServesAPrefix
<1>1. IInv => ReplayServesAPrefix BY InvServesAPrefix DEF IInv
<1> QED BY <1>1, AlwaysIInv, PTL

(* No step of any harness or process, the kill in the middle of a write    *)
(* included, does more to the cassette than extend it.                     *)
THEOREM OnlyGrows ==
  ASSUME HandOver = "quiet" PROVE ProcessSpec => CassetteOnlyGrows
<1>1. ASSUME IInv, [ProcessNext]_allVars
      PROVE  [LET old == CassetteFile IN
              Readable(old) => Readable(CassetteFile') /\ IsPrefix(old, CassetteFile')]_vars
  <2>1. CassetteFile' = CassetteFile => Grows(CassetteFile, CassetteFile')
    <3>1. LifecycleTypeOK BY <1>1 DEF IInv, LifecycleInv
    <3> QED BY <3>1, CassetteFileType, PrefixOfItself DEF Grows
  <2>2. ASSUME NEW h \in Harnesses, RunHarness(h)
        PROVE  Grows(CassetteFile, CassetteFile')
    BY <1>1, <2>2, HarnessStepGrows DEF RunHarness, IInv
  <2>3. ASSUME NEW h \in Harnesses, LoadConfig(h)
        PROVE  Grows(CassetteFile, CassetteFile')
    BY <2>1, <2>3 DEF LoadConfig, diskVars, CassetteFile
  <2>4. ASSUME NEW h \in Harnesses, Killed(h)
        PROVE  Grows(CassetteFile, CassetteFile')
    BY <1>1, <2>1, <2>4, KilledInv
  <2>5. UNCHANGED vars \/ Grows(CassetteFile, CassetteFile')
    BY <1>1, <2>2, <2>3, <2>4
       DEF ProcessNext, allVars, InitializeTracing, DisplayCliOutput, DisplayCliParseError,
           LoadConfigFails, BuildLanguageLoader, BuildRuntimeFails, HarnessReturns
  <2> QED BY <2>5 DEF Grows
<1> QED BY <1>1, AlwaysIInv, PTL DEF ProcessSpec, CassetteOnlyGrows

(* A script can go by the exit status, and nothing of a process that is    *)
(* gone goes on (main, run_to_shutdown).                                   *)
THEOREM StatusTellsTheTruth ==
  ASSUME HandOver = "quiet" PROVE ProcessSpec => []ExitStatusTellsTheTruth
<1>1. ASSUME IInv PROVE ExitStatusTellsTheTruth
  <2> SUFFICES ASSUME NEW h \in Harnesses, stage[h] = "exited"
               PROVE  /\ exit[h] = 0 =>
                           \/ launch[h].command = "help" /\ output[h].stream = "stdout" /\ phase[h] = "off"
                           \/ phase[h] = "stopped" /\ config[h].valid /\ config[h].mode # "Verify"
                      /\ exit[h] = 2 =>
                           launch[h].command = "wrong" /\ output[h].stream = "stderr" /\ phase[h] = "off"
                      /\ io[h] = "idle" /\ orphans[h] = {} /\ fd[h] = NoFile /\ ~Listening(h)
                      /\ settings[h] = Nothing => memory[h] = <<>> /\ phase[h] \in {"off", "stopped"}
                      /\ output[h] # Nothing /\ launch[h].early.disable \notin Truthy =>
                           output[h].localizer \in Languages
    BY DEF ExitStatusTellsTheTruth
  <2>1. Exited(h) /\ OutputLocalized(h) BY <1>1 DEF IInv, Orderly
  <2>2. launch[h].early.disable \notin Truthy => SelectCliLocalizer(launch[h].early) \in Languages
    BY LanguagesAssumption DEF SelectCliLocalizer, EarlyLocalePlan
  <2> QED BY <2>1, <2>2 DEF Exited, OutputLocalized, Listening
<1> QED BY <1>1, AlwaysIInv, PTL

-----------------------------------------------------------------------------
(* The sources of a setting, one after the other.                          *)
LEMMA FirstSource ==
  ASSUME NEW l, NEW field
  PROVE  Asked(l, field) = IF Sets(l, 1, field) # {} THEN Sets(l, 1, field)
                           ELSE IF Sets(l, 2, field) # {} THEN Sets(l, 2, field)
                           ELSE Sets(l, 3, field)
<1> DEFINE first == {k \in 1..3 : \A j \in 1..(k - 1) : Sets(l, j, field) = {}}
<1>1. /\ 1 \in first
      /\ 2 \in first <=> Sets(l, 1, field) = {}
      /\ 3 \in first <=> Sets(l, 1, field) = {} /\ Sets(l, 2, field) = {}
      /\ first \subseteq {1, 2, 3}
  <2>1. 1..0 = {} /\ 1..1 = {1} /\ 1..2 = {1, 2} /\ 1..3 = {1, 2, 3} OBVIOUS
  <2>2. 1 - 1 = 0 /\ 2 - 1 = 1 /\ 3 - 1 = 2 OBVIOUS
  <2> QED BY <2>1, <2>2
<1>2. Asked(l, field) = UNION {Sets(l, k, field) : k \in first}
  BY DEF Asked
<1> HIDE DEF first
<1>3. CASE Sets(l, 1, field) # {}
  <2>1. first = {1} BY <1>1, <1>3
  <2> QED BY <1>2, <1>3, <2>1
<1>4. CASE Sets(l, 1, field) = {} /\ Sets(l, 2, field) # {}
  <2>1. first = {1, 2} BY <1>1, <1>4
  <2> QED BY <1>2, <1>4, <2>1
<1>5. CASE Sets(l, 1, field) = {} /\ Sets(l, 2, field) = {}
  <2>1. first = {1, 2, 3} BY <1>1, <1>5
  <2> QED BY <1>2, <1>5, <2>1
<1> QED BY <1>3, <1>4, <1>5

(* The merged layers supply a key as the first source that has it does.    *)
LEMMA MergedSupplies ==
  ASSUME NEW l, NEW key
  PROVE  Supplied(LoadAndMergeSubcommand(l), key) =
           IF Supplied(Sources(l)[1], key) # {} THEN Supplied(Sources(l)[1], key)
           ELSE IF Supplied(Sources(l)[2], key) # {} THEN Supplied(Sources(l)[2], key)
           ELSE Supplied(Sources(l)[3], key)
<1> DEFINE flags == l.flags
           env == l.env[l.command]
           file == l.file[l.command]
           merged == [k \in DOMAIN flags \cup DOMAIN env \cup DOMAIN file |->
                        IF k \in DOMAIN flags THEN flags[k]
                        ELSE IF k \in DOMAIN env THEN env[k] ELSE file[k]]
<1>1. /\ Sources(l)[1] = flags /\ Sources(l)[2] = env /\ Sources(l)[3] = file
      /\ LoadAndMergeSubcommand(l) = merged
  BY DEF Sources, LoadAndMergeSubcommand
<1> HIDE DEF flags, env, file
<1>2. Supplied(merged, key) =
        IF key \in DOMAIN flags THEN {flags[key]}
        ELSE IF key \in DOMAIN env THEN {env[key]}
        ELSE IF key \in DOMAIN file THEN {file[key]} ELSE {}
  BY DEF Supplied
<1> QED BY <1>1, <1>2 DEF Supplied

(* A setting with one name everywhere is the one asked for.                *)
LEMMA PlainSetting ==
  ASSUME NEW l, NEW field, field \notin DOMAIN Nested
  PROVE  Asked(l, field) = Supplied(LoadAndMergeSubcommand(l), field)
<1>1. \A k \in {1, 2, 3} : Sets(l, k, field) = Supplied(Sources(l)[k], field)
  BY DEF Sets
<1> QED BY <1>1, FirstSource, MergedSupplies

LEMMA ValueOrDefault ==
  ASSUME NEW layer, NEW key, NEW default
  PROVE  Value(layer, key, default) \in
           IF Supplied(layer, key) = {} THEN {default} ELSE Supplied(layer, key)
BY DEF Value, Supplied

(* A localization setting is the one asked for: no flag has a nested name. *)
LEMMA NestedSetting ==
  ASSUME NEW l, NEW field \in DOMAIN Nested, Nested[field] \notin DOMAIN l.flags
  PROVE  Asked(l, field) =
           SelectLocalizationOverride(field, l.flags, LoadAndMergeSubcommand(l))
<1>1. /\ Sets(l, 1, field) = Supplied(l.flags, field)
      /\ Sets(l, 2, field) = Supplied(Sources(l)[2], Nested[field])
      /\ Sets(l, 3, field) = Supplied(Sources(l)[3], Nested[field])
  BY DEF Sets, Sources
<1>2. Supplied(Sources(l)[1], Nested[field]) = {}
  BY DEF Sources, Supplied
<1>3. Supplied(l.flags, field) # {} <=> field \in DOMAIN l.flags
  BY DEF Supplied
<1> QED BY <1>1, <1>2, <1>3, FirstSource, MergedSupplies DEF SelectLocalizationOverride

(* A process runs what the most explicit source asks for, setting by       *)
(* setting, and on the address and in the mode of its command (load_config,*)
(* build_config).                                                          *)
THEOREM RunsAsAsked ==
  ASSUME HandOver = "quiet" PROVE ProcessSpec => []RunsWhatWasAsked
<1>1. ASSUME IInv, NEW h \in Harnesses, stage[h] = "running"
      PROVE  LET l == launch[h]
                 s == settings[h]
             IN  /\ config[h].addr = s.listen /\ config[h].mode = Modes[l.command]
                 /\ s.listen \in AskedOr(l, "listen", DefaultListen)
                 /\ s.cassette_name \in AskedOr(l, "cassette_name", "default")
                 /\ s.locale = Asked(l, "locale")
                 /\ s.fallback_locale \in AskedOr(l, "fallback_locale", "en-US")
                 /\ s.locale \cup {s.fallback_locale} \subseteq Languages
                 /\ l.command = "record" => s.upstream \in AskedOr(l, "upstream", NoUpstream)
  <2> DEFINE l == launch[h]
             merged == LoadAndMergeSubcommand(l)
             locale == SelectLocalizationOverride("locale", l.flags, merged)
             fallback == SelectLocalizationOverride("fallback_locale", l.flags, merged)
             s == settings[h]
  <2>1. l \in {session[h] : session \in Sessions} /\ l.kind = "process"
    BY <1>1 DEF IInv, Orderly, StagesInOrder, ProcessTypeOK
  <2>2. s = BuildConfig(l) /\ ValidLocales(s)
        /\ config[h].mode = s.mode /\ config[h].addr = s.listen
    <3>1. Loaded(h) BY <1>1 DEF IInv, Orderly
    <3>2. /\ settings[h] = BuildConfig(launch[h]) /\ ValidLocales(BuildConfig(launch[h]))
          /\ config[h].mode = BuildConfig(launch[h]).mode
          /\ config[h].addr = BuildConfig(launch[h]).listen
      BY <1>1, <3>1 DEF Loaded
    <3> QED BY <3>2
  <2>3. /\ s.mode = Modes[l.command]
        /\ s.listen = Value(merged, "listen", DefaultListen)
        /\ s.cassette_name = Value(merged, "cassette_name", "default")
        /\ l.command = "record" => s.upstream = Value(merged, "upstream", NoUpstream)
        /\ s.locale = locale /\ s.fallback_locale = FallbackOr(fallback)
    BY <2>2 DEF BuildConfig
  <2>4. \A field \in DOMAIN Nested : Nested[field] \notin DOMAIN l.flags
    BY <2>1, SessionsAssumption
  <2>5. /\ DOMAIN Nested = {"locale", "fallback_locale"}
        /\ \A field \in {"listen", "cassette_name", "upstream"} : field \notin DOMAIN Nested
    BY DEF Nested
  <2>6. /\ Asked(l, "locale") = locale /\ Asked(l, "fallback_locale") = fallback
        /\ \A field \in {"listen", "cassette_name", "upstream"} :
             Asked(l, field) = Supplied(merged, field)
    BY <2>4, <2>5, NestedSetting, PlainSetting
  <2> HIDE DEF l, merged, locale, fallback, s
  <2>7. \A field, default : Value(merged, field, default) \in
          IF Supplied(merged, field) = {} THEN {default} ELSE Supplied(merged, field)
    BY ValueOrDefault
  <2>8. /\ s.listen \in AskedOr(l, "listen", DefaultListen)
        /\ s.cassette_name \in AskedOr(l, "cassette_name", "default")
        /\ l.command = "record" => s.upstream \in AskedOr(l, "upstream", NoUpstream)
    BY <2>3, <2>6, <2>7 DEF AskedOr
  <2>9. s.fallback_locale \in AskedOr(l, "fallback_locale", "en-US")
    BY <2>3, <2>6 DEF AskedOr, FallbackOr
  <2> QED BY <2>2, <2>3, <2>6, <2>8, <2>9 DEF ValidLocales, l, s
<1>2. IInv => RunsWhatWasAsked BY <1>1 DEF RunsWhatWasAsked
<1> QED BY <1>2, AlwaysIInv, PTL
=============================================================================
