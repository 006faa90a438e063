-------------------------- MODULE CassetteStoreProofs ------------------------
(***************************************************************************)
(* Proofs about the cassette store, for every set of interactions and any  *)
(* number of kills and power failures: the cassette is never torn, failed  *)
(* appends leave no trace, acknowledged interactions stay in order, and    *)
(* the store implements the append-only log.  They follow from one         *)
(* inductive invariant, IInv, which says what the memory of the open store *)
(* is to the file at each system call of a flush.                          *)
(***************************************************************************)
EXTENDS CassetteStore, CommonLemmas

Flushing == {"create", "permissions", "write", "sync", "rename"}

TypeOK ==
  /\ file \in Seq(Interactions) \cup {Absent, Torn}
  /\ temp \in Seq(Interactions) \cup {Absent, Torn}
  /\ tempSynced \in BOOLEAN
  /\ survivors \subseteq Seq(Interactions) \cup {Absent, Torn}
  /\ memory \in Seq(Interactions) \cup {NotOpen}
  /\ pc \in {"closed", "idle", "renamed"} \cup Flushing
  /\ purpose \in {"none", "open", "seed", "probe", "append"}
  /\ submitted \subseteq Interactions /\ refused \subseteq Interactions
  /\ acked \in Seq(Interactions)
  /\ restarts \in Nat /\ powerLosses \in Nat

(* A power failure can only take the cassette back to a part of itself.    *)
SurvivorsAreEarlier ==
  /\ file \in survivors
  /\ \A version \in survivors : IsPrefix(LogOf(version), LogOf(file))

(* Every interaction in the cassette was submitted, and is there once.     *)
CassetteHoldsSubmissions ==
  /\ Held(file) \subseteq submitted
  /\ refused \subseteq submitted
  /\ \A m, n \in DOMAIN LogOf(file) : LogOf(file)[m] = LogOf(file)[n] => m = n

(* Only a store that is open has a memory, and only a flush a purpose.     *)
OpenHasMemory ==
  /\ memory = NotOpen <=> pc = "closed"
  /\ purpose = "none" <=> pc \in {"closed", "idle"}

(* What a flush has in memory: the file and the interaction it appends, a  *)
(* copy of the file, or an empty cassette that is yet to be created.       *)
FlushWritesAhead ==
  pc \in Flushing =>
    CASE purpose = "append" ->
           /\ file # Absent
           /\ memory = Append(file, Last(memory))
           /\ Last(memory) \in submitted \ (refused \cup Held(file))
      [] purpose = "probe" -> memory = file
      [] OTHER -> memory = <<>> /\ file = Absent

(* What is renamed is all of memory, and on the disk.                      *)
TempIsWhole ==
  /\ pc \in {"sync", "rename"} => temp = memory
  /\ pc = "rename" => tempSynced

(* Between rename and acknowledgement, the file is what is in memory.      *)
RenamedIsMemory ==
  pc = "renamed" =>
    /\ file = memory
    /\ purpose = "append" =>
         /\ memory # <<>>
         /\ Last(memory) \notin refused \cup ToSet(acked)

IInv ==
  /\ TypeOK
  /\ CassetteNeverTorn
  /\ SurvivorsAreEarlier
  /\ CassetteHoldsSubmissions
  /\ OpenHasMemory
  /\ FlushWritesAhead
  /\ TempIsWhole
  /\ RenamedIsMemory
  /\ FailedAppendsAreUndone
  /\ AckedInteractionsKept

-----------------------------------------------------------------------------
(* What the steps have in common. *)

LEMMA FileIsLog ==
  ASSUME TypeOK, CassetteNeverTorn
  PROVE  /\ LogOf(file) \in Seq(Interactions)
         /\ file # Absent => LogOf(file) = file /\ file \in Seq(Interactions)
         /\ file = Absent => LogOf(file) = <<>>
  BY ContentsAssumption DEF TypeOK, CassetteNeverTorn, LogOf, Readable

(* Steps that leave the cassette and its history alone. *)
LEMMA FileUntouched ==
  ASSUME IInv, UNCHANGED <<file, survivors, submitted, acked>>,
         \/ UNCHANGED refused
         \/ \E x \in submitted \ Held(file) : refused' = refused \cup {x}
  PROVE  /\ CassetteNeverTorn' /\ SurvivorsAreEarlier'
         /\ CassetteHoldsSubmissions' /\ AckedInteractionsKept'
         /\ Held(file)' = Held(file)
         /\ Held(file) \cap refused' = {}
<1>1. LogOf(file)' = LogOf(file) /\ Held(file)' = Held(file)
  BY DEF LogOf, Held, Readable
<1>2. CassetteNeverTorn' BY DEF IInv, CassetteNeverTorn
<1>3. SurvivorsAreEarlier'
  BY DEF IInv, SurvivorsAreEarlier, LogOf, Readable
<1>4. CassetteHoldsSubmissions'
  BY <1>1 DEF IInv, CassetteHoldsSubmissions
<1>5. AckedInteractionsKept'
  BY <1>1 DEF IInv, AckedInteractionsKept
<1>6. Held(file) \cap refused' = {}
  BY DEF IInv, FailedAppendsAreUndone
<1> QED BY <1>1, <1>2, <1>3, <1>4, <1>5, <1>6

(* A flush that fails: what was pushed for an append is popped and refused. *)
LEMMA FailedFlush ==
  ASSUME IInv, pc \in Flushing, FlushFails,
         UNCHANGED <<file, tempSynced, survivors>>,
         temp' \in {Absent, Torn, temp}
  PROVE  IInv'
<1> USE DEF FlushFails, historyVars, boundVars, Flushing
<1>1. CASE purpose = "append"
  <2> DEFINE x == Last(memory)
  <2>1. /\ file # Absent /\ memory = Append(file, x)
        /\ x \in submitted \ (refused \cup Held(file))
    BY <1>1 DEF IInv, FlushWritesAhead
  <2>2. file \in Seq(Interactions) /\ x \in Interactions
    BY <2>1, FileIsLog DEF IInv, TypeOK
  <2> HIDE DEF x
  <2>3. Front(Append(file, x)) = file BY <2>2, FrontLastOfAppend
  <2>4. /\ memory' = file /\ pc' = "idle" /\ purpose' = "none"
        /\ refused' = refused \cup {x}
        /\ UNCHANGED <<submitted, acked, restarts, powerLosses>>
    BY <1>1, <2>1, <2>3 DEF x
  <2>5. /\ CassetteNeverTorn' /\ SurvivorsAreEarlier'
        /\ CassetteHoldsSubmissions' /\ AckedInteractionsKept'
        /\ Held(file)' = Held(file) /\ Held(file) \cap refused' = {}
    BY <2>1, <2>4, FileUntouched
  <2>6. TypeOK' BY <2>2, <2>4 DEF IInv, TypeOK
  <2>7. OpenHasMemory'
    BY <2>2, <2>4, ContentsAssumption DEF OpenHasMemory
  <2>8. FlushWritesAhead' /\ TempIsWhole' /\ RenamedIsMemory'
    BY <2>4 DEF FlushWritesAhead, TempIsWhole, RenamedIsMemory
  <2>9. FailedAppendsAreUndone'
    BY <2>4, <2>5 DEF FailedAppendsAreUndone
  <2> QED BY <2>5, <2>6, <2>7, <2>8, <2>9 DEF IInv
<1>2. CASE purpose # "append"
  <2>1. /\ memory' = NotOpen /\ pc' = "closed" /\ purpose' = "none"
        /\ UNCHANGED <<submitted, acked, refused, restarts, powerLosses>>
    BY <1>2
  <2>2. /\ CassetteNeverTorn' /\ SurvivorsAreEarlier'
        /\ CassetteHoldsSubmissions' /\ AckedInteractionsKept'
        /\ Held(file)' = Held(file) /\ Held(file) \cap refused' = {}
    BY <2>1, FileUntouched
  <2>3. TypeOK' BY <2>1 DEF IInv, TypeOK
  <2>4. /\ OpenHasMemory' /\ FlushWritesAhead' /\ TempIsWhole'
        /\ RenamedIsMemory'
    BY <2>1 DEF OpenHasMemory, FlushWritesAhead, TempIsWhole, RenamedIsMemory
  <2>5. FailedAppendsAreUndone'
    BY <2>1, <2>2 DEF FailedAppendsAreUndone
  <2> QED BY <2>2, <2>3, <2>4, <2>5 DEF IInv
<1> QED BY <1>1, <1>2

LEMMA InitIInv == Init => IInv
<1> SUFFICES ASSUME Init PROVE IInv OBVIOUS
<1>1. TypeOK
  <2>1. acked \in Seq(Interactions) BY EmptySeq DEF Init
  <2>2. file \in {Absent} /\ temp \in {Absent} /\ survivors \subseteq {Absent}
    BY DEF Init
  <2> QED BY <2>1, <2>2 DEF Init, TypeOK
<1>2. LogOf(file) = <<>> /\ Held(file) = {}
  <2>1. LogOf(file) = <<>> BY DEF Init, LogOf, Readable
  <2>2. DOMAIN <<>> = {} OBVIOUS
  <2> QED BY <2>1, <2>2 DEF Held, ToSet
<1>3. CassetteNeverTorn BY ContentsAssumption DEF Init, CassetteNeverTorn
<1>4. SurvivorsAreEarlier
  <2>1. IsPrefix(<<>>, <<>>)
    <3>1. <<>> \in Seq(Interactions) BY EmptySeq
    <3> QED BY <3>1, PrefixOfItself
  <2>2. LogOf(Absent) = <<>> BY <1>2 DEF Init
  <2> QED BY <1>2, <2>1, <2>2 DEF Init, SurvivorsAreEarlier
<1>5. CassetteHoldsSubmissions
  BY <1>2 DEF Init, CassetteHoldsSubmissions
<1>6. /\ OpenHasMemory /\ FlushWritesAhead /\ TempIsWhole
      /\ RenamedIsMemory /\ FailedAppendsAreUndone
  BY <1>2 DEF Init, OpenHasMemory, FlushWritesAhead, Flushing, TempIsWhole,
              RenamedIsMemory, FailedAppendsAreUndone
<1>7. AckedInteractionsKept
  <2>1. ToSet(acked) = {} BY DEF Init, ToSet
  <2> QED BY <1>2, <2>1 DEF Init, AckedInteractionsKept
<1> QED BY <1>1, <1>3, <1>4, <1>5, <1>6, <1>7 DEF IInv

(* The steps up to the rename: the cassette stays as it is. *)
LEMMA OpeningStep ==
  ASSUME IInv, NEW why \in {"open", "probe"}, OpenOrCreateForRecord(why)
  PROVE  IInv'
<1> USE DEF OpenOrCreateForRecord, diskVars, historyVars, boundVars
<1>1. /\ CassetteNeverTorn' /\ SurvivorsAreEarlier'
      /\ CassetteHoldsSubmissions' /\ AckedInteractionsKept'
      /\ Held(file)' = Held(file) /\ Held(file) \cap refused' = {}
  BY FileUntouched
<1>2. file # Absent => file \in Seq(Interactions)
  BY FileIsLog DEF IInv
<1>3. TypeOK' /\ memory' \in Seq(Interactions)
  BY <1>2 DEF IInv, TypeOK, Flushing
<1>4. memory' # NotOpen BY <1>3, ContentsAssumption
<1>5. /\ OpenHasMemory' /\ FlushWritesAhead' /\ TempIsWhole'
      /\ RenamedIsMemory'
  BY <1>4 DEF OpenHasMemory, FlushWritesAhead, Flushing, TempIsWhole, RenamedIsMemory
<1>6. FailedAppendsAreUndone'
  BY <1>1 DEF FailedAppendsAreUndone
<1> QED BY <1>1, <1>3, <1>5, <1>6 DEF IInv

LEMMA AppendStep ==
  ASSUME IInv, NEW x \in Interactions, AppendInteraction(x)
  PROVE  IInv'
<1> USE DEF AppendInteraction, diskVars, boundVars
<1>1. /\ memory = file /\ file # Absent
      /\ memory \in Seq(Interactions) /\ x \notin refused \cup Held(file)
  <2>1. memory = file BY DEF IInv, FailedAppendsAreUndone
  <2>2. memory \in Seq(Interactions) BY DEF IInv, TypeOK, OpenHasMemory
  <2>3. x \notin refused \cup Held(file) BY DEF IInv, CassetteHoldsSubmissions
  <2> QED BY <2>1, <2>2, <2>3, ContentsAssumption
<1>2. /\ Append(memory, x) \in Seq(Interactions)
      /\ Last(Append(memory, x)) = x
  BY <1>1, FrontLastOfAppend
<1>3. LogOf(file)' = LogOf(file) /\ Held(file)' = Held(file)
  BY DEF LogOf, Held, Readable
<1>4. TypeOK' BY <1>2 DEF IInv, TypeOK, Flushing
<1>5. CassetteNeverTorn' /\ SurvivorsAreEarlier'
  BY <1>3 DEF IInv, CassetteNeverTorn, SurvivorsAreEarlier, LogOf, Readable
<1>6. CassetteHoldsSubmissions' /\ AckedInteractionsKept' /\ FailedAppendsAreUndone'
  BY <1>3 DEF IInv, CassetteHoldsSubmissions, AckedInteractionsKept, FailedAppendsAreUndone
<1>7. OpenHasMemory'
  BY <1>2, ContentsAssumption DEF OpenHasMemory
<1>8. FlushWritesAhead' BY <1>1, <1>2, <1>3 DEF FlushWritesAhead
<1>9. TempIsWhole' /\ RenamedIsMemory'
  BY DEF TempIsWhole, RenamedIsMemory
<1> QED BY <1>4, <1>5, <1>6, <1>7, <1>8, <1>9 DEF IInv

LEMMA TempFileStep ==
  ASSUME IInv, CreateTemp \/ SetPermissions \/ WriteTemp \/ SyncTemp
  PROVE  IInv'
<1> USE DEF CreateTemp, SetPermissions, WriteTemp, SyncTemp, Proceed,
            diskVars, historyVars, boundVars, Flushing
<1>1. UNCHANGED <<file, survivors, memory, purpose, submitted, acked, refused>>
  OBVIOUS
<1>2. /\ CassetteNeverTorn' /\ SurvivorsAreEarlier'
      /\ CassetteHoldsSubmissions' /\ AckedInteractionsKept'
      /\ Held(file)' = Held(file) /\ Held(file) \cap refused' = {}
  BY <1>1, FileUntouched
<1>3. memory \in Seq(Interactions)
  BY DEF IInv, TypeOK, OpenHasMemory
<1>4. TypeOK' BY <1>3 DEF IInv, TypeOK
<1>5. OpenHasMemory' BY DEF IInv, OpenHasMemory
<1>6. FlushWritesAhead' BY <1>1, <1>2 DEF IInv, FlushWritesAhead
<1>7. TempIsWhole' /\ RenamedIsMemory' BY DEF IInv, TempIsWhole, RenamedIsMemory
<1>8. FailedAppendsAreUndone' BY <1>2 DEF FailedAppendsAreUndone
<1> QED BY <1>2, <1>4, <1>5, <1>6, <1>7, <1>8 DEF IInv

(* What a rename puts under the name: the same log, or one interaction more. *)
LEMMA RenamedLog ==
  ASSUME IInv, RenameTemp
  PROVE  /\ file' = memory /\ memory \in Seq(Interactions)
         /\ LogOf(file)' = memory
         /\ survivors' = survivors \cup {memory}
         /\ purpose # "append" => memory = LogOf(file)
         /\ purpose = "append" =>
              /\ Last(memory) \in submitted \ (refused \cup Held(file))
              /\ memory = Append(LogOf(file), Last(memory))
<1>1. pc = "rename" /\ temp = memory /\ tempSynced
  BY DEF IInv, RenameTemp, Proceed, TempIsWhole
<1>2. memory \in Seq(Interactions)
  BY <1>1 DEF IInv, TypeOK, OpenHasMemory
<1>3. file' = memory /\ LogOf(file)' = memory /\ survivors' = survivors \cup {memory}
  BY <1>1, <1>2, ContentsAssumption DEF RenameTemp, LogOf, Readable
<1>4. /\ file # Absent => LogOf(file) = file
      /\ file = Absent => LogOf(file) = <<>>
  BY FileIsLog DEF IInv
<1>5. memory # Absent
  BY <1>2, ContentsAssumption
<1>6. /\ purpose = "append" =>
           /\ file # Absent
           /\ memory = Append(file, Last(memory))
           /\ Last(memory) \in submitted \ (refused \cup Held(file))
      /\ purpose = "probe" => memory = file
      /\ purpose \notin {"append", "probe"} => memory = <<>> /\ file = Absent
  BY <1>1 DEF IInv, FlushWritesAhead, Flushing
<1> QED BY <1>2, <1>3, <1>4, <1>5, <1>6

LEMMA RenameStep ==
  ASSUME IInv, RenameTemp
  PROVE  IInv'
<1> DEFINE old == LogOf(file)
           x == Last(memory)
<1>1. /\ file' = memory /\ memory \in Seq(Interactions)
      /\ LogOf(file)' = memory /\ old \in Seq(Interactions)
      /\ survivors' = survivors \cup {memory}
      /\ UNCHANGED <<memory, purpose, submitted, acked, refused, restarts, powerLosses>>
      /\ pc = "rename" /\ pc' = "renamed" /\ temp' = Absent /\ tempSynced' = tempSynced
  BY RenamedLog, FileIsLog DEF IInv, RenameTemp, Proceed, historyVars, boundVars
<1>2. \/ purpose # "append" /\ memory = old
      \/ /\ purpose = "append" /\ memory = Append(old, x)
         /\ x \in submitted \ (refused \cup Held(file)) /\ x \in Interactions
  BY RenamedLog DEF IInv, TypeOK
<1>3. \A version \in survivors :
        LogOf(version) \in Seq(Interactions) /\ IsPrefix(LogOf(version), old)
  <2>1. <<>> \in Seq(Interactions) BY EmptySeq
  <2> QED BY <2>1 DEF IInv, TypeOK, SurvivorsAreEarlier, LogOf, Readable
<1>4. LogOf(memory) = memory
  BY <1>1, ContentsAssumption DEF LogOf, Readable
<1>5. Held(file) = ToSet(old) /\ Held(file)' = ToSet(memory)
  BY <1>1 DEF Held
<1>6. /\ ToSet(old) \subseteq submitted \ refused /\ ToSet(acked) \subseteq ToSet(old)
      /\ \A m, n \in DOMAIN old : old[m] = old[n] => m = n
      /\ \A j, k \in DOMAIN acked : \A m, n \in DOMAIN old :
           old[m] = acked[j] /\ old[n] = acked[k] => (m < n <=> j < k)
  BY <1>5 DEF IInv, CassetteHoldsSubmissions, AckedInteractionsKept, FailedAppendsAreUndone
<1> HIDE DEF old, x
<1>7. /\ SurvivorsAreEarlier' /\ CassetteHoldsSubmissions' /\ AckedInteractionsKept'
      /\ Held(file)' \cap refused' = {}
  <2>1. CASE purpose # "append" /\ memory = old
    <3>1. SurvivorsAreEarlier'
      <4>1. IsPrefix(old, old) BY <1>1, PrefixOfItself
      <4> QED BY <1>1, <1>3, <1>4, <2>1, <4>1 DEF SurvivorsAreEarlier, LogOf, Readable
    <3>2. CassetteHoldsSubmissions' /\ AckedInteractionsKept'
      BY <1>1, <1>5, <1>6, <2>1 DEF IInv, CassetteHoldsSubmissions, AckedInteractionsKept
    <3> QED BY <1>1, <1>5, <1>6, <2>1, <3>1, <3>2
  <2>2. CASE purpose = "append" /\ memory = Append(old, x)
    <3>1. x \in submitted \ (refused \cup ToSet(old)) /\ x \in Interactions
      BY <1>2, <1>5, <2>2
    <3>2. ToSet(memory) = ToSet(old) \cup {x}
      BY <1>1, <2>2, <3>1, ElementsOfAppend
    <3>3. /\ DOMAIN old = 1..Len(old) /\ Len(old) \in Nat
          /\ DOMAIN memory = 1..(Len(old) + 1) /\ memory[Len(old) + 1] = x
          /\ \A m \in DOMAIN old : memory[m] = old[m] /\ old[m] # x
      BY <1>1, <2>2, <3>1 DEF ToSet
    <3>4. \A m \in DOMAIN memory : memory[m] # x => m \in DOMAIN old
      BY <3>3
    <3>5. SurvivorsAreEarlier'
      <4>1. IsPrefix(memory, memory) BY <1>1, PrefixOfItself
      <4>2. \A version \in survivors : IsPrefix(LogOf(version), memory)
        BY <1>1, <1>3, <2>2, <3>1, PrefixOfAppend
      <4> QED BY <1>1, <1>4, <4>1, <4>2 DEF SurvivorsAreEarlier, LogOf, Readable
    <3>6. \A m, n \in DOMAIN memory : memory[m] = memory[n] => m = n
      BY <1>6, <3>3, <3>4
    <3>7. \A j, k \in DOMAIN acked : \A m, n \in DOMAIN memory :
            memory[m] = acked[j] /\ memory[n] = acked[k] => (m < n <=> j < k)
      <4>1. \A j \in DOMAIN acked : acked[j] # x BY <1>6, <3>1 DEF ToSet
      <4> QED BY <1>6, <3>3, <3>4, <4>1
    <3>8. CassetteHoldsSubmissions'
      BY <1>1, <1>5, <1>6, <3>1, <3>2, <3>6 DEF IInv, CassetteHoldsSubmissions
    <3>9. AckedInteractionsKept'
      BY <1>1, <1>5, <1>6, <3>2, <3>7 DEF AckedInteractionsKept
    <3> QED BY <1>1, <1>5, <1>6, <3>1, <3>2, <3>5, <3>8, <3>9
  <2> QED BY <1>2, <2>1, <2>2
<1>8. TypeOK' BY <1>1 DEF IInv, TypeOK, Flushing
<1>9. CassetteNeverTorn'
  BY <1>1, ContentsAssumption DEF IInv, CassetteNeverTorn
<1>10. OpenHasMemory' /\ FlushWritesAhead' /\ TempIsWhole' /\ FailedAppendsAreUndone'
  BY <1>1, <1>7 DEF IInv, OpenHasMemory, FlushWritesAhead, Flushing, TempIsWhole,
                   FailedAppendsAreUndone
<1>11. RenamedIsMemory'
  <2>1. purpose = "append" => memory # <<>> /\ x \notin refused \cup ToSet(acked)
    <3> SUFFICES ASSUME purpose = "append"
                 PROVE  memory # <<>> /\ x \notin refused \cup ToSet(acked)
      OBVIOUS
    <3>1. Append(old, x) # <<>> BY <1>1, <1>2, FrontLastOfAppend
    <3> QED BY <1>2, <1>5, <1>6, <3>1
  <2> QED BY <1>1, <2>1 DEF RenamedIsMemory, x
<1> QED BY <1>7, <1>8, <1>9, <1>10, <1>11 DEF IInv

(* An acknowledgement: the interaction is the last of the cassette.         *)
LEMMA AcknowledgedIsLast ==
  ASSUME IInv, FlushSucceeds, purpose = "append"
  PROVE  LET x == Last(memory) IN
         /\ file \in Seq(Interactions) /\ LogOf(file) = file /\ file # <<>>
         /\ x = file[Len(file)] /\ x \in Held(file) \ ToSet(acked) /\ x \in Interactions
         /\ acked' = Append(acked, x)
<1>1. pc = "renamed" /\ acked' = Append(acked, Last(memory))
  BY DEF FlushSucceeds
<1>2. /\ file = memory /\ memory # <<>> /\ Last(memory) \notin ToSet(acked)
      /\ file \in Seq(Interactions)
  BY <1>1 DEF IInv, RenamedIsMemory, TypeOK, OpenHasMemory
<1>3. LogOf(file) = file
  BY <1>2, ContentsAssumption DEF LogOf, Readable
<1>4. Len(file) \in DOMAIN file /\ file[Len(file)] \in Interactions
  BY <1>2
<1>5. Last(memory) = file[Len(file)]
  BY <1>2 DEF Last
<1> QED BY <1>1, <1>2, <1>3, <1>4, <1>5 DEF Held, ToSet

LEMMA SuccessStep ==
  ASSUME IInv, FlushSucceeds
  PROVE  IInv'
<1> USE DEF FlushSucceeds, diskVars, boundVars
<1>1. pc = "renamed" /\ file = memory /\ memory \in Seq(Interactions) /\ purpose # "none"
  BY DEF IInv, RenamedIsMemory, TypeOK, OpenHasMemory
<1>2. LogOf(file)' = LogOf(file) /\ Held(file)' = Held(file)
  BY DEF LogOf, Held, Readable
<1>3. CassetteNeverTorn' /\ SurvivorsAreEarlier' /\ CassetteHoldsSubmissions'
  BY <1>2 DEF IInv, CassetteNeverTorn, SurvivorsAreEarlier, CassetteHoldsSubmissions,
              LogOf, Readable
<1>4. FailedAppendsAreUndone'
  BY <1>1, <1>2 DEF IInv, FailedAppendsAreUndone
<1>5. OpenHasMemory' /\ TempIsWhole' /\ RenamedIsMemory'
  BY <1>1, ContentsAssumption DEF IInv, TypeOK, OpenHasMemory, TempIsWhole, RenamedIsMemory
<1>6. FlushWritesAhead'
  BY <1>1 DEF FlushWritesAhead, Flushing
<1>7. acked' \in Seq(Interactions)
  BY AcknowledgedIsLast DEF IInv, TypeOK
<1>8. TypeOK'
  BY <1>1, <1>7 DEF IInv, TypeOK, Flushing
<1>9. AckedInteractionsKept'
  <2>1. CASE purpose # "append"
    BY <1>2, <2>1 DEF IInv, AckedInteractionsKept
  <2>2. CASE purpose = "append"
    <3> DEFINE x == Last(memory)
    <3>1. /\ file \in Seq(Interactions) /\ LogOf(file) = file /\ file # <<>>
          /\ x = file[Len(file)] /\ x \in Held(file) \ ToSet(acked) /\ x \in Interactions
          /\ acked' = Append(acked, x) /\ acked \in Seq(Interactions)
      BY <2>2, AcknowledgedIsLast DEF IInv, TypeOK
    <3> HIDE DEF x
    <3>2. /\ ToSet(acked) \subseteq Held(file)
          /\ \A m, n \in DOMAIN file : file[m] = file[n] => m = n
          /\ \A j, k \in DOMAIN acked : \A m, n \in DOMAIN file :
               file[m] = acked[j] /\ file[n] = acked[k] => (m < n <=> j < k)
      BY <3>1 DEF IInv, AckedInteractionsKept, CassetteHoldsSubmissions
    <3>3. ToSet(acked)' = ToSet(acked) \cup {x}
      BY <3>1, ElementsOfAppend
    <3>4. /\ DOMAIN acked = 1..Len(acked) /\ Len(acked) \in Nat
          /\ DOMAIN acked' = 1..(Len(acked) + 1) /\ acked'[Len(acked) + 1] = x
          /\ \A j \in DOMAIN acked : acked'[j] = acked[j] /\ acked[j] # x
          /\ DOMAIN file = 1..Len(file) /\ Len(file) \in Nat
      BY <3>1 DEF ToSet
    <3>5. \A m \in DOMAIN file : file[m] = x => m = Len(file)
      BY <3>1, <3>2, <3>4
    <3>6. ASSUME NEW j \in DOMAIN acked', NEW k \in DOMAIN acked',
                 NEW m \in DOMAIN file, NEW n \in DOMAIN file,
                 file[m] = acked'[j], file[n] = acked'[k]
          PROVE  m < n <=> j < k
      <4>1. CASE j \in DOMAIN acked /\ k \in DOMAIN acked
        BY <3>2, <3>4, <3>6, <4>1
      <4>2. CASE j \in DOMAIN acked /\ k = Len(acked) + 1
        <5>1. n = Len(file) /\ file[m] # x BY <3>4, <3>5, <3>6, <4>2
        <5>2. m # n BY <3>1, <5>1
        <5> QED BY <3>4, <4>2, <5>1, <5>2
      <4>3. CASE j = Len(acked) + 1 /\ k \in DOMAIN acked
        <5>1. m = Len(file) BY <3>4, <3>5, <3>6, <4>3
        <5> QED BY <3>4, <4>3, <5>1
      <4>4. CASE j = Len(acked) + 1 /\ k = Len(acked) + 1
        <5>1. m = Len(file) /\ n = Len(file) BY <3>4, <3>5, <3>6, <4>4
        <5> QED BY <3>4, <4>4, <5>1
      <4> QED BY <3>4, <4>1, <4>2, <4>3, <4>4
    <3> QED BY <1>2, <3>1, <3>2, <3>3, <3>6 DEF AckedInteractionsKept
  <2> QED BY <2>1, <2>2
<1> QED BY <1>3, <1>4, <1>5, <1>6, <1>8, <1>9 DEF IInv

LEMMA KillStep ==
  ASSUME IInv, Kill
  PROVE  IInv'
<1> USE DEF Kill, diskVars, historyVars
<1>1. /\ CassetteNeverTorn' /\ SurvivorsAreEarlier'
      /\ CassetteHoldsSubmissions' /\ AckedInteractionsKept'
      /\ Held(file)' = Held(file) /\ Held(file) \cap refused' = {}
  BY FileUntouched
<1>2. TypeOK' BY DEF IInv, TypeOK
<1>3. /\ OpenHasMemory' /\ FlushWritesAhead' /\ TempIsWhole'
      /\ RenamedIsMemory'
  BY DEF OpenHasMemory, FlushWritesAhead, Flushing, TempIsWhole, RenamedIsMemory
<1>4. FailedAppendsAreUndone' BY <1>1 DEF FailedAppendsAreUndone
<1> QED BY <1>1, <1>2, <1>3, <1>4 DEF IInv

(* What a power failure leaves: an earlier log, and the acknowledgements   *)
(* that it still holds, which are the first n.                             *)
LEMMA LostLog ==
  ASSUME IInv, PowerLoss
  PROVE  LET old == LogOf(file)
             new == LogOf(file)'
         IN  /\ old \in Seq(Interactions) /\ new \in Seq(Interactions)
             /\ Len(new) <= Len(old) /\ \A m \in 1..Len(new) : new[m] = old[m]
             /\ ToSet(new) \subseteq ToSet(old)
             /\ IsPrefix(new, old)
             /\ \E n \in 0..Len(acked) :
                  /\ acked' = SubSeq(acked, 1, n)
                  /\ \A k \in DOMAIN acked : k <= n <=> acked[k] \in ToSet(new)
<1> DEFINE old == LogOf(file)
           new == LogOf(file)'
<1>1. file' \in survivors /\ Held(file') = ToSet(new) /\ new = LogOf(file')
  BY DEF PowerLoss, Held, LogOf, Readable
<1>2. old \in Seq(Interactions) /\ new \in Seq(Interactions)
  <2>1. <<>> \in Seq(Interactions) BY EmptySeq
  <2> QED BY <1>1, <2>1 DEF IInv, TypeOK, LogOf, Readable
<1>3. IsPrefix(new, old) BY <1>1 DEF IInv, SurvivorsAreEarlier
<1>4. /\ ToSet(acked) \subseteq ToSet(old)
      /\ \A j, k \in DOMAIN acked : \A m, n \in DOMAIN old :
           old[m] = acked[j] /\ old[n] = acked[k] => (m < n <=> j < k)
  BY DEF IInv, AckedInteractionsKept, Held
<1>5. acked \in Seq(Interactions) BY DEF IInv, TypeOK
<1> HIDE DEF old, new
<1>6. Len(new) <= Len(old) /\ \A m \in 1..Len(new) : new[m] = old[m]
  BY <1>2, <1>3, PrefixAgrees
<1>7. /\ DOMAIN old = 1..Len(old) /\ Len(old) \in Nat
      /\ DOMAIN new = 1..Len(new) /\ Len(new) \in Nat
      /\ DOMAIN acked = 1..Len(acked) /\ Len(acked) \in Nat
  BY <1>2, <1>5
<1>8. ToSet(new) \subseteq ToSet(old) BY <1>6, <1>7 DEF ToSet
<1>9. \E n \in 0..Len(acked) :
        /\ acked' = SubSeq(acked, 1, n)
        /\ \A k \in DOMAIN acked : k <= n <=> acked[k] \in ToSet(new)
  <2>1. PICK n \in 0..Len(acked) :
          /\ n > 0 => acked[n] \in ToSet(new)
          /\ \A k \in DOMAIN acked : k > n => acked[k] \notin ToSet(new)
          /\ acked' = SubSeq(acked, 1, n)
    BY <1>1 DEF PowerLoss
  <2>2. ASSUME NEW k \in DOMAIN acked, k < n PROVE acked[k] \in ToSet(new)
    <3>1. n \in DOMAIN acked /\ n > 0 BY <1>7, <2>1, <2>2
    <3>2. PICK q \in DOMAIN new : new[q] = acked[n] BY <2>1, <3>1 DEF ToSet
    <3>3. PICK m \in DOMAIN old : old[m] = acked[k] BY <1>4 DEF ToSet
    <3>4. q \in DOMAIN old /\ old[q] = acked[n] BY <1>6, <1>7, <3>2
    <3>5. m < q BY <1>4, <2>2, <3>1, <3>3, <3>4
    <3>6. m \in DOMAIN new /\ new[m] = acked[k] BY <1>6, <1>7, <3>2, <3>3, <3>5
    <3> QED BY <3>6 DEF ToSet
  <2>3. \A k \in DOMAIN acked : k <= n <=> acked[k] \in ToSet(new)
    BY <1>7, <2>1, <2>2
  <2> QED BY <2>1, <2>3
<1> QED BY <1>2, <1>3, <1>6, <1>8, <1>9 DEF old, new

LEMMA PowerLossStep ==
  ASSUME IInv, PowerLoss
  PROVE  IInv'
<1> DEFINE old == LogOf(file)
           new == LogOf(file)'
<1>1. /\ old \in Seq(Interactions) /\ new \in Seq(Interactions)
      /\ Len(new) <= Len(old) /\ \A m \in 1..Len(new) : new[m] = old[m]
      /\ ToSet(new) \subseteq ToSet(old)
  BY LostLog
<1>2. PICK n \in 0..Len(acked) :
        /\ acked' = SubSeq(acked, 1, n)
        /\ \A k \in DOMAIN acked : k <= n <=> acked[k] \in ToSet(new)
  BY LostLog
<1>3. /\ Held(file) = ToSet(old) /\ Held(file)' = ToSet(new)
      /\ new = LogOf(file')
  BY DEF Held, LogOf, Readable
<1>4. acked \in Seq(Interactions) BY DEF IInv, TypeOK
<1>5. /\ acked' \in Seq(Interactions) /\ DOMAIN acked' = 1..n
      /\ \A k \in 1..n : acked'[k] = acked[k]
      /\ ToSet(acked') = {acked[k] : k \in 1..n}
      /\ DOMAIN acked = 1..Len(acked) /\ Len(acked) \in Nat
      /\ DOMAIN old = 1..Len(old) /\ Len(old) \in Nat
      /\ DOMAIN new = 1..Len(new) /\ Len(new) \in Nat
  BY <1>1, <1>2, <1>4, InitialPart
<1>6. /\ \A m, q \in DOMAIN old : old[m] = old[q] => m = q
      /\ \A j, k \in DOMAIN acked : \A m, q \in DOMAIN old :
           old[m] = acked[j] /\ old[q] = acked[k] => (m < q <=> j < k)
      /\ ToSet(old) \subseteq submitted \ refused /\ refused \subseteq submitted
  BY <1>3 DEF IInv, CassetteHoldsSubmissions, AckedInteractionsKept, FailedAppendsAreUndone
<1>7. /\ file' \in survivors /\ survivors' = {file'} /\ memory' = NotOpen
      /\ pc' = "closed" /\ purpose' = "none" /\ UNCHANGED <<submitted, refused>>
  BY DEF PowerLoss
<1>8. SurvivorsAreEarlier'
  <2>1. IsPrefix(new, new) BY <1>1, PrefixOfItself
  <2>2. \A version \in survivors' : LogOf(version) = LogOf(file')
    BY <1>7
  <2> QED BY <1>3, <1>7, <2>1 DEF SurvivorsAreEarlier, LogOf, Readable
<1> HIDE DEF old, new
<1>9. CassetteHoldsSubmissions'
  <2>1. \A m, q \in DOMAIN new : new[m] = new[q] => m = q
    BY <1>1, <1>5, <1>6
  <2>2. ToSet(new) \subseteq submitted' /\ refused' \subseteq submitted'
    BY <1>1, <1>6, <1>7
  <2> QED BY <1>3, <2>1, <2>2 DEF CassetteHoldsSubmissions, new
<1>10. AckedInteractionsKept'
  <2>1. ToSet(acked)' \subseteq ToSet(new)
    BY <1>2, <1>5
  <2>2. ASSUME NEW j \in 1..n, NEW k \in 1..n, NEW m \in DOMAIN new, NEW q \in DOMAIN new,
               new[m] = acked'[j], new[q] = acked'[k]
        PROVE  m < q <=> j < k
    <3>1. j \in DOMAIN acked /\ k \in DOMAIN acked /\ m \in DOMAIN old /\ q \in DOMAIN old
      BY <1>1, <1>5, <1>2
    <3>2. old[m] = acked[j] /\ old[q] = acked[k]
      BY <1>1, <1>5, <2>2
    <3> QED BY <1>6, <3>1, <3>2
  <2> QED BY <1>3, <1>5, <2>1, <2>2 DEF AckedInteractionsKept, new
<1>11. FailedAppendsAreUndone'
  BY <1>1, <1>3, <1>6, <1>7 DEF FailedAppendsAreUndone
<1>12. TypeOK' /\ CassetteNeverTorn'
  <2>1. CassetteNeverTorn' BY <1>7 DEF IInv, CassetteNeverTorn
  <2>2. /\ temp' \in {Absent, Torn, temp} /\ tempSynced' \in BOOLEAN
        /\ powerLosses' = powerLosses + 1 /\ restarts' = restarts
    BY DEF PowerLoss
  <2>3. TypeOK' BY <1>5, <1>7, <2>2 DEF IInv, TypeOK
  <2> QED BY <2>1, <2>3
<1>13. /\ OpenHasMemory' /\ FlushWritesAhead' /\ TempIsWhole'
       /\ RenamedIsMemory'
  BY <1>7 DEF OpenHasMemory, FlushWritesAhead, Flushing, TempIsWhole, RenamedIsMemory
<1> QED BY <1>8, <1>9, <1>10, <1>11, <1>12, <1>13 DEF IInv

LEMMA NextIInv == IInv /\ [Next]_vars => IInv'
<1> SUFFICES ASSUME IInv, [Next]_vars PROVE IInv' OBVIOUS
<1> USE DEF diskVars
<1>1. CASE Open \/ ProbeRecordWriteAccess
  BY <1>1, OpeningStep DEF Open, ProbeRecordWriteAccess
<1>2. CASE \E x \in Interactions : AppendInteraction(x)
  BY <1>2, AppendStep
<1>3. CASE FlushStep
  <2>1. CASE CreateTemp \/ SetPermissions \/ WriteTemp \/ SyncTemp
    BY <2>1, TempFileStep
  <2>2. CASE CreateTempFails \/ SetPermissionsFails \/ WriteOrSyncFails \/ RenameFails
    BY <2>2, FailedFlush
       DEF CreateTempFails, SetPermissionsFails, WriteOrSyncFails, RenameFails, Flushing
  <2>3. CASE RenameTemp BY <2>3, RenameStep
  <2>4. CASE FlushSucceeds BY <2>4, SuccessStep
  <2> QED BY <1>3, <2>1, <2>2, <2>3, <2>4 DEF FlushStep
<1>4. CASE Kill BY <1>4, KillStep
<1>5. CASE PowerLoss BY <1>5, PowerLossStep
<1>6. CASE UNCHANGED vars
  <2> USE <1>6 DEF vars, historyVars, boundVars
  <2>1. /\ CassetteNeverTorn' /\ SurvivorsAreEarlier'
        /\ CassetteHoldsSubmissions' /\ AckedInteractionsKept'
        /\ Held(file)' = Held(file)
    BY FileUntouched
  <2>2. TypeOK' /\ OpenHasMemory' /\ TempIsWhole' /\ RenamedIsMemory'
    BY DEF IInv, TypeOK, OpenHasMemory, TempIsWhole, RenamedIsMemory
  <2>3. FlushWritesAhead' /\ FailedAppendsAreUndone'
    BY <2>1 DEF IInv, FlushWritesAhead, FailedAppendsAreUndone
  <2> QED BY <2>1, <2>2, <2>3 DEF IInv
<1> QED BY <1>1, <1>2, <1>3, <1>4, <1>5, <1>6 DEF Next

LEMMA AlwaysIInv == Spec => []IInv
<1>1. Init => IInv BY InitIInv
<1>2. IInv /\ [Next]_vars => IInv' BY NextIInv
<1> QED BY <1>1, <1>2, PTL DEF Spec

-----------------------------------------------------------------------------
(* Whatever system call fails, and whenever the process or the machine     *)
(* stops, the cassette is a whole one: sync_all comes before the rename.   *)
THEOREM NeverTorn == Spec => []CassetteNeverTorn
<1>1. IInv => CassetteNeverTorn BY DEF IInv
<1> QED BY <1>1, AlwaysIInv, PTL

(* An append that returned an error is neither in the open store nor in    *)
(* the file, then or later.                                                *)
THEOREM AppendsUndone == Spec => []FailedAppendsAreUndone
<1>1. IInv => FailedAppendsAreUndone BY DEF IInv
<1> QED BY <1>1, AlwaysIInv, PTL

(* What an append acknowledged is in the cassette, once and in order, for  *)
(* any number of kills, failures, probes and reopenings since.             *)
THEOREM AckedKept == Spec => []AckedInteractionsKept
<1>1. IInv => AckedInteractionsKept BY DEF IInv
<1> QED BY <1>1, AlwaysIInv, PTL

-----------------------------------------------------------------------------
(* The store implements the append-only log. *)

LEMMA StepImplementsLog ==
  ASSUME IInv, [Next]_vars
  PROVE  [Log!Next]_Log!logVars
<1> USE DEF diskVars
<1> DEFINE old == LogOf(file)
           new == LogOf(file)'
<1>1. CASE file' = file /\ acked' = acked
  BY <1>1 DEF Log!logVars, LogOf, Readable
<1>2. CASE RenameTemp
  <2>1. new = memory /\ acked' = acked
    BY <1>2, RenamedLog DEF RenameTemp, Proceed, historyVars
  <2>2. CASE purpose # "append"
    BY <1>2, <2>1, <2>2, RenamedLog DEF Log!logVars
  <2>3. CASE purpose = "append"
    <3> DEFINE x == Last(memory)
    <3>1. /\ x \in submitted \ (refused \cup Held(file))
          /\ memory = Append(old, x)
      BY <1>2, <2>3, RenamedLog
    <3>2. x \in Interactions BY <3>1 DEF IInv, TypeOK
    <3>3. Log!Persist(x)
      BY <2>1, <3>1 DEF Log!Persist, Log!Holds, Held, ToSet, Log!ToSet
    <3> QED BY <3>2, <3>3 DEF Log!Next
  <2> QED BY <2>2, <2>3
<1>3. CASE FlushSucceeds /\ purpose = "append"
  <2> DEFINE x == Last(memory)
  <2>1. x \in Held(file) \ ToSet(acked) /\ x \in Interactions /\ acked' = Append(acked, x)
    BY <1>3, AcknowledgedIsLast
  <2>2. new = old BY <1>3 DEF FlushSucceeds, LogOf, Readable
  <2>3. Log!Acknowledge(x)
    BY <2>1, <2>2 DEF Log!Acknowledge, Log!Holds, Held, ToSet, Log!ToSet
  <2> QED BY <2>1, <2>3 DEF Log!Next
<1>4. CASE PowerLoss
  <2>1. /\ old \in Seq(Interactions) /\ new \in Seq(Interactions) /\ IsPrefix(new, old)
        /\ acked \in Seq(Interactions)
    BY <1>4, LostLog DEF IInv, TypeOK
  <2>2. PICK n \in 0..Len(acked) :
          /\ acked' = SubSeq(acked, 1, n)
          /\ \A k \in DOMAIN acked : k <= n <=> acked[k] \in ToSet(new)
    BY <1>4, LostLog
  <2>3. acked' \in Prefixes(acked) /\ ToSet(acked') = {acked[k] : k \in 1..n}
    BY <2>1, <2>2, InitialPart
  <2>4. new \in Prefixes(old) BY <2>1, PrefixIsInitialPart
  <2> HIDE DEF old, new
  <2>5. ToSet(acked') = ToSet(acked) \cap ToSet(new)
    <3>1. DOMAIN acked = 1..Len(acked) /\ Len(acked) \in Nat BY <2>1
    <3>2. \A k \in 1..Len(acked) : k \in 1..n <=> acked[k] \in ToSet(new)
      BY <2>2, <3>1
    <3>3. 1..n \subseteq 1..Len(acked) BY <3>1
    <3> QED BY <2>3, <3>1, <3>2, <3>3 DEF ToSet
  <2>6. /\ acked' \in Log!Prefixes(acked) /\ new \in Log!Prefixes(old)
        /\ Log!ToSet(acked') = Log!ToSet(acked) \cap Log!ToSet(new)
    BY <2>3, <2>4, <2>5 DEF Prefixes, Log!Prefixes, ToSet, Log!ToSet
  <2>7. Log!FallBack BY <2>6 DEF Log!FallBack, old, new
  <2> QED BY <2>7 DEF Log!Next
<1>5. \/ file' = file /\ acked' = acked
      \/ RenameTemp \/ PowerLoss \/ (FlushSucceeds /\ purpose = "append")
  BY DEF Next, Open, ProbeRecordWriteAccess, OpenOrCreateForRecord, AppendInteraction,
         FlushStep, CreateTemp, CreateTempFails, SetPermissions, SetPermissionsFails,
         WriteTemp, SyncTemp, WriteOrSyncFails, RenameFails, FlushSucceeds, FlushFails,
         Proceed, Kill, vars, historyVars, boundVars
<1> QED BY <1>1, <1>2, <1>3, <1>4, <1>5

(* The cassette is an append-only log: a rename persists the interaction   *)
(* in flight, a successful append acknowledges it, a power failure falls   *)
(* back to an earlier log, and every other step is invisible.              *)
THEOREM Implementation == Spec => ImplementsLog
<1>1. Init => Log!Init
  BY DEF Init, Log!Init, LogOf, Readable
<1>2. IInv /\ [Next]_vars => [Log!Next]_Log!logVars BY StepImplementsLog
<1> QED BY <1>1, <1>2, AlwaysIInv, PTL DEF Spec, ImplementsLog, Log!Spec
=============================================================================
