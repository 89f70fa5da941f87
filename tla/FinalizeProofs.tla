-------------------------- MODULE FinalizeProofs --------------------------
(***************************************************************************)
(* Both finalizers do what KeyMaking promises, for every set of circuits   *)
(* and sessions, every number of runs, and whatever the sequencer does to  *)
(* the archive meanwhile, as long as --ccs does not name the ccs.bin of    *)
(* the keys directory itself.                                              *)
(***************************************************************************)
EXTENDS Finalization, CalmProofs, FiniteSetTheorems, WellFoundedInduction

ProgramCounter == {"idle", "refused", "failed", "complete"} \cup Busy

FinType ==
    /\ fin \in [pc : ProgramCounter, tool : Tool \cup {None}, circuit : Circuit \cup {None},
                names : Seq(FileName), read : Nat, left : SUBSET KeyFile, run : Nat]
    /\ keyDir = [f \in KeyFile |-> keyDir[f]]

(* What a run in progress knows of its arguments and of the files it has   *)
(* been through.                                                           *)
Arguments == fin.pc \in Busy => fin.circuit \in Circuit /\ fin.names # <<>> /\ fin.tool \in Tool

LinkVerified(i) ==
    VerifyPhase2Step(IF i = 1 THEN InitPhase2(fin.circuit) ELSE Chain[i - 1], Chain[i])

ReadSoFar ==
    fin.pc = "reading" =>
        /\ fin.left = KeyFile
        /\ fin.read <= Len(fin.names)
        /\ fin.tool = "stream" => \A i \in 1..fin.read : LinkVerified(i)

WrittenSoFar ==
    fin.pc = "writing" =>
        /\ VerifyPhase2(fin.circuit, Chain)
        /\ \A f \in KeyFile \ fin.left : keyDir[f] = Keys[f]

FinOK == FinType /\ Arguments /\ ReadSoFar /\ WrittenSoFar

(* The steps of the finalization alone.                                    *)
FinNext ==
    \/ \E tool \in Tool, c \in Circuit : \E names : FinalizeBegin(tool, c, names)
    \/ FinalizeStep

-----------------------------------------------------------------------------
LEMMA ChainType ==
    ASSUME NEW names \in Seq(FileName)
    PROVE  /\ ChainOf(names) \in Seq(Blob)
           /\ Len(ChainOf(names)) = Len(names)
           /\ names # <<>> => ChainOf(names) # <<>>
<1>1. DOMAIN names = 1..Len(names) /\ Len(names) \in Nat
  OBVIOUS
<1>2. ASSUME NEW i \in 1..Len(names) PROVE names[i].blob \in Blob
  <2>1. names[i] \in FileName
    BY <1>1
  <2> QED
    BY <2>1 DEF FileName
<1> QED
  BY <1>1, <1>2 DEF ChainOf

LEMMA KeysDomain == DOMAIN Keys = KeyFile /\ Keys = [f \in KeyFile |-> Keys[f]]
BY DEF Keys, FinalizePhase2, KeyFile

LEMMA FinalizationIsFin == [FinalizationNext]_fvars => [FinNext]_finVars
BY DEF FinalizationNext, OperatorFinalizes, FinNext, fvars, finVars

(* Finalizing only reads what the sequencer has on disk.                   *)
LEMMA FinalizationRunsSequencer == FinalizationSpec => Spec
<1>1. [FinalizationNext]_fvars => [Next]_vars
  BY DEF FinalizationNext, OperatorFinalizes, fvars
<1>2. FinalizationInit => Init
  BY DEF FinalizationInit
<1> QED
  BY <1>1, <1>2, PTL DEF FinalizationSpec, Spec

LEMMA InitFin == FinalizeInit => FinOK
<1> SUFFICES ASSUME FinalizeInit PROVE FinOK
  OBVIOUS
<1>1. fin = NoRun /\ fin.pc = "idle"
  BY DEF FinalizeInit, NoRun
<1>2. PICK c \in Circuit : keyDir = [f \in KeyFile |-> IF InPlace /\ f = "ccs" THEN c ELSE Before]
  BY DEF FinalizeInit
<1>3. FinType
  <2>1. <<>> \in Seq(FileName) /\ {} \in SUBSET KeyFile
    OBVIOUS
  <2>2. NoRun \in [pc : ProgramCounter, tool : Tool \cup {None}, circuit : Circuit \cup {None},
                   names : Seq(FileName), read : Nat, left : SUBSET KeyFile, run : Nat]
    BY <2>1 DEF NoRun, ProgramCounter, Busy
  <2> QED
    BY <1>1, <1>2, <2>2 DEF FinType
<1> QED
  BY <1>1, <1>3 DEF FinOK, Arguments, ReadSoFar, WrittenSoFar, Busy

(* Every step keeps what the run knows.                                    *)
LEMMA StepFin == ASSUME ~InPlace, FinOK, [FinNext]_finVars PROVE FinOK'
<1> USE DEF FinOK, Busy
<1>1. ASSUME NEW tool \in Tool, NEW c \in Circuit, NEW names, FinalizeBegin(tool, c, names)
      PROVE  FinOK'
  <2>1. names \in Seq(FileName) /\ names # <<>>
    BY <1>1 DEF FinalizeBegin
  <2>2. fin.run + 1 \in Nat /\ KeyFile \in SUBSET KeyFile
    BY DEF FinType
  <2>3. FinType'
    BY <1>1, <2>1, <2>2 DEF FinalizeBegin, FinType, ProgramCounter
  <2>4. Arguments'
    BY <1>1, <2>1 DEF FinalizeBegin, Arguments
  <2>5. ReadSoFar'
    BY <1>1, <2>1 DEF FinalizeBegin, ReadSoFar
  <2>6. WrittenSoFar'
    BY <1>1 DEF FinalizeBegin, WrittenSoFar
  <2> QED
    BY <2>3, <2>4, <2>5, <2>6
<1>2. ASSUME FileRead, fin.pc = "reading", MoreToRead,
             fin.tool = "stream" => VerifyPhase2Step(Prev, Chain[fin.read + 1])
      PROVE  FinOK'
  <2>1. fin' = [fin EXCEPT !.read = fin.read + 1] /\ keyDir' = keyDir
    BY <1>2 DEF FileRead
  <2>2. FinType' /\ Arguments'
    BY <2>1 DEF FinType, Arguments
  <2>3. fin'.read <= Len(fin'.names) /\ fin'.left = KeyFile
    BY <1>2, <2>1 DEF FinType, MoreToRead, ReadSoFar
  <2>4. ASSUME fin.tool = "stream", NEW i \in 1..(fin.read + 1) PROVE LinkVerified(i)
    <3>1. CASE i <= fin.read
      BY <1>2, <2>4, <3>1 DEF ReadSoFar, FinType
    <3>2. CASE i = fin.read + 1
      <4>1. Prev = IF i = 1 THEN InitPhase2(fin.circuit) ELSE Chain[i - 1]
        BY <3>2 DEF Prev, FinType
      <4> QED
        BY <1>2, <2>4, <3>2, <4>1 DEF LinkVerified
    <3> QED
      BY <3>1, <3>2 DEF FinType
  <2>5. fin'.tool = "stream" => \A i \in 1..fin'.read : LinkVerified(i)'
    BY <2>1, <2>4 DEF LinkVerified, Chain, FinType
  <2> QED
    BY <1>2, <2>1, <2>2, <2>3, <2>5 DEF ReadSoFar, WrittenSoFar, FinType
<1>3. ASSUME Proceed("writing"), fin.pc = "reading", VerifyPhase2(fin.circuit, Chain)
      PROVE  FinOK'
  <2>1. fin' = [fin EXCEPT !.pc = "writing"] /\ keyDir' = keyDir
    BY <1>3 DEF Proceed
  <2>2. FinType' /\ Arguments' /\ ReadSoFar'
    BY <1>3, <2>1 DEF FinType, Arguments, ReadSoFar, ProgramCounter
  <2>3. fin'.left = KeyFile /\ Chain' = Chain /\ fin'.circuit = fin.circuit
    BY <1>3, <2>1 DEF FinType, ReadSoFar, Chain
  <2>4. WrittenSoFar'
    BY <1>3, <2>3 DEF WrittenSoFar
  <2> QED
    BY <2>2, <2>4
<1>4. ASSUME NEW pc \in {"refused", "failed", "complete"},
             fin' \in {[fin EXCEPT !.pc = pc], [NoRun EXCEPT !.pc = pc, !.run = fin.run]},
             keyDir' = [f \in KeyFile |-> keyDir'[f]]
      PROVE  FinOK'
  <2>1. <<>> \in Seq(FileName) /\ {} \in SUBSET KeyFile
    OBVIOUS
  <2>2. ASSUME fin' = [fin EXCEPT !.pc = pc] PROVE FinType' /\ fin'.pc = pc
    BY <1>4, <2>2 DEF FinType, ProgramCounter
  <2>3. ASSUME fin' = [NoRun EXCEPT !.pc = pc, !.run = fin.run] PROVE FinType' /\ fin'.pc = pc
    <3>1. fin' = [pc |-> pc, tool |-> None, circuit |-> None, names |-> <<>>,
                  read |-> 0, left |-> {}, run |-> fin.run]
      BY <2>3 DEF NoRun
    <3>2. fin.run \in Nat
      BY DEF FinType
    <3> QED
      BY <1>4, <2>1, <3>1, <3>2 DEF FinType, ProgramCounter
  <2>4. FinType' /\ fin'.pc = pc
    BY <1>4, <2>2, <2>3
  <2> QED
    BY <2>4 DEF Arguments, ReadSoFar, WrittenSoFar
<1>5. ASSUME NEW f \in KeyFile, KeyWritten(f) PROVE FinOK'
  <2>1. /\ fin.pc = "writing" /\ fin' = [fin EXCEPT !.left = fin.left \ {f}]
        /\ keyDir' = [keyDir EXCEPT ![f] = Keys[f]]
    BY <1>5 DEF KeyWritten, KeyBytes
  <2>2. FinType' /\ Arguments' /\ ReadSoFar'
    BY <2>1 DEF FinType, Arguments, ReadSoFar
  <2>3. Chain' = Chain /\ fin'.circuit = fin.circuit /\ Keys' = Keys
    BY <2>1 DEF FinType, Chain, Keys
  <2>4. \A g \in KeyFile \ fin'.left : keyDir'[g] = Keys[g]
    BY <2>1 DEF FinType, WrittenSoFar
  <2>5. WrittenSoFar'
    BY <2>1, <2>3, <2>4 DEF WrittenSoFar
  <2> QED
    BY <2>2, <2>5
<1>6. CASE BatchReads
  BY <1>2, <1>6 DEF BatchReads, Reading
<1>7. CASE BatchVerifies
  BY <1>3, <1>7 DEF BatchVerifies, Reading
<1>8. CASE StreamVerifies
  BY <1>2, <1>8 DEF StreamVerifies, Reading
<1>9. CASE StreamSeals
  <2>1. fin.pc = "reading" /\ fin.tool = "stream" /\ fin.read = Len(fin.names)
    BY <1>9 DEF StreamSeals, Reading, MoreToRead, ReadSoFar, FinType
  <2>2. DOMAIN Chain = 1..fin.read
    BY <2>1 DEF Chain, ChainOf, FinType
  <2>3. VerifyPhase2(fin.circuit, Chain)
    BY <2>1, <2>2 DEF ReadSoFar, LinkVerified, VerifyPhase2
  <2> QED
    BY <1>3, <1>9, <2>1, <2>3 DEF StreamSeals
<1>10. CASE BatchRefuses \/ StreamRefuses
  BY <1>4, <1>10 DEF BatchRefuses, StreamRefuses, Proceed, FinType
<1>11. CASE FinalizeDies
  BY <1>4, <1>11 DEF FinalizeDies, FinType
<1>12. CASE PrintsFingerprint
  BY <1>4, <1>12 DEF PrintsFingerprint, FinType
<1>13. CASE UNCHANGED finVars
  BY <1>13 DEF finVars, FinType, Arguments, ReadSoFar, WrittenSoFar, LinkVerified, Chain, Keys
<1> QED
  BY <1>1, <1>5, <1>6, <1>7, <1>8, <1>9, <1>10, <1>11, <1>12, <1>13 DEF FinNext, FinalizeStep

-----------------------------------------------------------------------------
(* The refinement: starting asks, ending without keys gives up, a file     *)
(* written or torn is WriteKey, the fingerprint is Finish.                 *)
LEMMA OrderType ==
    ASSUME NEW c \in Circuit, NEW names \in Seq(FileName), names # <<>>
    PROVE  LET o == [circuit |-> c, blobs |-> ChainOf(names)]
           IN  o \in Promise!Order /\ o # None
<1>1. ChainOf(names) \in Seq(Blob) /\ ChainOf(names) # <<>>
  BY ChainType
<1> QED
  BY <1>1, FinalizeParameters
  DEF Promise!Order, Promise!Blob, Promise!Contribution, Blob, Contribution

LEMMA BusyOrder ==
    ASSUME FinOK, fin.pc \in Busy
    PROVE  /\ Promised = [circuit |-> fin.circuit, blobs |-> Chain]
           /\ Promised # None
           /\ Promise!OrderedKeys = Keys
<1>1. Promised = [circuit |-> fin.circuit, blobs |-> Chain]
  BY DEF Promised
<1>2. Promised # None
  BY <1>1, OrderType DEF FinOK, FinType, Arguments, Chain
<1>3. Promise!OrderedKeys = Keys
  BY <1>1 DEF Promise!OrderedKeys, Promise!FinalizePhase2, Promise!SealPhase2,
              Keys, FinalizePhase2, SealPhase2
<1> QED
  BY <1>1, <1>2, <1>3

(* VerifyPhase2 is the same operator in both modules.                      *)
LEMMA BusyVerified ==
    ASSUME FinOK, fin.pc = "writing"
    PROVE  Promise!VerifyPhase2(Promised.circuit, Promised.blobs)
<1>1. Promised = [circuit |-> fin.circuit, blobs |-> Chain]
  BY BusyOrder DEF Busy
<1>2. VerifyPhase2(fin.circuit, Chain)
  BY DEF FinOK, WrittenSoFar
<1> QED
  BY <1>1, <1>2
  DEF Promise!VerifyPhase2, Promise!VerifyPhase2Step, Promise!InitPhase2,
      Promise!ContributePhase2, Promise!Contribution,
      VerifyPhase2, VerifyPhase2Step, InitPhase2, ContributePhase2, Contribution

LEMMA PromiseStep ==
    ASSUME ~InPlace, FinOK, [FinNext]_finVars
    PROVE  [Promise!KeyNext]_(Promise!keyVars)
<1>1. ASSUME NEW tool \in Tool, NEW c \in Circuit, NEW names, FinalizeBegin(tool, c, names)
      PROVE  Promise!Ask
  <2>1. Promised = None /\ keyDir' = keyDir /\ pinned' = pinned
    BY <1>1 DEF FinalizeBegin, Promised
  <2>2. names \in Seq(FileName) /\ names # <<>>
    BY <1>1 DEF FinalizeBegin
  <2>3. fin'.pc = "reading" /\ fin'.circuit = c /\ fin'.names = names
    BY <1>1 DEF FinalizeBegin
  <2>4. Promised' = [circuit |-> c, blobs |-> ChainOf(names)]
    BY <2>3 DEF Promised, Chain, Busy
  <2> QED
    BY <2>1, <2>2, <2>4, OrderType DEF Promise!Ask
<1>2. ASSUME fin.pc \in Busy, fin'.pc \in Busy, fin'.circuit = fin.circuit, fin'.names = fin.names
      PROVE  Promised' = Promised
  BY <1>2 DEF Promised, Chain
<1>3. ASSUME fin.pc = "reading", FileRead \/ Proceed("writing")
      PROVE  UNCHANGED Promise!keyVars
  <2>1. /\ fin'.pc \in Busy /\ fin'.circuit = fin.circuit /\ fin'.names = fin.names
        /\ keyDir' = keyDir /\ pinned' = pinned
    BY <1>3 DEF FileRead, Proceed, FinOK, FinType, Busy
  <2> QED
    BY <1>2, <1>3, <2>1 DEF Promise!keyVars, Busy
<1>4. ASSUME fin.pc \in Busy, Proceed("refused")
      PROVE  Promise!GiveUp
  <2>1. fin'.pc = "refused" /\ keyDir' = keyDir /\ pinned' = pinned
    BY <1>4 DEF Proceed, FinOK, FinType
  <2> QED
    BY <1>4, <2>1, BusyOrder DEF Promise!GiveUp, Promised, Busy
<1>5. ASSUME NEW f \in KeyFile, KeyWritten(f)
      PROVE  Promise!WriteKey(f)
  <2>1. /\ fin.pc = "writing" /\ fin'.pc = "writing"
        /\ fin'.circuit = fin.circuit /\ fin'.names = fin.names
        /\ keyDir' = [keyDir EXCEPT ![f] = Keys[f]] /\ pinned' = pinned
    BY <1>5 DEF KeyWritten, KeyBytes, FinOK, FinType
  <2>2. Promised' = Promised
    BY <1>2, <2>1 DEF Busy
  <2> QED
    BY <2>1, <2>2, BusyOrder, BusyVerified DEF Promise!WriteKey, Busy
<1>6. ASSUME FinalizeDies
      PROVE  Promise!GiveUp \/ \E f \in KeyFile : Promise!WriteKey(f)
  <2>1. fin.pc \in Busy /\ fin'.pc = "failed" /\ pinned' = pinned
    BY <1>6 DEF FinalizeDies, NoRun
  <2>2. Promised' = None /\ Promised # None
    BY <2>1, BusyOrder DEF Promised, Busy
  <2>3. CASE keyDir' = keyDir
    BY <2>1, <2>2, <2>3 DEF Promise!GiveUp
  <2>4. ASSUME fin.pc = "writing", NEW f \in NextKeyFiles, keyDir' = [keyDir EXCEPT ![f] = Torn]
        PROVE  \E g \in KeyFile : Promise!WriteKey(g)
    <3>1. f \in KeyFile
      BY DEF NextKeyFiles, FinOK, FinType, KeyFile
    <3>2. Promise!WriteKey(f)
      BY <2>1, <2>2, <2>4, BusyVerified DEF Promise!WriteKey
    <3> QED
      BY <3>1, <3>2
  <2> QED
    BY <1>6, <2>3, <2>4 DEF FinalizeDies
<1>7. ASSUME PrintsFingerprint
      PROVE  Promise!Finish
  <2>1. /\ fin.pc = "writing" /\ fin.left = {} /\ fin'.pc = "complete"
        /\ pinned' = Keys /\ keyDir' = keyDir
    BY <1>7 DEF PrintsFingerprint, FinOK, FinType
  <2>2. keyDir = Keys
    BY <2>1, KeysDomain DEF FinOK, FinType, WrittenSoFar
  <2>3. Promised' = None
    BY <2>1 DEF Promised, Busy
  <2> QED
    BY <2>1, <2>2, <2>3, BusyOrder, BusyVerified DEF Promise!Finish, Busy
<1>8. CASE UNCHANGED finVars
  BY <1>8 DEF finVars, Promise!keyVars, Promised, Chain
<1>9. CASE BatchReads \/ BatchVerifies \/ StreamVerifies \/ StreamSeals
  BY <1>3, <1>9 DEF BatchReads, BatchVerifies, StreamVerifies, StreamSeals, Reading
<1>10. CASE BatchRefuses \/ StreamRefuses
  <2>1. fin.pc \in Busy
    BY <1>10 DEF BatchRefuses, StreamRefuses, Reading, Busy
  <2>2. Proceed("refused")
    BY <1>10 DEF BatchRefuses, StreamRefuses
  <2> QED
    BY <1>4, <2>1, <2>2 DEF Promise!KeyNext
<1>11. Promise!KeyFile = KeyFile
  BY DEF Promise!KeyFile, KeyFile
<1> QED
  BY <1>1, <1>3, <1>4, <1>5, <1>6, <1>7, <1>8, <1>9, <1>10, <1>11
  DEF FinNext, FinalizeStep, Promise!KeyNext

LEMMA PromiseInit == FinalizeInit => Promise!KeyInit
<1> SUFFICES ASSUME FinalizeInit PROVE Promise!KeyInit
  OBVIOUS
<1>1. fin.pc = "idle"
  BY DEF FinalizeInit, NoRun
<1>2. DOMAIN keyDir = KeyFile
  BY DEF FinalizeInit
<1> QED
  BY <1>1, <1>2 DEF Promise!KeyInit, Promise!KeyFile, KeyFile, Promised, Busy

(* Both finalizers keep KeyMaking's promise, whatever happens to the       *)
(* sequencer and its archive: no key file is touched before the whole      *)
(* chain is verified from the circuit's init, and a fingerprint is printed *)
(* only for the keys that are there.                                       *)
THEOREM FinalizersKeepPromise == ~InPlace => (FinalizationSpec => KeepsPromise)
<1> SUFFICES ASSUME ~InPlace PROVE FinalizationSpec => KeepsPromise
  OBVIOUS
<1>1. FinalizationInit => FinOK /\ Promise!KeyInit
  BY InitFin, PromiseInit DEF FinalizationInit
<1>2. [FinalizationNext]_fvars => [FinNext]_finVars
  BY FinalizationIsFin
<1>3. FinOK /\ [FinalizationNext]_fvars => FinOK'
  BY <1>2, StepFin
<1>4. FinOK /\ [FinalizationNext]_fvars => [Promise!KeyNext]_(Promise!keyVars)
  BY <1>2, PromiseStep
<1> QED
  BY <1>1, <1>3, <1>4, PTL DEF FinalizationSpec, KeepsPromise, Promise!KeySpec

-----------------------------------------------------------------------------
(* What is pinned is the fingerprint of a whole vk.bin.                    *)
PinnedWhole == pinned # None => pinned["vk"] # Torn

LEMMA KeysWhole == ASSUME FinOK, fin.pc = "writing" PROVE Keys["vk"] \in Blob
<1>1. Chain \in Seq(Blob) /\ Chain # <<>>
  BY ChainType DEF FinOK, FinType, Arguments, Busy, Chain
<1>2. Keys["vk"] = Chain[Len(Chain)] /\ Len(Chain) \in 1..Len(Chain)
  BY <1>1 DEF Keys, FinalizePhase2, SealPhase2
<1> QED
  BY <1>1, <1>2

LEMMA InitPinned == FinalizeInit => PinnedWhole
<1> SUFFICES ASSUME FinalizeInit, pinned # None PROVE pinned["vk"] # Torn
  BY DEF PinnedWhole
<1>1. Before # Absent /\ pinned["vk"] = Before
  BY DEF FinalizeInit, EarlierKeys, KeyFile
<1> QED
  BY <1>1, FinalizeParameters

LEMMA StepPinned ==
    ASSUME FinOK, PinnedWhole, [FinNext]_finVars
    PROVE  PinnedWhole'
<1>1. CASE pinned' = pinned
  BY <1>1 DEF PinnedWhole
<1>2. CASE PrintsFingerprint
  BY <1>2, KeysWhole, NoFileIsNoContent DEF PrintsFingerprint, PinnedWhole
<1> QED
  BY <1>1, <1>2
  DEF FinNext, FinalizeStep, FinalizeBegin, BatchReads, BatchVerifies, BatchRefuses,
      StreamVerifies, StreamSeals, StreamRefuses, FileRead, Proceed, KeyWritten,
      FinalizeDies, finVars

(* The stream makes vk.bin one of its own before it touches another file.  *)
LEMMA StepTogether ==
    ASSUME ~InPlace, FinOK, PinnedWhole, [FinNext]_finVars,
           fin.tool = "stream", ~MakesPinnedAgain, Together
    PROVE  Together'
<1>1. CASE keyDir' = keyDir /\ pinned' = pinned
  BY <1>1 DEF Together
<1>2. ASSUME fin.pc = "writing", pinned' = pinned, NEW f \in NextKeyFiles, NEW x,
             keyDir' = [keyDir EXCEPT ![f] = x], f = "vk" => x \in {Keys["vk"], Torn}
      PROVE  Together'
  <2>1. pinned # None => keyDir'["vk"] # pinned["vk"]
    <3>1. CASE f = "vk"
      BY <1>2, <3>1 DEF FinOK, FinType, KeyFile, MakesPinnedAgain, PinnedWhole
    <3>2. CASE f # "vk"
      <4>1. "vk" \in KeyFile \ fin.left
        BY <1>2, <3>2 DEF NextKeyFiles, KeyFile
      <4>2. keyDir'["vk"] = Keys["vk"]
        BY <1>2, <3>2, <4>1 DEF FinOK, FinType, WrittenSoFar, KeyFile
      <4> QED
        BY <4>2 DEF MakesPinnedAgain
    <3> QED
      BY <3>1, <3>2
  <2> QED
    BY <1>2, <2>1 DEF Together
<1>3. ASSUME NEW f \in KeyFile, KeyWritten(f) PROVE Together'
  BY <1>2, <1>3 DEF KeyWritten, KeyBytes
<1>4. CASE FinalizeDies
  BY <1>1, <1>2, <1>4 DEF FinalizeDies
<1>5. CASE PrintsFingerprint
  <2>1. keyDir' = keyDir /\ pinned' = Keys /\ fin.pc = "writing" /\ fin.left = {}
    BY <1>5 DEF PrintsFingerprint
  <2>2. \A f \in KeyFile : keyDir[f] = Keys[f]
    BY <2>1 DEF FinOK, WrittenSoFar
  <2> QED
    BY <2>1, <2>2 DEF Together
<1> QED
  BY <1>1, <1>3, <1>4, <1>5
  DEF FinNext, FinalizeStep, FinalizeBegin, BatchReads, BatchVerifies, BatchRefuses,
      StreamVerifies, StreamSeals, StreamRefuses, FileRead, Proceed, finVars

(* However often keys are made, by either program, an interrupted stream   *)
(* does not leave files of two finalizations behind one pinned vk.bin,     *)
(* unless it makes the pinned keys again.                                  *)
THEOREM StreamNeverMixes == ~InPlace => (FinalizationSpec => StreamKeepsTogether)
<1> SUFFICES ASSUME ~InPlace PROVE FinalizationSpec => StreamKeepsTogether
  OBVIOUS
<1>1. FinalizationInit => FinOK /\ PinnedWhole
  BY InitFin, InitPinned DEF FinalizationInit
<1>2. [FinalizationNext]_fvars => [FinNext]_finVars
  BY FinalizationIsFin
<1>3. FinOK /\ PinnedWhole /\ [FinalizationNext]_fvars => FinOK' /\ PinnedWhole'
  BY <1>2, StepFin, StepPinned
<1>4. FinOK /\ PinnedWhole /\ [FinalizationNext]_fvars =>
        [fin.tool = "stream" /\ ~MakesPinnedAgain /\ Together => Together']_fvars
  BY <1>2, StepTogether
<1> QED
  BY <1>1, <1>3, <1>4, PTL DEF FinalizationSpec, StreamKeepsTogether
-----------------------------------------------------------------------------
(* Everyone who has a receipt is in the keys.                              *)

LEMMA LeastNumber ==
    ASSUME NEW T \in SUBSET Nat, T # {}
    PROVE  \E m \in T : \A n \in T : m <= n
<1>1. PICK R : IsWellFoundedOn(R, Nat) /\ \A n, m \in Nat : <<n, m>> \in R <=> n < m
  <2>1. \A n, m \in Nat : <<n, m>> \in OpToRel(<, Nat) <=> n < m
    BY DEF OpToRel
  <2> QED
    BY <2>1, NatLessThanWellFounded
<1>2. T \subseteq Nat
  OBVIOUS
<1>3. IsWellFoundedOn(R, Nat)
  BY <1>1
<1>4. PICK m \in T : \A n \in T : ~(<<n, m>> \in R)
  BY ONLY <1>2, <1>3, T # {}, WFMin, Zenon
<1>5. ASSUME NEW n \in T PROVE m <= n
  <2>1. n \in Nat /\ m \in Nat /\ ~(<<n, m>> \in R)
    BY <1>2, <1>4
  <2>2. <<n, m>> \in R <=> n < m
    BY <1>1, <2>1, Zenon
  <2> QED
    BY ONLY <2>1, <2>2
<1> QED
  BY <1>5

(* Every blob of a verified chain is in the last one: there is no least    *)
(* place from which on the i-th is missing.                                *)
LEMMA ChainGrows ==
    ASSUME NEW c \in Circuit, NEW chain \in Seq(Blob), VerifyPhase2(c, chain),
           NEW i \in DOMAIN chain
    PROVE  IsPrefix(chain[i], chain[Len(chain)])
<1> DEFINE Missing == {k \in i..Len(chain) : ~IsPrefix(chain[i], chain[k])}
<1>1. i \in 1..Len(chain) /\ Len(chain) \in i..Len(chain)
  OBVIOUS
<1>2. \A k \in i..Len(chain) : chain[k] \in Blob
  BY <1>1
<1>3. ASSUME Missing # {} PROVE FALSE
  <2>1. Missing \in SUBSET Nat
    BY <1>1
  <2> HIDE DEF Missing
  <2>2. PICK m \in Missing : \A n \in Missing : m <= n
    BY <1>3, <2>1, LeastNumber
  <2> USE DEF Missing
  <2>3. m \in i..Len(chain) /\ ~IsPrefix(chain[i], chain[m])
    OBVIOUS
  <2>4. m # i
    BY <1>1, <1>2, <2>3, BlobPrefix
  <2>5. m - 1 \in i..Len(chain) /\ m \in DOMAIN chain /\ m # 1
    BY <1>1, <2>3, <2>4
  <2>6. IsPrefix(chain[i], chain[m - 1])
    BY <2>2, <2>5
  <2>7. VerifyPhase2Step(chain[m - 1], chain[m])
    BY <2>5 DEF VerifyPhase2
  <2>8. IsPrefix(chain[m - 1], chain[m])
    BY <1>2, <2>5, <2>7, VerifiedExtends
  <2>9. chain[i] \in Blob /\ chain[m - 1] \in Blob /\ chain[m] \in Blob
    BY <1>1, <1>2, <2>3, <2>5
  <2> QED
    BY <2>3, <2>6, <2>8, <2>9, BlobPrefix
<1> QED
  BY <1>1, <1>3

FilesFinite == IsFiniteSet(archive)

LEMMA PutFinite ==
    ASSUME NEW files, IsFiniteSet(files), NEW i, NEW b, NEW whole
    PROVE  IsFiniteSet(PutFile(files, i, b, whole))
<1>1. IsFiniteSet({f \in files : f.index # i \/ f.blob # b})
  BY FS_Subset
<1> QED
  BY <1>1, FS_AddElement DEF PutFile

LEMMA OutcomesFinite ==
    ASSUME NEW files, IsFiniteSet(files), NEW i, NEW b, NEW after \in PutOutcomes(files, i, b)
    PROVE  IsFiniteSet(after)
BY PutFinite DEF PutOutcomes

LEMMA FilesStep == ASSUME Typed, FilesFinite, [Next]_vars PROVE FilesFinite'
<1>1. ASSUME NEW h \in Handler, BlobSaved(h) PROVE IsFiniteSet(archive')
  BY <1>1, PutFinite DEF FilesFinite, BlobSaved
<1>2. ASSUME NEW h \in Handler,
             archive' \in PutOutcomes(archive, TranscriptLen(tr), upload[h].next)
      PROVE  IsFiniteSet(archive')
  BY <1>2, OutcomesFinite DEF FilesFinite
<1> QED
  BY <1>1, <1>2, ArchiveMoves DEF FilesFinite

LEMMA ListingFinite == ASSUME FilesFinite, NEW files \in Listings PROVE IsFiniteSet(files)
BY OutcomesFinite DEF Listings, FilesFinite

(* A file keeps its name whatever becomes of its content.                  *)
LEMMA ListingNames ==
    ASSUME NEW files \in Listings, NEW f \in archive
    PROVE  \E g \in files : Name(g) = Name(f)
<1>1. ASSUME NEW i, NEW b, NEW after \in PutOutcomes(archive, i, b)
      PROVE  \E g \in after : Name(g) = Name(f)
  <2>1. CASE after = archive
    BY <2>1
  <2>2. ASSUME NEW whole, after = PutFile(archive, i, b, whole)
        PROVE  \E g \in after : Name(g) = Name(f)
    <3> DEFINE new == [index |-> i, blob |-> b, whole |-> whole]
    <3>1. CASE f.index # i \/ f.blob # b
      BY <2>2, <3>1 DEF PutFile
    <3>2. CASE f.index = i /\ f.blob = b
      <4>1. new \in after /\ new.index = i /\ new.blob = b
        BY <2>2 DEF PutFile
      <4> QED
        BY <3>2, <4>1 DEF Name
    <3> QED
      BY <3>1, <3>2
  <2> QED
    BY <2>1, <2>2 DEF PutOutcomes
<1> QED
  BY <1>1 DEF Listings

(* A listing has every name: an injection of a finite set into one that is *)
(* no larger leaves nothing out.                                           *)
LEMMA SortedHasAll ==
    ASSUME NEW files, IsFiniteSet(files), NEW names \in Sorted(files), NEW g \in files
    PROVE  \E i \in DOMAIN names : names[i] = Name(g)
<1> DEFINE S == {Name(f) : f \in files}
           D == 1..Cardinality(S)
           N == [f \in files |-> Name(f)]
<1>1. IsFiniteSet(S)
  <2>1. N \in Surjection(files, S)
    BY DEF Surjection
  <2> HIDE DEF N, S
  <2> QED
    BY <2>1, FS_Surjection
<1>2. Cardinality(S) \in Nat
  BY <1>1, FS_CardinalityType
<1>3. names \in [D -> S] /\ \A i, j \in D : i # j => names[i] # names[j]
  BY DEF Sorted, SetToSeqs
<1>4. names \in Injection(D, S)
  BY <1>3 DEF Injection, IsInjective
<1>5. Name(g) \in S
  OBVIOUS
<1> HIDE DEF S
<1>6. Cardinality(D) = Cardinality(S)
  BY <1>2, FS_Interval
<1> HIDE DEF D
<1>7. names \in Surjection(D, S)
  BY <1>1, <1>4, <1>6, FS_Injection
<1> QED
  BY <1>3, <1>5, <1>7 DEF Surjection

Owed(names) == \A r \in listing.owed : \E i \in DOMAIN names : HashBlob(names[i].blob) = r.new

OwedFolded ==
    /\ fin.pc \in Busy => Owed(fin.names)
    /\ ReceiptsFolded

LEMMA InitOwed == FinalizationInit => OwedFolded
BY DEF FinalizationInit, FinalizeInit, NoRun, OwedFolded, ReceiptsFolded, Busy

LEMMA StepOwed ==
    ASSUME FinOK, AcceptedArchived, FilesFinite, OwedFolded, [FinalizationNext]_fvars
    PROVE  OwedFolded'
<1>1. ASSUME UNCHANGED <<finVars, listing>> PROVE OwedFolded'
  BY <1>1 DEF finVars, OwedFolded, ReceiptsFolded, Owed
<1>2. ASSUME NEW tool \in Tool, NEW c \in Circuit, OperatorFinalizes(tool, c)
      PROVE  OwedFolded'
  <2>1. PICK files \in Listings : \E names \in Sorted(files) : FinalizeBegin(tool, c, names)
    BY <1>2 DEF OperatorFinalizes
  <2>2. PICK names \in Sorted(files) : FinalizeBegin(tool, c, names)
    BY <2>1
  <2>3. fin'.pc = "reading" /\ fin'.names = names /\ listing'.owed = receipts
    BY <1>2, <2>2 DEF FinalizeBegin, OperatorFinalizes
  <2>4. ASSUME NEW r \in receipts
        PROVE  \E i \in DOMAIN names : HashBlob(names[i].blob) = r.new
    <3>1. PICK f \in archive : HashBlob(f.blob) = r.new
      BY DEF AcceptedArchived, Archived
    <3>2. PICK g \in files : Name(g) = Name(f)
      BY ListingNames
    <3>3. PICK i \in DOMAIN names : names[i] = Name(g)
      BY ListingFinite, SortedHasAll
    <3> QED
      BY <3>1, <3>2, <3>3 DEF Name
  <2> QED
    BY <2>3, <2>4 DEF OwedFolded, ReceiptsFolded, Owed
<1>3. ASSUME FinalizeStep, listing' = listing PROVE OwedFolded'
  <2>1. ASSUME fin.pc \in Busy, fin'.pc \in Busy, fin'.names = fin.names PROVE OwedFolded'
    BY <1>3, <2>1 DEF OwedFolded, ReceiptsFolded, Owed, Busy
  <2>2. ASSUME fin'.pc \in {"refused", "failed"} PROVE OwedFolded'
    BY <2>2 DEF OwedFolded, ReceiptsFolded, Busy
  <2>3. CASE BatchReads \/ BatchVerifies \/ StreamVerifies \/ StreamSeals
    BY <2>1, <2>3 DEF BatchReads, BatchVerifies, StreamVerifies, StreamSeals, Reading,
         FileRead, Proceed, FinOK, FinType, Busy
  <2>4. CASE BatchRefuses \/ StreamRefuses \/ FinalizeDies
    BY <2>2, <2>4 DEF BatchRefuses, StreamRefuses, FinalizeDies, Proceed, NoRun, FinOK, FinType
  <2>5. ASSUME NEW f \in KeyFile, KeyWritten(f) PROVE OwedFolded'
    BY <2>1, <2>5 DEF KeyWritten, FinOK, FinType, Busy
  <2>6. CASE PrintsFingerprint
    <3>1. fin.pc = "writing" /\ fin.left = {} /\ keyDir' = keyDir /\ fin'.pc = "complete"
      BY <2>6 DEF PrintsFingerprint, FinOK, FinType
    <3>2. keyDir["vk"] = Keys["vk"] /\ VerifyPhase2(fin.circuit, Chain)
      BY <3>1 DEF FinOK, WrittenSoFar, KeyFile
    <3>3. Keys["vk"] = Chain[Len(Chain)] /\ fin.circuit \in Circuit /\ Chain \in Seq(Blob)
      BY <3>1, ChainType DEF Keys, FinalizePhase2, SealPhase2, FinOK, FinType, Arguments, Busy, Chain
    <3>4. ASSUME NEW r \in listing.owed PROVE IsPrefix(r.new.sha256, keyDir["vk"])
      <4>1. PICK i \in DOMAIN fin.names : HashBlob(fin.names[i].blob) = r.new
        BY <3>1 DEF OwedFolded, Owed, Busy
      <4>2. i \in DOMAIN Chain /\ r.new.sha256 = Chain[i]
        BY <4>1 DEF Chain, ChainOf, HashBlob
      <4> QED
        BY <3>2, <3>3, <4>2, ChainGrows
    <3> QED
      BY <1>3, <3>1, <3>4 DEF OwedFolded, ReceiptsFolded, Busy
  <2> QED
    BY <1>3, <2>3, <2>4, <2>5, <2>6 DEF FinalizeStep
<1> QED
  BY <1>1, <1>2, <1>3 DEF FinalizationNext, fvars

(* Whoever had a receipt when the names were listed is part of the keys    *)
(* that are printed as complete, whatever crashed, tore or lost power      *)
(* before, and whatever the sequencer does while the finalizer reads.      *)
THEOREM EveryReceiptFolded == ~InPlace => (FinalizationSpec => []ReceiptsFolded)
<1> SUFFICES ASSUME ~InPlace PROVE FinalizationSpec => []ReceiptsFolded
  OBVIOUS
<1>1. FinalizationInit => FinOK /\ FilesFinite /\ OwedFolded /\ Init
  BY InitFin, InitOwed, FS_EmptySet DEF FinalizationInit, FilesFinite, Init, StorageInit
<1>2. [FinalizationNext]_fvars => [FinNext]_finVars /\ [Next]_vars
  BY DEF FinalizationNext, OperatorFinalizes, FinNext, fvars, finVars
<1>3. FinOK /\ [FinalizationNext]_fvars => FinOK'
  BY <1>2, StepFin
<1>4. Typed /\ FilesFinite /\ [FinalizationNext]_fvars => FilesFinite'
  BY <1>2, FilesStep
<1>5. FinOK /\ AcceptedArchived /\ FilesFinite /\ OwedFolded /\ [FinalizationNext]_fvars
      => OwedFolded'
  BY StepOwed
<1>6. FinalizationSpec => Spec
  BY FinalizationRunsSequencer
<1>7. OwedFolded => ReceiptsFolded
  BY DEF OwedFolded
<1> QED
  BY <1>1, <1>3, <1>4, <1>5, <1>6, <1>7, SequencerTyped, SequencerAcceptedArchived, PTL
  DEF FinalizationSpec
-----------------------------------------------------------------------------
(* Types *)

Contents == [KeyFile -> KeyFileContent]

Filled ==
    /\ fin.read <= Len(fin.names) /\ fin.run <= MaxRuns
    /\ keyDir \in Contents
    /\ pinned # None => pinned \in Contents
    /\ listing.owed \subseteq Receipt

LEMMA KeysContent == ASSUME FinOK, fin.pc = "writing" PROVE Keys \in Contents
<1>1. Keys["vk"] \in Blob /\ Keys["pk"] = Keys["vk"] /\ Keys["ccs"] = fin.circuit
  BY KeysWhole DEF Keys, FinalizePhase2
<1>2. fin.circuit \in Circuit
  BY DEF FinOK, Arguments, Busy
<1>3. \A f \in KeyFile : Keys[f] \in KeyFileContent
  BY <1>1, <1>2 DEF KeyFile, KeyFileContent
<1> QED
  BY <1>3, KeysDomain DEF Contents

LEMMA InitFilled == FinalizationInit => Filled
<1> SUFFICES ASSUME FinalizationInit PROVE Filled
  OBVIOUS
<1>1. fin = NoRun /\ listing.owed = {}
  BY DEF FinalizationInit, FinalizeInit, NothingListed
<1>2. PICK c \in Circuit : keyDir = [f \in KeyFile |-> IF InPlace /\ f = "ccs" THEN c ELSE Before]
  BY DEF FinalizationInit, FinalizeInit
<1>3. keyDir \in Contents /\ EarlierKeys \in Contents
  BY <1>2 DEF Contents, KeyFileContent, EarlierKeys
<1>4. fin.read <= Len(fin.names) /\ fin.run <= MaxRuns
  BY <1>1, FinalizeParameters DEF NoRun
<1> QED
  BY <1>1, <1>3, <1>4 DEF Filled, FinalizationInit, FinalizeInit

LEMMA StepFilled ==
    ASSUME ~InPlace, FinOK, Typed, Filled, [FinalizationNext]_fvars
    PROVE  Filled'
<1>1. ASSUME UNCHANGED <<finVars, listing>> PROVE Filled'
  BY <1>1 DEF finVars, Filled
<1>2. ASSUME NEW tool \in Tool, NEW c \in Circuit, OperatorFinalizes(tool, c)
      PROVE  Filled'
  <2>1. PICK names : FinalizeBegin(tool, c, names)
    BY <1>2 DEF OperatorFinalizes
  <2>2. /\ names \in Seq(FileName) /\ fin.run < MaxRuns /\ fin.run \in Nat
        /\ fin'.read = 0 /\ fin'.names = names /\ fin'.run = fin.run + 1
        /\ keyDir' = keyDir /\ pinned' = pinned
    BY <2>1 DEF FinalizeBegin, FinOK, FinType
  <2>3. fin'.read <= Len(fin'.names) /\ fin'.run <= MaxRuns
    BY <2>2, FinalizeParameters
  <2>4. listing'.owed = receipts /\ receipts \subseteq Receipt
    BY <1>2 DEF OperatorFinalizes, Typed, HistoryOK
  <2> QED
    BY <2>2, <2>3, <2>4 DEF Filled
<1>3. ASSUME FinalizeStep, listing' = listing PROVE Filled'
  <2>0. fin.run \in Nat /\ fin.read \in Nat /\ Len(fin.names) \in Nat
    BY DEF FinOK, FinType
  <2>1. CASE BatchReads \/ StreamVerifies
    <3>1. /\ fin'.read = fin.read + 1 /\ fin'.names = fin.names /\ fin'.run = fin.run
          /\ fin.read < Len(fin.names) /\ keyDir' = keyDir /\ pinned' = pinned
      BY <2>1 DEF BatchReads, StreamVerifies, FileRead, MoreToRead, FinOK, FinType
    <3> QED
      BY <1>3, <2>0, <3>1 DEF Filled
  <2>2. CASE BatchVerifies \/ StreamSeals \/ BatchRefuses \/ StreamRefuses
    <3>1. /\ fin'.read = fin.read /\ fin'.names = fin.names /\ fin'.run = fin.run
          /\ keyDir' = keyDir /\ pinned' = pinned
      BY <2>2 DEF BatchVerifies, StreamSeals, BatchRefuses, StreamRefuses, Proceed, FinOK, FinType
    <3> QED
      BY <1>3, <3>1 DEF Filled
  <2>3. ASSUME NEW f \in KeyFile, KeyWritten(f) PROVE Filled'
    <3>1. /\ fin.pc = "writing" /\ pinned' = pinned /\ keyDir' = [keyDir EXCEPT ![f] = Keys[f]]
          /\ fin'.read = fin.read /\ fin'.names = fin.names /\ fin'.run = fin.run
      BY <2>3 DEF KeyWritten, KeyBytes, FinOK, FinType
    <3>2. Keys[f] \in KeyFileContent
      BY <3>1, KeysContent DEF Contents
    <3>3. keyDir' \in Contents
      BY <3>1, <3>2 DEF Contents, Filled
    <3> QED
      BY <1>3, <3>1, <3>3 DEF Filled
  <2>4. CASE FinalizeDies
    <3>1. fin'.read = 0 /\ fin'.names = <<>> /\ fin'.run = fin.run /\ pinned' = pinned
      BY <2>4 DEF FinalizeDies, NoRun
    <3>2. keyDir' \in Contents
      BY <2>4 DEF FinalizeDies, Contents, Filled, KeyFileContent
    <3> QED
      BY <1>3, <3>1, <3>2 DEF Filled
  <2>5. CASE PrintsFingerprint
    <3>1. /\ fin.pc = "writing" /\ pinned' = Keys /\ keyDir' = keyDir
          /\ fin'.read = fin.read /\ fin'.names = fin.names /\ fin'.run = fin.run
      BY <2>5 DEF PrintsFingerprint, FinOK, FinType
    <3> QED
      BY <1>3, <3>1, KeysContent DEF Filled
  <2> QED
    BY <1>3, <2>1, <2>2, <2>3, <2>4, <2>5 DEF FinalizeStep
<1> QED
  BY <1>1, <1>2, <1>3 DEF FinalizationNext, fvars

(* The finalization keeps its types, the keys directory included.          *)
THEOREM FinalizationTypeCorrect == ~InPlace => (FinalizationSpec => []FinalizationTypeOK)
<1> SUFFICES ASSUME ~InPlace PROVE FinalizationSpec => []FinalizationTypeOK
  OBVIOUS
<1>1. FinalizationInit => FinOK
  BY InitFin DEF FinalizationInit
<1>2. FinOK /\ [FinalizationNext]_fvars => FinOK'
  BY FinalizationIsFin, StepFin
<1>3. FinOK /\ Typed /\ Filled /\ [FinalizationNext]_fvars => Filled'
  BY StepFilled
<1>4. FinOK /\ Filled => FinalizationTypeOK
  <2> SUFFICES ASSUME FinOK, Filled PROVE FinalizationTypeOK
    OBVIOUS
  <2>1. fin.read \in 0..Len(fin.names) /\ fin.run \in 0..MaxRuns
    BY FinalizeParameters DEF FinOK, FinType, Filled
  <2> QED
    BY <2>1 DEF FinOK, FinType, Filled, Contents, ProgramCounter, FinalizationTypeOK
<1> QED
  BY <1>1, <1>2, <1>3, <1>4, InitFilled, FinalizationRunsSequencer, SequencerTyped, PTL
  DEF FinalizationSpec
-----------------------------------------------------------------------------
(* Without faults a listing is the chain of the transcript.                *)

Matches(names) ==
    \A i \in DOMAIN names :
        /\ i \in DOMAIN tr.entries
        /\ names[i].index = tr.entries[i].index
        /\ HashBlob(names[i].blob) = tr.entries[i].new

LEMMA LiveTranscript ==
    ASSUME Typed, Live, ChainSound
    PROVE  /\ tr \in TranscriptDoc /\ Sound(tr)
           /\ Len(tr.entries) \in Nat /\ DOMAIN tr.entries = 1..Len(tr.entries)
           /\ \A i \in DOMAIN tr.entries : tr.entries[i].index = i - 1
<1>1. tr \in TranscriptDoc /\ tr # None
  BY NoneIsNoContent DEF Typed, MemoryOK, Live
<1> QED
  BY <1>1, EntriesOf DEF ChainSound, Sound, VerifyTranscript

(* Files are named after entries, and every entry has a file.              *)
LEMMA FilesAreEntries ==
    ASSUME Serving, ArchiveIsChain
    PROVE  /\ \A f \in archive : \E i \in DOMAIN tr.entries :
                f.index = tr.entries[i].index /\ HashBlob(f.blob) = tr.entries[i].new
           /\ \A i \in DOMAIN tr.entries : \E f \in archive :
                f.index = tr.entries[i].index /\ HashBlob(f.blob) = tr.entries[i].new
<1> DEFINE P(f) == <<f.index, HashBlob(f.blob)>>
           Q(i) == <<tr.entries[i].index, tr.entries[i].new>>
<1>1. {P(f) : f \in archive} = {Q(i) : i \in DOMAIN tr.entries}
  BY DEF ArchiveIsChain, LoadChainIndexed
<1>2. \A f, i : P(f) = Q(i) =>
         f.index = tr.entries[i].index /\ HashBlob(f.blob) = tr.entries[i].new
  OBVIOUS
<1> HIDE DEF P, Q
<1>3. /\ \A f \in archive : \E i \in DOMAIN tr.entries : P(f) = Q(i)
      /\ \A i \in DOMAIN tr.entries : \E f \in archive : P(f) = Q(i)
  BY <1>1
<1> QED
  BY <1>2, <1>3

(* Sorted by index, the names come in the order of the entries: the least  *)
(* place that is wrong would have to repeat a name or leave one out.       *)
LEMMA SortedIsChain ==
    ASSUME Typed, ChainSound, Serving, ArchiveIsChain, FilesFinite,
           NEW names \in Sorted(archive), names \in Seq(FileName)
    PROVE  DOMAIN names = DOMAIN tr.entries /\ Matches(names)
<1> DEFINE m == Len(names)
           n == Len(tr.entries)
<1>1. /\ m \in Nat /\ DOMAIN names = 1..m
      /\ n \in Nat /\ DOMAIN tr.entries = 1..n
      /\ \A i \in 1..n : tr.entries[i].index = i - 1
  BY LiveTranscript DEF Serving
<1>2. \A i, j \in 1..m : i < j => names[i].index <= names[j].index
  BY <1>1 DEF Sorted
<1>3. \A i, j \in 1..m : names[i] = names[j] => i = j
  <2> DEFINE S == {Name(f) : f \in archive}
  <2>1. names \in [1..Cardinality(S) -> S]
        /\ \A i, j \in 1..Cardinality(S) : i # j => names[i] # names[j]
    BY DEF Sorted, SetToSeqs
  <2>2. DOMAIN names = 1..Cardinality(S)
    BY <2>1
  <2> HIDE DEF S
  <2> QED
    BY <1>1, <2>1, <2>2
<1>4. ASSUME NEW i \in 1..m
      PROVE  \E k \in 1..n : /\ names[i].index = k - 1
                             /\ HashBlob(names[i].blob) = tr.entries[k].new
  <2>1. PICK f \in archive : names[i] = Name(f)
    BY <1>1 DEF Sorted, SetToSeqs
  <2>2. PICK k \in 1..n : f.index = tr.entries[k].index /\ HashBlob(f.blob) = tr.entries[k].new
    BY <1>1, FilesAreEntries
  <2> QED
    BY <1>1, <2>1, <2>2 DEF Name
<1>5. ASSUME NEW k \in 1..n PROVE \E i \in 1..m : names[i].index = k - 1
  <2>1. PICK f \in archive : f.index = k - 1
    BY <1>1, FilesAreEntries
  <2>2. PICK i \in DOMAIN names : names[i] = Name(f)
    BY SortedHasAll DEF FilesFinite
  <2> QED
    BY <1>1, <2>1, <2>2 DEF Name
<1>6. ASSUME NEW i \in 1..m, NEW j \in 1..m, names[i].index = names[j].index PROVE i = j
  <2>1. PICK k \in 1..n : names[i].index = k - 1 /\ HashBlob(names[i].blob) = tr.entries[k].new
    BY <1>4
  <2>2. HashBlob(names[j].blob) = tr.entries[k].new
    <3>1. PICK l \in 1..n : names[j].index = l - 1 /\ HashBlob(names[j].blob) = tr.entries[l].new
      BY <1>4
    <3>2. l - 1 = k - 1
      BY <1>6, <2>1, <3>1
    <3>3. l = k
      BY <1>1, <3>2
    <3> QED
      BY <3>1, <3>3
  <2>3. names[i] \in FileName /\ names[j] \in FileName /\ names[i].blob = names[j].blob
    BY <1>1, <2>1, <2>2 DEF HashBlob
  <2>4. names[i] = names[j]
    BY <1>6, <2>3 DEF FileName
  <2> QED
    BY <1>3, <2>4
<1> HIDE DEF m, n
<1> DEFINE Wrong == {i \in 1..m : names[i].index # i - 1}
<1>7. ASSUME Wrong # {} PROVE FALSE
  <2>1. Wrong \in SUBSET Nat
    BY <1>1
  <2> HIDE DEF Wrong
  <2>2. PICK i \in Wrong : \A j \in Wrong : i <= j
    BY <1>7, <2>1, LeastNumber
  <2> USE DEF Wrong
  <2>3. i \in 1..m /\ names[i].index # i - 1
    OBVIOUS
  <2>4. \A j \in 1..m : j < i => names[j].index = j - 1
    BY <1>1, <2>2
  <2>5. PICK k \in 1..n : names[i].index = k - 1
    BY <1>4, <2>3
  <2>6. CASE k < i
    <3>1. k \in 1..m /\ names[k].index = k - 1
      BY <1>1, <2>3, <2>4, <2>6
    <3> QED
      BY <1>1, <1>6, <2>3, <2>5, <2>6, <3>1
  <2>7. CASE k > i
    <3>1. i \in 1..n
      BY <1>1, <2>3, <2>7
    <3>2. PICK j \in 1..m : names[j].index = i - 1
      BY <1>5, <3>1
    <3>3. j > i
      BY <1>1, <2>3, <2>4, <3>2
    <3>4. names[i].index <= names[j].index
      BY <1>2, <2>3, <3>3
    <3> QED
      BY <1>1, <2>3, <2>5, <2>7, <3>2, <3>4
  <2> QED
    BY <1>1, <2>3, <2>5, <2>6, <2>7
<1>8. \A i \in 1..m : names[i].index = i - 1
  BY <1>7
<1>9. m = n
  <2>1. m <= n
    <3>1. CASE m = 0
      BY <1>1, <3>1
    <3>2. CASE m # 0
      <4>1. m \in 1..m
        BY <1>1, <3>2
      <4>2. PICK k \in 1..n : names[m].index = k - 1
        BY <1>4, <4>1
      <4> QED
        BY <1>1, <1>8, <4>1, <4>2
    <3> QED
      BY <3>1, <3>2
  <2>2. n <= m
    <3>1. CASE n = 0
      BY <1>1, <3>1
    <3>2. CASE n # 0
      <4>1. n \in 1..n
        BY <1>1, <3>2
      <4>2. PICK i \in 1..m : names[i].index = n - 1
        BY <1>5, <4>1
      <4> QED
        BY <1>1, <1>8, <4>1, <4>2
    <3> QED
      BY <3>1, <3>2
  <2> QED
    BY <1>1, <2>1, <2>2
<1>10. ASSUME NEW i \in 1..m
       PROVE  HashBlob(names[i].blob) = tr.entries[i].new /\ names[i].index = tr.entries[i].index
  <2>1. PICK k \in 1..n : names[i].index = k - 1 /\ HashBlob(names[i].blob) = tr.entries[k].new
    BY <1>4
  <2>2. k = i
    BY <1>1, <1>8, <2>1
  <2> QED
    BY <1>1, <2>1, <2>2
<1> QED
  BY <1>1, <1>9, <1>10 DEF Matches

(* The blobs of such names are linked, and belong to one circuit.          *)
LEMMA MatchesLinked ==
    ASSUME Typed, ChainSound, Live, NEW names \in Seq(FileName), names # <<>>, Matches(names)
    PROVE  /\ Head(ChainOf(names)[1]) = tr.circuit
           /\ VerifyPhase2(tr.circuit, ChainOf(names))
<1> DEFINE chain == ChainOf(names)
           e(i) == tr.entries[i]
<1>1. /\ Sound(tr) /\ DOMAIN tr.entries = 1..Len(tr.entries) /\ Len(tr.entries) \in Nat
      /\ tr \in TranscriptDoc
  BY LiveTranscript
<1>2. DOMAIN chain = DOMAIN names /\ DOMAIN names = 1..Len(names) /\ Len(names) \in Nat
  BY DEF ChainOf
<1>3. 1 \in DOMAIN names
  BY <1>2
<1>4. \A i \in DOMAIN names : i \in DOMAIN tr.entries /\ e(i).new.sha256 = chain[i]
  <2> SUFFICES ASSUME NEW i \in DOMAIN names
               PROVE  i \in DOMAIN tr.entries /\ e(i).new.sha256 = chain[i]
    OBVIOUS
  <2>1. i \in DOMAIN tr.entries /\ HashBlob(names[i].blob) = tr.entries[i].new
    BY DEF Matches
  <2>2. chain[i] = names[i].blob
    BY DEF ChainOf
  <2>3. HashBlob(names[i].blob).sha256 = names[i].blob
    BY DEF HashBlob
  <2> QED
    BY <2>1, <2>2, <2>3
<1>5. \A i \in DOMAIN names : VerifyPhase2Step(e(i).prev.sha256, chain[i])
  BY <1>1, <1>4 DEF Sound
<1>6. e(1).prev.sha256 = InitPhase2(tr.circuit)
  BY <1>1, <1>3, <1>4 DEF Sound, VerifyTranscript, HashBlob
<1>7. ASSUME NEW i \in DOMAIN names, i # 1 PROVE e(i).prev.sha256 = chain[i - 1]
  <2>1. i - 1 \in DOMAIN names
    BY <1>2, <1>7
  <2>2. e(i).prev = e(i - 1).new
    BY <1>1, <1>4, <1>7 DEF Sound, VerifyTranscript
  <2> QED
    BY <1>4, <2>1, <2>2
<1> HIDE DEF chain, e
<1>8. VerifyPhase2(tr.circuit, chain)
  BY <1>2, <1>5, <1>6, <1>7 DEF VerifyPhase2
<1>9. Head(chain[1]) = tr.circuit
  <2>1. PICK who \in Contribution : chain[1] = Append(<<tr.circuit>>, who)
    BY <1>3, <1>5, <1>6 DEF VerifyPhase2Step, ContributePhase2, InitPhase2
  <2> QED
    BY <2>1
<1> QED
  BY <1>8, <1>9 DEF chain

ListedHashes == [i \in DOMAIN fin.names |-> HashBlob(fin.names[i].blob)]

Clean ==
    listing.accepted # None =>
        /\ Live
        /\ fin.pc \in Busy \cup {"refused", "complete"} =>
             Matches(fin.names) /\ listing.accepted = ListedHashes
        /\ fin.pc = "refused" => fin.circuit # Head(Chain[1])

LEMMA InitClean == FinalizationInit => Clean
BY DEF FinalizationInit, NothingListed, Clean

(* What the sequencer does meanwhile: it appends.                          *)
LEMMA SequencerKeepsClean ==
    ASSUME Typed, Typed', Clean, Undisturbed', [Next]_vars, UNCHANGED <<finVars, listing>>
    PROVE  Clean'
<1> SUFFICES ASSUME listing.accepted # None PROVE Clean'
  BY DEF Clean
<1>1. fin' = fin /\ listing' = listing /\ Live
  BY DEF finVars, Clean
<1>2. Live' /\ (tr' = tr \/ \E h \in Handler : EntryAppended(h))
  BY <1>1, LifeGoesOn
<1>3. ASSUME Matches(fin.names) PROVE Matches(fin.names)'
  <2>1. CASE tr' = tr
    BY <1>1, <1>3, <2>1 DEF Matches
  <2>2. ASSUME NEW h \in Handler, EntryAppended(h) PROVE Matches(fin.names)'
    <3>1. /\ DOMAIN tr.entries = 1..Len(tr.entries) /\ Len(tr.entries) \in Nat
          /\ DOMAIN tr'.entries = 1..(Len(tr.entries) + 1)
          /\ \A i \in 1..Len(tr.entries) : tr'.entries[i] = tr.entries[i]
      BY <2>2, EntryIsAppended
    <3>2. \A i \in DOMAIN tr.entries : i \in DOMAIN tr'.entries /\ tr'.entries[i] = tr.entries[i]
      BY <3>1
    <3> QED
      BY <1>1, <1>3, <3>2 DEF Matches
  <2> QED
    BY <1>2, <2>1, <2>2
<1> QED
  BY <1>1, <1>2, <1>3 DEF Clean, ListedHashes, Chain

LEMMA BeginsClean ==
    ASSUME Typed, ChainSound, FilesFinite, ArchiveIsChain,
           NEW tool \in Tool, NEW c \in Circuit, OperatorFinalizes(tool, c)
    PROVE  Clean'
<1> SUFFICES ASSUME listing'.accepted # None PROVE Clean'
  BY DEF Clean
<1>1. listing'.accepted = AcceptedNow /\ UNCHANGED vars
  BY DEF OperatorFinalizes
<1>2. Serving /\ listing'.accepted = [i \in DOMAIN tr.entries |-> tr.entries[i].new]
  BY <1>1 DEF AcceptedNow
<1>3. Listings = {archive}
  <2>1. \A h \in Handler : upload[h].pc # "save_blob"
    BY <1>2 DEF Serving, Saving, SavingStage
  <2> QED
    BY <2>1 DEF Listings
<1>4. PICK names \in Sorted(archive) : FinalizeBegin(tool, c, names)
  BY <1>3 DEF OperatorFinalizes
<1>5. names \in Seq(FileName) /\ fin'.names = names /\ fin'.pc = "reading"
  BY <1>4 DEF FinalizeBegin
<1>6. DOMAIN names = DOMAIN tr.entries /\ Matches(names)
  BY <1>2, <1>5, SortedIsChain
<1>7. listing'.accepted = [i \in DOMAIN names |-> HashBlob(names[i].blob)]
  BY <1>2, <1>6 DEF Matches
<1>8. Live' /\ tr' = tr
  BY <1>1, <1>2 DEF vars, seqVars, procVars, Serving, Live
<1>9. Matches(fin.names)'
  BY <1>5, <1>6, <1>8 DEF Matches
<1> QED
  BY <1>5, <1>7, <1>8, <1>9 DEF Clean, ListedHashes

(* A file that is listed is there, and linked to the one before.           *)
LEMMA NothingMissing ==
    ASSUME FinOK, Typed, AcceptedArchived, ChainSound, Live, Matches(fin.names),
           fin.pc = "reading"
    PROVE  /\ MoreToRead => NextFileReads
           /\ fin.circuit = Head(Chain[1]) =>
                /\ VerifyPhase2(fin.circuit, Chain)
                /\ MoreToRead => VerifyPhase2Step(Prev, Chain[fin.read + 1])
<1>1. fin.names \in Seq(FileName) /\ fin.names # <<>> /\ fin.read \in Nat
  BY DEF FinOK, FinType, Arguments, Busy
<1>2. ASSUME MoreToRead PROVE NextFileReads
  <2>1. fin.read + 1 \in DOMAIN fin.names
    BY <1>1, <1>2 DEF MoreToRead
  <2> DEFINE k == fin.read + 1
  <2>2. /\ k \in DOMAIN tr.entries /\ fin.names[k].index = tr.entries[k].index
        /\ HashBlob(fin.names[k].blob) = tr.entries[k].new
    BY <2>1 DEF Matches
  <2>3. tr \in {tr, diskTr} \ {None, Absent, Torn}
    BY LiveTranscript, NoneIsNoContent, NoFileIsNoContent
  <2>4. Archived(tr.entries[k])
    BY <2>2, <2>3 DEF AcceptedArchived
  <2>5. PICK f \in archive : f.whole /\ f.index = tr.entries[k].index
                             /\ HashBlob(f.blob) = tr.entries[k].new
    BY <2>4 DEF Archived
  <2>6. f \in ArchiveFile
    BY DEF Typed, DiskOK
  <2>7. f.blob = fin.names[k].blob /\ f.index = fin.names[k].index
    BY <2>2, <2>5 DEF HashBlob
  <2>8. f = [index |-> fin.names[k].index, blob |-> fin.names[k].blob, whole |-> TRUE]
    BY <2>5, <2>6, <2>7 DEF ArchiveFile
  <2> QED
    BY <2>8 DEF NextFileReads
<1>3. ASSUME fin.circuit = Head(Chain[1])
      PROVE  VerifyPhase2(fin.circuit, Chain)
  BY <1>1, <1>3, MatchesLinked DEF Chain
<1>4. ASSUME fin.circuit = Head(Chain[1]), MoreToRead
      PROVE  VerifyPhase2Step(Prev, Chain[fin.read + 1])
  <2>1. fin.read + 1 \in DOMAIN Chain /\ (fin.read + 1 = 1 <=> fin.read = 0)
    BY <1>1, <1>4 DEF MoreToRead, Chain, ChainOf
  <2> DEFINE k == fin.read + 1
  <2>2. VerifyPhase2Step(IF k = 1 THEN InitPhase2(fin.circuit) ELSE Chain[k - 1], Chain[k])
    BY <1>3, <1>4, <2>1 DEF VerifyPhase2
  <2>3. CASE fin.read = 0
    BY <1>4, <2>1, <2>2, <2>3 DEF Prev
  <2>4. CASE fin.read # 0
    <3>1. VerifyPhase2Step(Chain[k - 1], Chain[k])
      BY <2>1, <2>2, <2>4
    <3>2. Prev = Chain[k - 1]
      <4>1. k - 1 = fin.read
        BY <1>1
      <4>2. Prev = Chain[fin.read]
        BY <2>4 DEF Prev
      <4> HIDE DEF k
      <4> QED
        BY <4>1, <4>2, Zenon
    <3> QED
      BY <3>1, <3>2
  <2> QED
    BY <2>3, <2>4
<1> QED
  BY <1>2, <1>3, <1>4

LEMMA FinalizeKeepsClean ==
    ASSUME FinOK, Typed, AcceptedArchived, ChainSound, Clean,
           FinalizeStep, UNCHANGED <<vars, listing>>
    PROVE  Clean'
<1> SUFFICES ASSUME listing.accepted # None PROVE Clean'
  BY DEF Clean
<1>1. /\ listing' = listing /\ tr' = tr /\ Live /\ Live'
      /\ fin.pc \in Busy => Matches(fin.names) /\ listing.accepted = ListedHashes
  BY DEF vars, seqVars, procVars, Live, Clean
<1>2. ASSUME fin.pc \in Busy, fin'.names = fin.names, fin'.pc # "refused" PROVE Clean'
  BY <1>1, <1>2 DEF Clean, Matches, ListedHashes
<1>3. CASE BatchReads \/ BatchVerifies \/ StreamVerifies \/ StreamSeals
  <2>1. fin.pc = "reading" /\ fin'.names = fin.names /\ fin'.pc \in Busy
    BY <1>3 DEF BatchReads, BatchVerifies, StreamVerifies, StreamSeals, Reading,
       FileRead, Proceed, FinOK, FinType, Busy
  <2> QED
    BY <1>2, <2>1 DEF Busy
<1>4. CASE BatchRefuses \/ StreamRefuses
  <2>1. fin.pc = "reading" /\ fin' = [fin EXCEPT !.pc = "refused"]
    BY <1>4 DEF BatchRefuses, StreamRefuses, Reading, Proceed
  <2>2. fin.circuit # Head(Chain[1])
    BY <1>1, <1>4, <2>1, NothingMissing DEF BatchRefuses, StreamRefuses, Busy
  <2>3. fin'.names = fin.names /\ fin'.circuit = fin.circuit
    BY <2>1 DEF FinOK, FinType
  <2> QED
    BY <1>1, <2>1, <2>2, <2>3 DEF Clean, Matches, ListedHashes, Chain, Busy
<1>5. ASSUME NEW f \in KeyFile, KeyWritten(f) PROVE Clean'
  BY <1>2, <1>5 DEF KeyWritten, FinOK, FinType, Busy
<1>6. CASE FinalizeDies
  <2>1. fin'.pc = "failed"
    BY <1>6 DEF FinalizeDies, NoRun
  <2> QED
    BY <1>1, <2>1 DEF Clean, Busy
<1>7. CASE PrintsFingerprint
  BY <1>2, <1>7 DEF PrintsFingerprint, FinOK, FinType, Busy
<1> QED
  BY <1>3, <1>4, <1>5, <1>6, <1>7 DEF FinalizeStep

(* Without crashes and failing writes a listing taken between commits is   *)
(* refused for another circuit only and otherwise gives the keys of what   *)
(* the transcript listed then, however many uploads, expiries and commits  *)
(* there are before and meanwhile.                                         *)
THEOREM CleanArchiveFinalizes ==
    ~InPlace => (FinalizationSpec => [](NoneOverwritten => CleanFinalizes))
<1> SUFFICES ASSUME ~InPlace PROVE FinalizationSpec => [](NoneOverwritten => CleanFinalizes)
  OBVIOUS
<1> DEFINE Cleanly == Flawless => Clean
           Chained == Flawless => ArchiveIsChain
<1>1. FinalizationInit => FinOK /\ FilesFinite /\ Cleanly
  BY InitFin, InitClean, FS_EmptySet
  DEF FinalizationInit, FilesFinite, Init, StorageInit
<1>2. FinOK /\ [FinalizationNext]_fvars => FinOK'
  BY FinalizationIsFin, StepFin
<1>3. Typed /\ FilesFinite /\ [FinalizationNext]_fvars => FilesFinite'
  BY FilesStep DEF FinalizationNext, OperatorFinalizes, fvars
<1>4. /\ FinOK /\ Typed /\ Typed' /\ AcceptedArchived /\ ChainSound /\ FilesFinite
      /\ Chained /\ Cleanly /\ [FinalizationNext]_fvars
      => Cleanly'
  <2> SUFFICES ASSUME FinOK, Typed, Typed', AcceptedArchived, ChainSound, FilesFinite,
                      Chained, Cleanly, [FinalizationNext]_fvars, Flawless'
               PROVE  Clean'
    OBVIOUS
  <2>1. [Next]_vars
    BY DEF FinalizationNext, OperatorFinalizes, fvars
  <2>2. Flawless
    BY <2>1, CrashesNotForgotten, FaultsNotForgotten, WritesNotForgotten
    DEF Flawless, Steady, Typed
  <2>3. ASSUME UNCHANGED <<finVars, listing>> PROVE Clean'
    BY <2>1, <2>2, <2>3, SequencerKeepsClean DEF Flawless, Steady
  <2>4. ASSUME NEW tool \in Tool, NEW c \in Circuit, OperatorFinalizes(tool, c) PROVE Clean'
    BY <2>2, <2>4, BeginsClean
  <2>5. ASSUME FinalizeStep, UNCHANGED <<vars, listing>> PROVE Clean'
    BY <2>2, <2>5, FinalizeKeepsClean
  <2> QED
    BY <2>3, <2>4, <2>5 DEF FinalizationNext, fvars
<1>5. FinOK /\ Cleanly => (NoneOverwritten => CleanFinalizes)
  <2> SUFFICES ASSUME Clean, listing.accepted # None PROVE
                 /\ fin.pc = "refused" => fin.circuit # Head(Chain[1])
                 /\ fin.pc = "complete" => AcceptedHashes = listing.accepted
    BY DEF CleanFinalizes, Flawless, Steady, Undisturbed
  <2>1. AcceptedHashes = ListedHashes
    BY DEF AcceptedHashes, ListedHashes, Chain, ChainOf
  <2> QED
    BY <2>1 DEF Clean
<1>6. Spec => []Chained
  BY SequencerArchiveIsChain
<1> HIDE DEF Cleanly, Chained
<1> QED
  BY <1>1, <1>2, <1>3, <1>4, <1>5, <1>6, FinalizationRunsSequencer, SequencerTyped,
     SequencerAcceptedArchived, SequencerChainSound, PTL
  DEF FinalizationSpec
=============================================================================
