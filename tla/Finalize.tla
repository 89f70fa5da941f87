------------------------------ MODULE Finalize ------------------------------
(***************************************************************************)
(* The two programs that turn the archived contributions into keys:        *)
(* phase2-finalize (tool "batch", src/cmd/ceremony/main.go) reads every    *)
(* file, verifies the chain and writes the three key files in the order of *)
(* a map; finalize-stream (tool "stream", src/cmd/finalize-stream/main.go) *)
(* verifies each file as it reads it and writes vk, pk and ccs in turn.    *)
(* Both are given the names of the files once, on the command line, and    *)
(* look at the files later.  A run can end at any moment.                  *)
(***************************************************************************)
EXTENDS Storage, SequencesExt

CONSTANTS
    Tool,       \* the programs in use, a subset of {"batch", "stream"}
    InPlace,    \* TRUE: --ccs names the ccs.bin of the keys directory itself
    Before,     \* what each key file held before: Absent, or the keys of an
                \* earlier finalization (rehearse.sh uses the same ./keys)
    MaxRuns     \* bound: finalizations started

ASSUME FinalizeParameters ==
    /\ Tool \subseteq {"batch", "stream"}
    /\ InPlace \in BOOLEAN
    /\ MaxRuns \in Nat
    /\ Before = Absent \/ Before \notin Circuit \cup Blob \cup {Torn, None}
    /\ None \notin [circuit : Circuit, blobs : Seq(Blob)]

VARIABLES
    fin,      \* the finalization: program counter, arguments, local variables
    keyDir,   \* the keys directory: what ccs.bin, pk.bin and vk.bin hold
    pinned    \* the keys whose fingerprint was printed last, or None

finVars == <<fin, keyDir, pinned>>

KeyFile == {"ccs", "pk", "vk"}
Busy == {"reading", "writing"}

NoRun == [pc |-> "idle", tool |-> None, circuit |-> None, names |-> <<>>,
          read |-> 0, left |-> {}, run |-> 0]

EarlierKeys == [f \in KeyFile |-> Before]

FinalizeInit ==
    /\ fin = NoRun
    /\ \E c \in Circuit :
         keyDir = [f \in KeyFile |-> IF InPlace /\ f = "ccs" THEN c ELSE Before]
    /\ pinned = IF Before = Absent THEN None ELSE EarlierKeys

(* The arguments: a circuit, and the names the shell found for             *)
(* blobs/*.bin.  A name stands for its index and the hash of a blob.       *)
FileName == [index : Nat, blob : Blob]

FinalizeBegin(tool, c, names) ==
    /\ fin.pc \notin Busy
    /\ fin.run < MaxRuns
    /\ names \in Seq(FileName) \ {<<>>}
    /\ InPlace => keyDir["ccs"] = c
    /\ fin' = [pc |-> "reading", tool |-> tool, circuit |-> c, names |-> names,
               read |-> 0, left |-> KeyFile, run |-> fin.run + 1]
    /\ UNCHANGED <<keyDir, pinned>>

ChainOf(names) == [i \in DOMAIN names |-> names[i].blob]
Chain == ChainOf(fin.names)
Keys == FinalizePhase2(fin.circuit, Chain)

Reading(tool) == fin.pc = "reading" /\ fin.tool = tool
MoreToRead == fin.read < Len(fin.names)

(* ReadFrom succeeds: the file is there and whole.                         *)
NextFileReads ==
    LET name == fin.names[fin.read + 1]
    IN  [index |-> name.index, blob |-> name.blob, whole |-> TRUE] \in archive

(* Mutation: the loop counter is advanced twice.                           *)
FileSkipped == fin' = [fin EXCEPT !.read = @ + 2] /\ UNCHANGED <<keyDir, pinned>>

FileRead == fin' = [fin EXCEPT !.read = @ + 1] /\ UNCHANGED <<keyDir, pinned>>
Proceed(pc) == fin' = [fin EXCEPT !.pc = pc] /\ UNCHANGED <<keyDir, pinned>>

-----------------------------------------------------------------------------
(* phase2-finalize *)

BatchReads == Reading("batch") /\ MoreToRead /\ NextFileReads /\ FileRead

BatchVerifies ==
    /\ Reading("batch") /\ ~MoreToRead
    /\ VerifyPhase2(fin.circuit, Chain)
    /\ Proceed("writing")

BatchRefuses ==
    /\ Reading("batch")
    /\ IF MoreToRead THEN ~NextFileReads ELSE ~VerifyPhase2(fin.circuit, Chain)
    /\ Proceed("refused")

-----------------------------------------------------------------------------
(* finalize-stream *)

(* Mutation: prev stays at the first state of the chain.                   *)
PrevNotAdvanced == InitPhase2(fin.circuit)

(* The blob that is resident beside the one being read.                    *)
Prev == IF fin.read = 0 THEN InitPhase2(fin.circuit) ELSE Chain[fin.read]

StreamVerifies ==
    /\ Reading("stream") /\ MoreToRead
    /\ NextFileReads
    /\ VerifyPhase2Step(Prev, Chain[fin.read + 1])
    /\ FileRead

StreamSeals == Reading("stream") /\ ~MoreToRead /\ Proceed("writing")

StreamRefuses ==
    /\ Reading("stream") /\ MoreToRead
    /\ ~NextFileReads \/ ~VerifyPhase2Step(Prev, Chain[fin.read + 1])
    /\ Proceed("refused")

-----------------------------------------------------------------------------
(* Writing the keys *)

(* Mutation: the proving key before the verifying key.                     *)
PkFirst ==
    IF fin.tool = "batch" \/ Cardinality(fin.left) = 1 THEN fin.left
    ELSE IF "pk" \in fin.left THEN {"pk"} ELSE {"vk"}

(* The file a run can be writing: Go's map has no order; the stream's is   *)
(* fixed.                                                                  *)
NextKeyFiles ==
    IF fin.tool = "batch" THEN fin.left
    ELSE IF "vk" \in fin.left THEN {"vk"}
    ELSE IF "pk" \in fin.left THEN {"pk"}
    ELSE fin.left

(* The stream copies the circuit from the path it was given, which creates *)
(* the target, and so empties it, before the first byte is read.           *)
KeyBytes(f) ==
    IF f = "ccs" /\ InPlace /\ fin.tool = "stream" THEN Torn
    ELSE Keys[f]

KeyWritten(f) ==
    /\ fin.pc = "writing"
    /\ f \in NextKeyFiles
    /\ keyDir' = [keyDir EXCEPT ![f] = KeyBytes(f)]
    /\ fin' = [fin EXCEPT !.left = @ \ {f}]
    /\ UNCHANGED pinned

(* A write fails, or the process dies: a file may be left cut short.       *)
FinalizeDies ==
    /\ fin.pc \in Busy
    /\ fin' = [NoRun EXCEPT !.pc = "failed", !.run = fin.run]
    /\ \/ UNCHANGED keyDir
       \/ /\ fin.pc = "writing"
          /\ \E f \in NextKeyFiles : keyDir' = [keyDir EXCEPT ![f] = Torn]
    /\ UNCHANGED pinned

(* Mutation: the fingerprint is printed as soon as vk.bin is written.      *)
PrintsEarly ==
    /\ fin.pc = "writing" /\ "vk" \notin fin.left
    /\ pinned' = Keys
    /\ fin' = [fin EXCEPT !.pc = "complete"]
    /\ UNCHANGED keyDir

PrintsFingerprint ==
    /\ fin.pc = "writing" /\ fin.left = {}
    /\ pinned' = Keys
    /\ fin' = [fin EXCEPT !.pc = "complete"]
    /\ UNCHANGED keyDir

FinalizeStep ==
    \/ BatchReads \/ BatchVerifies \/ BatchRefuses
    \/ StreamVerifies \/ StreamSeals \/ StreamRefuses
    \/ \E f \in KeyFile : KeyWritten(f)
    \/ FinalizeDies
    \/ PrintsFingerprint
-----------------------------------------------------------------------------
(* Properties *)

(* What is promised: the run in progress as an order, the blobs of its     *)
(* files as the chain to fold.                                             *)
Promised == IF fin.pc \in Busy THEN [circuit |-> fin.circuit, blobs |-> Chain] ELSE None

Promise == INSTANCE KeyMaking WITH order <- Promised, Broken <- Torn

(* Both programs do what KeyMaking promises: no key file is touched before *)
(* the whole chain is verified from the circuit's init, although the       *)
(* stream never sees the chain as a whole, and the fingerprint is printed  *)
(* only when the three files are the ones derived (finalize-stream, "It    *)
(* replicates gnark mpcsetup.VerifyPhase2").                               *)
KeepsPromise == Promise!KeySpec

(* A run that reports CEREMONY COMPLETE leaves the keys of its chain and   *)
(* the circuit it was given (finalize-stream/main.go:125, "ccs.bin: the    *)
(* keyed circuit (copy the input bytes verbatim)").                        *)
CompleteKeys == fin.pc = "complete" => keyDir = Keys
=============================================================================
