------------------------------ MODULE Storage ------------------------------
(***************************************************************************)
(* What survives the process (src/ceremony/storage.go): head.bin,          *)
(* transcript.json and the archive blobs/NNNNN-<sha8>.bin.  LocalStorage   *)
(* truncates a file and then writes it, so a write that is cut short can   *)
(* leave a file no reader accepts (Torn); the interface also allows a      *)
(* store that puts objects atomically.  TornWrites tells the two apart.    *)
(***************************************************************************)
EXTENDS Transcript

CONSTANTS
    Absent,      \* the file does not exist
    Torn,        \* the file exists but does not parse
    TornWrites   \* TRUE: LocalStorage; FALSE: a store with atomic puts

ASSUME NoFileIsNoContent ==
    /\ Absent # Torn
    /\ {Absent, Torn} \cap (Blob \cup TranscriptDoc) = {}
    /\ TornWrites \in BOOLEAN

VARIABLES
    diskHead,   \* head.bin
    diskTr,     \* transcript.json
    archive,    \* blobs/: a set of files [index, blob, whole]
    versions    \* what transcript.json has held since the power last failed

storeVars == <<diskHead, diskTr, archive, versions>>

Readable(file) == file \notin {Absent, Torn}

(* What a write that fails or is interrupted can leave behind.             *)
WriteOutcomes(old, new) == {old, new} \cup (IF TornWrites THEN {Torn} ELSE {})

(* transcript.json is written without a sync, the other files with one:    *)
(* when the power fails, any version since the last failure may turn out   *)
(* to be what reached the disk, or, of a version since, a part.            *)
Cached == versions' = versions \cup {diskTr'}

PowerOutcomes ==
    versions \cup (IF TornWrites /\ versions # {diskTr} THEN {Torn} ELSE {})

ArchiveFile == [index : Nat, blob : Blob, whole : BOOLEAN]

(* SaveBlob: the name of a file is its index and its (prefix of the) hash, *)
(* so saving the same blob at the same index again overwrites the file.    *)
PutFile(files, i, b, whole) ==
    {f \in files : f.index # i \/ f.blob # b}
        \cup {[index |-> i, blob |-> b, whole |-> whole]}

PutOutcomes(files, i, b) ==
    {files, PutFile(files, i, b, TRUE)}
        \cup (IF TornWrites THEN {PutFile(files, i, b, FALSE)} ELSE {})

StorageInit == diskHead = Absent /\ diskTr = Absent /\ archive = {} /\ versions = {Absent}

(* LoadChain succeeds when every file of the archive parses; sorted by     *)
(* name, it returns the blobs in the order of their index.                 *)
LoadChainWorks == \A f \in archive : f.whole

LoadChainIndexed == {<<f.index, HashBlob(f.blob)>> : f \in archive}
=============================================================================
