---------------------------- MODULE Finalization ----------------------------
(***************************************************************************)
(* Finalizing what a sequencer has archived: the operator runs one of the  *)
(* programs of Finalize over state/blobs/*.bin (RUNBOOK.md, section 4), at *)
(* any moment, the sequencer being up, down or in the middle of a commit.  *)
(***************************************************************************)
EXTENDS Sequencer, Finalize

VARIABLE listing   \* history: what was recorded when the names were listed

fvars == <<vars, finVars, listing>>

NothingListed == [owed |-> {}, accepted |-> None]

FinalizationInit == Init /\ FinalizeInit /\ listing = NothingListed

(* The names ls prints: those of the archive and, while a file is being    *)
(* created, possibly its name too.  They come sorted by index; the hash    *)
(* decides between names of one index, so either may be the first.         *)
Listings ==
    {archive} \cup UNION {PutOutcomes(archive, TranscriptLen(tr), upload[h].next) :
                            h \in {g \in Handler : upload[g].pc = "save_blob"}}

Name(file) == [index |-> file.index, blob |-> file.blob]

Sorted(files) ==
    {names \in SetToSeqs({Name(f) : f \in files}) :
        \A i, j \in DOMAIN names : i < j => names[i].index <= names[j].index}

(* The hashes the transcript lists, when no commit is under way.           *)
AcceptedNow == IF Serving THEN [i \in DOMAIN tr.entries |-> tr.entries[i].new] ELSE None

OperatorFinalizes(tool, c) ==
    /\ \E files \in Listings : \E names \in Sorted(files) : FinalizeBegin(tool, c, names)
    /\ listing' = [owed |-> receipts, accepted |-> AcceptedNow]
    /\ UNCHANGED vars

FinalizationNext ==
    \/ Next /\ UNCHANGED <<finVars, listing>>
    \/ \E tool \in Tool, c \in Circuit : OperatorFinalizes(tool, c)
    \/ FinalizeStep /\ UNCHANGED <<vars, listing>>

FinalizationSpec == FinalizationInit /\ [][FinalizationNext]_fvars

-----------------------------------------------------------------------------
(* Properties *)

KeyFileContent == Circuit \cup Blob \cup {Absent, Torn, Before}

(* Type invariant of the finalization.                                     *)
FinalizationTypeOK ==
    /\ fin.pc \in {"idle", "refused", "failed", "complete"} \cup Busy
    /\ fin.tool \in Tool \cup {None}
    /\ fin.circuit \in Circuit \cup {None}
    /\ fin.names \in Seq(FileName)
    /\ fin.read \in 0..Len(fin.names)
    /\ fin.left \subseteq KeyFile
    /\ fin.run \in 0..MaxRuns
    /\ keyDir \in [KeyFile -> KeyFileContent]
    /\ pinned # None => pinned \in [KeyFile -> KeyFileContent]
    /\ listing.owed \subseteq Receipt

(* Whoever had a receipt when the names were listed is part of the keys,   *)
(* whatever crashed before or happened since (client.go:178, "recorded as  *)
(* contribution"): keys that leave one out are never printed as complete.  *)
ReceiptsFolded ==
    fin.pc = "complete" =>
        \A r \in listing.owed : IsPrefix(r.new.sha256, keyDir["vk"])

(* Without crashes and failing writes, a listing taken between commits     *)
(* finalizes: it is refused for another circuit only, although uploads,    *)
(* expiries and commits go on meanwhile, and it folds exactly what the     *)
(* transcript listed (RUNBOOK.md:66 "finalize over the accepted chain").   *)
AcceptedHashes == [i \in DOMAIN Chain |-> HashBlob(Chain[i])]

CleanFinalizes ==
    listing.accepted # None /\ faults.crashes = 0 /\ faults.writes = 0 =>
        /\ fin.pc = "refused" => fin.circuit # Head(Chain[1])
        /\ fin.pc = "complete" => AcceptedHashes = listing.accepted

(* The same, whatever happened before (RUNBOOK.md:66).                     *)
FoldsAccepted ==
    fin.pc = "complete" /\ listing.accepted # None => AcceptedHashes = listing.accepted

(* A directory whose vk.bin has the pinned fingerprint holds no readable   *)
(* file of other keys (cmd/ceremony/main.go:333, "so the prover accepts    *)
(* ONLY these keys").  An interrupted stream keeps it so, because vk.bin   *)
(* is the first file it touches; the one exception is a run that makes the *)
(* pinned keys again in a directory that has come to hold others.          *)
Together ==
    pinned # None /\ keyDir["vk"] = pinned["vk"] =>
        \A f \in KeyFile : keyDir[f] \in {pinned[f], Torn}

MakesPinnedAgain == pinned # None /\ Keys["vk"] = pinned["vk"]

StreamKeepsTogether ==
    [][fin.tool = "stream" /\ ~MakesPinnedAgain /\ Together => Together']_fvars
=============================================================================
