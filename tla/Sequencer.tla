----------------------------- MODULE Sequencer -----------------------------
(***************************************************************************)
(* The Phase-2 coordinator (src/ceremony/sequencer.go) over its storage:   *)
(* start and resume (NewSequencer), the lobby, the download of the head,   *)
(* concurrent uploads, the commit of a contribution step by step, crashes. *)
(*                                                                         *)
(* An upload runs outside Sequencer.mu while the body is read and verified *)
(* and then holds the mutex from the second look at the slot to the        *)
(* receipt.  The lock is therefore not a variable: it is held exactly when *)
(* some upload is in one of the saving stages.                             *)
(***************************************************************************)
EXTENDS Lobby, Storage, SequencesExt

CONSTANTS
    Handler,           \* handleContribute calls that can be in flight at once
    MaxCrashes,        \* bound: how often the process dies
    MaxWriteFaults,    \* bound: how many store writes return an error
    MaxReadFaults,     \* bound: how many reads of transcript.json fail
    MaxPowerFailures   \* bound: how many of the crashes are power failures

ASSUME NoneIsNoContent == None \notin Circuit \cup Blob \cup TranscriptDoc
ASSUME FaultBounds ==
    /\ MaxCrashes \in Nat
    /\ MaxWriteFaults \in Nat
    /\ MaxReadFaults \in Nat
    /\ MaxPowerFailures \in Nat

VARIABLES
    phase,      \* "down" until NewSequencer has read the store, also while the
                \* initial head is being loaded; then "boot_head" and
                \* "boot_transcript" while it writes, "live"
    circuitFP,  \* Sequencer.circuitFP
    head,       \* Sequencer.head
    tr,         \* Sequencer.tr
    upload,     \* per handleContribute call: its stage and its local variables
    served,     \* history: the head last downloaded by each session
    receipts,   \* history: the receipts written to responses
    published,  \* history: the entries GET /transcript has returned
    faults      \* how many crashes and faults of each kind there have been

procVars == <<phase, circuitFP, head, tr>>
histVars == <<served, receipts, published>>
seqVars == <<procVars, upload, histVars, faults, storeVars>>
vars == <<lobbyVars, seqVars>>

SavingStage == {"save_blob", "append", "save_head", "save_transcript"}
Stage == {"idle", "receiving", "verified"} \cup SavingStage

NoUpload == [pc |-> "idle", sess |-> None, prev |-> None, next |-> None]

Live == phase = "live"
Saving(h) == upload[h].pc \in SavingStage
Serving == Live /\ \A h \in Handler : ~Saving(h)    \* Sequencer.mu is free

Count(what) == faults' = [faults EXCEPT ![what] = @ + 1]
MayCrash == faults.crashes < MaxCrashes
MayFailWrite == faults.writes < MaxWriteFaults
MayFailRead == faults.reads < MaxReadFaults
MayLosePower == faults.power < MaxPowerFailures

Init ==
    /\ LobbyInit
    /\ StorageInit
    /\ phase = "down"
    /\ circuitFP = None /\ head = None /\ tr = None
    /\ upload = [h \in Handler |-> NoUpload]
    /\ served = [s \in Session |-> None]
    /\ receipts = {}
    /\ published = {}
    /\ faults = [crashes |-> 0, writes |-> 0, reads |-> 0, power |-> 0]

-----------------------------------------------------------------------------
(* NewSequencer *)

(* Mutations: the transcript that was loaded is dropped; its circuit is    *)
(* not compared; persisted state is ignored.                               *)
ResumeWithoutTranscript(c) ==
    /\ phase = "down"
    /\ Readable(diskTr) /\ diskTr.circuit = c /\ Readable(diskHead)
    /\ phase' = "live" /\ circuitFP' = c /\ head' = diskHead
    /\ UNCHANGED <<lobbyVars, tr, upload, histVars, faults, storeVars>>
ResumeAnyCircuit(c) ==
    /\ phase = "down"
    /\ Readable(diskTr) /\ Readable(diskHead)
    /\ phase' = "live" /\ circuitFP' = c /\ head' = diskHead /\ tr' = diskTr
    /\ UNCHANGED <<lobbyVars, upload, histVars, faults, storeVars>>
StartFreshAlways(c) ==
    /\ phase = "down"
    /\ phase' = "boot_head" /\ circuitFP' = c
    /\ head' = InitPhase2(c) /\ tr' = EmptyTranscript(c)
    /\ UNCHANGED <<lobbyVars, upload, histVars, faults, storeVars>>

(* A readable transcript of the configured circuit and a readable head:    *)
(* the ceremony goes on.  Otherwise the resume branch returns an error and *)
(* the process exits, which changes nothing.                               *)
Resume(c) ==
    /\ phase = "down"
    /\ Readable(diskTr)
    /\ diskTr.circuit = c
    /\ Readable(diskHead)
    /\ phase' = "live"
    /\ circuitFP' = c
    /\ head' = diskHead
    /\ tr' = diskTr
    /\ UNCHANGED <<lobbyVars, upload, histVars, faults, storeVars>>

(* The else branch: it is taken on ANY error of LoadTranscript, so also    *)
(* for a transcript that does not parse or a read that fails.              *)
StartFresh(c) ==
    /\ phase = "down"
    /\ \/ ~Readable(diskTr) /\ UNCHANGED faults
       \/ Readable(diskTr) /\ MayFailRead /\ Count("reads")
    /\ phase' = "boot_head"
    /\ circuitFP' = c
    /\ head' = InitPhase2(c)
    /\ tr' = EmptyTranscript(c)
    /\ UNCHANGED <<lobbyVars, upload, histVars, storeVars>>

InitHeadSaved ==
    /\ phase = "boot_head"
    /\ phase' = "boot_transcript"
    /\ diskHead' = head
    /\ UNCHANGED <<lobbyVars, circuitFP, head, tr, upload, histVars, faults, diskTr, archive, versions>>

InitTranscriptSaved ==
    /\ phase = "boot_transcript"
    /\ phase' = "live"
    /\ diskTr' = tr /\ Cached
    /\ UNCHANGED <<lobbyVars, circuitFP, head, tr, upload, histVars, faults, diskHead, archive>>

Exited ==
    /\ phase' = "down"
    /\ circuitFP' = None /\ head' = None /\ tr' = None

(* A write of the fresh start fails: NewSequencer returns, main exits.     *)
BootFails ==
    /\ MayFailWrite /\ Count("writes")
    /\ \/ phase = "boot_head" /\ diskHead' \in WriteOutcomes(diskHead, head) /\ UNCHANGED diskTr
       \/ phase = "boot_transcript" /\ diskTr' \in WriteOutcomes(diskTr, tr) /\ UNCHANGED diskHead
    /\ Cached
    /\ Exited
    /\ UNCHANGED <<lobbyVars, upload, histVars, archive>>

-----------------------------------------------------------------------------
(* Requests that do not commit *)

(* The lobby's own steps, under the mutex: joining, the heartbeat, the     *)
(* ticker, closing.  Time and the authentication need no lock.             *)
LobbyStep ==
    /\ \/ Serving /\ \/ \E k \in Challenge : IssueChallenge(k) \/ JoinBegin(k)
                     \/ \E k \in Challenge, s \in Session : JoinAdmit(k, s)
                     \/ \E s \in Session : ExtendSlot(s)
                     \/ Expire
                     \/ Close
       \/ Live /\ \/ \E k \in Challenge : ChallengeExpires(k) \/ JoinFails(k)
                  \/ DeadlinePasses
                  \/ LoopStops
    /\ UNCHANGED seqVars

(* handleHead: the holder of the slot gets the current head.               *)
HeadServed(s) ==
    /\ Serving
    /\ active = s
    /\ served' = [served EXCEPT ![s] = head]
    /\ UNCHANGED <<lobbyVars, procVars, upload, receipts, published, faults, storeVars>>

(* handleTranscript takes the transcript's own mutex only: it also answers *)
(* while a commit is between two writes.                                   *)
TranscriptRead ==
    /\ Live
    /\ published' = published \cup
         {[index |-> tr.entries[i].index, new |-> tr.entries[i].new] : i \in DOMAIN tr.entries}
    /\ UNCHANGED <<lobbyVars, procVars, upload, served, receipts, faults, storeVars>>

-----------------------------------------------------------------------------
(* handleContribute *)

(* The first look at the slot; the deadline is pushed out.                 *)
ContributeBegin(h, s) ==
    /\ Serving
    /\ upload[h].pc = "idle"
    /\ ExtendSlot(s)
    /\ upload' = [upload EXCEPT ![h] =
                    [pc |-> "receiving", sess |-> s, prev |-> head, next |-> None]]
    /\ UNCHANGED <<procVars, histVars, faults, storeVars>>

(* The body cannot be read, does not parse or does not verify.             *)
UploadFails(h) ==
    /\ upload[h].pc = "receiving"
    /\ upload' = [upload EXCEPT ![h] = NoUpload]
    /\ UNCHANGED <<lobbyVars, procVars, histVars, faults, storeVars>>

(* Mutation: the blob is archived before the second look at the slot.      *)
ArchiveOnVerify(h, next) ==
    /\ upload[h].pc = "receiving"
    /\ VerifyPhase2Step(upload[h].prev, next)
    /\ archive' = PutFile(archive, TranscriptLen(tr), next, TRUE)
    /\ upload' = [upload EXCEPT ![h].pc = "verified", ![h].next = next]
    /\ UNCHANGED <<lobbyVars, procVars, histVars, faults, diskHead, diskTr, versions>>

(* A body that extends the head seen at the first look.  Nothing is locked.*)
UploadVerified(h, next) ==
    /\ upload[h].pc = "receiving"
    /\ VerifyPhase2Step(upload[h].prev, next)
    /\ upload' = [upload EXCEPT ![h].pc = "verified", ![h].next = next]
    /\ UNCHANGED <<lobbyVars, procVars, histVars, faults, storeVars>>

(* The second look: the slot is no longer this session's (409).            *)
CommitRefused(h) ==
    /\ Serving
    /\ upload[h].pc = "verified"
    /\ active # upload[h].sess
    /\ upload' = [upload EXCEPT ![h] = NoUpload]
    /\ UNCHANGED <<lobbyVars, procVars, histVars, faults, storeVars>>

(* Mutations: the slot is not looked at again; the lock is not taken again.*)
CommitWithoutRecheck(h) ==
    /\ Serving
    /\ upload[h].pc = "verified"
    /\ upload' = [upload EXCEPT ![h].pc = "save_blob"]
    /\ UNCHANGED <<lobbyVars, procVars, histVars, faults, storeVars>>
CommitUnlocked(h) ==
    /\ upload[h].pc = "verified"
    /\ active = upload[h].sess
    /\ upload' = [upload EXCEPT ![h].pc = "save_blob"]
    /\ UNCHANGED <<lobbyVars, procVars, histVars, faults, storeVars>>

CommitBegin(h) ==
    /\ Serving
    /\ upload[h].pc = "verified"
    /\ active = upload[h].sess
    /\ upload' = [upload EXCEPT ![h].pc = "save_blob"]
    /\ UNCHANGED <<lobbyVars, procVars, histVars, faults, storeVars>>

(* Mutation: the archive counts from one.                                  *)
BlobSavedOffByOne(h) ==
    /\ upload[h].pc = "save_blob"
    /\ archive' = PutFile(archive, TranscriptLen(tr) + 1, upload[h].next, TRUE)
    /\ upload' = [upload EXCEPT ![h].pc = "append"]
    /\ UNCHANGED <<lobbyVars, procVars, histVars, faults, diskHead, diskTr, versions>>

BlobSaved(h) ==
    /\ upload[h].pc = "save_blob"
    /\ archive' = PutFile(archive, TranscriptLen(tr), upload[h].next, TRUE)
    /\ upload' = [upload EXCEPT ![h].pc = "append"]
    /\ UNCHANGED <<lobbyVars, procVars, histVars, faults, diskHead, diskTr, versions>>

(* Mutations: the head is not saved; the head is not advanced.             *)
AppendSkipsSaveHead(h) ==
    /\ upload[h].pc = "append"
    /\ AppendAllowed(tr, HashBlob(upload[h].prev))
    /\ tr' = TranscriptAppend(tr, upload[h].sess,
                              HashBlob(upload[h].prev), HashBlob(upload[h].next))
    /\ head' = upload[h].next
    /\ upload' = [upload EXCEPT ![h].pc = "save_transcript"]
    /\ UNCHANGED <<lobbyVars, phase, circuitFP, histVars, faults, storeVars>>
AppendKeepsHead(h) ==
    /\ upload[h].pc = "append"
    /\ AppendAllowed(tr, HashBlob(upload[h].prev))
    /\ tr' = TranscriptAppend(tr, upload[h].sess,
                              HashBlob(upload[h].prev), HashBlob(upload[h].next))
    /\ upload' = [upload EXCEPT ![h].pc = "save_head"]
    /\ UNCHANGED <<lobbyVars, phase, circuitFP, head, histVars, faults, storeVars>>

EntryAppended(h) ==
    /\ upload[h].pc = "append"
    /\ AppendAllowed(tr, HashBlob(upload[h].prev))
    /\ tr' = TranscriptAppend(tr, upload[h].sess,
                              HashBlob(upload[h].prev), HashBlob(upload[h].next))
    /\ head' = upload[h].next
    /\ upload' = [upload EXCEPT ![h].pc = "save_head"]
    /\ UNCHANGED <<lobbyVars, phase, circuitFP, histVars, faults, storeVars>>

HeadSaved(h) ==
    /\ upload[h].pc = "save_head"
    /\ diskHead' = head
    /\ upload' = [upload EXCEPT ![h].pc = "save_transcript"]
    /\ UNCHANGED <<lobbyVars, procVars, histVars, faults, diskTr, archive, versions>>

(* What every end of a commit does: the receipt is written out.            *)
Receipted(h) ==
    /\ upload[h].pc = "save_transcript"
    /\ receipts' = receipts \cup
         {[index |-> TranscriptLen(tr) - 1, new |-> HashBlob(upload[h].next)]}
    /\ upload' = [upload EXCEPT ![h] = NoUpload]
    /\ UNCHANGED <<procVars, served, published, faults, diskHead, archive>>

(* Mutations: the slot is kept; it is freed and nobody promoted; the       *)
(* transcript is not written.                                              *)
CommitKeepsSlot(h) == Receipted(h) /\ diskTr' = tr /\ Cached /\ UNCHANGED lobbyVars
CommitFreesSlot(h) ==
    /\ Receipted(h)
    /\ diskTr' = tr /\ Cached
    /\ active' = None
    /\ UNCHANGED <<joinVars, runVars, queue, late>>
CommitUnwritten(h) == Receipted(h) /\ Release(upload[h].sess) /\ UNCHANGED <<diskTr, versions>>

(* The last write and the hand-over of the slot.                           *)
TranscriptSaved(h) ==
    /\ Receipted(h)
    /\ diskTr' = tr /\ Cached
    /\ Release(upload[h].sess)

(* The early returns under the lock (500): the slot stays open, and what   *)
(* was done before the failing step is not undone.                         *)
EntryRefused(h) ==
    /\ upload[h].pc = "append"
    /\ ~AppendAllowed(tr, HashBlob(upload[h].prev))
    /\ upload' = [upload EXCEPT ![h] = NoUpload]
    /\ UNCHANGED <<lobbyVars, procVars, histVars, faults, storeVars>>

SaveFails(h) ==
    /\ MayFailWrite /\ Count("writes")
    /\ \/ /\ upload[h].pc = "save_blob"
          /\ archive' \in PutOutcomes(archive, TranscriptLen(tr), upload[h].next)
          /\ UNCHANGED <<diskHead, diskTr>>
       \/ /\ upload[h].pc = "save_head"
          /\ diskHead' \in WriteOutcomes(diskHead, head)
          /\ UNCHANGED <<diskTr, archive>>
       \/ /\ upload[h].pc = "save_transcript"
          /\ diskTr' \in WriteOutcomes(diskTr, tr)
          /\ UNCHANGED <<diskHead, archive>>
    /\ Cached
    /\ upload' = [upload EXCEPT ![h] = NoUpload]
    /\ UNCHANGED <<lobbyVars, procVars, histVars>>

-----------------------------------------------------------------------------
(* The process dies; the write it was in may have happened, not, or partly.*)
WritingHead == phase = "boot_head" \/ \E h \in Handler : upload[h].pc = "save_head"
WritingTranscript == phase = "boot_transcript" \/ \E h \in Handler : upload[h].pc = "save_transcript"

(* What is left of the process, and of the two writes that are synced.     *)
Dies ==
    /\ diskHead' \in {diskHead} \cup (IF WritingHead THEN WriteOutcomes(diskHead, head) ELSE {})
    /\ archive' \in {archive} \cup
         UNION {PutOutcomes(archive, TranscriptLen(tr), upload[h].next) :
                  h \in {g \in Handler : upload[g].pc = "save_blob"}}
    /\ Exited
    /\ upload' = [h \in Handler |-> NoUpload]
    /\ LobbyRestart
    /\ UNCHANGED histVars

TornTranscripts == IF WritingTranscript THEN WriteOutcomes(diskTr, tr) ELSE {}

Crash ==
    /\ phase # "down"
    /\ MayCrash /\ Count("crashes")
    /\ diskTr' \in {diskTr} \cup TornTranscripts
    /\ Cached
    /\ Dies

(* The machine dies.  (When the process is down already, this is the same  *)
(* as after a restart, which writes nothing before it is up.)              *)
PowerFailure ==
    /\ phase # "down"
    /\ MayCrash /\ MayLosePower
    /\ faults' = [faults EXCEPT !.crashes = @ + 1, !.power = @ + 1]
    /\ diskTr' \in PowerOutcomes \cup TornTranscripts
    /\ versions' = {diskTr'}
    /\ Dies

Next ==
    \/ \E c \in Circuit : Resume(c) \/ StartFresh(c)
    \/ InitHeadSaved \/ InitTranscriptSaved \/ BootFails
    \/ LobbyStep
    \/ \E s \in Session : HeadServed(s)
    \/ TranscriptRead
    \/ \E h \in Handler, s \in Session : ContributeBegin(h, s)
    \/ \E h \in Handler, d \in Draw :
         UploadVerified(h, ContributePhase2(upload[h].prev, <<upload[h].sess, d>>))
    \/ \E h \in Handler :
         \/ UploadFails(h) \/ CommitRefused(h) \/ CommitBegin(h)
         \/ BlobSaved(h) \/ EntryAppended(h) \/ HeadSaved(h) \/ TranscriptSaved(h)
         \/ EntryRefused(h) \/ SaveFails(h)
    \/ Crash \/ PowerFailure

Spec == Init /\ [][Next]_vars

-----------------------------------------------------------------------------
(* Properties *)

UploadRecord == [pc : Stage, sess : Session \cup {None},
                 prev : Blob \cup {None}, next : Blob \cup {None}]
Receipt == [index : Nat, new : Hash]

(* Type invariant of the sequencer and its store.                          *)
TypeOK ==
    /\ LobbyTypeOK
    /\ phase \in {"down", "boot_head", "boot_transcript", "live"}
    /\ circuitFP \in Circuit \cup {None}
    /\ head \in Blob \cup {None}
    /\ tr \in TranscriptDoc \cup {None}
    /\ phase # "down" => circuitFP # None /\ head # None /\ tr # None
    /\ upload \in [Handler -> UploadRecord]
    /\ served \in [Session -> Blob \cup {None}]
    /\ receipts \subseteq Receipt
    /\ published \subseteq Receipt
    /\ faults \in [crashes : 0..MaxCrashes, writes : 0..MaxWriteFaults, reads : 0..MaxReadFaults,
                 power : 0..MaxPowerFailures]
    /\ diskHead \in Blob \cup {Absent, Torn}
    /\ diskTr \in TranscriptDoc \cup {Absent, Torn}
    /\ archive \subseteq ArchiveFile
    /\ versions \subseteq TranscriptDoc \cup {Absent, Torn}

(* sequencer.mu serialises the commits: at most one upload is saving, and  *)
(* it is the upload of the session that holds the slot.                    *)
OneCommit ==
    /\ \A g, h \in Handler : Saving(g) /\ Saving(h) => g = h
    /\ \A h \in Handler : Saving(h) => Live /\ active = upload[h].sess

(* Every transcript, in memory, on disk and in any version that a power    *)
(* failure can bring back, is a chain of hashes from the                   *)
(* init head of its circuit, and each link is a contribution the backend   *)
(* verified: the transcript chain and the cryptographic chain are the same *)
(* chain (backend.go:77), although the verification ran outside the lock.  *)
Sound(t) ==
    /\ VerifyTranscript(t)
    /\ t.init = HashBlob(InitPhase2(t.circuit))
    /\ \A i \in DOMAIN t.entries :
         VerifyPhase2Step(t.entries[i].prev.sha256, t.entries[i].new.sha256)

ChainSound ==
    /\ tr # None => Sound(tr)
    /\ \A t \in versions \cup {diskTr} : Readable(t) => Sound(t)

(* A contribution is recorded only for the session that holds the slot at  *)
(* that moment: an upload that was overtaken by the expiry of its slot     *)
(* leaves no entry (sequencer.go:376).                                     *)
NoLateCommit ==
    [][tr # None /\ tr' # None /\ tr' # tr
         => tr'.entries[TranscriptLen(tr')].by = active]_vars

(* As long as every write succeeds, a session is recorded at most once,    *)
(* however many uploads of it are in flight together.                      *)
OneEntryPerSession ==
    tr # None /\ faults.writes = 0 =>
        \A i, j \in DOMAIN tr.entries : tr.entries[i].by = tr.entries[j].by => i = j

(* The blob a transcript ends in: the one its last hash is the hash of.    *)
Tip(t) == WantPrev(t).sha256

(* The order of the writes, head before transcript (sequencer.go:408,      *)
(* :412): whatever fails or crashes, the head on disk contains every       *)
(* contribution the transcript on disk lists, unless a read error made the *)
(* restart overwrite it or a power failure brought back the transcript of  *)
(* a ceremony that was overwritten.                                        *)
HeadNotBehind ==
    Readable(diskTr) /\ faults.reads = 0 /\ faults.power = 0 =>
        /\ diskHead # Absent
        /\ Readable(diskHead) => IsPrefix(Tip(diskTr), diskHead)

(* Whenever the lock is free the head is the blob the transcript ends in,  *)
(* so that a contribution to it can be appended: what "on restart we pick  *)
(* up exactly where we left off" (sequencer.go:72) requires of a restart.  *)
HeadIsTip == Serving => HashBlob(head) = WantPrev(tr)

(* A participant who was given a receipt finds the contribution in the     *)
(* transcript the sequencer serves, across restarts ("Without this,         *)
(* re-running from initHead would wipe every accepted contribution",       *)
(* sequencer.go:70).                                                       *)
Lists(t, r) == \E i \in DOMAIN t.entries : t.entries[i].index = r.index /\ t.entries[i].new = r.new
ReceiptsDurable == Live => \A r \in receipts : Lists(tr, r)

(* The blob of every accepted contribution is whole in the archive, under  *)
(* its index: those of the transcripts, those of all receipts and of all   *)
(* entries GET /transcript has shown, also when the transcript was lost or *)
(* a crash took the entry back (sequencer.go:383 comes first).             *)
Archived(r) == \E f \in archive : f.whole /\ f.index = r.index /\ HashBlob(f.blob) = r.new
AcceptedArchived ==
    /\ \A r \in receipts \cup published : Archived(r)
    /\ \A t \in {tr, diskTr} \ {None, Absent, Torn} :
         \A i \in DOMAIN t.entries : Archived(t.entries[i])

(* What the archive holds beyond the accepted contributions: nothing, when *)
(* no commit is under way.  LoadChain takes its files to be the "ordered   *)
(* accepted Phase-2 contributions" (storage.go:20).                        *)
ArchiveIsChain ==
    Serving => /\ LoadChainWorks
               /\ LoadChainIndexed = {<<tr.entries[i].index, tr.entries[i].new>> :
                                        i \in DOMAIN tr.entries}

(* The head does not move under the participant who downloaded it and      *)
(* still holds the slot (sequencer.go:319 "the head is stable while they   *)
(* hold the slot").                                                        *)
HeadStableWhileHeld ==
    Serving /\ active # None => served[active] \in {None, head}

(* The record readers have seen is append-only (transcript.go:25): no two  *)
(* entries published under one index differ.                               *)
PublishedOnce == \A p, q \in published : p.index = q.index => p = q

(* A ceremony that has a transcript stays with its circuit: a restart for  *)
(* another circuit is refused (sequencer.go:74).                           *)
CircuitPinned ==
    [][Readable(diskTr) /\ faults'.reads = 0 =>
         /\ Readable(diskTr)' => diskTr'.circuit = diskTr.circuit
         /\ phase' # "down" => circuitFP' = diskTr.circuit]_vars

(* Nothing in the store was lost so far: no start ignored a transcript it  *)
(* could not read, no power failure undid a write, and transcript.json was *)
(* never cut short.                                                        *)
NoneOverwritten == faults.reads = 0 /\ faults.power = 0
NoneLost == NoneOverwritten /\ Torn \notin versions

(* The sequencer keeps the ledger of Ledger: the chain is that of the      *)
(* transcript it serves or, while it is down, of the one on disk.  A       *)
(* contribution can be forgotten (a crash before transcript.json is        *)
(* written), but none that a participant has a receipt for, and nothing    *)
(* while the sequencer is up (sequencer.go:70, transcript.go:25).          *)
ServedChain ==
    IF phase # "down" THEN Tip(tr) ELSE IF Readable(diskTr) THEN Tip(diskTr) ELSE <<>>
Book == INSTANCE Ledger WITH serving <- phase # "down", chain <- ServedChain,
                             receipted <- {r.new.sha256 : r \in receipts},
                             intact <- NoneLost
KeepsLedger == Book!LedgerSpec
=============================================================================
