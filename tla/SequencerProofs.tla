-------------------------- MODULE SequencerProofs --------------------------
(***************************************************************************)
(* The sequencer for every set of sessions, circuits and handlers, any     *)
(* number of crashes and faults: it implements the lobby, commits are      *)
(* serialised and belong to the holder of the slot, and every transcript   *)
(* is a verified chain.                                                    *)
(***************************************************************************)
EXTENDS Sequencer, LobbyProofs

-----------------------------------------------------------------------------
(* Data *)

LEMMA InitPhase2Type == ASSUME NEW c \in Circuit PROVE InitPhase2(c) \in Blob
BY DEF InitPhase2, Blob

LEMMA ContributionType ==
    ASSUME NEW b \in Blob, NEW who \in Contribution
    PROVE  ContributePhase2(b, who) \in Blob
<1>1. Append(b, who) \in Seq(Circuit \cup Contribution)
  BY DEF Blob
<1>2. Len(Append(b, who)) = Len(b) + 1 /\ Len(b) \in Nat
  BY DEF Blob
<1>3. Append(b, who) # <<>>
  BY <1>2
<1>4. QED BY <1>1, <1>3 DEF ContributePhase2, Blob

LEMMA VerifiedType ==
    ASSUME NEW b \in Blob, NEW n, VerifyPhase2Step(b, n) PROVE n \in Blob
BY ContributionType DEF VerifyPhase2Step

LEMMA HashType == ASSUME NEW b \in Blob PROVE HashBlob(b) \in Hash /\ HashBlob(b).sha256 = b
BY DEF HashBlob, Hash

LEMMA EmptyTranscriptType ==
    ASSUME NEW c \in Circuit PROVE EmptyTranscript(c) \in TranscriptDoc
<1>1. HashBlob(InitPhase2(c)) \in Hash
  BY InitPhase2Type, HashType
<1>2. <<>> \in Seq(Entry)
  OBVIOUS
<1>3. QED BY <1>1, <1>2 DEF EmptyTranscript, TranscriptDoc

(* Append leaves the header and the old entries alone.                     *)
LEMMA AppendEffect ==
    ASSUME NEW t \in TranscriptDoc, NEW s \in Session, NEW p \in Hash, NEW n \in Hash
    PROVE  LET u == TranscriptAppend(t, s, p, n)
               m == Len(t.entries)
           IN  /\ u \in TranscriptDoc
               /\ u.circuit = t.circuit /\ u.init = t.init
               /\ m \in Nat /\ Len(u.entries) = m + 1
               /\ \A i \in 1..m : u.entries[i] = t.entries[i]
               /\ u.entries[m + 1] = [index |-> m, by |-> s, prev |-> p, new |-> n]
<1> DEFINE e == [index |-> Len(t.entries), by |-> s, prev |-> p, new |-> n]
           u == TranscriptAppend(t, s, p, n)
<1>1. t.entries \in Seq(Entry) /\ Len(t.entries) \in Nat /\ t.circuit \in Circuit /\ t.init \in Hash
  BY DEF TranscriptDoc
<1>2. e \in Entry
  BY <1>1 DEF Entry
<1>3. /\ Append(t.entries, e) \in Seq(Entry)
      /\ Len(Append(t.entries, e)) = Len(t.entries) + 1
      /\ \A i \in 1..Len(t.entries) : Append(t.entries, e)[i] = t.entries[i]
      /\ Append(t.entries, e)[Len(t.entries) + 1] = e
  BY <1>1, <1>2
<1>4. u = [t EXCEPT !.entries = Append(t.entries, e)]
  BY DEF TranscriptAppend
<1> HIDE DEF e, u
<1>5. /\ u.entries = Append(t.entries, e) /\ u.circuit = t.circuit /\ u.init = t.init
      /\ u \in TranscriptDoc
  BY <1>1, <1>3, <1>4 DEF TranscriptDoc
<1>6. QED BY <1>1, <1>3, <1>5 DEF e, u

-----------------------------------------------------------------------------
(* Types *)

(* The lobby's steps, as the sequencer takes them: what a step of the      *)
(* sequencer does to the lobby, given that uploads are of real sessions.   *)
LobbySafe ==
    \A h \in Handler : upload[h].pc # "idle" => upload[h].sess \in Session

LEMMA LobbyImplemented ==
    ASSUME LobbySafe, [Next]_vars PROVE [LobbyNext]_lobbyVars
<1>1. CASE LobbyStep
  BY <1>1 DEF LobbyStep, LobbyNext
<1>2. ASSUME NEW h \in Handler, NEW s \in Session, ContributeBegin(h, s)
      PROVE LobbyNext
  BY <1>2 DEF ContributeBegin, LobbyNext
<1>3. ASSUME NEW h \in Handler, TranscriptSaved(h) PROVE LobbyNext
  <2>1. upload[h].sess \in Session /\ Release(upload[h].sess)
    BY <1>3 DEF TranscriptSaved, Receipted, LobbySafe
  <2>2. QED BY <2>1 DEF LobbyNext
<1>4. CASE Crash \/ PowerFailure
  BY <1>4 DEF Crash, PowerFailure, Dies, LobbyNext
<1>5. CASE \/ \E c \in Circuit : Resume(c) \/ StartFresh(c)
           \/ InitHeadSaved \/ InitTranscriptSaved \/ BootFails
           \/ \E s \in Session : HeadServed(s)
           \/ TranscriptRead
  BY <1>5 DEF Resume, StartFresh, InitHeadSaved, InitTranscriptSaved, BootFails,
              HeadServed, TranscriptRead
<1>6. ASSUME NEW h \in Handler,
             \/ \E d \in Draw :
                  UploadVerified(h, ContributePhase2(upload[h].prev, <<upload[h].sess, d>>))
             \/ UploadFails(h) \/ CommitRefused(h) \/ CommitBegin(h)
             \/ BlobSaved(h) \/ EntryAppended(h) \/ HeadSaved(h)
             \/ EntryRefused(h) \/ SaveFails(h)
      PROVE UNCHANGED lobbyVars
  BY <1>6 DEF UploadVerified, UploadFails, CommitRefused, CommitBegin, BlobSaved,
              EntryAppended, HeadSaved, EntryRefused, SaveFails
<1>7. CASE UNCHANGED vars
  BY <1>7 DEF vars
<1>8. QED BY <1>1, <1>2, <1>3, <1>4, <1>5, <1>6, <1>7 DEF Next

(* The parts of the type invariant, and what it needs to be inductive: a   *)
(* process that is down remembers nothing, a running upload belongs to a   *)
(* running process, and its local variables are filled in stage by stage.  *)
MemoryOK ==
    /\ phase \in {"down", "boot_head", "boot_transcript", "live"}
    /\ circuitFP \in Circuit \cup {None}
    /\ head \in Blob \cup {None}
    /\ tr \in TranscriptDoc \cup {None}
    /\ phase # "down" => circuitFP # None /\ head # None /\ tr # None
    /\ phase = "down" => tr = None

UploadOK ==
    /\ upload \in [Handler -> UploadRecord]
    /\ \A h \in Handler : upload[h].pc # "idle" =>
         /\ Live
         /\ upload[h].sess \in Session
         /\ upload[h].prev \in Blob
         /\ upload[h].pc # "receiving" => VerifyPhase2Step(upload[h].prev, upload[h].next)
         /\ upload[h].pc \in {"save_head", "save_transcript"} => TranscriptLen(tr) # 0

HistoryOK ==
    /\ served \in [Session -> Blob \cup {None}]
    /\ receipts \subseteq Receipt
    /\ published \subseteq Receipt

DiskOK ==
    /\ diskHead \in Blob \cup {Absent, Torn}
    /\ diskTr \in TranscriptDoc \cup {Absent, Torn}
    /\ archive \subseteq ArchiveFile
    /\ versions \subseteq TranscriptDoc \cup {Absent, Torn}

FaultsOK ==
    faults \in [crashes : 0..MaxCrashes, writes : 0..MaxWriteFaults, reads : 0..MaxReadFaults,
               power : 0..MaxPowerFailures]

Typed == MemoryOK /\ UploadOK /\ HistoryOK /\ DiskOK /\ FaultsOK

LEMMA TypedInit == ASSUME Init PROVE Typed
<1>1. MemoryOK
  BY DEF Init, MemoryOK
<1>2. UploadOK
  BY DEF Init, UploadOK, NoUpload, UploadRecord, Stage
<1>3. HistoryOK
  BY DEF Init, HistoryOK
<1>4. DiskOK
  BY DEF Init, StorageInit, DiskOK
<1>5. FaultsOK
  BY FaultBounds DEF Init, FaultsOK
<1>6. QED BY <1>1, <1>2, <1>3, <1>4, <1>5 DEF Typed

(* What an upload that is saving works with.                               *)
LEMMA SavingTypes ==
    ASSUME MemoryOK, UploadOK, NEW h \in Handler, upload[h].pc \notin {"idle", "receiving"}
    PROVE  /\ Live /\ head \in Blob /\ tr \in TranscriptDoc
           /\ upload[h].sess \in Session
           /\ upload[h].prev \in Blob /\ upload[h].next \in Blob
           /\ HashBlob(upload[h].prev) \in Hash /\ HashBlob(upload[h].next) \in Hash
           /\ TranscriptLen(tr) \in Nat
<1>1. /\ Live /\ upload[h].sess \in Session /\ upload[h].prev \in Blob
      /\ VerifyPhase2Step(upload[h].prev, upload[h].next)
  BY DEF UploadOK
<1>2. upload[h].next \in Blob
  BY <1>1, VerifiedType
<1>3. head \in Blob /\ tr \in TranscriptDoc
  BY <1>1 DEF MemoryOK, Live
<1>4. TranscriptLen(tr) \in Nat
  BY <1>3 DEF TranscriptLen, TranscriptDoc
<1>5. QED BY <1>1, <1>2, <1>3, <1>4, HashType

LEMMA FaultCounted ==
    ASSUME FaultsOK
    PROVE  /\ MayCrash /\ Count("crashes") => FaultsOK'
           /\ MayFailWrite /\ Count("writes") => FaultsOK'
           /\ MayFailRead /\ Count("reads") => FaultsOK'
           /\ /\ MayCrash /\ MayLosePower
              /\ faults' = [faults EXCEPT !.crashes = @ + 1, !.power = @ + 1]
              => FaultsOK'
           /\ faults' = faults => FaultsOK'
<1>1. ASSUME MayCrash, MayLosePower,
             faults' = [faults EXCEPT !.crashes = @ + 1, !.power = @ + 1]
      PROVE  FaultsOK'
  <2> DEFINE once == [faults EXCEPT !.crashes = @ + 1]
  <2>1. faults.crashes + 1 \in 0..MaxCrashes /\ faults.power + 1 \in 0..MaxPowerFailures
    BY <1>1, FaultBounds DEF FaultsOK, MayCrash, MayLosePower
  <2>2. /\ once \in [crashes : 0..MaxCrashes, writes : 0..MaxWriteFaults,
                     reads : 0..MaxReadFaults, power : 0..MaxPowerFailures]
        /\ once.power = faults.power
    BY <2>1 DEF FaultsOK
  <2>3. faults' = [once EXCEPT !.power = @ + 1]
    BY <1>1
  <2> HIDE DEF once
  <2>4. QED BY <2>1, <2>2, <2>3 DEF FaultsOK
<1>2. QED
  BY <1>1, FaultBounds DEF FaultsOK, MayCrash, MayFailWrite, MayFailRead, Count

LEMMA FaultsStep == ASSUME FaultsOK, [Next]_vars PROVE FaultsOK'
<1>1. CASE Crash \/ PowerFailure
  BY <1>1, FaultCounted DEF Crash, PowerFailure
<1>2. CASE BootFails \/ \E h \in Handler : SaveFails(h)
  BY <1>2, FaultCounted DEF BootFails, SaveFails
<1>3. CASE \E c \in Circuit : StartFresh(c)
  BY <1>3, FaultCounted DEF StartFresh
<1>4. CASE \/ \E c \in Circuit : Resume(c)
           \/ InitHeadSaved \/ InitTranscriptSaved \/ LobbyStep \/ TranscriptRead
           \/ \E s \in Session : HeadServed(s)
           \/ \E h \in Handler, s \in Session : ContributeBegin(h, s)
           \/ UNCHANGED vars
  BY <1>4, FaultCounted DEF Resume, InitHeadSaved, InitTranscriptSaved, LobbyStep,
       TranscriptRead, HeadServed, ContributeBegin, vars, seqVars
<1>5. ASSUME NEW h \in Handler,
             \/ \E d \in Draw :
                  UploadVerified(h, ContributePhase2(upload[h].prev, <<upload[h].sess, d>>))
             \/ UploadFails(h) \/ CommitRefused(h) \/ CommitBegin(h)
             \/ BlobSaved(h) \/ EntryAppended(h) \/ HeadSaved(h) \/ TranscriptSaved(h)
             \/ EntryRefused(h)
      PROVE FaultsOK'
  BY <1>5, FaultCounted DEF UploadVerified, UploadFails, CommitRefused, CommitBegin, BlobSaved,
       EntryAppended, HeadSaved, TranscriptSaved, Receipted, EntryRefused
<1>6. QED BY <1>1, <1>2, <1>3, <1>4, <1>5 DEF Next

LEMMA MemoryStep == ASSUME Typed, [Next]_vars PROVE MemoryOK'
<1> USE DEF MemoryOK
<1>0. MemoryOK /\ UploadOK /\ DiskOK
  BY DEF Typed
<1>1. ASSUME NEW c \in Circuit, Resume(c) PROVE MemoryOK'
  <2>1. diskTr \in TranscriptDoc /\ diskHead \in Blob
    BY <1>0, <1>1 DEF DiskOK, Resume, Readable
  <2>2. QED BY <1>1, <2>1, NoneIsNoContent DEF Resume
<1>2. ASSUME NEW c \in Circuit, StartFresh(c) PROVE MemoryOK'
  BY <1>2, InitPhase2Type, EmptyTranscriptType, NoneIsNoContent DEF StartFresh
<1>3. CASE InitHeadSaved \/ InitTranscriptSaved
  BY <1>0, <1>3 DEF InitHeadSaved, InitTranscriptSaved
<1>4. CASE BootFails \/ Crash \/ PowerFailure
  BY <1>4 DEF BootFails, Crash, PowerFailure, Dies, Exited
<1>5. ASSUME NEW h \in Handler, EntryAppended(h) PROVE MemoryOK'
  <2>1. /\ Live /\ tr \in TranscriptDoc /\ upload[h].sess \in Session /\ upload[h].next \in Blob
        /\ HashBlob(upload[h].prev) \in Hash /\ HashBlob(upload[h].next) \in Hash
    BY <1>0, <1>5, SavingTypes DEF EntryAppended
  <2>2. tr' \in TranscriptDoc
    BY <1>5, <2>1, AppendEffect DEF EntryAppended
  <2>3. head' \in Blob /\ phase' = phase /\ circuitFP' = circuitFP
    BY <1>5, <2>1 DEF EntryAppended
  <2>4. QED BY <1>0, <2>1, <2>2, <2>3, NoneIsNoContent DEF Live
<1>6. CASE UNCHANGED procVars
  BY <1>0, <1>6 DEF procVars
<1>7. CASE \/ LobbyStep \/ TranscriptRead
           \/ \E s \in Session : HeadServed(s)
           \/ \E h \in Handler, s \in Session : ContributeBegin(h, s)
           \/ UNCHANGED vars
  BY <1>6, <1>7 DEF LobbyStep, TranscriptRead, HeadServed, ContributeBegin, vars, seqVars
<1>8. ASSUME NEW h \in Handler,
             \/ \E d \in Draw :
                  UploadVerified(h, ContributePhase2(upload[h].prev, <<upload[h].sess, d>>))
             \/ UploadFails(h) \/ CommitRefused(h) \/ CommitBegin(h)
             \/ BlobSaved(h) \/ HeadSaved(h) \/ TranscriptSaved(h)
             \/ EntryRefused(h) \/ SaveFails(h)
      PROVE MemoryOK'
  BY <1>6, <1>8 DEF UploadVerified, UploadFails, CommitRefused, CommitBegin, BlobSaved,
       HeadSaved, TranscriptSaved, Receipted, EntryRefused, SaveFails
<1> HIDE DEF MemoryOK
<1>9. QED BY <1>1, <1>2, <1>3, <1>4, <1>5, <1>7, <1>8 DEF Next

LEMMA DiskStep == ASSUME Typed, [Next]_vars PROVE DiskOK'
<1> USE DEF DiskOK
<1>0. MemoryOK /\ UploadOK /\ DiskOK
  BY DEF Typed
<1>1. ASSUME phase # "down",
             diskHead' \in {diskHead} \cup WriteOutcomes(diskHead, head),
             diskTr' \in {diskTr} \cup WriteOutcomes(diskTr, tr),
             archive' \subseteq ArchiveFile,
             Cached \/ versions' = versions
      PROVE DiskOK'
  BY <1>0, <1>1 DEF MemoryOK, WriteOutcomes, Cached
<1>2. ASSUME NEW h \in Handler, upload[h].pc = "save_blob"
      PROVE /\ PutFile(archive, TranscriptLen(tr), upload[h].next, TRUE) \subseteq ArchiveFile
            /\ \A files \in PutOutcomes(archive, TranscriptLen(tr), upload[h].next) :
                 files \subseteq ArchiveFile
  <2>1. upload[h].next \in Blob /\ TranscriptLen(tr) \in Nat
    BY <1>0, <1>2, SavingTypes
  <2>2. \A w \in BOOLEAN :
          PutFile(archive, TranscriptLen(tr), upload[h].next, w) \subseteq ArchiveFile
    BY <1>0, <2>1 DEF PutFile, ArchiveFile
  <2>3. QED BY <1>0, <2>2 DEF PutOutcomes
<1>3. \A h \in Handler : upload[h].pc # "idle" => phase # "down"
  BY <1>0 DEF UploadOK, Live
<1> HIDE DEF DiskOK
<1>4. CASE InitHeadSaved \/ InitTranscriptSaved \/ BootFails
  <2>1. archive' = archive /\ archive \subseteq ArchiveFile
    BY <1>0, <1>4 DEF DiskOK, InitHeadSaved, InitTranscriptSaved, BootFails
  <2>2. QED BY <1>1, <1>4, <2>1
         DEF InitHeadSaved, InitTranscriptSaved, BootFails, WriteOutcomes
<1>5. ASSUME NEW h \in Handler, BlobSaved(h) PROVE DiskOK'
  BY <1>1, <1>2, <1>3, <1>5 DEF BlobSaved
<1>6. ASSUME NEW h \in Handler, HeadSaved(h) \/ TranscriptSaved(h) PROVE DiskOK'
  <2>1. archive' = archive /\ archive \subseteq ArchiveFile
    BY <1>0, <1>6 DEF DiskOK, HeadSaved, TranscriptSaved, Receipted
  <2>2. QED BY <1>1, <1>3, <1>6, <2>1 DEF HeadSaved, TranscriptSaved, Receipted, WriteOutcomes
<1>7. ASSUME NEW h \in Handler, SaveFails(h) PROVE DiskOK'
  <2>1. archive' \subseteq ArchiveFile
    BY <1>0, <1>2, <1>7 DEF DiskOK, SaveFails
  <2>2. upload[h].pc # "idle"
    BY <1>7 DEF SaveFails
  <2>3. QED BY <1>1, <1>3, <1>7, <2>1, <2>2 DEF SaveFails
<1>8. CASE Crash
  <2>1. archive' \subseteq ArchiveFile
    BY <1>0, <1>2, <1>8 DEF DiskOK, Crash, Dies
  <2>2. QED BY <1>1, <1>8, <2>1 DEF Crash, Dies, TornTranscripts
<1>13. CASE PowerFailure
  <2>1. archive' \subseteq ArchiveFile
    BY <1>0, <1>2, <1>13 DEF DiskOK, PowerFailure, Dies
  <2>2. PowerOutcomes \cup TornTranscripts \subseteq TranscriptDoc \cup {Absent, Torn}
    BY <1>0, <1>13 DEF DiskOK, MemoryOK, PowerFailure, PowerOutcomes, TornTranscripts,
         WriteOutcomes
  <2>3. diskHead' \in Blob \cup {Absent, Torn}
    BY <1>0, <1>13 DEF DiskOK, MemoryOK, PowerFailure, Dies, WriteOutcomes
  <2>4. QED BY <1>13, <2>1, <2>2, <2>3 DEF PowerFailure, DiskOK
<1>9. CASE UNCHANGED storeVars
  BY <1>0, <1>9 DEF DiskOK, storeVars
<1>10. CASE \/ \E c \in Circuit : Resume(c) \/ StartFresh(c)
            \/ LobbyStep \/ TranscriptRead
            \/ \E s \in Session : HeadServed(s)
            \/ \E h \in Handler, s \in Session : ContributeBegin(h, s)
            \/ UNCHANGED vars
  BY <1>9, <1>10 DEF Resume, StartFresh, LobbyStep, TranscriptRead, HeadServed,
       ContributeBegin, vars, seqVars
<1>11. ASSUME NEW h \in Handler,
              \/ \E d \in Draw :
                   UploadVerified(h, ContributePhase2(upload[h].prev, <<upload[h].sess, d>>))
              \/ UploadFails(h) \/ CommitRefused(h) \/ CommitBegin(h)
              \/ EntryAppended(h) \/ EntryRefused(h)
       PROVE DiskOK'
  BY <1>9, <1>11 DEF UploadVerified, UploadFails, CommitRefused, CommitBegin,
       EntryAppended, EntryRefused
<1>12. QED BY <1>4, <1>5, <1>6, <1>7, <1>8, <1>10, <1>11, <1>13 DEF Next

LEMMA HistoryStep == ASSUME Typed, [Next]_vars PROVE HistoryOK'
<1> USE DEF HistoryOK
<1>0. MemoryOK /\ UploadOK /\ HistoryOK
  BY DEF Typed
<1>1. ASSUME NEW s \in Session, HeadServed(s) PROVE HistoryOK'
  BY <1>0, <1>1 DEF HeadServed, MemoryOK
<1>2. CASE TranscriptRead
  <2>1. tr \in TranscriptDoc
    BY <1>0, <1>2 DEF TranscriptRead, MemoryOK, Live
  <2>2. \A i \in DOMAIN tr.entries : tr.entries[i] \in Entry
    BY <2>1 DEF TranscriptDoc
  <2>3. \A i \in DOMAIN tr.entries :
          [index |-> tr.entries[i].index, new |-> tr.entries[i].new] \in Receipt
    BY <2>2 DEF Entry, Receipt
  <2>4. QED BY <1>0, <1>2, <2>3 DEF TranscriptRead
<1>3. ASSUME NEW h \in Handler, TranscriptSaved(h) PROVE HistoryOK'
  <2>1. /\ HashBlob(upload[h].next) \in Hash
        /\ TranscriptLen(tr) \in Nat /\ TranscriptLen(tr) # 0
    BY <1>0, <1>3, SavingTypes DEF TranscriptSaved, Receipted, UploadOK
  <2>2. QED BY <1>0, <1>3, <2>1 DEF TranscriptSaved, Receipted, Receipt
<1>4. CASE UNCHANGED histVars
  BY <1>0, <1>4 DEF histVars
<1>5. CASE \/ \E c \in Circuit : Resume(c) \/ StartFresh(c)
           \/ InitHeadSaved \/ InitTranscriptSaved \/ BootFails \/ LobbyStep
           \/ \E h \in Handler, s \in Session : ContributeBegin(h, s)
           \/ Crash \/ PowerFailure \/ UNCHANGED vars
  BY <1>4, <1>5 DEF Resume, StartFresh, InitHeadSaved, InitTranscriptSaved, BootFails,
       LobbyStep, ContributeBegin, Crash, PowerFailure, Dies, vars, seqVars
<1>6. ASSUME NEW h \in Handler,
             \/ \E d \in Draw :
                  UploadVerified(h, ContributePhase2(upload[h].prev, <<upload[h].sess, d>>))
             \/ UploadFails(h) \/ CommitRefused(h) \/ CommitBegin(h)
             \/ BlobSaved(h) \/ EntryAppended(h) \/ HeadSaved(h)
             \/ EntryRefused(h) \/ SaveFails(h)
      PROVE HistoryOK'
  BY <1>4, <1>6 DEF UploadVerified, UploadFails, CommitRefused, CommitBegin, BlobSaved,
       EntryAppended, HeadSaved, EntryRefused, SaveFails
<1> HIDE DEF HistoryOK
<1>7. QED BY <1>1, <1>2, <1>3, <1>5, <1>6 DEF Next

(* One upload changes, the others see the same process and a transcript    *)
(* that has not become empty.                                              *)
LEMMA UploadSet ==
    ASSUME UploadOK, NEW h \in Handler, NEW u \in UploadRecord,
           upload' = [upload EXCEPT ![h] = u],
           phase' = phase,
           TranscriptLen(tr) # 0 => TranscriptLen(tr)' # 0,
           u.pc # "idle" =>
             /\ Live
             /\ u.sess \in Session
             /\ u.prev \in Blob
             /\ u.pc # "receiving" => VerifyPhase2Step(u.prev, u.next)
             /\ u.pc \in {"save_head", "save_transcript"} => TranscriptLen(tr)' # 0
    PROVE  UploadOK'
<1>1. upload' \in [Handler -> UploadRecord]
  BY DEF UploadOK
<1>2. ASSUME NEW g \in Handler, g # h, upload[g].pc # "idle"
      PROVE  /\ Live' /\ upload'[g] = upload[g]
             /\ upload[g].sess \in Session /\ upload[g].prev \in Blob
             /\ upload[g].pc # "receiving" => VerifyPhase2Step(upload[g].prev, upload[g].next)
             /\ upload[g].pc \in {"save_head", "save_transcript"} => TranscriptLen(tr)' # 0
  BY <1>2 DEF UploadOK, Live
<1>3. upload'[h] = u /\ \A g \in Handler : g # h => upload'[g] = upload[g]
  BY DEF UploadOK
<1>4. QED BY <1>1, <1>2, <1>3 DEF UploadOK, Live

(* An upload moves to its next stage.                                      *)
LEMMA UploadMoves ==
    ASSUME UploadOK, NEW h \in Handler, NEW x \in SavingStage,
           upload[h].pc \notin {"idle", "receiving"},
           upload' = [upload EXCEPT ![h].pc = x],
           phase' = phase,
           TranscriptLen(tr) # 0 => TranscriptLen(tr)' # 0,
           x \in {"save_head", "save_transcript"} => TranscriptLen(tr)' # 0
    PROVE  UploadOK'
<1> DEFINE u == [upload[h] EXCEPT !.pc = x]
<1>1. upload[h] \in UploadRecord
  BY DEF UploadOK
<1>2. /\ u \in UploadRecord /\ u.pc = x
      /\ u.sess = upload[h].sess /\ u.prev = upload[h].prev /\ u.next = upload[h].next
  BY <1>1 DEF UploadRecord, Stage
<1>3. upload' = [upload EXCEPT ![h] = u]
  OBVIOUS
<1>4. /\ Live /\ u.sess \in Session /\ u.prev \in Blob
      /\ VerifyPhase2Step(u.prev, u.next)
  BY <1>2 DEF UploadOK
<1> HIDE DEF u
<1>5. QED BY <1>2, <1>3, <1>4, UploadSet

LEMMA UploadStep == ASSUME Typed, [Next]_vars PROVE UploadOK'
<1>0. MemoryOK /\ UploadOK /\ DiskOK
  BY DEF Typed
<1>1. ASSUME upload' = upload, procVars' = procVars PROVE UploadOK'
  BY <1>0, <1>1 DEF UploadOK, procVars, Live
<1>2. ASSUME NEW h \in Handler, upload' = [upload EXCEPT ![h] = NoUpload],
             procVars' = procVars
      PROVE UploadOK'
  <2>1. NoUpload \in UploadRecord /\ NoUpload.pc = "idle"
    BY DEF NoUpload, UploadRecord, Stage
  <2>2. QED BY <1>0, <1>2, <2>1, UploadSet DEF procVars
<1>3. CASE \/ LobbyStep \/ TranscriptRead
           \/ \E s \in Session : HeadServed(s)
           \/ UNCHANGED vars
  BY <1>1, <1>3 DEF LobbyStep, TranscriptRead, HeadServed, vars, seqVars
<1>4. CASE \/ \E c \in Circuit : Resume(c) \/ StartFresh(c)
           \/ InitHeadSaved \/ InitTranscriptSaved \/ BootFails
  <2>1. upload' = upload /\ ~Live
    BY <1>4 DEF Resume, StartFresh, InitHeadSaved, InitTranscriptSaved, BootFails, Live
  <2>2. QED BY <1>0, <2>1 DEF UploadOK
<1>5. CASE Crash \/ PowerFailure
  BY <1>5 DEF Crash, PowerFailure, Dies, UploadOK, NoUpload, UploadRecord, Stage
<1>6. ASSUME NEW h \in Handler,
             \/ UploadFails(h) \/ CommitRefused(h) \/ TranscriptSaved(h)
             \/ EntryRefused(h) \/ SaveFails(h)
      PROVE UploadOK'
  BY <1>2, <1>6 DEF UploadFails, CommitRefused, TranscriptSaved, Receipted,
       EntryRefused, SaveFails
<1>7. ASSUME NEW h \in Handler, NEW s \in Session, ContributeBegin(h, s) PROVE UploadOK'
  <2> DEFINE u == [pc |-> "receiving", sess |-> s, prev |-> head, next |-> None]
  <2>1. head \in Blob /\ Live
    BY <1>0, <1>7 DEF ContributeBegin, Serving, Live, MemoryOK
  <2>2. u \in UploadRecord /\ u.pc = "receiving" /\ u.sess = s /\ u.prev = head
    BY <2>1 DEF UploadRecord, Stage
  <2>3. upload' = [upload EXCEPT ![h] = u] /\ procVars' = procVars
    BY <1>7 DEF ContributeBegin
  <2> HIDE DEF u
  <2>4. QED BY <1>0, <2>1, <2>2, <2>3, UploadSet DEF procVars
<1>8. ASSUME NEW h \in Handler, NEW next, UploadVerified(h, next) PROVE UploadOK'
  <2> DEFINE u == [upload[h] EXCEPT !.pc = "verified", !.next = next]
  <2>1. /\ upload[h] \in UploadRecord /\ Live
        /\ upload[h].sess \in Session /\ upload[h].prev \in Blob
        /\ VerifyPhase2Step(upload[h].prev, next)
    BY <1>0, <1>8 DEF UploadOK, UploadVerified
  <2>2. next \in Blob
    BY <2>1, VerifiedType
  <2>3. /\ u \in UploadRecord /\ u.pc = "verified"
        /\ u.sess = upload[h].sess /\ u.prev = upload[h].prev /\ u.next = next
    BY <2>1, <2>2 DEF UploadRecord, Stage
  <2>4. upload' = [upload EXCEPT ![h] = u] /\ procVars' = procVars
    BY <1>8 DEF UploadVerified
  <2> HIDE DEF u
  <2>5. QED BY <1>0, <2>1, <2>3, <2>4, UploadSet DEF procVars
<1>9. ASSUME NEW h \in Handler, CommitBegin(h) \/ BlobSaved(h) PROVE UploadOK'
  <2>1. /\ upload[h].pc \notin {"idle", "receiving"}
        /\ \/ upload' = [upload EXCEPT ![h].pc = "save_blob"]
           \/ upload' = [upload EXCEPT ![h].pc = "append"]
        /\ phase' = phase /\ tr' = tr
    BY <1>9 DEF CommitBegin, BlobSaved, procVars
  <2>2. QED BY <1>0, <2>1, UploadMoves DEF SavingStage, TranscriptLen
<1>10. ASSUME NEW h \in Handler, HeadSaved(h) PROVE UploadOK'
  <2>1. /\ upload[h].pc = "save_head"
        /\ upload' = [upload EXCEPT ![h].pc = "save_transcript"]
        /\ phase' = phase /\ tr' = tr
    BY <1>10 DEF HeadSaved, procVars
  <2>2. TranscriptLen(tr) # 0
    BY <1>0, <2>1 DEF UploadOK
  <2>3. QED BY <1>0, <2>1, <2>2, UploadMoves DEF SavingStage, TranscriptLen
<1>11. ASSUME NEW h \in Handler, EntryAppended(h) PROVE UploadOK'
  <2>1. /\ tr \in TranscriptDoc /\ upload[h].sess \in Session
        /\ HashBlob(upload[h].prev) \in Hash /\ HashBlob(upload[h].next) \in Hash
    BY <1>0, <1>11, SavingTypes DEF EntryAppended
  <2>2. Len(tr'.entries) = Len(tr.entries) + 1 /\ Len(tr.entries) \in Nat
    BY <1>11, <2>1, AppendEffect DEF EntryAppended
  <2>3. TranscriptLen(tr)' # 0
    BY <2>2 DEF TranscriptLen
  <2>4. /\ upload[h].pc = "append"
        /\ upload' = [upload EXCEPT ![h].pc = "save_head"]
        /\ phase' = phase
    BY <1>11 DEF EntryAppended
  <2>5. QED BY <1>0, <2>3, <2>4, UploadMoves DEF SavingStage
<1>12. QED BY <1>3, <1>4, <1>5, <1>6, <1>7, <1>8, <1>9, <1>10, <1>11 DEF Next

LEMMA TypedStep == ASSUME Typed, [Next]_vars PROVE Typed'
<1>1. MemoryOK' /\ UploadOK'
  BY MemoryStep, UploadStep
<1>2. HistoryOK' /\ DiskOK'
  BY HistoryStep, DiskStep
<1>3. FaultsOK'
  BY FaultsStep DEF Typed
<1>4. QED BY <1>1, <1>2, <1>3 DEF Typed

LEMMA SequencerTyped == Spec => []Typed
BY TypedInit, TypedStep, PTL DEF Spec

-----------------------------------------------------------------------------
(* Every step of the sequencer is a step of the lobby or leaves it alone:  *)
(* commits, failures and restarts never move the line in a way of their    *)
(* own.                                                                    *)
THEOREM SequencerRefinesLobby == Spec => LobbySpec
<1>1. Init => LobbyInit
  BY DEF Init
<1>2. Typed => LobbySafe
  BY DEF Typed, UploadOK, LobbySafe
<1>3. Typed /\ [Next]_vars => [LobbyNext]_lobbyVars
  BY <1>2, LobbyImplemented
<1>4. QED BY <1>1, <1>3, SequencerTyped, PTL DEF Spec, LobbySpec

(* Every state of the sequencer and of its store is well typed.            *)
THEOREM SequencerTypeCorrect == Spec => []TypeOK
<1>1. Typed /\ LobbyTypeOK => TypeOK
  BY DEF Typed, MemoryOK, UploadOK, HistoryOK, DiskOK, FaultsOK, TypeOK
<1>2. QED BY <1>1, SequencerTyped, SequencerRefinesLobby, LobbyTypeCorrect, PTL

-----------------------------------------------------------------------------
(* The commit *)

(* No upload starts saving and the slot stays where it is.                 *)
LEMMA SaversShrink ==
    ASSUME OneCommit, phase' = phase, active' = active,
           \A g \in Handler : Saving(g)' => Saving(g) /\ upload'[g].sess = upload[g].sess
    PROVE  OneCommit'
BY DEF OneCommit, Live

LEMMA OneCommitStep == ASSUME Typed, OneCommit, [Next]_vars PROVE OneCommit'
<1>0. /\ upload \in [Handler -> UploadRecord]
      /\ \A h \in Handler : upload[h].pc # "idle" => Live
      /\ Serving => \A h \in Handler : ~Saving(h)
      /\ \A h \in Handler : Saving(h) => upload[h].pc \notin {"idle", "receiving", "verified"}
  BY DEF Typed, UploadOK, Serving, Saving, SavingStage
<1>1. ASSUME \A g \in Handler : ~Saving(g)' PROVE OneCommit'
  BY <1>1 DEF OneCommit
<1>2. ASSUME upload' = upload,
             (\A g \in Handler : ~Saving(g)) \/ (phase' = phase /\ active' = active)
      PROVE OneCommit'
  BY <1>1, <1>2, SaversShrink DEF Saving
<1>3. CASE LobbyStep
  <2>1. \/ Serving
        \/ active' = active
    BY <1>3 DEF LobbyStep, ChallengeExpires, JoinFails, DeadlinePasses, LoopStops, slotVars
  <2>2. upload' = upload /\ phase' = phase
    BY <1>3 DEF LobbyStep, seqVars, procVars
  <2>3. QED BY <1>0, <1>2, <2>1, <2>2
<1>4. CASE TranscriptRead \/ (\E s \in Session : HeadServed(s)) \/ UNCHANGED vars
  BY <1>2, <1>4 DEF TranscriptRead, HeadServed, vars, lobbyVars, seqVars, procVars
<1>5. CASE \/ \E c \in Circuit : Resume(c) \/ StartFresh(c)
           \/ InitHeadSaved \/ InitTranscriptSaved \/ BootFails
  <2>1. upload' = upload /\ ~Live
    BY <1>5 DEF Resume, StartFresh, InitHeadSaved, InitTranscriptSaved, BootFails, Live
  <2>2. QED BY <1>0, <1>2, <2>1
<1>6. CASE Crash \/ PowerFailure
  BY <1>1, <1>6 DEF Crash, PowerFailure, Dies, NoUpload, Saving, SavingStage
<1>7. ASSUME NEW h \in Handler, NEW s \in Session, ContributeBegin(h, s) PROVE OneCommit'
  BY <1>0, <1>1, <1>7 DEF ContributeBegin, Saving, SavingStage
<1>8. ASSUME NEW h \in Handler, upload'[h].pc \in {"idle", "verified"},
             phase' = phase, active' = active,
             \A g \in Handler : g # h => upload'[g] = upload[g]
      PROVE OneCommit'
  <2>1. \A g \in Handler : Saving(g)' => Saving(g) /\ upload'[g].sess = upload[g].sess
    BY <1>8 DEF Saving, SavingStage
  <2>2. QED BY <1>8, <2>1, SaversShrink
<1>9. ASSUME NEW h \in Handler, NEW next, UploadVerified(h, next) PROVE OneCommit'
  <2>1. /\ phase' = phase /\ active' = active
        /\ upload' = [upload EXCEPT ![h].pc = "verified", ![h].next = next]
    BY <1>9 DEF UploadVerified, lobbyVars, procVars
  <2>2. upload[h] \in UploadRecord
    BY <1>0
  <2>3. upload'[h] = [upload[h] EXCEPT !.pc = "verified", !.next = next]
    BY <1>0, <2>1
  <2>4. upload'[h].pc = "verified"
    BY <2>2, <2>3 DEF UploadRecord
  <2>5. \A g \in Handler : g # h => upload'[g] = upload[g]
    BY <1>0, <2>1
  <2>6. QED BY <1>8, <2>1, <2>4, <2>5
<1>10. ASSUME NEW h \in Handler,
              \/ UploadFails(h) \/ CommitRefused(h)
              \/ EntryRefused(h) \/ SaveFails(h)
       PROVE OneCommit'
  <2>1. /\ phase' = phase /\ active' = active
        /\ upload' = [upload EXCEPT ![h] = NoUpload]
    BY <1>10 DEF UploadFails, CommitRefused, EntryRefused, SaveFails, lobbyVars, procVars
  <2>2. /\ upload'[h] = NoUpload
        /\ \A g \in Handler : g # h => upload'[g] = upload[g]
    BY <1>0, <2>1
  <2>3. QED BY <1>8, <2>1, <2>2 DEF NoUpload
<1>11. ASSUME NEW h \in Handler, CommitBegin(h) PROVE OneCommit'
  <2>1. /\ phase' = phase /\ active' = active /\ Live /\ active = upload[h].sess
        /\ upload'[h].sess = upload[h].sess
        /\ \A g \in Handler : g # h => upload'[g] = upload[g]
    BY <1>0, <1>11 DEF CommitBegin, UploadRecord, lobbyVars, procVars, Serving
  <2>2. \A g \in Handler : Saving(g)' => g = h
    BY <1>0, <1>11, <2>1 DEF CommitBegin, Saving
  <2>3. QED BY <2>1, <2>2 DEF OneCommit, Live
<1>12. ASSUME NEW h \in Handler, BlobSaved(h) \/ EntryAppended(h) \/ HeadSaved(h)
       PROVE OneCommit'
  <2>1. /\ phase' = phase /\ active' = active /\ Saving(h)
        /\ upload'[h].sess = upload[h].sess
        /\ \A g \in Handler : g # h => upload'[g] = upload[g]
    BY <1>0, <1>12 DEF BlobSaved, EntryAppended, HeadSaved, UploadRecord, lobbyVars, procVars,
         Saving, SavingStage
  <2>2. \A g \in Handler : Saving(g)' => Saving(g) /\ upload'[g].sess = upload[g].sess
    BY <2>1 DEF Saving
  <2>3. QED BY <2>1, <2>2, SaversShrink
<1>13. ASSUME NEW h \in Handler, TranscriptSaved(h) PROVE OneCommit'
  <2>1. /\ Saving(h) /\ upload'[h].pc = "idle"
        /\ \A g \in Handler : g # h => upload'[g] = upload[g]
    BY <1>0, <1>13 DEF TranscriptSaved, Receipted, NoUpload, Saving, SavingStage
  <2>2. \A g \in Handler : g # h => ~Saving(g)
    BY <2>1 DEF OneCommit
  <2>3. \A g \in Handler : ~Saving(g)'
    BY <2>1, <2>2 DEF Saving, SavingStage
  <2>4. QED BY <1>1, <2>3
<1>14. QED
  BY <1>3, <1>4, <1>5, <1>6, <1>7, <1>9, <1>10, <1>11, <1>12, <1>13 DEF Next

(* One upload saves at a time, and it is the upload of the session that    *)
(* holds the slot: sequencer.mu is held from the second look to the end.   *)
THEOREM SequencerOneCommit == Spec => []OneCommit
<1>1. Init => OneCommit
  BY DEF Init, OneCommit, NoUpload, Saving, SavingStage
<1>2. QED BY <1>1, OneCommitStep, SequencerTyped, PTL DEF Spec

(* How a step can change the transcript in memory, the one on disk and the *)
(* versions of it that a power failure can bring back.                     *)
LEMMA TranscriptMoves ==
    ASSUME Typed, [Next]_vars
    PROVE  \/ tr' = tr \/ tr' = None
           \/ \E c \in Circuit : Resume(c) \/ StartFresh(c)
           \/ \E h \in Handler : EntryAppended(h)
<1>1. CASE BootFails \/ Crash \/ PowerFailure
  BY <1>1 DEF BootFails, Crash, PowerFailure, Dies, Exited
<1>2. CASE \/ InitHeadSaved \/ InitTranscriptSaved \/ LobbyStep \/ TranscriptRead
           \/ \E s \in Session : HeadServed(s)
           \/ \E h \in Handler, s \in Session : ContributeBegin(h, s)
           \/ UNCHANGED vars
  BY <1>2 DEF InitHeadSaved, InitTranscriptSaved, LobbyStep, TranscriptRead, HeadServed,
       ContributeBegin, vars, seqVars, procVars
<1>3. ASSUME NEW h \in Handler,
             \/ \E d \in Draw :
                  UploadVerified(h, ContributePhase2(upload[h].prev, <<upload[h].sess, d>>))
             \/ UploadFails(h) \/ CommitRefused(h) \/ CommitBegin(h)
             \/ BlobSaved(h) \/ HeadSaved(h) \/ TranscriptSaved(h)
             \/ EntryRefused(h) \/ SaveFails(h)
      PROVE tr' = tr
  BY <1>3 DEF UploadVerified, UploadFails, CommitRefused, CommitBegin, BlobSaved, HeadSaved,
       TranscriptSaved, Receipted, EntryRefused, SaveFails, procVars
<1>4. QED BY <1>1, <1>2, <1>3 DEF Next

LEMMA DiskTranscriptMoves ==
    ASSUME Typed, [Next]_vars
    PROVE  \A t \in versions' \cup {diskTr'} :
             t \in versions \cup {diskTr, Torn} \/ (tr # None /\ t = tr)
<1>0. /\ phase # "down" => tr # None
      /\ \A h \in Handler : upload[h].pc # "idle" => phase # "down"
  BY DEF Typed, MemoryOK, UploadOK, Live
<1>1. CASE InitTranscriptSaved \/ BootFails \/ Crash
  BY <1>0, <1>1 DEF InitTranscriptSaved, BootFails, Crash, TornTranscripts, WriteOutcomes, Cached
<1>6. CASE PowerFailure
  <2>1. PowerOutcomes \cup TornTranscripts \subseteq versions \cup {diskTr, Torn, tr}
    BY <1>6 DEF PowerOutcomes, TornTranscripts, WriteOutcomes
  <2>2. QED BY <1>0, <1>6, <2>1 DEF PowerFailure
<1>2. CASE \/ InitHeadSaved \/ LobbyStep \/ TranscriptRead
           \/ \E c \in Circuit : Resume(c) \/ StartFresh(c)
           \/ \E s \in Session : HeadServed(s)
           \/ \E h \in Handler, s \in Session : ContributeBegin(h, s)
           \/ UNCHANGED vars
  BY <1>2 DEF InitHeadSaved, LobbyStep, TranscriptRead, Resume, StartFresh, HeadServed,
       ContributeBegin, vars, seqVars, storeVars
<1>3. ASSUME NEW h \in Handler, TranscriptSaved(h) \/ SaveFails(h)
      PROVE versions' = versions \cup {diskTr'}
            /\ (diskTr' \in {diskTr, Torn} \/ (tr # None /\ diskTr' = tr))
  <2>1. CASE TranscriptSaved(h)
    BY <1>0, <2>1 DEF TranscriptSaved, Receipted, Cached
  <2>2. CASE SaveFails(h)
    <3>1. upload[h].pc = "save_transcript" => tr # None
      BY <1>0
    <3>2. diskTr' = diskTr \/ (upload[h].pc = "save_transcript" /\ diskTr' \in {diskTr, tr, Torn})
      BY <2>2 DEF SaveFails, WriteOutcomes
    <3>3. QED BY <2>2, <3>1, <3>2 DEF SaveFails, Cached
  <2>3. QED BY <1>3, <2>1, <2>2
<1>4. ASSUME NEW h \in Handler,
             \/ \E d \in Draw :
                  UploadVerified(h, ContributePhase2(upload[h].prev, <<upload[h].sess, d>>))
             \/ UploadFails(h) \/ CommitRefused(h) \/ CommitBegin(h)
             \/ BlobSaved(h) \/ EntryAppended(h) \/ HeadSaved(h) \/ EntryRefused(h)
      PROVE diskTr' = diskTr /\ versions' = versions
  BY <1>4 DEF UploadVerified, UploadFails, CommitRefused, CommitBegin, BlobSaved,
       EntryAppended, HeadSaved, EntryRefused, storeVars
<1>5. QED BY <1>1, <1>2, <1>3, <1>4, <1>6 DEF Next

(* An entry is recorded only for the session that holds the slot at that   *)
(* moment, so an upload overtaken by the expiry of its slot leaves none.   *)
THEOREM SequencerNoLateCommit == Spec => NoLateCommit
<1> DEFINE Owned == tr # None /\ tr' # None /\ tr' # tr
                      => tr'.entries[TranscriptLen(tr')].by = active
<1>1. ASSUME Typed, OneCommit, [Next]_vars PROVE Owned
  <2>1. CASE \E c \in Circuit : Resume(c) \/ StartFresh(c)
    BY <1>1, <2>1 DEF Resume, StartFresh, Typed, MemoryOK
  <2>2. ASSUME NEW h \in Handler, EntryAppended(h) PROVE Owned
    <3>1. active = upload[h].sess
      BY <1>1, <2>2 DEF EntryAppended, OneCommit, Saving, SavingStage
    <3>2. /\ tr \in TranscriptDoc /\ upload[h].sess \in Session
          /\ HashBlob(upload[h].prev) \in Hash /\ HashBlob(upload[h].next) \in Hash
      BY <1>1, <2>2, SavingTypes DEF EntryAppended, Typed
    <3> DEFINE p == HashBlob(upload[h].prev)
               n == HashBlob(upload[h].next)
               m == Len(tr.entries)
    <3>3. tr' = TranscriptAppend(tr, upload[h].sess, p, n)
      BY <2>2 DEF EntryAppended
    <3>4. p \in Hash /\ n \in Hash
      BY <3>2
    <3> HIDE DEF p, n
    <3>5. /\ m \in Nat /\ Len(tr'.entries) = m + 1
          /\ tr'.entries[m + 1] = [index |-> m, by |-> upload[h].sess, prev |-> p, new |-> n]
      BY <3>2, <3>3, <3>4, AppendEffect
    <3>6. TranscriptLen(tr') = m + 1 /\ tr'.entries[m + 1].by = upload[h].sess
      BY <3>5 DEF TranscriptLen
    <3>7. QED BY <3>1, <3>6
  <2>3. CASE tr' = tr \/ tr' = None
    BY <2>3
  <2>4. QED BY <1>1, <2>1, <2>2, <2>3, TranscriptMoves
<1>2. Typed /\ OneCommit /\ [Next]_vars => [Owned]_vars
  BY <1>1
<1>3. QED BY <1>2, SequencerTyped, SequencerOneCommit, PTL DEF Spec, NoLateCommit

-----------------------------------------------------------------------------
(* The chain *)

(* Append keeps a transcript sound when the blob it records was verified   *)
(* against the blob whose hash the transcript ends in.                     *)
LEMMA SoundAppend ==
    ASSUME NEW t \in TranscriptDoc, NEW s \in Session, NEW b \in Blob, NEW n \in Blob,
           Sound(t), AppendAllowed(t, HashBlob(b)), VerifyPhase2Step(b, n)
    PROVE  Sound(TranscriptAppend(t, s, HashBlob(b), HashBlob(n)))
<1> DEFINE u == TranscriptAppend(t, s, HashBlob(b), HashBlob(n))
           m == Len(t.entries)
<1>1. /\ HashBlob(b) \in Hash /\ HashBlob(n) \in Hash
      /\ HashBlob(b).sha256 = b /\ HashBlob(n).sha256 = n
  BY HashType
<1>2. /\ u \in TranscriptDoc
      /\ u.circuit = t.circuit /\ u.init = t.init
      /\ m \in Nat /\ Len(u.entries) = m + 1
      /\ \A i \in 1..m : u.entries[i] = t.entries[i]
      /\ u.entries[m + 1] = [index |-> m, by |-> s, prev |-> HashBlob(b), new |-> HashBlob(n)]
  BY <1>1, AppendEffect
<1>3. DOMAIN t.entries = 1..m /\ DOMAIN u.entries = 1..(m + 1)
  BY <1>2 DEF TranscriptDoc
<1>4. HashBlob(b) = IF m = 0 THEN t.init ELSE t.entries[m].new
  BY DEF AppendAllowed, WantPrev, TranscriptDoc
<1> HIDE DEF u, m
<1>5. ASSUME NEW i \in 1..(m + 1)
      PROVE  /\ u.entries[i].index = i - 1
             /\ u.entries[i].prev = IF i = 1 THEN u.init ELSE u.entries[i - 1].new
             /\ VerifyPhase2Step(u.entries[i].prev.sha256, u.entries[i].new.sha256)
  <2>1. CASE i = m + 1
    BY <1>1, <1>2, <1>4, <2>1
  <2>2. CASE i \in 1..m
    <3>1. u.entries[i] = t.entries[i] /\ (i # 1 => u.entries[i - 1] = t.entries[i - 1])
      BY <1>2, <2>2
    <3>2. QED BY <1>2, <1>3, <2>2, <3>1 DEF Sound, VerifyTranscript
  <2>3. QED BY <1>2, <1>5, <2>1, <2>2
<1>6. VerifyTranscript(u)
  BY <1>3, <1>5 DEF VerifyTranscript
<1>7. Sound(u)
  BY <1>2, <1>3, <1>5, <1>6 DEF Sound
<1>8. QED BY <1>7 DEF u

(* The transcript chain is the cryptographic chain, in memory and on disk, *)
(* although uploads are verified outside the lock.                         *)
THEOREM SequencerChainSound == Spec => []ChainSound
<1>1. Init => ChainSound
  BY DEF Init, StorageInit, ChainSound, Readable
<1>2. Typed /\ ChainSound /\ [Next]_vars => ChainSound'
  <2> SUFFICES ASSUME Typed, ChainSound, [Next]_vars PROVE ChainSound'
    OBVIOUS
  <2>1. tr' # None => Sound(tr')
    <3>1. ASSUME NEW c \in Circuit, Resume(c) PROVE Sound(tr')
      BY <3>1 DEF Resume, ChainSound
    <3>2. ASSUME NEW c \in Circuit, StartFresh(c) PROVE Sound(tr')
      BY <3>2 DEF StartFresh, EmptyTranscript, Sound, VerifyTranscript
    <3>3. ASSUME NEW h \in Handler, EntryAppended(h) PROVE Sound(tr')
      <4>1. /\ tr \in TranscriptDoc /\ upload[h].sess \in Session
            /\ upload[h].prev \in Blob /\ upload[h].next \in Blob
        BY <3>3, SavingTypes DEF EntryAppended, Typed
      <4>2. VerifyPhase2Step(upload[h].prev, upload[h].next)
        BY <3>3 DEF EntryAppended, Typed, UploadOK
      <4>3. Sound(tr)
        BY <4>1, NoneIsNoContent DEF ChainSound
      <4>4. QED BY <3>3, <4>1, <4>2, <4>3, SoundAppend DEF EntryAppended
    <3>4. QED BY <3>1, <3>2, <3>3, TranscriptMoves DEF ChainSound
  <2>2. \A t \in versions' \cup {diskTr'} : Readable(t) => Sound(t)
    BY DiskTranscriptMoves DEF ChainSound, Readable
  <2>3. QED BY <2>1, <2>2 DEF ChainSound
<1>3. QED BY <1>1, <1>2, SequencerTyped, PTL DEF Spec
=============================================================================
