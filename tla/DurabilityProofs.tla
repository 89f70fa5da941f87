------------------------- MODULE DurabilityProofs -------------------------
(***************************************************************************)
(* What is left on disk whatever crashes and failing writes do, for every  *)
(* instance: the head contains what the transcript lists, every accepted   *)
(* contribution is whole in the archive, and a session is recorded once.   *)
(***************************************************************************)
EXTENDS SequencerProofs

-----------------------------------------------------------------------------
(* Prefixes *)

LEMMA PrefixMeans ==
    ASSUME NEW S, NEW a \in Seq(S), NEW b \in Seq(S)
    PROVE  IsPrefix(a, b) <=> Len(a) <= Len(b) /\ \A i \in 1..Len(a) : a[i] = b[i]
<1>1. ASSUME Len(a) <= Len(b)
      PROVE  SubSeq(a, 1, Len(a)) = SubSeq(b, 1, Len(a)) <=> \A i \in 1..Len(a) : a[i] = b[i]
  <2>1. /\ Len(SubSeq(a, 1, Len(a))) = Len(a) /\ Len(SubSeq(b, 1, Len(a))) = Len(a)
        /\ \A i \in 1..Len(a) : SubSeq(a, 1, Len(a))[i] = a[i]
        /\ \A i \in 1..Len(a) : SubSeq(b, 1, Len(a))[i] = b[i]
        /\ SubSeq(a, 1, Len(a)) \in Seq(S) /\ SubSeq(b, 1, Len(a)) \in Seq(S)
    BY <1>1
  <2>2. QED BY <2>1
<1>2. QED BY <1>1 DEF IsPrefix

LEMMA PrefixReflexive == ASSUME NEW S, NEW a \in Seq(S) PROVE IsPrefix(a, a)
BY PrefixMeans

LEMMA PrefixTransitive ==
    ASSUME NEW S, NEW a \in Seq(S), NEW b \in Seq(S), NEW c \in Seq(S),
           IsPrefix(a, b), IsPrefix(b, c)
    PROVE  IsPrefix(a, c)
<1>1. Len(a) <= Len(b) /\ \A i \in 1..Len(a) : a[i] = b[i]
  BY PrefixMeans
<1>2. Len(b) <= Len(c) /\ \A i \in 1..Len(b) : b[i] = c[i]
  BY PrefixMeans
<1>3. Len(a) <= Len(c) /\ \A i \in 1..Len(a) : a[i] = c[i]
  BY <1>1, <1>2
<1>4. QED BY <1>3, PrefixMeans

LEMMA PrefixOfAppend ==
    ASSUME NEW S, NEW a \in Seq(S), NEW e \in S PROVE IsPrefix(a, Append(a, e))
<1>1. /\ Append(a, e) \in Seq(S) /\ Len(a) <= Len(Append(a, e))
      /\ \A i \in 1..Len(a) : a[i] = Append(a, e)[i]
  OBVIOUS
<1>2. QED BY <1>1, PrefixMeans

(* A verified contribution extends the blob it was made for.               *)
LEMMA VerifiedExtends ==
    ASSUME NEW b \in Blob, NEW n, VerifyPhase2Step(b, n) PROVE IsPrefix(b, n)
<1>1. PICK who \in Contribution : n = Append(b, who)
  BY DEF VerifyPhase2Step, ContributePhase2
<1>2. b \in Seq(Circuit \cup Contribution) /\ who \in Circuit \cup Contribution
  BY DEF Blob
<1>3. QED BY <1>1, <1>2, PrefixOfAppend

LEMMA BlobPrefix ==
    /\ \A a \in Blob : IsPrefix(a, a)
    /\ \A a, b, c \in Blob : IsPrefix(a, b) /\ IsPrefix(b, c) => IsPrefix(a, c)
<1>1. Blob \subseteq Seq(Circuit \cup Contribution)
  BY DEF Blob
<1>2. QED BY <1>1, PrefixReflexive, PrefixTransitive

LEMMA TipType == ASSUME NEW t \in TranscriptDoc PROVE Tip(t) \in Blob
<1>1. t.init \in Hash /\ t.entries \in Seq(Entry)
  BY DEF TranscriptDoc
<1>2. t.entries # <<>> => t.entries[Len(t.entries)] \in Entry
  BY <1>1
<1>3. WantPrev(t) \in Hash
  BY <1>1, <1>2 DEF WantPrev, Entry
<1>4. QED BY <1>3 DEF Tip, Hash

(* The tip of a fresh transcript is the init head; that of a longer one    *)
(* the blob that was added.                                                *)
LEMMA TipOfFresh == ASSUME NEW c \in Circuit PROVE Tip(EmptyTranscript(c)) = InitPhase2(c)
BY DEF Tip, WantPrev, EmptyTranscript, HashBlob

LEMMA TipOfAppend ==
    ASSUME NEW t \in TranscriptDoc, NEW s \in Session, NEW p \in Hash, NEW b \in Blob
    PROVE  Tip(TranscriptAppend(t, s, p, HashBlob(b))) = b
<1> DEFINE u == TranscriptAppend(t, s, p, HashBlob(b))
           m == Len(t.entries)
<1>1. /\ m \in Nat /\ Len(u.entries) = m + 1
      /\ u.entries[m + 1].new = HashBlob(b)
      /\ u.entries \in Seq(Entry)
  <2>1. HashBlob(b) \in Hash
    BY HashType
  <2>2. /\ u \in TranscriptDoc /\ m \in Nat /\ Len(u.entries) = m + 1
        /\ u.entries[m + 1] = [index |-> m, by |-> s, prev |-> p, new |-> HashBlob(b)]
    BY <2>1, AppendEffect
  <2> HIDE DEF u, m
  <2>3. QED BY <2>2 DEF TranscriptDoc
<1>2. u.entries # <<>>
  BY <1>1
<1>3. WantPrev(u) = HashBlob(b)
  BY <1>1, <1>2 DEF WantPrev
<1>4. QED BY <1>3 DEF Tip, HashBlob

-----------------------------------------------------------------------------
(* The head on disk *)

(* HeadNotBehind and what makes it inductive: the head in memory contains  *)
(* what the transcript in memory lists, which contains what the one on     *)
(* disk does; a fresh start finds no transcript; and the transcript is     *)
(* written when the head is on disk.                                       *)
DiskInOrder ==
    Readable(diskTr) =>
        /\ diskHead # Absent
        /\ Readable(diskHead) => IsPrefix(Tip(diskTr), diskHead)
MemoryInOrder ==
    Live => /\ IsPrefix(Tip(tr), head)
            /\ Readable(diskTr) => IsPrefix(Tip(diskTr), Tip(tr))
BootInOrder ==
    phase \in {"boot_head", "boot_transcript"} => ~Readable(diskTr) /\ Tip(tr) = head
HeadFirst == WritingTranscript => diskHead = head
InOrder == DiskInOrder /\ MemoryInOrder /\ BootInOrder /\ HeadFirst

(* Faults are counted and never forgotten.                                 *)
LEMMA FaultsOnlyGrow ==
    ASSUME FaultsOK, [Next]_vars
    PROVE  /\ faults.reads \in Nat /\ faults.power \in Nat
           /\ faults'.reads >= faults.reads /\ faults'.power >= faults.power
           /\ PowerFailure => faults'.power = faults.power + 1
           /\ \A c \in Circuit :
                StartFresh(c) /\ Readable(diskTr) => faults'.reads = faults.reads + 1
<1> DEFINE Grown == faults'.reads >= faults.reads /\ faults'.power >= faults.power
<1>0. faults.reads \in Nat /\ faults.power \in Nat
  BY FaultBounds DEF FaultsOK
<1>1. /\ Count("crashes") \/ Count("writes") \/ faults' = faults => Grown
      /\ Count("reads") => Grown /\ faults'.reads = faults.reads + 1
  BY <1>0 DEF FaultsOK, Count
<1>2. ASSUME faults' = [faults EXCEPT !.crashes = @ + 1, !.power = @ + 1]
      PROVE  Grown /\ faults'.power = faults.power + 1
  <2> DEFINE once == [faults EXCEPT !.crashes = @ + 1]
  <2>1. once.power = faults.power /\ once.reads = faults.reads /\ DOMAIN once = DOMAIN faults
    BY DEF FaultsOK
  <2>2. faults' = [once EXCEPT !.power = @ + 1]
    BY <1>2
  <2>3. "power" \in DOMAIN once /\ "reads" \in DOMAIN once
    BY <2>1 DEF FaultsOK
  <2> HIDE DEF once
  <2>4. faults'.power = faults.power + 1 /\ faults'.reads = faults.reads
    BY <2>1, <2>2, <2>3
  <2>5. QED BY <1>0, <2>4
<1> HIDE DEF Grown
<1>3. PowerFailure => Grown /\ faults'.power = faults.power + 1
  BY <1>2 DEF PowerFailure
<1>4. ASSUME NEW c \in Circuit, StartFresh(c)
      PROVE  Grown /\ (Readable(diskTr) => faults'.reads = faults.reads + 1)
  BY <1>1, <1>4 DEF StartFresh
<1>5. ASSUME Crash \/ BootFails \/ \E h \in Handler : SaveFails(h) PROVE Grown
  BY <1>1, <1>5 DEF Crash, BootFails, SaveFails
<1>6. ASSUME \/ \E c \in Circuit : Resume(c)
             \/ InitHeadSaved \/ InitTranscriptSaved \/ LobbyStep \/ TranscriptRead
             \/ \E s \in Session : HeadServed(s)
             \/ \E h \in Handler, s \in Session : ContributeBegin(h, s)
             \/ UNCHANGED vars
      PROVE  Grown
  BY <1>1, <1>6 DEF Resume, InitHeadSaved, InitTranscriptSaved, LobbyStep,
       TranscriptRead, HeadServed, ContributeBegin, vars, seqVars
<1>7. ASSUME NEW h \in Handler,
             \/ \E d \in Draw :
                  UploadVerified(h, ContributePhase2(upload[h].prev, <<upload[h].sess, d>>))
             \/ UploadFails(h) \/ CommitRefused(h) \/ CommitBegin(h)
             \/ BlobSaved(h) \/ EntryAppended(h) \/ HeadSaved(h) \/ TranscriptSaved(h)
             \/ EntryRefused(h)
      PROVE faults' = faults
  BY <1>7 DEF UploadVerified, UploadFails, CommitRefused, CommitBegin, BlobSaved,
       EntryAppended, HeadSaved, TranscriptSaved, Receipted, EntryRefused
<1>8. Grown
  BY <1>1, <1>3, <1>4, <1>5, <1>6, <1>7 DEF Next
<1>9. QED BY <1>0, <1>3, <1>4, <1>8 DEF Grown

LEMMA FaultsNotForgotten ==
    ASSUME FaultsOK, [Next]_vars, NoneOverwritten'
    PROVE  /\ NoneOverwritten
           /\ ~PowerFailure
           /\ \A c \in Circuit : StartFresh(c) => ~Readable(diskTr)
<1>1. faults'.reads = 0 /\ faults'.power = 0
  BY DEF NoneOverwritten
<1>2. QED BY <1>1, FaultsOnlyGrow DEF NoneOverwritten

(* What is written of the head and of the transcript keeps their order.    *)
LEMMA OrderKept ==
    ASSUME Typed, OneCommit, InOrder, phase # "down",
           \/ diskHead' = diskHead
           \/ WritingHead /\ diskHead' \in WriteOutcomes(diskHead, head),
           \/ diskTr' = diskTr
           \/ WritingTranscript /\ diskTr' \in WriteOutcomes(diskTr, tr)
    PROVE  DiskInOrder'
<1>0. /\ tr \in TranscriptDoc /\ head \in Blob /\ Tip(tr) \in Blob
      /\ Readable(diskTr) => diskTr \in TranscriptDoc /\ Tip(diskTr) \in Blob
      /\ Readable(diskHead) => diskHead \in Blob
      /\ Readable(head) /\ Readable(tr)
  BY TipType, NoFileIsNoContent DEF Typed, MemoryOK, DiskOK, Readable
<1>1. IsPrefix(Tip(tr), head) /\ (Readable(diskTr) => IsPrefix(Tip(diskTr), head))
  <2>1. CASE phase = "live"
    BY <1>0, <2>1, BlobPrefix DEF InOrder, MemoryInOrder, Live
  <2>2. CASE phase \in {"boot_head", "boot_transcript"}
    BY <1>0, <2>2, BlobPrefix DEF InOrder, BootInOrder
  <2>3. QED BY <2>1, <2>2 DEF Typed, MemoryOK
<1>2. ~(WritingHead /\ WritingTranscript)
  BY DEF WritingHead, WritingTranscript, OneCommit, Saving, SavingStage, Live
<1>3. CASE diskTr' = diskTr
  BY <1>0, <1>1, <1>3, NoFileIsNoContent DEF InOrder, DiskInOrder, WriteOutcomes, Readable
<1>4. CASE WritingTranscript /\ diskTr' \in WriteOutcomes(diskTr, tr)
  <2>1. diskHead' = head
    BY <1>2, <1>4 DEF InOrder, HeadFirst
  <2>2. diskTr' \in {diskTr, tr, Torn}
    BY <1>4 DEF WriteOutcomes
  <2>3. QED BY <1>0, <1>1, <2>1, <2>2, NoFileIsNoContent DEF DiskInOrder, Readable
<1>5. QED BY <1>3, <1>4

(* The steps that touch neither the files nor the process.                 *)
LEMMA OrderUntouched ==
    ASSUME InOrder, UNCHANGED <<phase, head, tr, diskHead, diskTr>>,
           \A h \in Handler : upload'[h].pc = "save_transcript" => upload[h].pc = "save_transcript"
    PROVE  InOrder'
BY DEF InOrder, DiskInOrder, MemoryInOrder, BootInOrder, HeadFirst, WritingTranscript, Live

LEMMA InOrderStep ==
    ASSUME Typed, OneCommit, NoneOverwritten => InOrder, [Next]_vars, NoneOverwritten'
    PROVE  InOrder'
<1>0. InOrder /\ MemoryOK /\ UploadOK /\ DiskOK
  BY FaultsNotForgotten DEF Typed
<1>a. /\ upload \in [Handler -> UploadRecord]
      /\ \A h \in Handler : upload[h].pc # "idle" => Live
  BY <1>0 DEF UploadOK
<1>1. ASSUME NEW c \in Circuit, Resume(c) PROVE InOrder'
  <2>1. diskTr \in TranscriptDoc /\ diskHead \in Blob /\ Tip(diskTr) \in Blob
    BY <1>0, <1>1, TipType DEF DiskOK, Resume, Readable
  <2>2. /\ phase' = "live" /\ tr' = diskTr /\ head' = diskHead
        /\ diskTr' = diskTr /\ diskHead' = diskHead /\ upload' = upload
        /\ Readable(diskTr) /\ Readable(diskHead)
    BY <1>1 DEF Resume, storeVars
  <2>3. IsPrefix(Tip(diskTr), diskHead) /\ IsPrefix(Tip(diskTr), Tip(diskTr))
    BY <1>0, <2>1, <2>2, BlobPrefix DEF InOrder, DiskInOrder
  <2>4. \A h \in Handler : upload[h].pc = "idle"
    BY <1>1, <1>a DEF Resume, Live
  <2>5. QED BY <1>0, <2>2, <2>3, <2>4
         DEF InOrder, DiskInOrder, MemoryInOrder, BootInOrder, HeadFirst, WritingTranscript, Live
<1>2. ASSUME NEW c \in Circuit, StartFresh(c) PROVE InOrder'
  <2>1. /\ phase' = "boot_head" /\ tr' = EmptyTranscript(c) /\ head' = InitPhase2(c)
        /\ diskTr' = diskTr /\ ~Readable(diskTr) /\ upload' = upload
    BY <1>2, FaultsNotForgotten DEF StartFresh, storeVars, Typed
  <2>2. \A h \in Handler : upload[h].pc = "idle"
    BY <1>2, <1>a DEF StartFresh, Live
  <2>3. QED BY <2>1, <2>2, TipOfFresh
         DEF InOrder, DiskInOrder, MemoryInOrder, BootInOrder, HeadFirst, WritingTranscript, Live
<1>3. CASE InitHeadSaved
  <2>1. /\ phase' = "boot_transcript" /\ diskHead' = head /\ UNCHANGED <<head, tr, diskTr>>
        /\ ~Readable(diskTr) /\ Tip(tr) = head
    BY <1>0, <1>3 DEF InitHeadSaved, InOrder, BootInOrder
  <2>2. QED BY <2>1
         DEF InOrder, DiskInOrder, MemoryInOrder, BootInOrder, HeadFirst, Live
<1>4. CASE InitTranscriptSaved
  <2>1. /\ phase' = "live" /\ diskTr' = tr /\ UNCHANGED <<head, tr, diskHead, upload>>
        /\ phase = "boot_transcript" /\ Tip(tr) = head /\ diskHead = head
    BY <1>0, <1>4 DEF InitTranscriptSaved, InOrder, BootInOrder, HeadFirst, WritingTranscript
  <2>2. head \in Blob /\ IsPrefix(head, head) /\ head # Absent
    BY <1>0, <2>1, BlobPrefix, NoFileIsNoContent DEF MemoryOK
  <2>3. \A h \in Handler : upload[h].pc = "idle"
    BY <1>a, <2>1 DEF Live
  <2>4. QED BY <2>1, <2>2, <2>3
         DEF InOrder, DiskInOrder, MemoryInOrder, BootInOrder, HeadFirst, WritingTranscript, Live
<1>6. CASE BootFails
  <2>1. /\ phase \in {"boot_head", "boot_transcript"} /\ upload' = upload /\ phase' = "down"
        /\ \/ diskHead' = diskHead
           \/ WritingHead /\ diskHead' \in WriteOutcomes(diskHead, head)
        /\ \/ diskTr' = diskTr
           \/ WritingTranscript /\ diskTr' \in WriteOutcomes(diskTr, tr)
    BY <1>6 DEF BootFails, Exited, WritingHead, WritingTranscript
  <2>2. DiskInOrder'
    BY <1>0, <2>1, OrderKept
  <2>3. \A h \in Handler : upload[h].pc = "idle"
    BY <1>a, <2>1 DEF Live
  <2>4. QED BY <2>1, <2>2, <2>3
         DEF InOrder, MemoryInOrder, BootInOrder, HeadFirst, WritingTranscript, Live
<1>7. CASE Crash
  <2>1. /\ phase # "down" /\ upload' = [h \in Handler |-> NoUpload] /\ phase' = "down"
        /\ \/ diskHead' = diskHead
           \/ WritingHead /\ diskHead' \in WriteOutcomes(diskHead, head)
        /\ \/ diskTr' = diskTr
           \/ WritingTranscript /\ diskTr' \in WriteOutcomes(diskTr, tr)
    BY <1>7 DEF Crash, Dies, Exited, TornTranscripts
  <2>2. DiskInOrder'
    BY <1>0, <2>1, OrderKept
  <2>3. \A h \in Handler : upload'[h].pc = "idle"
    BY <2>1 DEF NoUpload
  <2>4. QED BY <2>1, <2>2, <2>3
         DEF InOrder, MemoryInOrder, BootInOrder, HeadFirst, WritingTranscript, Live
<1>8. CASE \/ LobbyStep \/ TranscriptRead
           \/ \E s \in Session : HeadServed(s)
           \/ UNCHANGED vars
  <2>1. upload' = upload /\ UNCHANGED <<phase, head, tr, diskHead, diskTr>>
    BY <1>8 DEF LobbyStep, TranscriptRead, HeadServed, vars, seqVars, procVars, storeVars
  <2>2. QED BY <1>0, <2>1, OrderUntouched
<1>9. ASSUME NEW h \in Handler, NEW u, upload' = [upload EXCEPT ![h] = u],
             u.pc # "save_transcript",
             UNCHANGED <<phase, head, tr, diskHead, diskTr>>
      PROVE  InOrder'
  <2>1. \A g \in Handler : upload'[g].pc = "save_transcript" => upload[g].pc = "save_transcript"
    BY <1>a, <1>9
  <2>2. QED BY <1>0, <1>9, <2>1, OrderUntouched
<1>10. ASSUME NEW h \in Handler, NEW s \in Session, ContributeBegin(h, s) PROVE InOrder'
  <2> DEFINE u == [pc |-> "receiving", sess |-> s, prev |-> head, next |-> None]
  <2>1. upload' = [upload EXCEPT ![h] = u] /\ UNCHANGED <<phase, head, tr, diskHead, diskTr>>
    BY <1>10 DEF ContributeBegin, procVars, storeVars
  <2>2. u.pc # "save_transcript"
    OBVIOUS
  <2> HIDE DEF u
  <2>3. QED BY <1>9, <2>1, <2>2
<1>11. ASSUME NEW h \in Handler, NEW next, UploadVerified(h, next) PROVE InOrder'
  <2>1. /\ upload' = [upload EXCEPT ![h] = [upload[h] EXCEPT !.pc = "verified", !.next = next]]
        /\ UNCHANGED <<phase, head, tr, diskHead, diskTr>>
    BY <1>a, <1>11 DEF UploadVerified, procVars, storeVars
  <2>2. [upload[h] EXCEPT !.pc = "verified", !.next = next].pc = "verified"
    BY <1>a DEF UploadRecord
  <2>3. QED BY <1>9, <2>1, <2>2
<1>12. ASSUME NEW h \in Handler, UploadFails(h) \/ CommitRefused(h) \/ EntryRefused(h)
       PROVE InOrder'
  BY <1>9, <1>12 DEF UploadFails, CommitRefused, EntryRefused, procVars, storeVars, NoUpload
<1>13. ASSUME NEW h \in Handler, CommitBegin(h) \/ BlobSaved(h) PROVE InOrder'
  <2>1. PICK x \in {"save_blob", "append"} : upload' = [upload EXCEPT ![h].pc = x]
    BY <1>13 DEF CommitBegin, BlobSaved
  <2>2. upload' = [upload EXCEPT ![h] = [upload[h] EXCEPT !.pc = x]]
    BY <1>a, <2>1
  <2>3. [upload[h] EXCEPT !.pc = x].pc = x
    BY <1>a DEF UploadRecord
  <2>4. UNCHANGED <<phase, head, tr, diskHead, diskTr>>
    BY <1>13 DEF CommitBegin, BlobSaved, procVars, storeVars
  <2>5. QED BY <1>9, <2>1, <2>2, <2>3, <2>4
<1>14. ASSUME NEW h \in Handler, EntryAppended(h) PROVE InOrder'
  <2>1. /\ tr \in TranscriptDoc /\ head \in Blob /\ Live
        /\ upload[h].sess \in Session /\ upload[h].prev \in Blob /\ upload[h].next \in Blob
        /\ HashBlob(upload[h].prev) \in Hash
    BY <1>0, <1>14, SavingTypes DEF EntryAppended
  <2>2. Tip(tr') = upload[h].next
    BY <1>14, <2>1, TipOfAppend DEF EntryAppended
  <2>3. Tip(tr) = upload[h].prev
    BY <1>14 DEF EntryAppended, AppendAllowed, Tip, HashBlob
  <2>4. IsPrefix(Tip(tr), upload[h].next)
    <3>1. VerifyPhase2Step(upload[h].prev, upload[h].next)
      BY <1>0, <1>14 DEF UploadOK, EntryAppended
    <3>2. QED BY <2>1, <2>3, <3>1, VerifiedExtends
  <2>5. /\ phase' = "live" /\ head' = upload[h].next
        /\ UNCHANGED <<diskHead, diskTr>>
        /\ \A g \in Handler : upload'[g].pc # "save_transcript"
    <3>1. /\ phase' = phase /\ head' = upload[h].next /\ UNCHANGED <<diskHead, diskTr>>
          /\ upload' = [upload EXCEPT ![h].pc = "save_head"] /\ Saving(h)
      BY <1>14 DEF EntryAppended, storeVars, Saving, SavingStage
    <3>2. upload'[h].pc = "save_head" /\ \A g \in Handler : g # h => upload'[g] = upload[g]
      BY <1>a, <3>1 DEF UploadRecord
    <3>3. \A g \in Handler : g # h => upload[g].pc # "save_transcript"
      BY <3>1 DEF OneCommit, Saving, SavingStage
    <3>4. QED BY <2>1, <3>1, <3>2, <3>3 DEF Live
  <2>6. /\ IsPrefix(Tip(tr'), head')
        /\ Readable(diskTr) => IsPrefix(Tip(diskTr), Tip(tr'))
    <3>1. Readable(diskTr) => Tip(diskTr) \in Blob /\ IsPrefix(Tip(diskTr), Tip(tr))
      BY <1>0, <2>1, TipType DEF DiskOK, Readable, InOrder, MemoryInOrder
    <3>2. QED BY <2>1, <2>2, <2>3, <2>4, <2>5, <3>1, BlobPrefix
  <2>7. QED BY <1>0, <2>5, <2>6
         DEF InOrder, DiskInOrder, MemoryInOrder, BootInOrder, HeadFirst, WritingTranscript
<1>15. ASSUME NEW h \in Handler, HeadSaved(h) PROVE InOrder'
  <2>1. /\ upload[h].pc = "save_head" /\ Live /\ diskHead' = head
        /\ UNCHANGED <<phase, head, tr, diskTr>>
    BY <1>15, <1>a DEF HeadSaved, procVars
  <2>2. DiskInOrder'
    <3>1. WritingHead /\ diskHead' \in WriteOutcomes(diskHead, head) /\ phase # "down"
      BY <2>1 DEF WritingHead, WriteOutcomes, Live
    <3>2. QED BY <1>0, <2>1, <3>1, OrderKept
  <2>3. QED BY <1>0, <2>1, <2>2 DEF InOrder, MemoryInOrder, BootInOrder, HeadFirst, Live
<1>16. ASSUME NEW h \in Handler, TranscriptSaved(h) \/ SaveFails(h) PROVE InOrder'
  <2>1. /\ upload[h].pc # "idle" /\ upload' = [upload EXCEPT ![h] = NoUpload]
        /\ UNCHANGED <<phase, head, tr>>
        /\ \/ diskHead' = diskHead
           \/ /\ upload[h].pc = "save_head"
              /\ diskHead' \in WriteOutcomes(diskHead, head)
        /\ \/ diskTr' = diskTr
           \/ /\ upload[h].pc = "save_transcript"
              /\ diskTr' \in WriteOutcomes(diskTr, tr)
        /\ Saving(h)
    BY <1>16 DEF TranscriptSaved, Receipted, SaveFails, procVars, WriteOutcomes, Saving,
         SavingStage
  <2>2. Live /\ phase # "down" /\ phase' = "live"
    BY <1>a, <2>1 DEF Live
  <2>3. DiskInOrder'
    <3>1. /\ \/ diskHead' = diskHead
             \/ WritingHead /\ diskHead' \in WriteOutcomes(diskHead, head)
          /\ \/ diskTr' = diskTr
             \/ WritingTranscript /\ diskTr' \in WriteOutcomes(diskTr, tr)
      BY <2>1 DEF WritingHead, WritingTranscript
    <3>2. QED BY <1>0, <2>2, <3>1, OrderKept
  <2>4. \A g \in Handler : upload'[g].pc # "save_transcript"
    BY <1>a, <2>1 DEF OneCommit, Saving, SavingStage, NoUpload
  <2>5. Readable(diskTr') => IsPrefix(Tip(diskTr'), Tip(tr))
    <3>1. tr \in TranscriptDoc /\ Tip(tr) \in Blob
      BY <1>0, <2>2, TipType DEF MemoryOK
    <3>2. diskTr' \in {diskTr, tr, Torn}
      BY <2>1 DEF WriteOutcomes
    <3>3. QED BY <1>0, <2>2, <3>1, <3>2, BlobPrefix DEF InOrder, MemoryInOrder, Readable
  <2>6. QED BY <1>0, <2>1, <2>2, <2>3, <2>4, <2>5
         DEF InOrder, MemoryInOrder, BootInOrder, HeadFirst, WritingTranscript, Live
<1>17. QED
  BY <1>1, <1>2, <1>3, <1>4, <1>6, <1>7, <1>8, <1>10, <1>11, <1>12, <1>13, <1>14, <1>15, <1>16,
     FaultsNotForgotten DEF Next, Typed

LEMMA SequencerInOrder == Spec => [](NoneOverwritten => InOrder)
<1> DEFINE Kept == NoneOverwritten => InOrder
<1>1. Init => Kept
  BY DEF Init, StorageInit, InOrder, DiskInOrder, MemoryInOrder, BootInOrder, HeadFirst,
     WritingTranscript, Readable, Live, NoUpload
<1>2. Typed /\ OneCommit /\ Kept /\ [Next]_vars => Kept'
  BY InOrderStep
<1> HIDE DEF Kept
<1>3. Spec => []Kept
  BY <1>1, <1>2, SequencerTyped, SequencerOneCommit, PTL DEF Spec
<1>4. QED BY <1>3 DEF Kept

(* The head on disk is never behind the transcript on disk: it is written  *)
(* first (sequencer.go:408, :412), and a crash or a failing write between  *)
(* the two leaves it ahead, never behind.                                  *)
THEOREM SequencerHeadNotBehind == Spec => []HeadNotBehind
<1>1. (NoneOverwritten => InOrder) => HeadNotBehind
  BY DEF NoneOverwritten, InOrder, DiskInOrder, HeadNotBehind
<1>2. QED BY <1>1, SequencerInOrder, PTL

-----------------------------------------------------------------------------
(* Sessions *)

(* Promoting brings nobody into the lobby.                                 *)
LEMMA PromotedWasThere ==
    ASSUME NEW a, NEW q \in Seq(Session), PromoteLocked(a, q), NEW s \in Session, Present(s)'
    PROVE  a = s \/ s \in Range(q)
<1>1. CASE q # <<>> /\ active' = Head(q) /\ queue' = Tail(q)
  <2>1. Head(q) = q[1] /\ 1 \in DOMAIN q
    BY <1>1
  <2>2. \A i \in DOMAIN Tail(q) : Tail(q)[i] = q[i + 1] /\ i + 1 \in DOMAIN q
    BY <1>1
  <2>3. QED BY <1>1, <2>1, <2>2 DEF Present, Waits, Range
<1>2. CASE active' = a /\ queue' = q
  BY <1>2 DEF Present, Waits
<1>3. QED BY <1>1, <1>2 DEF PromoteLocked

(* An admitted session stays admitted, and never comes back to the lobby.  *)
LEMMA NobodyReturns ==
    ASSUME LobbyTypeOK, [LobbyNext]_lobbyVars, NEW s \in Session, Admitted(s)
    PROVE  Admitted(s)' /\ (Present(s)' => Present(s))
<1>1. queue \in Seq(Session) /\ via \in [Session -> Challenge \cup {None}]
  BY DEF LobbyTypeOK
<1>2. ASSUME via' = via, queue' = queue, active' = active
      PROVE Admitted(s)' /\ (Present(s)' => Present(s))
  BY <1>2 DEF Admitted, Present, Waits
<1>3. ASSUME NEW k \in Challenge, NEW t \in Session, JoinAdmit(k, t)
      PROVE Admitted(s)' /\ (Present(s)' => Present(s))
  <2>1. t # s /\ via' = [via EXCEPT ![t] = k] /\ PromoteLocked(active, Append(queue, t))
    BY <1>3 DEF JoinAdmit
  <2>2. Append(queue, t) \in Seq(Session)
        /\ Range(Append(queue, t)) \subseteq Range(queue) \cup {t}
    <3>1. /\ Append(queue, t) \in Seq(Session)
          /\ DOMAIN Append(queue, t) = 1..(Len(queue) + 1)
          /\ \A i \in 1..Len(queue) : Append(queue, t)[i] = queue[i] /\ i \in DOMAIN queue
          /\ Append(queue, t)[Len(queue) + 1] = t
      BY <1>1
    <3>2. \A i \in 1..(Len(queue) + 1) : i \in 1..Len(queue) \/ i = Len(queue) + 1
      BY <1>1
    <3>3. QED BY <3>1, <3>2 DEF Range
  <2>3. QED BY <1>1, <2>1, <2>2, PromotedWasThere DEF Admitted, Present, Waits
<1>4. CASE Expire \/ \E t \in Session : Release(t)
  <2>1. PromoteLocked(None, queue) /\ via' = via
    BY <1>4 DEF Expire, Release, joinVars
  <2>2. s # None
    BY NoneIsNothing
  <2>3. QED BY <1>1, <2>1, <2>2, PromotedWasThere DEF Admitted, Present, Waits
<1>5. CASE LobbyRestart
  <2>1. active' = None /\ queue' = <<>> /\ via' = via /\ s # None
    BY <1>5, NoneIsNothing DEF LobbyRestart
  <2>2. QED BY <2>1 DEF Admitted, Present, Waits, Range
<1>6. CASE UNCHANGED lobbyVars
  BY <1>2, <1>6 DEF lobbyVars
<1>7. ASSUME NEW k \in Challenge,
             IssueChallenge(k) \/ ChallengeExpires(k) \/ JoinBegin(k) \/ JoinFails(k)
      PROVE Admitted(s)' /\ (Present(s)' => Present(s))
  BY <1>2, <1>7 DEF IssueChallenge, ChallengeExpires, JoinBegin, JoinFails, slotVars
<1>8. CASE DeadlinePasses \/ Close \/ LoopStops \/ \E t \in Session : ExtendSlot(t)
  BY <1>2, <1>8 DEF DeadlinePasses, Close, LoopStops, ExtendSlot, joinVars, slotVars
<1>9. QED BY <1>3, <1>4, <1>5, <1>6, <1>7, <1>8 DEF LobbyNext

(* The session that hands the slot on has left the lobby.                  *)
LEMMA ReleasedIsGone ==
    ASSUME LobbyTypeOK, OneSeat, NEW s \in Session, Release(s) PROVE ~Present(s)'
<1>1. queue \in Seq(Session) /\ active = s /\ PromoteLocked(None, queue) /\ s # None
  BY NoneIsNothing DEF LobbyTypeOK, Release
<1>2. s \notin Range(queue)
  BY <1>1 DEF OneSeat, Range
<1>3. QED BY <1>1, <1>2, PromotedWasThere

LEMMA PresentIsAdmitted ==
    ASSUME OneSeat, NEW s \in Session, Present(s) PROVE Admitted(s)
BY NoneIsNothing DEF OneSeat, Present, Waits, Range

(* The lobby is empty unless the sequencer serves.                         *)
EmptyUnlessLive == ~Live => active = None /\ queue = <<>>

LEMMA EmptyMeansNobody ==
    ASSUME EmptyUnlessLive, NEW s \in Session, Present(s) PROVE Live
BY NoneIsNothing DEF EmptyUnlessLive, Present, Waits, Range

LEMMA SequencerEmptyUnlessLive == Spec => []EmptyUnlessLive
<1>1. Init => EmptyUnlessLive
  BY DEF Init, LobbyInit, EmptyUnlessLive
<1>2. Typed /\ EmptyUnlessLive /\ [Next]_vars => EmptyUnlessLive'
  <2> SUFFICES ASSUME Typed, EmptyUnlessLive, [Next]_vars PROVE EmptyUnlessLive'
    OBVIOUS
  <2>1. CASE Crash \/ PowerFailure
    BY <2>1 DEF Crash, PowerFailure, Dies, LobbyRestart, EmptyUnlessLive
  <2>2. CASE \/ \E c \in Circuit : Resume(c) \/ StartFresh(c)
             \/ InitHeadSaved \/ InitTranscriptSaved \/ BootFails
    BY <2>2 DEF Resume, StartFresh, InitHeadSaved, InitTranscriptSaved, BootFails,
         EmptyUnlessLive, Live, lobbyVars
  <2>3. CASE \/ LobbyStep \/ TranscriptRead
             \/ \E s \in Session : HeadServed(s)
             \/ \E h \in Handler, s \in Session : ContributeBegin(h, s)
    BY <2>3 DEF LobbyStep, TranscriptRead, HeadServed, ContributeBegin, Serving, seqVars,
         procVars, EmptyUnlessLive, Live
  <2>4. ASSUME NEW h \in Handler,
               \/ \E d \in Draw :
                    UploadVerified(h, ContributePhase2(upload[h].prev, <<upload[h].sess, d>>))
               \/ UploadFails(h) \/ CommitRefused(h) \/ CommitBegin(h)
               \/ BlobSaved(h) \/ EntryAppended(h) \/ HeadSaved(h) \/ TranscriptSaved(h)
               \/ EntryRefused(h) \/ SaveFails(h)
        PROVE phase' = phase /\ Live
    <3>1. upload[h].pc # "idle" /\ phase' = phase
      BY <2>4 DEF UploadVerified, UploadFails, CommitRefused, CommitBegin, BlobSaved,
           EntryAppended, HeadSaved, TranscriptSaved, Receipted, EntryRefused, SaveFails, procVars
    <3>2. QED BY <3>1 DEF Typed, UploadOK
  <2>5. CASE UNCHANGED vars
    BY <2>5 DEF vars, lobbyVars, seqVars, procVars, EmptyUnlessLive, Live
  <2>6. QED BY <2>1, <2>2, <2>3, <2>4, <2>5 DEF Next, EmptyUnlessLive, Live
<1>3. QED BY <1>1, <1>2, SequencerTyped, PTL DEF Spec

-----------------------------------------------------------------------------
(* Transcripts *)

(* Every transcript there is: in memory, on disk, and those that a power   *)
(* failure can bring back.                                                 *)
Docs == ({tr} \cup versions \cup {diskTr}) \cap TranscriptDoc

LEMMA DocsAre ==
    ASSUME Typed
    PROVE  /\ \A t \in {tr} \cup versions \cup {diskTr} :
                t \in Docs \/ t \in {None, Absent, Torn}
           /\ tr # None => tr \in Docs
           /\ Readable(diskTr) => diskTr \in Docs
           /\ \A t \in Docs : t \in TranscriptDoc
BY DEF Typed, MemoryOK, DiskOK, Docs, Readable

(* A step adds a transcript by starting one or by appending an entry.      *)
LEMMA DocsMove ==
    ASSUME Typed, [Next]_vars, NEW t \in Docs'
    PROVE  \/ t \in Docs
           \/ \E c \in Circuit : t = EmptyTranscript(c)
           \/ t = tr' /\ \E h \in Handler : EntryAppended(h)
<1>1. t \in TranscriptDoc /\ t \in {tr'} \cup versions' \cup {diskTr'}
  BY DEF Docs
<1>2. t # None /\ t # Torn /\ t # Absent
  BY <1>1, NoneIsNoContent, NoFileIsNoContent
<1>3. CASE t \in versions' \cup {diskTr'}
  BY <1>1, <1>2, <1>3, DiskTranscriptMoves DEF Docs
<1>4. CASE t = tr'
  <2>1. CASE tr' = tr
    BY <1>1, <1>4, <2>1 DEF Docs
  <2>2. ASSUME NEW c \in Circuit, Resume(c) PROVE t \in Docs
    BY <1>1, <1>4, <2>2 DEF Resume, Docs
  <2>3. ASSUME NEW c \in Circuit, StartFresh(c) PROVE t = EmptyTranscript(c)
    BY <1>4, <2>3 DEF StartFresh
  <2>4. QED BY <1>2, <1>4, <2>1, <2>2, <2>3, TranscriptMoves
<1>5. QED BY <1>1, <1>3, <1>4

(* What an append does to the transcript in memory.                        *)
LEMMA EntryIsAppended ==
    ASSUME Typed, NEW h \in Handler, EntryAppended(h)
    PROVE  /\ tr \in TranscriptDoc /\ tr' \in TranscriptDoc /\ tr # None
           /\ DOMAIN tr.entries = 1..Len(tr.entries)
           /\ DOMAIN tr'.entries = 1..(Len(tr.entries) + 1)
           /\ upload[h].sess \in Session /\ upload[h].next \in Blob
           /\ Len(tr.entries) \in Nat /\ Len(tr'.entries) = Len(tr.entries) + 1
           /\ \A i \in 1..Len(tr.entries) : tr'.entries[i] = tr.entries[i]
           /\ tr'.entries[Len(tr.entries) + 1] =
                [index |-> Len(tr.entries), by |-> upload[h].sess,
                 prev |-> HashBlob(upload[h].prev), new |-> HashBlob(upload[h].next)]
<1>1. /\ tr \in TranscriptDoc /\ upload[h].sess \in Session /\ upload[h].next \in Blob
      /\ HashBlob(upload[h].prev) \in Hash /\ HashBlob(upload[h].next) \in Hash
  BY SavingTypes DEF EntryAppended, Typed
<1>2. tr' = TranscriptAppend(tr, upload[h].sess, HashBlob(upload[h].prev),
                             HashBlob(upload[h].next))
  BY DEF EntryAppended
<1> DEFINE p == HashBlob(upload[h].prev)
           n == HashBlob(upload[h].next)
<1> HIDE DEF p, n
<1>3. p \in Hash /\ n \in Hash /\ tr' = TranscriptAppend(tr, upload[h].sess, p, n)
  BY <1>1, <1>2 DEF p, n
<1>4. /\ tr' \in TranscriptDoc
      /\ Len(tr.entries) \in Nat /\ Len(tr'.entries) = Len(tr.entries) + 1
      /\ \A i \in 1..Len(tr.entries) : tr'.entries[i] = tr.entries[i]
      /\ tr'.entries[Len(tr.entries) + 1] =
           [index |-> Len(tr.entries), by |-> upload[h].sess, prev |-> p, new |-> n]
  BY <1>1, <1>3, AppendEffect
<1>5. /\ tr # None
      /\ DOMAIN tr.entries = 1..Len(tr.entries)
      /\ DOMAIN tr'.entries = 1..(Len(tr.entries) + 1)
  BY <1>1, <1>4, NoneIsNoContent DEF TranscriptDoc
<1>6. QED BY <1>1, <1>4, <1>5 DEF p, n

LEMMA EntriesOf ==
    ASSUME NEW t \in TranscriptDoc
    PROVE  /\ Len(t.entries) \in Nat /\ DOMAIN t.entries = 1..Len(t.entries)
           /\ \A i \in DOMAIN t.entries : t.entries[i] \in Entry
BY DEF TranscriptDoc

(* An upload whose entry has been appended and whose commit goes on.       *)
Recording(h) == upload[h].pc \in {"save_head", "save_transcript"}

(* Entries carry admitted sessions, each of them one; and whoever is       *)
(* recorded and still in the lobby is just being recorded.                 *)
EachOnce(t) == \A i, j \in DOMAIN t.entries : t.entries[i].by = t.entries[j].by => i = j
ByAdmitted(t) == \A i \in DOMAIN t.entries : Admitted(t.entries[i].by)
HasEntryOf(t, s) == \E i \in DOMAIN t.entries : t.entries[i].by = s
RecordedHaveLeft ==
    \A s \in Session : tr # None /\ HasEntryOf(tr, s) /\ Present(s) =>
        \E h \in Handler : Recording(h) /\ upload[h].sess = s
OncePerSession ==
    /\ \A t \in Docs : ByAdmitted(t)
    /\ faults.writes = 0 => RecordedHaveLeft /\ \A t \in Docs : EachOnce(t)

LEMMA WritesNotForgotten ==
    ASSUME FaultsOK, [Next]_vars, faults'.writes = 0
    PROVE  faults.writes = 0 /\ ~BootFails /\ \A h \in Handler : ~SaveFails(h)
<1>0. faults.writes \in Nat
  BY FaultBounds DEF FaultsOK
<1>1. ~Count("writes")
  <2> SUFFICES ASSUME Count("writes") PROVE FALSE
    OBVIOUS
  <2>1. faults'.writes = faults.writes + 1
    BY DEF FaultsOK, Count
  <2>2. QED BY <1>0, <2>1
<1>2. ~BootFails /\ \A h \in Handler : ~SaveFails(h)
  BY <1>1 DEF BootFails, SaveFails
<1>3. CASE Crash \/ \E c \in Circuit : StartFresh(c)
  <2>1. Count("crashes") \/ Count("reads") \/ faults' = faults
    BY <1>3 DEF Crash, StartFresh
  <2>2. faults'.writes = faults.writes
    BY <2>1 DEF Count, FaultsOK
  <2>3. QED BY <1>2, <2>2
<1>4. CASE PowerFailure
  <2> DEFINE once == [faults EXCEPT !.crashes = @ + 1]
  <2>1. once.writes = faults.writes /\ DOMAIN once = DOMAIN faults
    BY DEF FaultsOK
  <2>2. faults' = [once EXCEPT !.power = @ + 1]
    BY <1>4 DEF PowerFailure
  <2>3. "writes" \in DOMAIN once
    BY <2>1 DEF FaultsOK
  <2> HIDE DEF once
  <2>4. QED BY <1>2, <2>1, <2>2, <2>3
<1>5. CASE \/ \E c \in Circuit : Resume(c)
           \/ InitHeadSaved \/ InitTranscriptSaved \/ LobbyStep \/ TranscriptRead
           \/ \E s \in Session : HeadServed(s)
           \/ \E h \in Handler, s \in Session : ContributeBegin(h, s)
           \/ UNCHANGED vars
  BY <1>2, <1>5 DEF Resume, InitHeadSaved, InitTranscriptSaved, LobbyStep,
       TranscriptRead, HeadServed, ContributeBegin, vars, seqVars
<1>6. ASSUME NEW h \in Handler,
             \/ \E d \in Draw :
                  UploadVerified(h, ContributePhase2(upload[h].prev, <<upload[h].sess, d>>))
             \/ UploadFails(h) \/ CommitRefused(h) \/ CommitBegin(h)
             \/ BlobSaved(h) \/ EntryAppended(h) \/ HeadSaved(h) \/ TranscriptSaved(h)
             \/ EntryRefused(h)
      PROVE faults' = faults
  BY <1>6 DEF UploadVerified, UploadFails, CommitRefused, CommitBegin, BlobSaved,
       EntryAppended, HeadSaved, TranscriptSaved, Receipted, EntryRefused
<1>7. QED BY <1>2, <1>3, <1>4, <1>5, <1>6 DEF Next

(* A commit that is recording goes on, ends or dies with the process.      *)
LEMMA RecordingGoesOn ==
    ASSUME Typed, OneCommit, [Next]_vars, NEW g \in Handler, Recording(g)
    PROVE  \/ Recording(g)' /\ upload'[g].sess = upload[g].sess
           \/ TranscriptSaved(g) \/ SaveFails(g)
           \/ phase' = "down"
<1>0. /\ upload \in [Handler -> UploadRecord]
      /\ Saving(g) /\ Live
      /\ \A h \in Handler : Saving(h) => h = g
  BY DEF Typed, UploadOK, OneCommit, Recording, Saving, SavingStage
<1>1. CASE Crash \/ PowerFailure \/ BootFails
  BY <1>1 DEF Crash, PowerFailure, BootFails, Dies, Exited
<1>2. CASE \/ \E c \in Circuit : Resume(c) \/ StartFresh(c)
           \/ InitHeadSaved \/ InitTranscriptSaved \/ LobbyStep \/ TranscriptRead
           \/ \E s \in Session : HeadServed(s)
           \/ UNCHANGED vars
  BY <1>2 DEF Resume, StartFresh, InitHeadSaved, InitTranscriptSaved, LobbyStep, TranscriptRead,
       HeadServed, vars, seqVars, Recording
<1>3. ASSUME NEW h \in Handler, NEW u, upload' = [upload EXCEPT ![h] = u],
             ~Recording(h)
      PROVE  Recording(g)' /\ upload'[g].sess = upload[g].sess
  <2>1. upload'[g] = upload[g]
    BY <1>0, <1>3
  <2>2. QED BY <2>1 DEF Recording
<1>4. ASSUME NEW h \in Handler, NEW s \in Session, ContributeBegin(h, s)
      PROVE  Recording(g)' /\ upload'[g].sess = upload[g].sess
  <2> DEFINE u == [pc |-> "receiving", sess |-> s, prev |-> head, next |-> None]
  <2>1. upload' = [upload EXCEPT ![h] = u] /\ ~Recording(h)
    BY <1>4 DEF ContributeBegin, Recording
  <2> HIDE DEF u
  <2>2. QED BY <1>3, <2>1
<1>5. ASSUME NEW h \in Handler, NEW next, UploadVerified(h, next)
      PROVE  Recording(g)' /\ upload'[g].sess = upload[g].sess
  <2>1. upload' = [upload EXCEPT ![h].pc = "verified", ![h].next = next] /\ ~Recording(h)
    BY <1>5 DEF UploadVerified, Recording
  <2>2. upload'[g] = upload[g]
    BY <1>0, <2>1
  <2>3. QED BY <2>2 DEF Recording
<1>6. ASSUME NEW h \in Handler,
             UploadFails(h) \/ CommitRefused(h) \/ EntryRefused(h)
      PROVE  Recording(g)' /\ upload'[g].sess = upload[g].sess
  BY <1>3, <1>6 DEF UploadFails, CommitRefused, EntryRefused, Recording
<1>7. ASSUME NEW h \in Handler, CommitBegin(h) \/ BlobSaved(h) \/ EntryAppended(h)
      PROVE  Recording(g)' /\ upload'[g].sess = upload[g].sess
  <2>1. PICK x \in SavingStage : upload' = [upload EXCEPT ![h].pc = x]
    BY <1>7 DEF CommitBegin, BlobSaved, EntryAppended, SavingStage
  <2>2. ~Recording(h)
    BY <1>7 DEF CommitBegin, BlobSaved, EntryAppended, Recording
  <2>3. upload'[g] = upload[g]
    BY <1>0, <2>1, <2>2
  <2>4. QED BY <2>3 DEF Recording
<1>8. ASSUME NEW h \in Handler, HeadSaved(h)
      PROVE  Recording(g)' /\ upload'[g].sess = upload[g].sess
  <2>1. h = g /\ upload' = [upload EXCEPT ![h].pc = "save_transcript"]
    BY <1>0, <1>8 DEF HeadSaved, Saving, SavingStage
  <2>2. upload'[g].pc = "save_transcript" /\ upload'[g].sess = upload[g].sess
    BY <1>0, <2>1 DEF UploadRecord
  <2>3. QED BY <2>2 DEF Recording
<1>9. ASSUME NEW h \in Handler, TranscriptSaved(h) \/ SaveFails(h) PROVE h = g
  BY <1>0, <1>9 DEF TranscriptSaved, Receipted, SaveFails, Saving, SavingStage
<1>10. QED BY <1>1, <1>2, <1>4, <1>5, <1>6, <1>7, <1>8, <1>9 DEF Next

(* The same without the hashes: whose entry it is.                         *)
LEMMA AppendedBy ==
    ASSUME Typed, NEW h \in Handler, EntryAppended(h)
    PROVE  /\ tr \in Docs
           /\ Len(tr.entries) \in Nat
           /\ DOMAIN tr.entries = 1..Len(tr.entries)
           /\ DOMAIN tr'.entries = 1..(Len(tr.entries) + 1)
           /\ \A i \in 1..Len(tr.entries) : tr'.entries[i] = tr.entries[i]
           /\ tr'.entries[Len(tr.entries) + 1].by = upload[h].sess
<1>1. tr \in Docs
  BY EntryIsAppended DEF Docs
<1>2. tr'.entries[Len(tr.entries) + 1].by = upload[h].sess
  <2> DEFINE p == HashBlob(upload[h].prev)
             n == HashBlob(upload[h].next)
             e == tr'.entries[Len(tr.entries) + 1]
             s == upload[h].sess
             m == Len(tr.entries)
  <2>1. e = [index |-> m, by |-> s, prev |-> p, new |-> n]
    BY EntryIsAppended
  <2> HIDE DEF p, n, e, s, m
  <2>2. e.by = s
    BY <2>1
  <2>3. QED BY <2>2 DEF e, s, m
<1>3. QED BY <1>1, <1>2, EntryIsAppended

LEMMA OncePerSessionStep ==
    ASSUME Typed, OneCommit, LobbyTypeOK, OneSeat, EmptyUnlessLive, EmptyUnlessLive',
           OncePerSession, [Next]_vars
    PROVE  OncePerSession'
<1>0. /\ [LobbyNext]_lobbyVars
      /\ \A t \in Docs : t \in TranscriptDoc
      /\ tr # None => tr \in Docs
  BY LobbyImplemented, DocsAre DEF Typed, UploadOK, LobbySafe
<1>1. \A t \in Docs : \A i \in DOMAIN t.entries :
        /\ t.entries[i].by \in Session
        /\ Admitted(t.entries[i].by) /\ Admitted(t.entries[i].by)'
        /\ Present(t.entries[i].by)' => Present(t.entries[i].by)
  <2> SUFFICES ASSUME NEW t \in Docs, NEW i \in DOMAIN t.entries
               PROVE  /\ t.entries[i].by \in Session
                      /\ Admitted(t.entries[i].by) /\ Admitted(t.entries[i].by)'
                      /\ Present(t.entries[i].by)' => Present(t.entries[i].by)
    OBVIOUS
  <2>1. t.entries[i].by \in Session
    BY <1>0, EntriesOf DEF Entry
  <2>2. Admitted(t.entries[i].by)
    BY DEF OncePerSession, ByAdmitted
  <2>3. QED BY <1>0, <2>1, <2>2, NobodyReturns
<1>2. ASSUME NEW h \in Handler, EntryAppended(h)
      PROVE  /\ active = upload[h].sess
             /\ Admitted(upload[h].sess)'
             /\ \A g \in Handler : ~Recording(g)
             /\ Recording(h)' /\ upload'[h].sess = upload[h].sess
  <2>1. /\ Saving(h) /\ ~Recording(h) /\ upload[h].sess \in Session
        /\ upload' = [upload EXCEPT ![h].pc = "save_head"]
        /\ upload \in [Handler -> UploadRecord]
    BY <1>2, EntryIsAppended DEF EntryAppended, Saving, SavingStage, Recording, Typed, UploadOK
  <2>2. active = upload[h].sess
    BY <2>1 DEF OneCommit
  <2>3. Admitted(upload[h].sess)'
    <3>1. Admitted(upload[h].sess)
      BY <2>1, <2>2, PresentIsAdmitted DEF Present
    <3>2. QED BY <1>0, <2>1, <3>1, NobodyReturns
  <2>4. \A g \in Handler : ~Recording(g)
    BY <2>1 DEF OneCommit, Recording, Saving, SavingStage
  <2>5. upload'[h].pc = "save_head" /\ upload'[h].sess = upload[h].sess
    BY <2>1 DEF UploadRecord
  <2>6. QED BY <2>2, <2>3, <2>4, <2>5 DEF Recording
<1>3. ASSUME NEW t \in Docs' PROVE ByAdmitted(t)'
  <2>1. CASE t \in Docs
    BY <1>1, <2>1 DEF ByAdmitted
  <2>2. CASE \E c \in Circuit : t = EmptyTranscript(c)
    BY <2>2 DEF EmptyTranscript, ByAdmitted
  <2>3. ASSUME NEW h \in Handler, EntryAppended(h), t = tr' PROVE ByAdmitted(t)'
    <3>1. /\ tr \in Docs
          /\ DOMAIN t.entries = 1..(Len(tr.entries) + 1) /\ Len(tr.entries) \in Nat
          /\ \A i \in 1..Len(tr.entries) : t.entries[i] = tr.entries[i] /\ i \in DOMAIN tr.entries
          /\ t.entries[Len(tr.entries) + 1].by = upload[h].sess
      BY <2>3, AppendedBy
    <3>2. \A i \in DOMAIN t.entries : i \in 1..Len(tr.entries) \/ i = Len(tr.entries) + 1
      BY <3>1
    <3>3. \A i \in DOMAIN t.entries : Admitted(t.entries[i].by)'
      BY <1>1, <1>2, <2>3, <3>1, <3>2
    <3>4. QED BY <3>3 DEF ByAdmitted
  <2>4. QED BY <1>3, <2>1, <2>2, <2>3, DocsMove
<1>4. ASSUME faults'.writes = 0
      PROVE  RecordedHaveLeft' /\ \A t \in Docs' : EachOnce(t)
  <2>0. /\ RecordedHaveLeft /\ \A t \in Docs : EachOnce(t)
        /\ \A h \in Handler : ~SaveFails(h)
    BY <1>4, WritesNotForgotten DEF Typed, OncePerSession
  <2>1. ASSUME NEW h \in Handler, EntryAppended(h), NEW i \in DOMAIN tr.entries
        PROVE  ~Present(tr.entries[i].by)
    <3>1. tr.entries[i].by \in Session /\ tr # None /\ HasEntryOf(tr, tr.entries[i].by)
      BY <1>0, <1>1, <2>1, EntryIsAppended DEF HasEntryOf
    <3>2. QED BY <1>2, <2>0, <2>1, <3>1 DEF RecordedHaveLeft
  <2>2. ASSUME NEW t \in Docs' PROVE EachOnce(t)
    <3>1. CASE \E c \in Circuit : t = EmptyTranscript(c)
      BY <3>1 DEF EmptyTranscript, EachOnce
    <3>2. ASSUME NEW h \in Handler, EntryAppended(h), t = tr' PROVE EachOnce(t)
      <4>1. /\ tr \in Docs
            /\ DOMAIN t.entries = 1..(Len(tr.entries) + 1) /\ Len(tr.entries) \in Nat
            /\ DOMAIN tr.entries = 1..Len(tr.entries)
            /\ \A i \in 1..Len(tr.entries) : t.entries[i] = tr.entries[i]
            /\ t.entries[Len(tr.entries) + 1].by = active
        BY <1>2, <3>2, AppendedBy
      <4>2. \A i \in 1..Len(tr.entries) : t.entries[i].by # active
        BY <2>1, <3>2, <4>1 DEF Present
      <4>3. \A i, j \in 1..Len(tr.entries) : t.entries[i].by = t.entries[j].by => i = j
        BY <2>0, <4>1 DEF EachOnce
      <4>4. \A i \in DOMAIN t.entries : i \in 1..Len(tr.entries) \/ i = Len(tr.entries) + 1
        BY <4>1
      <4>5. QED BY <4>1, <4>2, <4>3, <4>4 DEF EachOnce
    <3>3. QED BY <2>0, <2>2, <3>1, <3>2, DocsMove
  <2>3. RecordedHaveLeft'
    <3> SUFFICES ASSUME NEW s \in Session, tr' # None, HasEntryOf(tr', s), Present(s)'
                 PROVE  \E h \in Handler : Recording(h)' /\ upload'[h].sess = s
      BY DEF RecordedHaveLeft, HasEntryOf
    <3>0. PICK i \in DOMAIN tr'.entries : tr'.entries[i].by = s
      BY DEF HasEntryOf
    <3>1. CASE tr' = tr
      <4>1. Present(s) /\ HasEntryOf(tr, s)
        BY <1>0, <1>1, <3>0, <3>1 DEF HasEntryOf
      <4>2. PICK g \in Handler : Recording(g) /\ upload[g].sess = s
        BY <2>0, <3>1, <4>1 DEF RecordedHaveLeft
      <4>3. ~TranscriptSaved(g)
        BY <4>1, <4>2, ReleasedIsGone DEF TranscriptSaved
      <4>4. phase' # "down"
        BY NoneIsNothing DEF EmptyUnlessLive, Present, Waits, Range, Live
      <4>5. QED BY <2>0, <4>2, <4>3, <4>4, RecordingGoesOn
    <3>2. ASSUME NEW c \in Circuit, Resume(c) PROVE FALSE
      <4>1. diskTr \in Docs /\ tr' = diskTr /\ ~Live
        BY <3>2, DocsAre DEF Resume, Live
      <4>2. Present(s)
        BY <1>1, <3>0, <4>1
      <4>3. QED BY <4>1, <4>2, EmptyMeansNobody
    <3>3. ASSUME NEW c \in Circuit, StartFresh(c) PROVE FALSE
      BY <3>0, <3>3 DEF StartFresh, EmptyTranscript
    <3>4. ASSUME NEW h \in Handler, EntryAppended(h)
          PROVE  Recording(h)' /\ upload'[h].sess = s
      <4>1. /\ tr \in Docs
            /\ DOMAIN tr'.entries = 1..(Len(tr.entries) + 1) /\ Len(tr.entries) \in Nat
            /\ DOMAIN tr.entries = 1..Len(tr.entries)
            /\ \A j \in 1..Len(tr.entries) : tr'.entries[j] = tr.entries[j]
            /\ tr'.entries[Len(tr.entries) + 1].by = upload[h].sess
        BY <3>4, AppendedBy
      <4>2. i \notin 1..Len(tr.entries)
        <5>1. ASSUME i \in DOMAIN tr.entries PROVE FALSE
          <6>1. tr.entries[i].by = s
            BY <3>0, <4>1, <5>1
          <6>2. Present(s)
            BY <1>1, <4>1, <5>1, <6>1
          <6>3. QED BY <2>1, <3>4, <5>1, <6>1, <6>2
        <5>2. QED BY <4>1, <5>1
      <4>3. i = Len(tr.entries) + 1
        BY <4>1, <4>2
      <4>4. QED BY <1>2, <3>0, <3>4, <4>1, <4>3
    <3>5. QED BY <3>1, <3>2, <3>3, <3>4, TranscriptMoves
  <2>4. QED BY <2>2, <2>3
<1>5. QED BY <1>3, <1>4 DEF OncePerSession, EachOnce

(* However many uploads of a session are in flight together and however    *)
(* often the process dies, a session is recorded at most once as long as   *)
(* every write succeeds: a failing SaveTranscript keeps its slot open.     *)
THEOREM SequencerOneEntryPerSession == Spec => []OneEntryPerSession
<1>1. Init => OncePerSession
  BY NoneIsNoContent, NoFileIsNoContent
     DEF Init, StorageInit, OncePerSession, RecordedHaveLeft, Docs
<1>2. Spec => [](LobbyTypeOK /\ OneSeat)
  BY SequencerRefinesLobby, LobbyTypeCorrect, LobbyOneSeat, PTL
<1>3. OncePerSession /\ Typed => OneEntryPerSession
  BY DocsAre DEF OncePerSession, OneEntryPerSession, EachOnce
<1>4. /\ Typed /\ OneCommit /\ LobbyTypeOK /\ OneSeat /\ EmptyUnlessLive /\ EmptyUnlessLive'
      /\ OncePerSession /\ [Next]_vars
      => OncePerSession'
  BY OncePerSessionStep
<1>5. QED
  BY <1>1, <1>2, <1>3, <1>4, SequencerTyped, SequencerOneCommit, SequencerEmptyUnlessLive, PTL
     DEF Spec

-----------------------------------------------------------------------------
(* The archive *)

(* What an upload that is past the verification looks like after a step.   *)
LEMMA UploadComesFrom ==
    ASSUME Typed, [Next]_vars, NEW g \in Handler, upload'[g].pc \notin {"idle", "receiving"}
    PROVE  \/ upload'[g] = upload[g]
           \/ /\ \E d \in Draw :
                   UploadVerified(g, ContributePhase2(upload[g].prev, <<upload[g].sess, d>>))
              /\ upload'[g].pc = "verified"
           \/ /\ \/ CommitBegin(g) /\ upload'[g].pc = "save_blob"
                 \/ BlobSaved(g) /\ upload'[g].pc = "append"
                 \/ EntryAppended(g) /\ upload'[g].pc = "save_head"
                 \/ HeadSaved(g) /\ upload'[g].pc = "save_transcript"
              /\ upload'[g].sess = upload[g].sess
              /\ upload'[g].prev = upload[g].prev /\ upload'[g].next = upload[g].next
<1>0. upload \in [Handler -> UploadRecord]
  BY DEF Typed, UploadOK
<1>1. CASE Crash \/ PowerFailure
  BY <1>1 DEF Crash, PowerFailure, Dies, NoUpload
<1>2. CASE \/ \E c \in Circuit : Resume(c) \/ StartFresh(c)
           \/ InitHeadSaved \/ InitTranscriptSaved \/ BootFails \/ LobbyStep \/ TranscriptRead
           \/ \E s \in Session : HeadServed(s)
           \/ UNCHANGED vars
  BY <1>2 DEF Resume, StartFresh, InitHeadSaved, InitTranscriptSaved, BootFails, LobbyStep,
       TranscriptRead, HeadServed, vars, seqVars
<1>3. ASSUME NEW h \in Handler, NEW u, upload' = [upload EXCEPT ![h] = u],
             u.pc \in {"idle", "receiving"}
      PROVE  upload'[g] = upload[g]
  BY <1>0, <1>3
<1>4. ASSUME NEW h \in Handler, NEW s \in Session, ContributeBegin(h, s)
      PROVE  upload'[g] = upload[g]
  <2> DEFINE u == [pc |-> "receiving", sess |-> s, prev |-> head, next |-> None]
  <2>1. upload' = [upload EXCEPT ![h] = u] /\ u.pc = "receiving"
    BY <1>4 DEF ContributeBegin
  <2> HIDE DEF u
  <2>2. QED BY <1>3, <2>1
<1>5. ASSUME NEW h \in Handler,
             \/ UploadFails(h) \/ CommitRefused(h) \/ TranscriptSaved(h)
             \/ EntryRefused(h) \/ SaveFails(h)
      PROVE  upload'[g] = upload[g]
  <2>1. upload' = [upload EXCEPT ![h] = NoUpload] /\ NoUpload.pc = "idle"
    BY <1>5 DEF UploadFails, CommitRefused, TranscriptSaved, Receipted, EntryRefused, SaveFails,
         NoUpload
  <2>2. QED BY <1>3, <2>1
<1>6. ASSUME NEW h \in Handler, NEW d \in Draw,
             UploadVerified(h, ContributePhase2(upload[h].prev, <<upload[h].sess, d>>))
      PROVE  upload'[g] = upload[g] \/ (h = g /\ upload'[g].pc = "verified")
  <2>1. PICK n : upload' = [upload EXCEPT ![h].pc = "verified", ![h].next = n]
    BY <1>6 DEF UploadVerified
  <2>2. h # g => upload'[g] = upload[g]
    BY <1>0, <2>1
  <2>3. h = g => upload'[g].pc = "verified"
    BY <1>0, <2>1 DEF UploadRecord
  <2>4. QED BY <2>2, <2>3
<1>7. ASSUME NEW h \in Handler, NEW x \in SavingStage, upload' = [upload EXCEPT ![h].pc = x]
      PROVE  \/ upload'[g] = upload[g]
             \/ /\ h = g /\ upload'[g].pc = x
                /\ upload'[g].sess = upload[g].sess
                /\ upload'[g].prev = upload[g].prev /\ upload'[g].next = upload[g].next
  BY <1>0, <1>7 DEF UploadRecord
<1>8. ASSUME NEW h \in Handler, CommitBegin(h)
      PROVE  upload' = [upload EXCEPT ![h].pc = "save_blob"]
  BY <1>8 DEF CommitBegin
<1>9. ASSUME NEW h \in Handler, BlobSaved(h)
      PROVE  upload' = [upload EXCEPT ![h].pc = "append"]
  BY <1>9 DEF BlobSaved
<1>10. ASSUME NEW h \in Handler, EntryAppended(h)
       PROVE  upload' = [upload EXCEPT ![h].pc = "save_head"]
  BY <1>10 DEF EntryAppended
<1>11. ASSUME NEW h \in Handler, HeadSaved(h)
       PROVE  upload' = [upload EXCEPT ![h].pc = "save_transcript"]
  BY <1>11 DEF HeadSaved
<1>12. SavingStage = {"save_blob", "append", "save_head", "save_transcript"}
  BY DEF SavingStage
<1>13. CASE \E h \in Handler : CommitBegin(h) \/ BlobSaved(h)
  BY <1>7, <1>8, <1>9, <1>12, <1>13
<1>14. CASE \E h \in Handler : EntryAppended(h) \/ HeadSaved(h)
  BY <1>7, <1>10, <1>11, <1>12, <1>14
<1>15. QED BY <1>1, <1>2, <1>4, <1>5, <1>6, <1>13, <1>14 DEF Next

(* An upload that saves keeps its transcript, unless it appends to it.     *)
LEMMA SaverKeepsTranscript ==
    ASSUME Typed, Typed', OneCommit, [Next]_vars, NEW g \in Handler,
           Saving(g), upload'[g].pc # "idle"
    PROVE  tr' = tr \/ EntryAppended(g)
<1>1. Live /\ \A h \in Handler : Saving(h) => h = g
  BY DEF OneCommit
<1>2. tr' # None
  BY DEF Typed, MemoryOK, UploadOK, Live
<1>3. ~ \E c \in Circuit : Resume(c) \/ StartFresh(c)
  BY <1>1 DEF Resume, StartFresh, Live
<1>4. \A h \in Handler : EntryAppended(h) => h = g
  BY <1>1 DEF EntryAppended, Saving, SavingStage
<1>5. QED BY <1>2, <1>3, <1>4, TranscriptMoves

(* The index and the hash of an entry, as a receipt has them; and all of   *)
(* them that were ever accepted and can still be found somewhere.          *)
Mark(e) == [index |-> e.index, new |-> e.new]
Marks(t) == {Mark(t.entries[i]) : i \in DOMAIN t.entries}
NextMark(h) == [index |-> TranscriptLen(tr), new |-> HashBlob(upload[h].next)]
LastMark(h) == [index |-> TranscriptLen(tr) - 1, new |-> HashBlob(upload[h].next)]
Accepted == receipts \cup published \cup UNION {Marks(t) : t \in Docs}

(* A verified blob is the work of the session that sent it, and the blob   *)
(* of a commit whose entry is appended ends the transcript in memory.      *)
Authored ==
    \A h \in Handler :
        /\ upload[h].pc \notin {"idle", "receiving"} =>
             \E d \in Draw : upload[h].next = Append(upload[h].prev, <<upload[h].sess, d>>)
        /\ Recording(h) => LastMark(h) \in Marks(tr)

LEMMA MarksOfAppend ==
    ASSUME Typed, NEW h \in Handler, EntryAppended(h)
    PROVE  Marks(tr') = Marks(tr) \cup {NextMark(h)}
<1> DEFINE m == Len(tr.entries)
           p == HashBlob(upload[h].prev)
           n == HashBlob(upload[h].next)
           s == upload[h].sess
<1>1. /\ m \in Nat /\ DOMAIN tr.entries = 1..m /\ DOMAIN tr'.entries = 1..(m + 1)
      /\ \A i \in 1..m : tr'.entries[i] = tr.entries[i]
      /\ tr'.entries[m + 1] = [index |-> m, by |-> s, prev |-> p, new |-> n]
  BY EntryIsAppended
<1>2. NextMark(h) = [index |-> m, new |-> n]
  BY DEF NextMark, TranscriptLen
<1> HIDE DEF m, p, n, s
<1>3. Mark(tr'.entries[m + 1]) = NextMark(h)
  BY <1>1, <1>2 DEF Mark
<1>4. \A i \in 1..(m + 1) : i \in 1..m \/ i = m + 1
  BY <1>1
<1>5. Marks(tr') \subseteq Marks(tr) \cup {NextMark(h)}
  BY <1>1, <1>3, <1>4 DEF Marks
<1>6. Marks(tr) \subseteq Marks(tr') /\ NextMark(h) \in Marks(tr')
  <2>1. m + 1 \in 1..(m + 1) /\ \A i \in 1..m : i \in 1..(m + 1)
    BY <1>1
  <2>2. QED BY <1>1, <1>3, <2>1 DEF Marks
<1>7. QED BY <1>5, <1>6

LEMMA AuthoredStep ==
    ASSUME Typed, Typed', OneCommit, Authored, [Next]_vars
    PROVE  Authored'
<1> SUFFICES ASSUME NEW g \in Handler, upload'[g].pc \notin {"idle", "receiving"}
             PROVE  /\ \E d \in Draw :
                         upload'[g].next = Append(upload'[g].prev, <<upload'[g].sess, d>>)
                    /\ Recording(g)' => LastMark(g)' \in Marks(tr')
  BY DEF Authored, Recording
<1>0. upload \in [Handler -> UploadRecord]
  BY DEF Typed, UploadOK
<1>1. ASSUME upload'[g] = upload[g]
      PROVE  /\ \E d \in Draw :
                  upload'[g].next = Append(upload'[g].prev, <<upload'[g].sess, d>>)
             /\ Recording(g)' => LastMark(g)' \in Marks(tr')
  <2>1. ASSUME Recording(g) PROVE LastMark(g)' \in Marks(tr')
    <3>1. ~EntryAppended(g)
      BY <2>1 DEF EntryAppended, Recording
    <3>2. tr' = tr
      BY <1>1, <2>1, <3>1, SaverKeepsTranscript DEF Recording, Saving, SavingStage
    <3>3. LastMark(g)' = LastMark(g) /\ LastMark(g) \in Marks(tr)
      BY <1>1, <2>1, <3>2 DEF LastMark, Authored, TranscriptLen
    <3>4. QED BY <3>2, <3>3
  <2>2. Recording(g)' => Recording(g)
    BY <1>1 DEF Recording
  <2>3. \E d \in Draw : upload'[g].next = Append(upload'[g].prev, <<upload'[g].sess, d>>)
    BY <1>1 DEF Authored
  <2>4. QED BY <2>1, <2>2, <2>3
<1>2. ASSUME NEW d \in Draw,
             UploadVerified(g, ContributePhase2(upload[g].prev, <<upload[g].sess, d>>)),
             upload'[g].pc = "verified"
      PROVE  /\ upload'[g].next = Append(upload'[g].prev, <<upload'[g].sess, d>>)
             /\ ~Recording(g)'
  <2> DEFINE n == ContributePhase2(upload[g].prev, <<upload[g].sess, d>>)
  <2>1. upload' = [upload EXCEPT ![g].pc = "verified", ![g].next = n]
    BY <1>2 DEF UploadVerified
  <2> HIDE DEF n
  <2>2. /\ upload'[g].next = n /\ upload'[g].prev = upload[g].prev
        /\ upload'[g].sess = upload[g].sess
    BY <1>0, <2>1 DEF UploadRecord
  <2>3. QED BY <1>2, <2>2 DEF n, ContributePhase2, Recording
<1>3. ASSUME upload'[g].sess = upload[g].sess, upload'[g].prev = upload[g].prev,
             upload'[g].next = upload[g].next, upload[g].pc \notin {"idle", "receiving"}
      PROVE  \E d \in Draw : upload'[g].next = Append(upload'[g].prev, <<upload'[g].sess, d>>)
  BY <1>3 DEF Authored
<1>4. ASSUME EntryAppended(g), upload'[g].next = upload[g].next
      PROVE  LastMark(g)' \in Marks(tr')
  <2>1. Len(tr'.entries) = Len(tr.entries) + 1 /\ Len(tr.entries) \in Nat
    BY <1>4, EntryIsAppended
  <2>2. LastMark(g)' = NextMark(g)
    BY <1>4, <2>1 DEF LastMark, NextMark, TranscriptLen
  <2>3. QED BY <1>4, <2>2, MarksOfAppend
<1>5. ASSUME HeadSaved(g), upload'[g].next = upload[g].next
      PROVE  LastMark(g)' \in Marks(tr')
  <2>1. Recording(g) /\ tr' = tr
    BY <1>5 DEF HeadSaved, Recording, procVars
  <2>2. QED BY <1>5, <2>1 DEF LastMark, Authored, TranscriptLen
<1>6. CASE /\ CommitBegin(g) \/ BlobSaved(g) \/ EntryAppended(g) \/ HeadSaved(g)
           /\ upload'[g].sess = upload[g].sess
           /\ upload'[g].prev = upload[g].prev /\ upload'[g].next = upload[g].next
           /\ CommitBegin(g) => upload'[g].pc = "save_blob"
           /\ BlobSaved(g) => upload'[g].pc = "append"
  <2>1. upload[g].pc \notin {"idle", "receiving"}
    BY <1>6 DEF CommitBegin, BlobSaved, EntryAppended, HeadSaved
  <2>2. CommitBegin(g) \/ BlobSaved(g) => ~Recording(g)'
    BY <1>6 DEF Recording
  <2>3. QED BY <1>3, <1>4, <1>5, <1>6, <2>1, <2>2
<1>7. /\ CommitBegin(g) => upload[g].pc = "verified"
      /\ BlobSaved(g) => upload[g].pc = "save_blob"
      /\ EntryAppended(g) => upload[g].pc = "append"
      /\ HeadSaved(g) => upload[g].pc = "save_head"
  BY DEF CommitBegin, BlobSaved, EntryAppended, HeadSaved
<1>8. QED BY <1>1, <1>2, <1>6, <1>7, UploadComesFrom

LEMMA SequencerAuthored == Spec => []Authored
<1>1. Init => Authored
  BY DEF Init, Authored, NoUpload, Recording
<1>2. Typed /\ Typed' /\ OneCommit /\ Authored /\ [Next]_vars => Authored'
  BY AuthoredStep
<1>3. QED BY <1>1, <1>2, SequencerTyped, SequencerOneCommit, PTL DEF Spec

(* What a step accepts, and what becomes of the archive.                   *)
(* Receipts are written by TranscriptSaved only.                           *)
LEMMA ReceiptsMove ==
    ASSUME [Next]_vars
    PROVE  \/ receipts' = receipts
           \/ \E h \in Handler : TranscriptSaved(h) /\ receipts' = receipts \cup {LastMark(h)}
<1>1. CASE \/ \E c \in Circuit : Resume(c) \/ StartFresh(c)
           \/ InitHeadSaved \/ InitTranscriptSaved \/ BootFails \/ LobbyStep \/ TranscriptRead
           \/ \E s \in Session : HeadServed(s)
           \/ \E h \in Handler, s \in Session : ContributeBegin(h, s)
           \/ Crash \/ PowerFailure \/ UNCHANGED vars
  BY <1>1 DEF Resume, StartFresh, InitHeadSaved, InitTranscriptSaved, BootFails, LobbyStep,
       TranscriptRead, HeadServed, ContributeBegin, Crash, PowerFailure, Dies, vars, seqVars,
       histVars
<1>2. ASSUME NEW h \in Handler,
             \/ \E d \in Draw :
                  UploadVerified(h, ContributePhase2(upload[h].prev, <<upload[h].sess, d>>))
             \/ UploadFails(h) \/ CommitRefused(h) \/ CommitBegin(h)
             \/ BlobSaved(h) \/ EntryAppended(h) \/ HeadSaved(h)
             \/ EntryRefused(h) \/ SaveFails(h)
      PROVE  receipts' = receipts
  BY <1>2 DEF UploadVerified, UploadFails, CommitRefused, CommitBegin, BlobSaved,
       EntryAppended, HeadSaved, EntryRefused, SaveFails, histVars
<1>3. ASSUME NEW h \in Handler, TranscriptSaved(h)
      PROVE  receipts' = receipts \cup {LastMark(h)}
  BY <1>3 DEF TranscriptSaved, Receipted, LastMark
<1>4. QED BY <1>1, <1>2, <1>3 DEF Next

LEMMA PublishedMoves ==
    ASSUME [Next]_vars
    PROVE  published' = published \/ (Live /\ tr' = tr /\ published' = published \cup Marks(tr))
<1>1. CASE TranscriptRead
  BY <1>1 DEF TranscriptRead, Marks, Mark, procVars
<1>2. CASE \/ \E c \in Circuit : Resume(c) \/ StartFresh(c)
           \/ InitHeadSaved \/ InitTranscriptSaved \/ BootFails \/ LobbyStep
           \/ \E s \in Session : HeadServed(s)
           \/ \E h \in Handler, s \in Session : ContributeBegin(h, s)
           \/ Crash \/ PowerFailure \/ UNCHANGED vars
  BY <1>2 DEF Resume, StartFresh, InitHeadSaved, InitTranscriptSaved, BootFails, LobbyStep,
       HeadServed, ContributeBegin, Crash, PowerFailure, Dies, vars, seqVars, histVars
<1>3. ASSUME NEW h \in Handler,
             \/ \E d \in Draw :
                  UploadVerified(h, ContributePhase2(upload[h].prev, <<upload[h].sess, d>>))
             \/ UploadFails(h) \/ CommitRefused(h) \/ CommitBegin(h)
             \/ BlobSaved(h) \/ EntryAppended(h) \/ HeadSaved(h) \/ TranscriptSaved(h)
             \/ EntryRefused(h) \/ SaveFails(h)
      PROVE published' = published
  BY <1>3 DEF UploadVerified, UploadFails, CommitRefused, CommitBegin, BlobSaved, HeadSaved,
       EntryAppended, TranscriptSaved, Receipted, EntryRefused, SaveFails, histVars
<1>4. QED BY <1>1, <1>2, <1>3 DEF Next

LEMMA AcceptedMoves ==
    ASSUME Typed, Authored, [Next]_vars, NEW r \in Accepted'
    PROVE  r \in Accepted \/ \E h \in Handler : EntryAppended(h) /\ r = NextMark(h)
<1>1. CASE \E t \in Docs' : r \in Marks(t)
  <2>1. PICK t \in Docs' : r \in Marks(t)
    BY <1>1
  <2>2. CASE t \in Docs
    BY <2>1, <2>2 DEF Accepted
  <2>3. CASE \E c \in Circuit : t = EmptyTranscript(c)
    BY <2>1, <2>3 DEF EmptyTranscript, Marks
  <2>4. ASSUME NEW h \in Handler, EntryAppended(h), t = tr'
        PROVE  r \in Accepted \/ r = NextMark(h)
    <3>1. tr \in Docs
      BY <2>4, AppendedBy
    <3>2. QED BY <2>1, <2>4, <3>1, MarksOfAppend DEF Accepted
  <2>5. QED BY <2>2, <2>3, <2>4, DocsMove
<1>2. ASSUME NEW h \in Handler, TranscriptSaved(h), r \in receipts' PROVE r \in Accepted
  <2>1. receipts' = receipts \cup {LastMark(h)} /\ Recording(h)
    BY <1>2 DEF TranscriptSaved, Receipted, LastMark, Recording
  <2>2. LastMark(h) \in Marks(tr) /\ tr \in Docs
    BY <2>1, DocsAre DEF Authored, Typed, UploadOK, MemoryOK, Live, Recording
  <2>3. QED BY <1>2, <2>1, <2>2 DEF Accepted
<1>3. ASSUME receipts' = receipts, r \in receipts' PROVE r \in Accepted
  BY <1>3 DEF Accepted
<1>4. ASSUME r \in published' PROVE r \in Accepted
  <2>1. r \in published \/ (Live /\ r \in Marks(tr))
    BY <1>4, PublishedMoves
  <2>2. Live => tr \in Docs
    BY DocsAre DEF Typed, MemoryOK, Live
  <2>3. QED BY <2>1, <2>2 DEF Accepted
<1>5. QED BY <1>1, <1>2, <1>3, <1>4, ReceiptsMove DEF Accepted

LEMMA ArchiveMoves ==
    ASSUME Typed, [Next]_vars
    PROVE  \/ archive' = archive
           \/ \E h \in Handler : BlobSaved(h)
           \/ \E h \in Handler :
                /\ upload[h].pc = "save_blob"
                /\ archive' \in PutOutcomes(archive, TranscriptLen(tr), upload[h].next)
                /\ \A g \in Handler : upload'[g].pc = "append" => upload[g].pc = "append" /\ g # h
<1>1. CASE Crash \/ PowerFailure
  BY <1>1 DEF Crash, PowerFailure, Dies, NoUpload
<1>2. CASE \/ \E c \in Circuit : Resume(c) \/ StartFresh(c)
           \/ InitHeadSaved \/ InitTranscriptSaved \/ BootFails \/ LobbyStep \/ TranscriptRead
           \/ \E s \in Session : HeadServed(s)
           \/ \E h \in Handler, s \in Session : ContributeBegin(h, s)
           \/ UNCHANGED vars
  BY <1>2 DEF Resume, StartFresh, InitHeadSaved, InitTranscriptSaved, BootFails, LobbyStep,
       TranscriptRead, HeadServed, ContributeBegin, vars, seqVars, storeVars
<1>3. ASSUME NEW h \in Handler, SaveFails(h)
      PROVE  \/ archive' = archive
             \/ /\ upload[h].pc = "save_blob"
                /\ archive' \in PutOutcomes(archive, TranscriptLen(tr), upload[h].next)
                /\ upload' = [upload EXCEPT ![h] = NoUpload]
  BY <1>3 DEF SaveFails
<1>4. ASSUME NEW h \in Handler, upload' = [upload EXCEPT ![h] = NoUpload], NEW g \in Handler,
             upload'[g].pc = "append"
      PROVE  upload[g].pc = "append" /\ g # h
  BY <1>4 DEF NoUpload, Typed, UploadOK
<1>5. ASSUME NEW h \in Handler,
             \/ \E d \in Draw :
                  UploadVerified(h, ContributePhase2(upload[h].prev, <<upload[h].sess, d>>))
             \/ UploadFails(h) \/ CommitRefused(h) \/ CommitBegin(h)
             \/ EntryAppended(h) \/ HeadSaved(h) \/ TranscriptSaved(h)
             \/ EntryRefused(h)
      PROVE  archive' = archive
  BY <1>5 DEF UploadVerified, UploadFails, CommitRefused, CommitBegin,
       EntryAppended, HeadSaved, TranscriptSaved, Receipted, EntryRefused, storeVars
<1>6. QED BY <1>1, <1>2, <1>3, <1>4, <1>5 DEF Next

(* Who made an accepted contribution was admitted, and is in the lobby     *)
(* only if the transcript in memory lists it.                              *)
MadeBy(n, s) == \E b \in Blob, d \in Draw : n = HashBlob(Append(b, <<s, d>>))
MakersHaveLeft ==
    \A r \in Accepted : \E s \in Session :
        /\ MadeBy(r.new, s)
        /\ Admitted(s)
        /\ Present(s) => tr # None /\ r \in Marks(tr)

LEMMA OneMaker ==
    ASSUME NEW n, NEW s, NEW t, MadeBy(n, s), MadeBy(n, t)
    PROVE  s = t
<1>1. PICK b \in Blob, d \in Draw : n = HashBlob(Append(b, <<s, d>>))
  BY DEF MadeBy
<1>2. PICK c \in Blob, e \in Draw : n = HashBlob(Append(c, <<t, e>>))
  BY DEF MadeBy
<1>3. Append(b, <<s, d>>) = Append(c, <<t, e>>)
  BY <1>1, <1>2 DEF HashBlob
<1>4. /\ Len(b) \in Nat /\ Append(b, <<s, d>>)[Len(b) + 1] = <<s, d>>
      /\ Len(c) \in Nat /\ Append(c, <<t, e>>)[Len(c) + 1] = <<t, e>>
      /\ Len(Append(b, <<s, d>>)) = Len(b) + 1 /\ Len(Append(c, <<t, e>>)) = Len(c) + 1
  BY DEF Blob
<1>5. <<s, d>> = <<t, e>>
  BY <1>3, <1>4
<1>6. QED BY <1>5

LEMMA MakersHaveLeftStep ==
    ASSUME Typed, Typed', OneCommit, LobbyTypeOK, OneSeat, Authored,
           EmptyUnlessLive, EmptyUnlessLive', MakersHaveLeft, [Next]_vars
    PROVE  MakersHaveLeft'
<1>0. [LobbyNext]_lobbyVars
  BY LobbyImplemented DEF Typed, UploadOK, LobbySafe
<1>1. ASSUME NEW r \in Accepted
      PROVE  \E s \in Session : /\ MadeBy(r.new, s)
                                /\ Admitted(s)'
                                /\ Present(s)' => tr' # None /\ r \in Marks(tr')
  <2>1. PICK s \in Session : /\ MadeBy(r.new, s)
                             /\ Admitted(s)
                             /\ Present(s) => tr # None /\ r \in Marks(tr)
    BY DEF MakersHaveLeft
  <2>2. Admitted(s)' /\ (Present(s)' => Present(s))
    BY <1>0, <2>1, NobodyReturns
  <2>3. ASSUME Present(s)' PROVE tr' # None /\ r \in Marks(tr')
    <3>1. Present(s) /\ Live /\ r \in Marks(tr) /\ tr # None
      BY <2>1, <2>2, <2>3, EmptyMeansNobody
    <3>2. tr' # None
      BY <2>3, NoneIsNothing DEF EmptyUnlessLive, Present, Waits, Range, Typed, MemoryOK, Live
    <3>3. ~ \E c \in Circuit : Resume(c) \/ StartFresh(c)
      BY <3>1 DEF Resume, StartFresh, Live
    <3>4. ASSUME NEW h \in Handler, EntryAppended(h) PROVE r \in Marks(tr')
      BY <3>1, <3>4, MarksOfAppend
    <3>5. QED BY <3>1, <3>2, <3>3, <3>4, TranscriptMoves
  <2>4. QED BY <2>1, <2>2, <2>3
<1>2. ASSUME NEW h \in Handler, EntryAppended(h), NEW r, r = NextMark(h)
      PROVE  \E s \in Session : /\ MadeBy(r.new, s)
                                /\ Admitted(s)'
                                /\ Present(s)' => tr' # None /\ r \in Marks(tr')
  <2>0. PICK s \in Session : s = upload[h].sess
    BY <1>2, EntryIsAppended
  <2>1. /\ upload[h].pc = "append" /\ upload[h].prev \in Blob /\ tr' \in TranscriptDoc
    BY <1>2, EntryIsAppended DEF EntryAppended, Typed, UploadOK
  <2>2. active = s
    BY <2>0, <2>1 DEF OneCommit, Saving, SavingStage
  <2>3. Admitted(s)'
    <3>1. Admitted(s)
      BY <2>2, PresentIsAdmitted DEF Present
    <3>2. QED BY <1>0, <3>1, NobodyReturns
  <2>4. PICK d \in Draw : upload[h].next = Append(upload[h].prev, <<s, d>>)
    BY <2>0, <2>1 DEF Authored
  <2>5. MadeBy(r.new, s)
    BY <1>2, <2>1, <2>4 DEF NextMark, MadeBy
  <2>6. tr' # None /\ r \in Marks(tr')
    BY <1>2, <2>1, MarksOfAppend, NoneIsNoContent
  <2>7. QED BY <2>3, <2>5, <2>6
<1>3. QED BY <1>1, <1>2, AcceptedMoves DEF MakersHaveLeft

(* So the file that is being written is not that of an accepted one.       *)
LEMMA NextIsNew ==
    ASSUME Typed, OneCommit, Authored, MakersHaveLeft, ChainSound,
           NEW h \in Handler, upload[h].pc = "save_blob"
    PROVE  NextMark(h) \notin Accepted
<1> SUFFICES ASSUME NextMark(h) \in Accepted PROVE FALSE
  OBVIOUS
<1>1. PICK s \in Session : /\ MadeBy(NextMark(h).new, s)
                           /\ Present(s) => tr # None /\ NextMark(h) \in Marks(tr)
  BY DEF MakersHaveLeft
<1>2. MadeBy(NextMark(h).new, upload[h].sess)
  BY DEF Authored, Typed, UploadOK, NextMark, MadeBy
<1>3. Present(s)
  <2>1. s = upload[h].sess
    BY <1>1, <1>2, OneMaker
  <2>2. QED BY <2>1 DEF OneCommit, Saving, SavingStage, Present
<1>4. PICK i \in DOMAIN tr.entries : NextMark(h) = Mark(tr.entries[i])
  BY <1>1, <1>3 DEF Marks
<1>5. tr \in TranscriptDoc /\ Sound(tr)
  BY <1>1, <1>3 DEF Typed, MemoryOK, ChainSound
<1>6. tr.entries[i].index = i - 1 /\ i \in 1..Len(tr.entries) /\ Len(tr.entries) \in Nat
  BY <1>5 DEF Sound, VerifyTranscript, TranscriptDoc
<1>7. QED BY <1>4, <1>6 DEF NextMark, Mark, TranscriptLen

(* A file that is whole survives every write of another one, and every     *)
(* complete write.                                                         *)
LEMMA ArchivedKept ==
    ASSUME Typed, NEW r \in Receipt, Archived(r), NEW i, NEW b,
           \/ archive' = PutFile(archive, i, b, TRUE)
           \/ /\ archive' \in PutOutcomes(archive, i, b)
              /\ r # [index |-> i, new |-> HashBlob(b)]
    PROVE  Archived(r)'
<1>1. PICK f \in archive : f.whole /\ f.index = r.index /\ HashBlob(f.blob) = r.new
  BY DEF Archived
<1>2. CASE f.index # i \/ f.blob # b
  BY <1>1, <1>2 DEF Archived, PutFile, PutOutcomes
<1>3. CASE f.index = i /\ f.blob = b
  <2>1. r = [index |-> i, new |-> HashBlob(b)]
    BY <1>1, <1>3 DEF Receipt
  <2>2. archive' = PutFile(archive, i, b, TRUE)
    BY <2>1
  <2>3. [index |-> i, blob |-> b, whole |-> TRUE] \in archive'
    BY <2>2 DEF PutFile
  <2>4. QED BY <2>1, <2>3 DEF Archived
<1>4. QED BY <1>2, <1>3

LEMMA MarkType ==
    ASSUME Typed
    PROVE  /\ \A r \in Accepted : r \in Receipt
           /\ \A h \in Handler : Saving(h) => NextMark(h) \in Receipt
<1>1. ASSUME NEW t \in Docs, NEW i \in DOMAIN t.entries PROVE Mark(t.entries[i]) \in Receipt
  <2>1. t.entries[i] \in Entry
    BY EntriesOf DEF Docs
  <2>2. QED BY <2>1 DEF Mark, Entry, Receipt
<1>2. \A r \in Accepted : r \in Receipt
  BY <1>1 DEF Accepted, Marks, Typed, HistoryOK
<1>3. ASSUME NEW h \in Handler, Saving(h) PROVE NextMark(h) \in Receipt
  <2>1. HashBlob(upload[h].next) \in Hash /\ TranscriptLen(tr) \in Nat
    BY <1>3, SavingTypes DEF Typed, Saving, SavingStage
  <2>2. QED BY <2>1 DEF NextMark, Receipt
<1>4. QED BY <1>2, <1>3

(* What was accepted is archived, and so is what is about to be appended.  *)
Shelved ==
    /\ \A r \in Accepted : Archived(r)
    /\ \A h \in Handler : upload[h].pc = "append" => Archived(NextMark(h))

LEMMA ShelvedStep ==
    ASSUME Typed, Typed', OneCommit, Authored, MakersHaveLeft, ChainSound, Shelved, [Next]_vars
    PROVE  Shelved'
<1>1. ASSUME NEW r \in Receipt, Archived(r),
             \A h \in Handler : upload[h].pc = "save_blob" => r # NextMark(h)
      PROVE  Archived(r)'
  <2>1. CASE archive' = archive
    BY <1>1, <2>1 DEF Archived
  <2>2. ASSUME NEW h \in Handler, BlobSaved(h) PROVE Archived(r)'
    BY <1>1, <2>2, ArchivedKept DEF BlobSaved
  <2>3. ASSUME NEW h \in Handler, upload[h].pc = "save_blob",
               archive' \in PutOutcomes(archive, TranscriptLen(tr), upload[h].next)
        PROVE  Archived(r)'
    BY <1>1, <2>3, ArchivedKept DEF NextMark
  <2>4. QED BY <2>1, <2>2, <2>3, ArchiveMoves
<1>2. ASSUME NEW r \in Accepted PROVE Archived(r)'
  <2>1. r \in Receipt /\ Archived(r)
    BY MarkType DEF Shelved
  <2>2. QED BY <1>1, <2>1, NextIsNew
<1>3. ASSUME NEW h \in Handler, EntryAppended(h), NEW r, r = NextMark(h) PROVE Archived(r)'
  <2>1. Archived(r) /\ archive' = archive
    BY <1>3 DEF EntryAppended, storeVars, Shelved
  <2>2. QED BY <2>1 DEF Archived
<1>4. ASSUME NEW g \in Handler, upload'[g].pc = "append" PROVE Archived(NextMark(g))'
  <2>0. /\ Saving(g)' /\ upload'[g].pc # "idle"
        /\ upload'[g].pc \notin {"idle", "receiving", "verified", "save_blob", "save_head",
                                 "save_transcript"}
    BY <1>4 DEF Saving, SavingStage
  <2>1. CASE upload'[g] = upload[g]
    <3>1. upload[g].pc = "append" /\ Saving(g)
      BY <1>4, <2>1 DEF Saving, SavingStage
    <3>2. ~EntryAppended(g)
      <4>1. EntryAppended(g) => upload'[g].pc = "save_head"
        BY DEF EntryAppended, Typed, UploadOK, UploadRecord
      <4>2. QED BY <2>0, <4>1
    <3>3. tr' = tr
      BY <2>0, <3>1, <3>2, SaverKeepsTranscript
    <3>4. PICK r \in Receipt : r = NextMark(g)
      BY <3>1, MarkType
    <3>5. NextMark(g)' = r
      BY <2>1, <3>3, <3>4 DEF NextMark, TranscriptLen
    <3>6. \A h \in Handler : upload[h].pc # "save_blob"
      BY <3>1 DEF OneCommit, Saving, SavingStage
    <3>7. Archived(r)'
      BY <1>1, <3>1, <3>4, <3>6 DEF Shelved
    <3>8. QED BY <3>5, <3>7 DEF Archived
  <2>2. CASE BlobSaved(g) /\ upload'[g].next = upload[g].next
    <3>1. /\ archive' = PutFile(archive, TranscriptLen(tr), upload[g].next, TRUE)
          /\ tr' = tr
      BY <2>2 DEF BlobSaved, procVars
    <3>2. [index |-> TranscriptLen(tr), blob |-> upload[g].next, whole |-> TRUE] \in archive'
      BY <3>1 DEF PutFile
    <3>3. NextMark(g)' = [index |-> TranscriptLen(tr), new |-> HashBlob(upload[g].next)]
      BY <2>2, <3>1 DEF NextMark, TranscriptLen
    <3>4. QED BY <3>2, <3>3 DEF Archived
  <2>3. QED BY <2>0, <2>1, <2>2, UploadComesFrom
<1>5. QED BY <1>2, <1>3, <1>4, AcceptedMoves DEF Shelved

(* The blob of every accepted contribution is whole in the archive under   *)
(* its index, also those of receipts whose transcript was lost and of      *)
(* entries that were shown before a crash took them back: SaveBlob comes   *)
(* first, and a torn write never hits the file of an accepted blob.        *)
THEOREM SequencerAcceptedArchived == Spec => []AcceptedArchived
<1>1. Init => MakersHaveLeft /\ Shelved
  <2>1. Init => Docs = {} /\ receipts = {} /\ published = {}
    BY NoneIsNoContent, NoFileIsNoContent DEF Init, StorageInit, Docs
  <2>2. QED BY <2>1 DEF Init, NoUpload, MakersHaveLeft, Shelved, Accepted
<1>2. Spec => [](LobbyTypeOK /\ OneSeat)
  BY SequencerRefinesLobby, LobbyTypeCorrect, LobbyOneSeat, PTL
<1>3. /\ Typed /\ Typed' /\ OneCommit /\ LobbyTypeOK /\ OneSeat /\ Authored
      /\ EmptyUnlessLive /\ EmptyUnlessLive' /\ MakersHaveLeft /\ [Next]_vars
      => MakersHaveLeft'
  BY MakersHaveLeftStep
<1>4. /\ Typed /\ Typed' /\ OneCommit /\ Authored /\ MakersHaveLeft /\ ChainSound
      /\ Shelved /\ [Next]_vars
      => Shelved'
  BY ShelvedStep
<1>5. Typed /\ Shelved => AcceptedArchived
  <2> SUFFICES ASSUME Typed, Shelved PROVE AcceptedArchived
    OBVIOUS
  <2>1. ASSUME NEW t \in {tr, diskTr} \ {None, Absent, Torn}, NEW i \in DOMAIN t.entries
        PROVE  Archived(t.entries[i])
    <3>1. t \in Docs
      BY DocsAre
    <3>2. Archived(Mark(t.entries[i]))
      BY <3>1 DEF Shelved, Accepted, Marks
    <3>3. QED BY <3>2 DEF Archived, Mark
  <2>2. \A r \in receipts \cup published : Archived(r)
    BY DEF Shelved, Accepted
  <2>3. QED BY <2>1, <2>2 DEF AcceptedArchived
<1>6. QED
  BY <1>1, <1>2, <1>3, <1>4, <1>5, SequencerTyped, SequencerOneCommit, SequencerAuthored,
     SequencerEmptyUnlessLive, SequencerChainSound, PTL DEF Spec

-----------------------------------------------------------------------------
(* Receipts *)

LEMMA VersionsStep ==
    ASSUME Typed, diskTr \in versions, [Next]_vars
    PROVE  \/ versions' = versions \cup {diskTr'}
           \/ PowerFailure /\ versions' = {diskTr'}
<1>1. CASE PowerFailure
  BY <1>1 DEF PowerFailure
<1>2. CASE InitTranscriptSaved \/ BootFails \/ Crash
  BY <1>2 DEF InitTranscriptSaved, BootFails, Crash, Cached
<1>3. CASE \/ InitHeadSaved \/ LobbyStep \/ TranscriptRead
           \/ \E c \in Circuit : Resume(c) \/ StartFresh(c)
           \/ \E s \in Session : HeadServed(s)
           \/ \E h \in Handler, s \in Session : ContributeBegin(h, s)
           \/ UNCHANGED vars
  BY <1>3 DEF InitHeadSaved, LobbyStep, TranscriptRead, Resume, StartFresh, HeadServed,
       ContributeBegin, vars, seqVars, storeVars
<1>4. ASSUME NEW h \in Handler, TranscriptSaved(h) \/ SaveFails(h)
      PROVE  versions' = versions \cup {diskTr'}
  BY <1>4 DEF TranscriptSaved, SaveFails, Cached
<1>5. ASSUME NEW h \in Handler,
             \/ \E d \in Draw :
                  UploadVerified(h, ContributePhase2(upload[h].prev, <<upload[h].sess, d>>))
             \/ UploadFails(h) \/ CommitRefused(h) \/ CommitBegin(h)
             \/ BlobSaved(h) \/ EntryAppended(h) \/ HeadSaved(h) \/ EntryRefused(h)
      PROVE diskTr' = diskTr /\ versions' = versions
  BY <1>5 DEF UploadVerified, UploadFails, CommitRefused, CommitBegin, BlobSaved,
       EntryAppended, HeadSaved, EntryRefused, storeVars
<1>6. QED BY <1>1, <1>2, <1>3, <1>4, <1>5 DEF Next

LEMMA DiskIsAVersion == Spec => [](diskTr \in versions)
<1> DEFINE Known == diskTr \in versions
<1>1. Init => Known
  BY DEF Init, StorageInit
<1>2. Typed /\ Known /\ [Next]_vars => Known'
  BY VersionsStep
<1> HIDE DEF Known
<1>3. Spec => []Known
  BY <1>1, <1>2, SequencerTyped, PTL DEF Spec
<1>4. QED BY <1>3 DEF Known

LEMMA LossNotForgotten ==
    ASSUME Typed, diskTr \in versions, [Next]_vars, NoneLost'
    PROVE  NoneLost /\ diskTr # Torn /\ diskTr' # Torn /\ NoneOverwritten'
<1>1. NoneOverwritten' /\ Torn \notin versions'
  BY DEF NoneLost
<1>2. NoneOverwritten /\ ~PowerFailure
  BY <1>1, FaultsNotForgotten DEF Typed
<1>3. versions \subseteq versions' /\ diskTr' \in versions'
  BY <1>2, VersionsStep
<1>4. QED BY <1>1, <1>2, <1>3 DEF NoneLost

(* The transcript on disk lists every receipt, the one in memory lists     *)
(* what the one on disk does, and a fresh start finds no transcript.       *)
ReceiptsKept ==
    /\ receipts # {} => Readable(diskTr)
    /\ Readable(diskTr) => receipts \subseteq Marks(diskTr)
    /\ Live => Readable(diskTr) /\ Marks(diskTr) \subseteq Marks(tr)
    /\ phase \in {"boot_head", "boot_transcript"} => ~Readable(diskTr)

LEMMA ReceiptsKeptStep ==
    ASSUME Typed, Typed', Authored, diskTr \in versions, NoneLost => ReceiptsKept,
           [Next]_vars, NoneLost'
    PROVE  ReceiptsKept'
<1> USE DEF ReceiptsKept
<1>0. /\ ReceiptsKept
      /\ \A c \in Circuit : StartFresh(c) => ~Readable(diskTr)
      /\ ~PowerFailure
      /\ \A old, new : WriteOutcomes(old, new) \subseteq {old, new, Torn}
      /\ diskTr # Torn /\ diskTr' # Torn
      /\ phase # "down" => tr \in TranscriptDoc /\ Readable(tr) /\ tr # Torn
      /\ \A h \in Handler : upload[h].pc # "idle" => Live /\ phase # "down"
  BY LossNotForgotten, FaultsNotForgotten, NoFileIsNoContent
     DEF Typed, MemoryOK, UploadOK, WriteOutcomes, Readable, Live
<1>1. ASSUME NEW c \in Circuit, Resume(c) \/ StartFresh(c) PROVE ReceiptsKept'
  BY <1>0, <1>1 DEF Resume, StartFresh, histVars, storeVars, Live
<1>2. CASE InitHeadSaved \/ InitTranscriptSaved
  BY <1>0, <1>2 DEF InitHeadSaved, InitTranscriptSaved, histVars, Live
<1>3. ASSUME phase' = "down", receipts' = receipts, phase # "down",
             diskTr' \in {diskTr, tr}
      PROVE  ReceiptsKept'
  <2>1. phase = "live" \/ phase \in {"boot_head", "boot_transcript"}
    BY <1>3 DEF Typed, MemoryOK
  <2>2. QED BY <1>0, <1>3, <2>1 DEF Live
<1>4. CASE BootFails \/ Crash
  <2>1. /\ phase' = "down" /\ receipts' = receipts /\ phase # "down"
        /\ diskTr' \in {diskTr, tr}
    BY <1>0, <1>4 DEF BootFails, Crash, Dies, Exited, TornTranscripts, histVars
  <2>2. QED BY <1>3, <2>1
<1>5. ASSUME UNCHANGED <<phase, receipts, diskTr>>, tr' = tr PROVE ReceiptsKept'
  BY <1>0, <1>5 DEF Live
<1>6. CASE \/ LobbyStep \/ TranscriptRead
           \/ \E s \in Session : HeadServed(s)
           \/ \E h \in Handler, s \in Session : ContributeBegin(h, s)
           \/ UNCHANGED vars
  <2>1. UNCHANGED <<phase, receipts, diskTr>> /\ tr' = tr
    BY <1>6 DEF LobbyStep, TranscriptRead, HeadServed, ContributeBegin, vars, seqVars, procVars,
         histVars, storeVars
  <2>2. QED BY <1>5, <2>1
<1>7. ASSUME NEW h \in Handler,
             \/ \E d \in Draw :
                  UploadVerified(h, ContributePhase2(upload[h].prev, <<upload[h].sess, d>>))
             \/ UploadFails(h) \/ CommitRefused(h) \/ CommitBegin(h)
             \/ BlobSaved(h) \/ HeadSaved(h) \/ EntryRefused(h)
      PROVE ReceiptsKept'
  <2>1. UNCHANGED <<phase, receipts, diskTr>> /\ tr' = tr
    BY <1>7 DEF UploadVerified, UploadFails, CommitRefused, CommitBegin, BlobSaved, HeadSaved,
         EntryRefused, procVars, histVars, storeVars
  <2>2. QED BY <1>5, <2>1
<1>8. ASSUME NEW h \in Handler, EntryAppended(h) PROVE ReceiptsKept'
  <2>1. UNCHANGED <<phase, receipts, diskTr>> /\ Marks(tr) \subseteq Marks(tr')
    BY <1>8, MarksOfAppend DEF EntryAppended, histVars, storeVars
  <2>2. QED BY <1>0, <2>1 DEF Live
<1>9. ASSUME NEW h \in Handler, TranscriptSaved(h) PROVE ReceiptsKept'
  <2>1. /\ diskTr' = tr /\ receipts' = receipts \cup {LastMark(h)}
        /\ UNCHANGED <<phase, tr>> /\ upload[h].pc = "save_transcript"
    BY <1>9 DEF TranscriptSaved, Receipted, LastMark, procVars
  <2>2. LastMark(h) \in Marks(tr) /\ Live
    BY <1>0, <2>1 DEF Authored, Recording
  <2>3. QED BY <1>0, <2>1, <2>2 DEF Live
<1>10. ASSUME NEW h \in Handler, SaveFails(h) PROVE ReceiptsKept'
  <2>1. /\ diskTr' \in {diskTr, tr} /\ UNCHANGED <<phase, tr, receipts>> /\ Live
    BY <1>0, <1>10 DEF SaveFails, procVars, histVars
  <2>2. QED BY <1>0, <2>1 DEF Live
<1>11. QED
  BY <1>0, <1>1, <1>2, <1>4, <1>6, <1>7, <1>8, <1>9, <1>10 DEF Next

(* A receipt stays true through any number of crashes and failing writes,  *)
(* until transcript.json was once cut short, could not be read although it *)
(* was there, or was undone by a power failure (sequencer.go:70).          *)
THEOREM SequencerReceiptsDurable == Spec => [](NoneLost => ReceiptsDurable)
<1> DEFINE Kept == NoneLost => ReceiptsKept
<1>1. Init => Kept
  BY NoFileIsNoContent DEF Init, StorageInit, ReceiptsKept, Readable, Live
<1>2. Typed /\ Typed' /\ Authored /\ diskTr \in versions /\ Kept /\ [Next]_vars => Kept'
  BY ReceiptsKeptStep
<1>3. Kept => (NoneLost => ReceiptsDurable)
  <2> SUFFICES ASSUME ReceiptsKept, Live, NEW r \in receipts PROVE Lists(tr, r)
    BY DEF ReceiptsDurable
  <2>1. r \in Marks(tr)
    BY DEF ReceiptsKept
  <2>2. QED BY <2>1 DEF Marks, Mark, Lists
<1> HIDE DEF Kept
<1>4. QED
  BY <1>1, <1>2, <1>3, SequencerTyped, SequencerAuthored, DiskIsAVersion, PTL DEF Spec

(* Over a store that puts objects atomically nothing is ever cut short.    *)
LEMMA NothingCutShort == ASSUME ~TornWrites PROVE Spec => [](Torn \notin versions)
<1>1. Init => Torn \notin versions
  BY NoFileIsNoContent DEF Init, StorageInit
<1>2. Typed /\ diskTr \in versions /\ Torn \notin versions /\ [Next]_vars
      => (Torn \notin versions)'
  <2> SUFFICES ASSUME Typed, diskTr \in versions, Torn \notin versions, [Next]_vars
               PROVE  Torn \notin versions'
    OBVIOUS
  <2>0. /\ phase # "down" => tr # Torn
        /\ \A h \in Handler : upload[h].pc # "idle" => phase # "down"
        /\ \A old, new : WriteOutcomes(old, new) = {old, new}
        /\ PowerOutcomes = versions
    BY NoFileIsNoContent DEF Typed, MemoryOK, UploadOK, Live, WriteOutcomes, PowerOutcomes
  <2>1. CASE InitTranscriptSaved \/ BootFails \/ Crash \/ PowerFailure
    BY <2>0, <2>1 DEF InitTranscriptSaved, BootFails, Crash, PowerFailure, TornTranscripts, Cached
  <2>2. CASE \/ InitHeadSaved \/ LobbyStep \/ TranscriptRead
             \/ \E c \in Circuit : Resume(c) \/ StartFresh(c)
             \/ \E s \in Session : HeadServed(s)
             \/ \E h \in Handler, s \in Session : ContributeBegin(h, s)
             \/ UNCHANGED vars
    BY <2>2 DEF InitHeadSaved, LobbyStep, TranscriptRead, Resume, StartFresh, HeadServed,
         ContributeBegin, vars, seqVars, storeVars
  <2>3. ASSUME NEW h \in Handler, TranscriptSaved(h) \/ SaveFails(h)
        PROVE  Torn \notin versions'
    <3>1. versions' = versions \cup {diskTr'} /\ upload[h].pc # "idle"
      BY <2>3 DEF TranscriptSaved, Receipted, SaveFails, Cached
    <3>2. diskTr' \in {diskTr, tr}
      BY <2>0, <2>3 DEF TranscriptSaved, SaveFails
    <3>3. QED BY <2>0, <3>1, <3>2
  <2>4. ASSUME NEW h \in Handler,
               \/ \E d \in Draw :
                    UploadVerified(h, ContributePhase2(upload[h].prev, <<upload[h].sess, d>>))
               \/ UploadFails(h) \/ CommitRefused(h) \/ CommitBegin(h)
               \/ BlobSaved(h) \/ EntryAppended(h) \/ HeadSaved(h) \/ EntryRefused(h)
        PROVE versions' = versions
    BY <2>4 DEF UploadVerified, UploadFails, CommitRefused, CommitBegin, BlobSaved,
         EntryAppended, HeadSaved, EntryRefused, storeVars
  <2>5. QED BY <2>1, <2>2, <2>3, <2>4 DEF Next
<1>3. QED BY <1>1, <1>2, SequencerTyped, DiskIsAVersion, PTL DEF Spec

(* Over such a store only a failed read or a power failure can take a      *)
(* receipt back.                                                           *)
THEOREM SequencerReceiptsDurableAtomic ==
    ASSUME ~TornWrites
    PROVE  Spec => [](NoneOverwritten => ReceiptsDurable)
<1>1. NoneOverwritten /\ Torn \notin versions => NoneLost
  BY DEF NoneLost
<1>2. QED BY <1>1, NothingCutShort, SequencerReceiptsDurable, PTL

-----------------------------------------------------------------------------
(* The ledger *)

(* The blob a transcript ends in contains that of each of its entries.     *)
EntriesInTip ==
    \A t \in Docs : \A i \in DOMAIN t.entries : IsPrefix(t.entries[i].new.sha256, Tip(t))

(* An appended blob extends the one the transcript ended in.               *)
LEMMA AppendExtendsTip ==
    ASSUME Typed, NEW h \in Handler, EntryAppended(h)
    PROVE  /\ Tip(tr) \in Blob /\ Tip(tr') \in Blob
           /\ VerifyPhase2Step(Tip(tr), Tip(tr'))
<1>1. /\ tr \in TranscriptDoc /\ upload[h].sess \in Session
      /\ upload[h].prev \in Blob /\ upload[h].next \in Blob
      /\ HashBlob(upload[h].prev) \in Hash
  BY SavingTypes, EntryIsAppended DEF EntryAppended, Typed
<1>2. Tip(tr') = upload[h].next
  BY <1>1, TipOfAppend DEF EntryAppended
<1>3. HashBlob(upload[h].prev).sha256 = upload[h].prev
  BY <1>1, HashType
<1>4. Tip(tr) = upload[h].prev
  BY <1>3 DEF Tip, EntryAppended, AppendAllowed
<1>5. VerifyPhase2Step(upload[h].prev, upload[h].next)
  BY DEF EntryAppended, Typed, UploadOK
<1>6. QED BY <1>1, <1>2, <1>4, <1>5

LEMMA EntriesInTipStep == ASSUME Typed, EntriesInTip, [Next]_vars PROVE EntriesInTip'
<1> SUFFICES ASSUME NEW t \in Docs', NEW i \in DOMAIN t.entries
             PROVE  IsPrefix(t.entries[i].new.sha256, Tip(t))
  BY DEF EntriesInTip, Tip, WantPrev
<1>1. \/ t \in Docs
      \/ \E c \in Circuit : t = EmptyTranscript(c)
      \/ t = tr' /\ \E h \in Handler : EntryAppended(h)
  BY DocsMove
<1>2. CASE t \in Docs
  BY <1>2 DEF EntriesInTip
<1>3. ASSUME NEW c \in Circuit, t = EmptyTranscript(c) PROVE FALSE
  BY <1>3 DEF EmptyTranscript
<1>4. ASSUME NEW h \in Handler, EntryAppended(h), t = tr'
      PROVE  IsPrefix(t.entries[i].new.sha256, Tip(t))
  <2> DEFINE m == Len(tr.entries)
  <2>1. /\ tr \in Docs /\ m \in Nat /\ t \in TranscriptDoc
        /\ DOMAIN tr.entries = 1..m /\ DOMAIN t.entries = 1..(m + 1)
        /\ Len(t.entries) = m + 1
        /\ \A j \in 1..m : t.entries[j] = tr.entries[j]
    BY <1>4, AppendedBy, EntryIsAppended
  <2>2. Tip(tr) \in Blob /\ Tip(t) \in Blob /\ IsPrefix(Tip(tr), Tip(t))
    BY <1>4, AppendExtendsTip, VerifiedExtends DEF Tip, WantPrev
  <2> HIDE DEF m
  <2>3. CASE i = m + 1
    <3>1. t.entries # <<>>
      BY <2>1
    <3>2. t.entries[i].new.sha256 = Tip(t)
      BY <2>1, <2>3, <3>1 DEF Tip, WantPrev
    <3>3. QED BY <2>2, <3>2, BlobPrefix
  <2>4. CASE i \in 1..m
    <3>1. t.entries[i] = tr.entries[i] /\ IsPrefix(tr.entries[i].new.sha256, Tip(tr))
      BY <2>1, <2>4 DEF EntriesInTip
    <3>2. tr.entries[i].new.sha256 \in Blob
      BY <2>1, <2>4, DocsAre, EntriesOf DEF Entry, Hash
    <3>3. QED BY <2>2, <3>1, <3>2, BlobPrefix
  <2>5. QED BY <2>1, <2>3, <2>4
<1>5. QED BY <1>1, <1>2, <1>3, <1>4

LEMMA SequencerEntriesInTip == Spec => []EntriesInTip
<1>1. Init => EntriesInTip
  BY NoneIsNoContent, NoFileIsNoContent DEF Init, StorageInit, EntriesInTip, Docs
<1>2. Typed /\ EntriesInTip /\ [Next]_vars => EntriesInTip'
  BY EntriesInTipStep
<1>3. QED BY <1>1, <1>2, SequencerTyped, PTL DEF Spec

(* What the ledger has given receipts for.                                 *)
ReceiptedChains == {r.new.sha256 : r \in receipts}

LEMMA ReceiptsInTip ==
    ASSUME Typed, EntriesInTip, NEW t \in Docs, receipts \subseteq Marks(t),
           NEW b \in ReceiptedChains
    PROVE  IsPrefix(b, Tip(t))
<1>1. PICK r \in receipts : b = r.new.sha256
  BY DEF ReceiptedChains
<1>2. PICK i \in DOMAIN t.entries : r = Mark(t.entries[i])
  BY <1>1 DEF Marks
<1>3. b = t.entries[i].new.sha256
  BY <1>1, <1>2 DEF Mark
<1>4. QED BY <1>2, <1>3 DEF EntriesInTip

(* A stop forgets no receipt: what is on disk afterwards is what was there *)
(* before or what was being written.                                       *)
LEMMA StopKeepsReceipts ==
    ASSUME Typed, EntriesInTip, ReceiptsKept, ReceiptsKept', InOrder, phase # "down",
           phase' = "down", receipts' = receipts, diskTr' \in {diskTr, tr}
    PROVE  /\ IsPrefix(ServedChain', ServedChain)
           /\ \A b \in ReceiptedChains : IsPrefix(b, ServedChain')
<1>1. /\ ServedChain = Tip(tr)
      /\ ServedChain' = IF Readable(diskTr') THEN Tip(diskTr') ELSE <<>>
  BY DEF ServedChain, Tip, WantPrev, Readable
<1>2. tr \in TranscriptDoc /\ Tip(tr) \in Blob
  BY TipType DEF Typed, MemoryOK
<1>3. CASE Readable(diskTr')
  <2>1. IsPrefix(Tip(diskTr'), Tip(tr))
    <3>1. CASE diskTr' = tr
      BY <1>2, <3>1, BlobPrefix
    <3>2. CASE diskTr' = diskTr
      <4>1. Live
        BY <1>3, <3>2 DEF ReceiptsKept, Typed, MemoryOK, Live
      <4>2. QED BY <1>3, <3>2, <4>1 DEF InOrder, MemoryInOrder
    <3>3. QED BY <3>1, <3>2
  <2>2. ASSUME NEW b \in ReceiptedChains PROVE IsPrefix(b, Tip(diskTr'))
    <3>1. receipts \subseteq Marks(diskTr')
      BY <1>3 DEF ReceiptsKept, Marks
    <3>2. diskTr' \in Docs
      BY <1>2, <1>3, DocsAre DEF Docs, Readable
    <3>3. QED BY <3>1, <3>2, ReceiptsInTip
  <2>3. QED BY <1>1, <1>3, <2>1, <2>2
<1>4. CASE ~Readable(diskTr')
  <2>1. ReceiptedChains = {}
    BY <1>4 DEF ReceiptsKept, ReceiptedChains, Readable
  <2>2. ServedChain' = <<>> /\ Tip(tr) \in Seq(Circuit \cup Contribution)
    BY <1>1, <1>2, <1>4 DEF Blob
  <2>3. IsPrefix(<<>>, Tip(tr))
    BY <2>2 DEF IsPrefix
  <2>4. QED BY <1>1, <2>1, <2>2, <2>3
<1>5. QED BY <1>3, <1>4

(* What receipt is given for is the whole chain.                           *)
LEMMA ReceiptIsForTip ==
    ASSUME Typed, ChainSound, Authored, NEW h \in Handler, TranscriptSaved(h)
    PROVE  /\ tr \in TranscriptDoc /\ phase # "down"
           /\ LastMark(h).new.sha256 = Tip(tr) /\ Len(Tip(tr)) > 1
<1>1. /\ upload[h].pc = "save_transcript" /\ phase # "down" /\ tr \in TranscriptDoc
      /\ upload[h].prev \in Blob /\ VerifyPhase2Step(upload[h].prev, upload[h].next)
  BY DEF TranscriptSaved, Receipted, Typed, UploadOK, MemoryOK, Live
<1>2. PICK i \in DOMAIN tr.entries : LastMark(h) = Mark(tr.entries[i])
  BY <1>1 DEF Authored, Recording, Marks
<1>3. Sound(tr)
  BY <1>1, NoneIsNoContent DEF ChainSound
<1>4. Len(tr.entries) \in Nat /\ DOMAIN tr.entries = 1..Len(tr.entries)
  BY <1>1, EntriesOf
<1>5. i = Len(tr.entries)
  <2>1. tr.entries[i].index = Len(tr.entries) - 1
    BY <1>2 DEF LastMark, Mark, TranscriptLen
  <2>2. tr.entries[i].index = i - 1
    BY <1>3 DEF Sound, VerifyTranscript
  <2>3. QED BY <1>4, <2>1, <2>2
<1>6. LastMark(h).new = WantPrev(tr)
  <2>1. tr.entries # <<>>
    BY <1>4, <1>5
  <2>2. QED BY <1>2, <1>5, <2>1 DEF WantPrev, Mark
<1>7. LastMark(h).new.sha256 = upload[h].next
  BY DEF LastMark, HashBlob
<1>8. Len(upload[h].next) > 1
  <2>1. PICK who \in Contribution : upload[h].next = Append(upload[h].prev, who)
    BY <1>1 DEF VerifyPhase2Step, ContributePhase2
  <2>2. upload[h].prev \in Seq(Circuit \cup Contribution) /\ upload[h].prev # <<>>
    BY <1>1 DEF Blob
  <2>3. QED BY <2>1, <2>2
<1>9. QED BY <1>1, <1>6, <1>7, <1>8 DEF Tip

(* Every step is one of the ledger's, or leaves it alone.                  *)
LEMMA LedgerStep ==
    ASSUME Typed, Typed', ChainSound, Authored, EntriesInTip, diskTr \in versions,
           NoneLost => ReceiptsKept, (NoneLost => ReceiptsKept)', NoneOverwritten => InOrder,
           [Next]_vars
    PROVE  [Book!LedgerNext]_(Book!ledgerVars)
<1> DEFINE Moves == [Book!LedgerNext]_(Book!ledgerVars)
<1>1. CASE ~NoneLost'
  BY <1>1 DEF Book!LedgerNext, Book!Lose
<1>2. SUFFICES ASSUME NoneLost' PROVE Moves
  BY <1>1
<1>3. /\ NoneLost /\ NoneOverwritten /\ diskTr # Torn /\ diskTr' # Torn
      /\ ReceiptsKept /\ ReceiptsKept' /\ InOrder
      /\ ~PowerFailure /\ \A c \in Circuit : StartFresh(c) => ~Readable(diskTr)
  BY <1>2, LossNotForgotten, FaultsNotForgotten DEF Typed, NoneLost
<1>4. /\ phase # "down" => ServedChain = Tip(tr)
      /\ phase' # "down" => ServedChain' = Tip(tr')
  BY DEF ServedChain, Tip, WantPrev
<1>5. ReceiptedChains = {r.new.sha256 : r \in receipts}
  BY DEF ReceiptedChains
<1>6. CASE Crash \/ BootFails
  <2>1. /\ phase # "down" /\ phase' = "down" /\ receipts' = receipts
        /\ diskTr' \in {diskTr, tr}
    BY <1>3, <1>6 DEF Crash, BootFails, Dies, Exited, TornTranscripts, WriteOutcomes, histVars
  <2>2. /\ IsPrefix(ServedChain', ServedChain)
        /\ \A b \in ReceiptedChains : IsPrefix(b, ServedChain')
    BY <1>3, <2>1, StopKeepsReceipts
  <2>3. QED
    BY <1>2, <1>3, <2>1, <2>2
       DEF Book!LedgerNext, Book!Stop, ReceiptedChains, Book!IsPrefix, IsPrefix
<1>7. ASSUME NEW c \in Circuit, Resume(c) PROVE Moves
  <2>1. /\ phase = "down" /\ phase' # "down" /\ receipts' = receipts
        /\ Readable(diskTr) /\ tr' = diskTr
    BY <1>7 DEF Resume, histVars
  <2>2. ServedChain = Tip(diskTr) /\ ServedChain' = Tip(diskTr)
    BY <1>4, <2>1 DEF ServedChain, Tip, WantPrev
  <2>3. Tip(diskTr) # <<>>
    BY <2>1, DocsAre, TipType DEF Blob
  <2>4. QED
    BY <1>2, <1>3, <2>1, <2>2, <2>3 DEF Book!LedgerNext, Book!GoOn
<1>8. ASSUME NEW c \in Circuit, StartFresh(c) PROVE Moves
  <2>1. /\ phase = "down" /\ phase' # "down" /\ receipts' = receipts
        /\ ~Readable(diskTr) /\ tr' = EmptyTranscript(c)
    BY <1>3, <1>8 DEF StartFresh, histVars
  <2>2. ServedChain = <<>> /\ ServedChain' = InitPhase2(c)
    BY <1>4, <2>1, TipOfFresh DEF ServedChain
  <2>3. QED
    BY <1>2, <1>3, <2>1, <2>2
       DEF Book!LedgerNext, Book!Open, Book!InitPhase2, InitPhase2
<1>9. ASSUME NEW h \in Handler, EntryAppended(h) PROVE Moves
  <2>1. phase' = phase /\ phase # "down" /\ receipts' = receipts
    BY <1>9 DEF EntryAppended, histVars, Typed, UploadOK, Live
  <2>2. VerifyPhase2Step(ServedChain, ServedChain')
    BY <1>4, <1>9, <2>1, AppendExtendsTip
  <2>3. QED
    BY <1>2, <1>3, <2>1, <2>2
       DEF Book!LedgerNext, Book!Record, Book!VerifyPhase2Step, VerifyPhase2Step,
           Book!ContributePhase2, ContributePhase2, Book!Contribution, Contribution
<1>10. ASSUME NEW h \in Handler, TranscriptSaved(h) PROVE Moves
  <2>1. phase' = phase /\ tr' = tr /\ receipts' = receipts \cup {LastMark(h)}
    BY <1>10 DEF TranscriptSaved, Receipted, LastMark, procVars
  <2>2. phase # "down" /\ LastMark(h).new.sha256 = Tip(tr) /\ Len(Tip(tr)) > 1
    BY <1>10, ReceiptIsForTip
  <2>3. ServedChain = Tip(tr) /\ ServedChain' = ServedChain
    BY <1>4, <2>1, <2>2
  <2> DEFINE m == LastMark(h)
  <2> HIDE DEF m
  <2>4. receipts' = receipts \cup {m} /\ m.new.sha256 = ServedChain
    BY <2>1, <2>2, <2>3 DEF m
  <2>5. {r.new.sha256 : r \in receipts'} = {r.new.sha256 : r \in receipts} \cup {ServedChain}
    BY <2>4
  <2>6. QED
    BY <1>2, <1>3, <2>1, <2>2, <2>3, <2>5 DEF Book!LedgerNext, Book!GiveReceipt
<1>11. ASSUME phase' = phase \/ (phase # "down" /\ phase' # "down"), tr' = tr,
              phase = "down" => diskTr' = diskTr, receipts' = receipts
       PROVE  Moves
  <2>1. ServedChain' = ServedChain
    BY <1>11 DEF ServedChain, Tip, WantPrev, Readable
  <2>2. (phase # "down") = (phase' # "down") /\ NoneLost = NoneLost'
    BY <1>2, <1>3, <1>11
  <2>3. QED
    BY <1>11, <2>1, <2>2 DEF Book!ledgerVars
<1>12. CASE \/ InitHeadSaved \/ InitTranscriptSaved \/ LobbyStep \/ TranscriptRead
            \/ \E s \in Session : HeadServed(s)
            \/ \E h \in Handler, s \in Session : ContributeBegin(h, s)
            \/ UNCHANGED vars
  <2>1. /\ phase' = phase \/ (phase # "down" /\ phase' # "down")
        /\ tr' = tr /\ receipts' = receipts /\ (phase = "down" => diskTr' = diskTr)
    BY <1>12 DEF InitHeadSaved, InitTranscriptSaved, LobbyStep, TranscriptRead, HeadServed,
         ContributeBegin, vars, seqVars, procVars, histVars, storeVars
  <2> HIDE DEF Moves
  <2>2. QED BY <1>11, <2>1
<1>13. ASSUME NEW h \in Handler,
              \/ \E d \in Draw :
                   UploadVerified(h, ContributePhase2(upload[h].prev, <<upload[h].sess, d>>))
              \/ UploadFails(h) \/ CommitRefused(h) \/ CommitBegin(h)
              \/ BlobSaved(h) \/ HeadSaved(h) \/ EntryRefused(h) \/ SaveFails(h)
       PROVE  Moves
  <2>1. /\ phase' = phase /\ tr' = tr /\ receipts' = receipts /\ upload[h].pc # "idle"
    BY <1>13 DEF UploadVerified, UploadFails, CommitRefused, CommitBegin, BlobSaved, HeadSaved,
         EntryRefused, SaveFails, procVars, histVars
  <2>2. phase # "down"
    BY <2>1 DEF Typed, UploadOK, Live
  <2> HIDE DEF Moves
  <2>3. QED BY <1>11, <2>1, <2>2
<1> HIDE DEF Moves
<1>14. QED
  BY <1>3, <1>6, <1>7, <1>8, <1>9, <1>10, <1>12, <1>13 DEF Next

(* The sequencer implements the ledger: served chains only grow, what a    *)
(* stop forgets nobody had a receipt for, and what is left goes on         *)
(* (sequencer.go:70, :408, transcript.go:25).                              *)
THEOREM SequencerKeepsLedger == Spec => KeepsLedger
<1> DEFINE Kept == NoneLost => ReceiptsKept
           Ordered == NoneOverwritten => InOrder
           Known == diskTr \in versions
<1>1. Spec => []Kept
  <2>1. Init => Kept
    BY NoFileIsNoContent DEF Init, StorageInit, ReceiptsKept, Readable, Live
  <2>2. Typed /\ Typed' /\ Authored /\ Known /\ Kept /\ [Next]_vars => Kept'
    BY ReceiptsKeptStep
  <2>3. Spec => []Known
    BY DiskIsAVersion
  <2> HIDE DEF Kept, Known
  <2>4. QED BY <2>1, <2>2, <2>3, SequencerTyped, SequencerAuthored, PTL DEF Spec
<1>2. Spec => []Ordered /\ []Known
  BY SequencerInOrder, DiskIsAVersion
<1>3. Init => Book!LedgerInit
  BY NoFileIsNoContent
     DEF Init, StorageInit, Book!LedgerInit, ServedChain, Readable, NoneLost, NoneOverwritten
<1>4. Typed /\ Typed' /\ ChainSound /\ Authored /\ EntriesInTip /\ Known /\ Kept /\ Kept'
      /\ Ordered /\ [Next]_vars => [Book!LedgerNext]_(Book!ledgerVars)
  BY LedgerStep
<1> HIDE DEF Kept, Ordered, Known
<1>5. QED
  BY <1>1, <1>2, <1>3, <1>4, SequencerTyped, SequencerChainSound, SequencerAuthored,
     SequencerEntriesInTip, PTL DEF Spec, KeepsLedger, Book!LedgerSpec

-----------------------------------------------------------------------------
(* The circuit *)

(* As long as no read has failed and the power has not: one circuit for    *)
(* the process, its transcript, and the transcript on disk.                *)
OneCircuit ==
    phase # "down" => /\ tr.circuit = circuitFP
                      /\ Readable(diskTr) => diskTr.circuit = circuitFP

LEMMA CircuitMoves ==
    ASSUME Typed, [Next]_vars
    PROVE  \/ phase' = "down"
           \/ \E c \in Circuit : Resume(c) \/ StartFresh(c)
           \/ phase # "down" /\ circuitFP' = circuitFP /\ tr'.circuit = tr.circuit
<1>1. CASE BootFails \/ Crash \/ PowerFailure
  BY <1>1 DEF BootFails, Crash, PowerFailure, Dies, Exited
<1>2. CASE \/ InitHeadSaved \/ InitTranscriptSaved \/ LobbyStep \/ TranscriptRead
           \/ \E s \in Session : HeadServed(s)
           \/ \E h \in Handler, s \in Session : ContributeBegin(h, s)
           \/ UNCHANGED vars
  BY <1>2 DEF InitHeadSaved, InitTranscriptSaved, LobbyStep, TranscriptRead, HeadServed,
       ContributeBegin, Serving, Live, vars, seqVars, procVars
<1>3. ASSUME NEW h \in Handler,
             \/ \E d \in Draw :
                  UploadVerified(h, ContributePhase2(upload[h].prev, <<upload[h].sess, d>>))
             \/ UploadFails(h) \/ CommitRefused(h) \/ CommitBegin(h)
             \/ BlobSaved(h) \/ HeadSaved(h) \/ TranscriptSaved(h)
             \/ EntryRefused(h) \/ SaveFails(h)
      PROVE phase # "down" /\ circuitFP' = circuitFP /\ tr' = tr
  <2>1. upload[h].pc # "idle" /\ circuitFP' = circuitFP /\ tr' = tr
    BY <1>3 DEF UploadVerified, UploadFails, CommitRefused, CommitBegin, BlobSaved, HeadSaved,
         TranscriptSaved, Receipted, EntryRefused, SaveFails, procVars
  <2>2. QED BY <2>1 DEF Typed, UploadOK, Live
<1>4. ASSUME NEW h \in Handler, EntryAppended(h)
      PROVE phase # "down" /\ circuitFP' = circuitFP /\ tr'.circuit = tr.circuit
  <2>1. upload[h].pc # "idle" /\ circuitFP' = circuitFP
    BY <1>4 DEF EntryAppended
  <2>2. \E es : tr' = [tr EXCEPT !.entries = es]
    BY <1>4 DEF EntryAppended, TranscriptAppend
  <2>3. tr'.circuit = tr.circuit
    BY <1>4, <2>2, EntryIsAppended DEF TranscriptDoc
  <2>4. QED BY <2>1, <2>3 DEF Typed, UploadOK, Live
<1>5. QED BY <1>1, <1>2, <1>3, <1>4 DEF Next

(* What is on disk is replaced by what is in memory, or torn.              *)
LEMMA DiskTranscriptStep ==
    ASSUME Typed, [Next]_vars, ~PowerFailure
    PROVE  diskTr' \in {diskTr, Torn} \/ (diskTr' = tr /\ phase # "down")
<1>0. \A h \in Handler : upload[h].pc # "idle" => phase # "down"
  BY DEF Typed, UploadOK, Live
<1>1. CASE InitTranscriptSaved \/ BootFails \/ Crash
  BY <1>0, <1>1 DEF InitTranscriptSaved, BootFails, Crash, TornTranscripts, WriteOutcomes
<1>2. CASE \/ InitHeadSaved \/ LobbyStep \/ TranscriptRead
           \/ \E c \in Circuit : Resume(c) \/ StartFresh(c)
           \/ \E s \in Session : HeadServed(s)
           \/ \E h \in Handler, s \in Session : ContributeBegin(h, s)
           \/ UNCHANGED vars
  BY <1>2 DEF InitHeadSaved, LobbyStep, TranscriptRead, Resume, StartFresh, HeadServed,
       ContributeBegin, vars, seqVars, storeVars
<1>3. ASSUME NEW h \in Handler, TranscriptSaved(h) \/ SaveFails(h)
      PROVE  diskTr' \in {diskTr, Torn} \/ (diskTr' = tr /\ phase # "down")
  BY <1>0, <1>3 DEF TranscriptSaved, Receipted, SaveFails, WriteOutcomes
<1>4. ASSUME NEW h \in Handler,
             \/ \E d \in Draw :
                  UploadVerified(h, ContributePhase2(upload[h].prev, <<upload[h].sess, d>>))
             \/ UploadFails(h) \/ CommitRefused(h) \/ CommitBegin(h)
             \/ BlobSaved(h) \/ EntryAppended(h) \/ HeadSaved(h) \/ EntryRefused(h)
      PROVE diskTr' = diskTr
  BY <1>4 DEF UploadVerified, UploadFails, CommitRefused, CommitBegin, BlobSaved,
       EntryAppended, HeadSaved, EntryRefused, storeVars
<1>5. QED BY <1>1, <1>2, <1>3, <1>4 DEF Next

LEMMA OneCircuitStep ==
    ASSUME Typed, OneCircuit, [Next]_vars, NoneOverwritten'
    PROVE  /\ OneCircuit'
           /\ Readable(diskTr) =>
                /\ Readable(diskTr') => diskTr'.circuit = diskTr.circuit
                /\ phase' # "down" => circuitFP' = diskTr.circuit
<1>0. ~PowerFailure /\ \A c \in Circuit : StartFresh(c) => ~Readable(diskTr)
  BY FaultsNotForgotten DEF Typed
<1>1. ASSUME NEW c \in Circuit, Resume(c)
      PROVE  diskTr' = diskTr /\ diskTr.circuit = c /\ circuitFP' = c /\ tr' = diskTr
  BY <1>1 DEF Resume, storeVars
<1>2. ASSUME NEW c \in Circuit, StartFresh(c)
      PROVE  diskTr' = diskTr /\ ~Readable(diskTr) /\ circuitFP' = c /\ tr'.circuit = c
  BY <1>0, <1>2 DEF StartFresh, storeVars, EmptyTranscript
<1>3. ~PowerFailure =>
        diskTr' \in {diskTr, Torn} \/ (diskTr' = tr /\ phase # "down")
  BY DiskTranscriptStep
<1>4. Readable(diskTr') =>
        diskTr' = diskTr \/ (phase # "down" /\ diskTr' = tr /\ tr.circuit = circuitFP)
  BY <1>0, <1>3 DEF Readable, OneCircuit
<1>5. CASE phase' = "down"
  BY <1>4, <1>5 DEF OneCircuit
<1>6. CASE phase # "down" /\ circuitFP' = circuitFP /\ tr'.circuit = tr.circuit
  BY <1>4, <1>6 DEF OneCircuit, Readable
<1>7. CASE \E c \in Circuit : Resume(c) \/ StartFresh(c)
  BY <1>1, <1>2, <1>7 DEF OneCircuit, Readable
<1>8. QED BY <1>5, <1>6, <1>7, CircuitMoves

LEMMA SequencerOneCircuit == Spec => [](NoneOverwritten => OneCircuit)
<1>1. Init => OneCircuit
  BY DEF Init, OneCircuit
<1>2. Typed /\ (NoneOverwritten => OneCircuit) /\ [Next]_vars => (NoneOverwritten => OneCircuit)'
  BY OneCircuitStep, FaultsNotForgotten DEF Typed
<1>3. QED BY <1>1, <1>2, SequencerTyped, PTL DEF Spec

(* With power failures, but nothing cut short: every transcript a power    *)
(* failure can bring back is of the circuit of the one on disk.            *)
VersionsAgree ==
    \A v \in versions : Readable(v) => Readable(diskTr) /\ v.circuit = diskTr.circuit

LEMMA OneCircuitStepAtomic ==
    ASSUME Typed, OneCircuit, VersionsAgree, diskTr \in versions, [Next]_vars,
           Torn \notin versions, Torn \notin versions', faults'.reads = 0
    PROVE  /\ OneCircuit' /\ VersionsAgree'
           /\ Readable(diskTr) =>
                /\ Readable(diskTr') => diskTr'.circuit = diskTr.circuit
                /\ phase' # "down" => circuitFP' = diskTr.circuit
<1>0. \A c \in Circuit : StartFresh(c) => ~Readable(diskTr)
  BY FaultsOnlyGrow DEF Typed
<1>1. ASSUME NEW c \in Circuit, Resume(c)
      PROVE  diskTr' = diskTr /\ diskTr.circuit = c /\ circuitFP' = c /\ tr' = diskTr
  BY <1>1 DEF Resume, storeVars
<1>2. ASSUME NEW c \in Circuit, StartFresh(c)
      PROVE  diskTr' = diskTr /\ ~Readable(diskTr) /\ circuitFP' = c /\ tr'.circuit = c
  BY <1>0, <1>2 DEF StartFresh, storeVars, EmptyTranscript
<1>3. tr # None => phase # "down" /\ Readable(tr)
  BY NoFileIsNoContent DEF Typed, MemoryOK, Readable
<1>4. \/ versions' = versions \cup {diskTr'}
      \/ PowerFailure /\ versions' = {diskTr'}
  BY VersionsStep
<1>5. diskTr' # Torn
  BY <1>4
<1>6. Readable(diskTr') => \/ Readable(diskTr) /\ diskTr'.circuit = diskTr.circuit
                           \/ tr # None /\ diskTr' = tr
  <2>1. diskTr' \in versions \cup {diskTr} \/ (tr # None /\ diskTr' = tr)
    BY <1>5, DiskTranscriptMoves
  <2>2. QED BY <2>1 DEF VersionsAgree
<1>7. Readable(diskTr') /\ Readable(diskTr) => diskTr'.circuit = diskTr.circuit
  BY <1>3, <1>6 DEF OneCircuit
<1>8. VersionsAgree'
  <2>1. CASE PowerFailure /\ versions' = {diskTr'}
    BY <2>1 DEF VersionsAgree
  <2>2. CASE ~PowerFailure /\ versions' = versions \cup {diskTr'}
    <3>1. diskTr' = diskTr \/ Readable(diskTr')
      BY <1>3, <1>5, <2>2, DiskTranscriptStep DEF Typed, MemoryOK
    <3>2. QED BY <1>7, <2>2, <3>1 DEF VersionsAgree
  <2>3. CASE PowerFailure /\ versions' # {diskTr'}
    BY <2>3 DEF PowerFailure
  <2>4. QED BY <1>4, <2>1, <2>2, <2>3
<1>9. Readable(diskTr') =>
        \/ Readable(diskTr) /\ diskTr'.circuit = diskTr.circuit
        \/ phase # "down" /\ diskTr'.circuit = circuitFP
  BY <1>3, <1>6 DEF OneCircuit
<1>10. CASE phase' = "down"
  BY <1>7, <1>8, <1>10 DEF OneCircuit
<1>11. CASE phase # "down" /\ circuitFP' = circuitFP /\ tr'.circuit = tr.circuit
  BY <1>7, <1>8, <1>9, <1>11 DEF OneCircuit
<1>12. CASE \E c \in Circuit : Resume(c) \/ StartFresh(c)
  BY <1>1, <1>2, <1>8, <1>12 DEF OneCircuit
<1>13. QED BY <1>10, <1>11, <1>12, CircuitMoves

(* A ceremony that has a transcript stays with its circuit: no restart,    *)
(* write or crash changes it (sequencer.go:74).  Over LocalStorage a power *)
(* failure can, by undoing the repair of a torn file; over a store with    *)
(* atomic puts it cannot either.                                           *)
THEOREM SequencerCircuitPinned ==
    ASSUME MaxPowerFailures = 0 \/ ~TornWrites
    PROVE  Spec => CircuitPinned
<1> DEFINE Kept == NoneOverwritten => OneCircuit
           Agreed == faults.reads = 0 => OneCircuit /\ VersionsAgree
           Known == diskTr \in versions
           Whole == Torn \notin versions
           Pinned == Readable(diskTr) /\ faults'.reads = 0 =>
                       /\ Readable(diskTr)' => diskTr'.circuit = diskTr.circuit
                       /\ phase' # "down" => circuitFP' = diskTr.circuit
<1>1. Spec => []Kept /\ []Known
  BY SequencerOneCircuit, DiskIsAVersion
<1>2. ASSUME MaxPowerFailures = 0 PROVE Typed /\ Typed' /\ Kept /\ [Next]_vars => Pinned
  <2> SUFFICES ASSUME Typed, Typed', Kept, [Next]_vars, faults'.reads = 0 PROVE Pinned
    OBVIOUS
  <2>1. faults'.power = 0
    BY <1>2 DEF Typed, FaultsOK
  <2>2. NoneOverwritten' /\ NoneOverwritten
    BY <2>1, FaultsNotForgotten DEF NoneOverwritten, Typed
  <2>3. QED BY <2>2, OneCircuitStep DEF Readable
<1>3. [Pinned]_vars <=> [Readable(diskTr) /\ faults'.reads = 0 =>
                           /\ Readable(diskTr)' => diskTr'.circuit = diskTr.circuit
                           /\ phase' # "down" => circuitFP' = diskTr.circuit]_vars
  OBVIOUS
<1>4. Init => Agreed
  BY NoFileIsNoContent DEF Init, StorageInit, OneCircuit, VersionsAgree, Readable
<1>5. Typed /\ Known /\ Whole /\ Whole' /\ Agreed /\ [Next]_vars => Agreed' /\ Pinned
  <2>1. Typed /\ [Next]_vars /\ faults'.reads = 0 => faults.reads = 0
    BY FaultsOnlyGrow DEF Typed
  <2>2. QED BY <2>1, OneCircuitStepAtomic DEF Readable
<1>6. ASSUME ~TornWrites PROVE Spec => []Whole
  BY <1>6, NothingCutShort
<1> HIDE DEF Kept, Agreed, Known, Whole, Pinned
<1>7. ASSUME MaxPowerFailures = 0 PROVE Spec => [][Pinned]_vars
  <2>1. Typed /\ Typed' /\ Kept /\ [Next]_vars => Pinned
    BY <1>2, <1>7
  <2>2. QED BY <1>1, <2>1, SequencerTyped, PTL DEF Spec
<1>8. ASSUME ~TornWrites PROVE Spec => [][Pinned]_vars
  <2>1. Spec => []Whole
    BY <1>6, <1>8
  <2>2. QED BY <1>1, <1>4, <1>5, <2>1, SequencerTyped, PTL DEF Spec
<1>9. Spec => [][Pinned]_vars
  BY <1>7, <1>8
<1>10. QED BY <1>9, <1>3, PTL DEF CircuitPinned
=============================================================================
