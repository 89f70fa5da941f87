---------------------------- MODULE CalmProofs ----------------------------
(***************************************************************************)
(* What holds within one life of the process, for every instance and any   *)
(* number of concurrent uploads: the head ends the transcript, does not    *)
(* move under its holder, published entries stay, and the archive is the   *)
(* chain.  Each theorem names the faults it excludes.                      *)
(***************************************************************************)
EXTENDS DurabilityProofs

Undisturbed == faults.crashes = 0

LEMMA CrashesNotForgotten ==
    ASSUME FaultsOK, [Next]_vars, Undisturbed'
    PROVE  Undisturbed /\ ~Crash /\ ~PowerFailure
<1>0. faults.crashes \in Nat
  BY FaultBounds DEF FaultsOK
<1>1. ~Crash
  <2> SUFFICES ASSUME Crash PROVE FALSE
    OBVIOUS
  <2>1. faults'.crashes = faults.crashes + 1
    BY DEF Crash, Count, FaultsOK
  <2>2. QED BY <1>0, <2>1 DEF Undisturbed
<1>2. ~PowerFailure
  <2> SUFFICES ASSUME PowerFailure PROVE FALSE
    OBVIOUS
  <2> DEFINE once == [faults EXCEPT !.crashes = @ + 1]
  <2>1. once.crashes = faults.crashes + 1 /\ DOMAIN once = DOMAIN faults
    BY DEF FaultsOK
  <2>2. faults' = [once EXCEPT !.power = @ + 1]
    BY DEF PowerFailure
  <2>3. "crashes" \in DOMAIN once
    BY <2>1 DEF FaultsOK
  <2> HIDE DEF once
  <2>4. faults'.crashes = faults.crashes + 1
    BY <2>1, <2>2, <2>3
  <2>5. QED BY <1>0, <2>4 DEF Undisturbed
<1>3. CASE BootFails \/ (\E h \in Handler : SaveFails(h)) \/ \E c \in Circuit : StartFresh(c)
  <2>1. Count("writes") \/ Count("reads") \/ faults' = faults
    BY <1>3 DEF BootFails, SaveFails, StartFresh
  <2>2. faults'.crashes = faults.crashes
    BY <2>1 DEF Count, FaultsOK
  <2>3. QED BY <1>1, <1>2, <2>2 DEF Undisturbed
<1>4. CASE \/ \E c \in Circuit : Resume(c)
           \/ InitHeadSaved \/ InitTranscriptSaved \/ LobbyStep \/ TranscriptRead
           \/ \E s \in Session : HeadServed(s)
           \/ \E h \in Handler, s \in Session : ContributeBegin(h, s)
           \/ UNCHANGED vars
  BY <1>1, <1>2, <1>4 DEF Resume, InitHeadSaved, InitTranscriptSaved, LobbyStep,
       TranscriptRead, HeadServed, ContributeBegin, vars, seqVars, Undisturbed
<1>5. ASSUME NEW h \in Handler,
             \/ \E d \in Draw :
                  UploadVerified(h, ContributePhase2(upload[h].prev, <<upload[h].sess, d>>))
             \/ UploadFails(h) \/ CommitRefused(h) \/ CommitBegin(h)
             \/ BlobSaved(h) \/ EntryAppended(h) \/ HeadSaved(h) \/ TranscriptSaved(h)
             \/ EntryRefused(h)
      PROVE faults' = faults
  BY <1>5 DEF UploadVerified, UploadFails, CommitRefused, CommitBegin, BlobSaved,
       EntryAppended, HeadSaved, TranscriptSaved, Receipted, EntryRefused
<1>6. QED BY <1>1, <1>2, <1>3, <1>4, <1>5 DEF Next, Undisturbed

(* A process that serves goes on serving, with a transcript that grows.    *)
LEMMA LifeGoesOn ==
    ASSUME Typed, Typed', [Next]_vars, Undisturbed', Live
    PROVE  Live' /\ (tr' = tr \/ \E h \in Handler : EntryAppended(h))
<1>0. ~Crash /\ ~PowerFailure
  BY CrashesNotForgotten DEF Typed
<1>1. ~(\E c \in Circuit : Resume(c) \/ StartFresh(c)) /\ ~InitHeadSaved /\ ~InitTranscriptSaved
      /\ ~BootFails
  BY DEF Resume, StartFresh, InitHeadSaved, InitTranscriptSaved, BootFails, Live
<1>2. CASE \/ LobbyStep \/ TranscriptRead
           \/ \E s \in Session : HeadServed(s)
           \/ \E h \in Handler, s \in Session : ContributeBegin(h, s)
           \/ UNCHANGED vars
  BY <1>2 DEF LobbyStep, TranscriptRead, HeadServed, ContributeBegin, vars, seqVars, procVars, Live
<1>3. ASSUME NEW h \in Handler,
             \/ \E d \in Draw :
                  UploadVerified(h, ContributePhase2(upload[h].prev, <<upload[h].sess, d>>))
             \/ UploadFails(h) \/ CommitRefused(h) \/ CommitBegin(h)
             \/ BlobSaved(h) \/ EntryAppended(h) \/ HeadSaved(h) \/ TranscriptSaved(h)
             \/ EntryRefused(h) \/ SaveFails(h)
      PROVE phase' = phase
  BY <1>3 DEF UploadVerified, UploadFails, CommitRefused, CommitBegin, BlobSaved, HeadSaved,
       EntryAppended, TranscriptSaved, Receipted, EntryRefused, SaveFails, procVars
<1>4. Live'
  BY <1>0, <1>1, <1>2, <1>3 DEF Next, Live
<1>5. tr' # None
  BY <1>4 DEF Typed, MemoryOK, Live
<1>6. QED BY <1>1, <1>4, <1>5, TranscriptMoves

-----------------------------------------------------------------------------
(* What was published *)

PublishedIsListed == Undisturbed => published = {} \/ (Live /\ published \subseteq Marks(tr))

LEMMA IndexIsPosition ==
    ASSUME NEW t \in TranscriptDoc, Sound(t)
    PROVE  \A p, q \in Marks(t) : p.index = q.index => p = q
<1>1. \A i \in DOMAIN t.entries : t.entries[i].index = i - 1 /\ i \in Nat
  BY DEF Sound, VerifyTranscript, TranscriptDoc
<1>2. ASSUME NEW i \in DOMAIN t.entries, NEW j \in DOMAIN t.entries,
             Mark(t.entries[i]).index = Mark(t.entries[j]).index
      PROVE  i = j
  BY <1>1, <1>2 DEF Mark
<1>3. QED BY <1>2 DEF Marks

(* Until the process dies, what GET /transcript has shown stays: entries   *)
(* are appended and numbered by their place (transcript.go:25).            *)
THEOREM SequencerPublishedOnce == Spec => [](Undisturbed => PublishedOnce)
<1>1. Init => PublishedIsListed
  BY DEF Init, PublishedIsListed
<1>2. Typed /\ Typed' /\ PublishedIsListed /\ [Next]_vars => PublishedIsListed'
  <2> SUFFICES ASSUME Typed, Typed', PublishedIsListed, [Next]_vars, Undisturbed',
                      published' # {}
               PROVE  Live' /\ published' \subseteq Marks(tr')
    BY DEF PublishedIsListed
  <2>1. Live /\ published' \subseteq Marks(tr)
    BY PublishedMoves, CrashesNotForgotten DEF PublishedIsListed, Typed
  <2>2. Live' /\ (tr' = tr \/ \E h \in Handler : EntryAppended(h))
    BY <2>1, LifeGoesOn
  <2>3. QED BY <2>1, <2>2, MarksOfAppend
<1>3. Typed /\ ChainSound /\ PublishedIsListed => (Undisturbed => PublishedOnce)
  <2> SUFFICES ASSUME Typed, ChainSound, PublishedIsListed, Undisturbed, published # {}
               PROVE  PublishedOnce
    BY DEF PublishedOnce
  <2>1. tr \in TranscriptDoc /\ Sound(tr) /\ published \subseteq Marks(tr)
    BY DEF PublishedIsListed, Typed, MemoryOK, ChainSound, Live
  <2>2. QED BY <2>1, IndexIsPosition DEF PublishedOnce
<1>4. QED BY <1>1, <1>2, <1>3, SequencerTyped, SequencerChainSound, PTL DEF Spec

-----------------------------------------------------------------------------
(* The head *)

(* No crash, and nothing on disk was overwritten.                          *)
Steady == Undisturbed /\ NoneOverwritten

(* HeadIsTip and what makes it inductive: it holds from the fresh start    *)
(* on, and of the files a fresh start leaves behind when it fails.         *)
AtTip ==
    /\ phase # "down" => Tip(tr) = head
    /\ phase = "down" /\ Readable(diskTr) => diskHead = Tip(diskTr)

LEMMA HeadMoves ==
    ASSUME [Next]_vars, phase # "down", phase' # "down"
    PROVE  (tr' = tr /\ head' = head) \/ \E h \in Handler : EntryAppended(h)
<1>1. CASE \/ \E c \in Circuit : Resume(c) \/ StartFresh(c)
           \/ BootFails \/ Crash \/ PowerFailure
  BY <1>1 DEF Resume, StartFresh, BootFails, Crash, PowerFailure, Dies, Exited
<1>2. CASE \/ InitHeadSaved \/ InitTranscriptSaved \/ LobbyStep \/ TranscriptRead
           \/ \E s \in Session : HeadServed(s)
           \/ \E h \in Handler, s \in Session : ContributeBegin(h, s)
           \/ UNCHANGED vars
  BY <1>2 DEF InitHeadSaved, InitTranscriptSaved, LobbyStep, TranscriptRead, HeadServed,
       ContributeBegin, vars, seqVars, procVars
<1>3. ASSUME NEW h \in Handler,
             \/ \E d \in Draw :
                  UploadVerified(h, ContributePhase2(upload[h].prev, <<upload[h].sess, d>>))
             \/ UploadFails(h) \/ CommitRefused(h) \/ CommitBegin(h)
             \/ BlobSaved(h) \/ HeadSaved(h) \/ TranscriptSaved(h)
             \/ EntryRefused(h) \/ SaveFails(h)
      PROVE tr' = tr /\ head' = head
  BY <1>3 DEF UploadVerified, UploadFails, CommitRefused, CommitBegin, BlobSaved, HeadSaved,
       TranscriptSaved, Receipted, EntryRefused, SaveFails, procVars
<1>4. QED BY <1>1, <1>2, <1>3 DEF Next

(* A process that is down can only be started.                             *)
LEMMA DownMoves ==
    ASSUME Typed, [Next]_vars, phase = "down"
    PROVE  \/ \E c \in Circuit : Resume(c) \/ StartFresh(c)
           \/ UNCHANGED <<phase, head, tr, diskHead, diskTr>>
<1>0. ~Live /\ \A h \in Handler : upload[h].pc = "idle"
  BY DEF Typed, UploadOK, Live
<1>1. ASSUME NEW h \in Handler,
             \/ \E d \in Draw :
                  UploadVerified(h, ContributePhase2(upload[h].prev, <<upload[h].sess, d>>))
             \/ UploadFails(h) \/ CommitRefused(h) \/ CommitBegin(h)
             \/ BlobSaved(h) \/ EntryAppended(h) \/ HeadSaved(h) \/ TranscriptSaved(h)
             \/ EntryRefused(h) \/ SaveFails(h)
      PROVE FALSE
  BY <1>0, <1>1 DEF UploadVerified, UploadFails, CommitRefused, CommitBegin, BlobSaved,
       EntryAppended, HeadSaved, TranscriptSaved, Receipted, EntryRefused, SaveFails
<1>2. CASE \/ InitHeadSaved \/ InitTranscriptSaved \/ LobbyStep \/ TranscriptRead
           \/ BootFails \/ Crash \/ PowerFailure
           \/ \E s \in Session : HeadServed(s)
           \/ \E h \in Handler, s \in Session : ContributeBegin(h, s)
  BY <1>0, <1>2 DEF InitHeadSaved, InitTranscriptSaved, LobbyStep, TranscriptRead, BootFails,
       Crash, PowerFailure, HeadServed, ContributeBegin, Serving
<1>3. CASE UNCHANGED vars
  BY <1>3 DEF vars, seqVars, procVars, storeVars
<1>4. QED BY <1>1, <1>2, <1>3 DEF Next

LEMMA TipAfterAppend ==
    ASSUME Typed, NEW h \in Handler, EntryAppended(h)
    PROVE  Tip(tr') = head'
<1>1. /\ tr \in TranscriptDoc /\ upload[h].sess \in Session /\ upload[h].next \in Blob
      /\ HashBlob(upload[h].prev) \in Hash
  BY SavingTypes DEF EntryAppended, Typed
<1>2. QED BY <1>1, TipOfAppend DEF EntryAppended

LEMMA AtTipStep ==
    ASSUME Typed, Typed', InOrder, AtTip, [Next]_vars, Steady'
    PROVE  AtTip'
<1>0. ~Crash /\ ~PowerFailure
  BY CrashesNotForgotten DEF Steady, Typed
<1>1. CASE phase = "down"
  <2>1. ASSUME NEW c \in Circuit, Resume(c) PROVE AtTip'
    BY <1>1, <2>1 DEF Resume, AtTip
  <2>2. ASSUME NEW c \in Circuit, StartFresh(c) PROVE AtTip'
    BY <2>2, TipOfFresh DEF StartFresh, AtTip
  <2>3. CASE UNCHANGED <<phase, head, tr, diskHead, diskTr>>
    BY <2>3 DEF AtTip
  <2>4. QED BY <1>1, <2>1, <2>2, <2>3, DownMoves
<1>2. CASE phase # "down" /\ phase' # "down"
  BY <1>2, HeadMoves, TipAfterAppend DEF AtTip
<1>3. CASE phase # "down" /\ phase' = "down"
  <2>1. BootFails
    <3>1. ASSUME NEW h \in Handler,
             \/ \E d \in Draw :
                  UploadVerified(h, ContributePhase2(upload[h].prev, <<upload[h].sess, d>>))
             \/ UploadFails(h) \/ CommitRefused(h) \/ CommitBegin(h)
             \/ BlobSaved(h) \/ EntryAppended(h) \/ HeadSaved(h) \/ TranscriptSaved(h)
             \/ EntryRefused(h) \/ SaveFails(h)
          PROVE FALSE
      BY <1>3, <3>1 DEF UploadVerified, UploadFails, CommitRefused, CommitBegin, BlobSaved,
           EntryAppended, HeadSaved, TranscriptSaved, Receipted, EntryRefused, SaveFails, procVars
    <3>2. QED BY <1>0, <1>3, <3>1 DEF Next, Resume, StartFresh, InitHeadSaved,
           InitTranscriptSaved, LobbyStep, TranscriptRead, HeadServed, ContributeBegin, vars,
           seqVars, procVars
  <2>2. /\ phase \in {"boot_head", "boot_transcript"}
        /\ ~Readable(diskTr) /\ Tip(tr) = head
        /\ phase = "boot_transcript" => diskHead = head
    BY <2>1 DEF BootFails, InOrder, BootInOrder, HeadFirst, WritingTranscript
  <2>3. Readable(diskTr') => diskTr' = tr /\ diskHead' = head
    BY <2>1, <2>2 DEF BootFails, WriteOutcomes, Readable
  <2>4. QED BY <1>3, <2>2, <2>3 DEF AtTip
<1>4. QED BY <1>1, <1>2, <1>3

LEMMA SequencerAtTip == Spec => [](Steady => AtTip)
<1> DEFINE Kept == Steady => AtTip
           Ordered == NoneOverwritten => InOrder
<1>1. Init => Kept
  BY DEF Init, StorageInit, AtTip, Readable
<1>2. Typed /\ Typed' /\ Ordered /\ Kept /\ [Next]_vars => Kept'
  <2>1. Typed /\ [Next]_vars /\ Steady' => Steady
    BY CrashesNotForgotten, FaultsNotForgotten DEF Steady, Typed
  <2>2. QED BY <2>1, AtTipStep DEF Steady
<1>3. Spec => []Ordered
  BY SequencerInOrder
<1> HIDE DEF Kept, Ordered
<1>4. Spec => []Kept
  BY <1>1, <1>2, <1>3, SequencerTyped, PTL DEF Spec
<1>5. QED BY <1>4 DEF Kept

LEMMA HeadEndsTranscript ==
    ASSUME Typed, AtTip, Live
    PROVE  HashBlob(head) = WantPrev(tr)
<1>1. tr \in TranscriptDoc /\ Tip(tr) = head
  BY DEF Typed, MemoryOK, AtTip, Live
<1>2. WantPrev(tr) \in Hash
  <2>1. tr.init \in Hash /\ tr.entries \in Seq(Entry)
    BY <1>1 DEF TranscriptDoc
  <2>2. tr.entries # <<>> => tr.entries[Len(tr.entries)] \in Entry
    BY <2>1
  <2>3. QED BY <2>1, <2>2 DEF WantPrev, Entry
<1>3. QED BY <1>1, <1>2 DEF Tip, Hash, HashBlob

(* Within one life of the process the head is what the transcript ends in, *)
(* also after failing writes: what a resume relies on.                     *)
THEOREM SequencerHeadIsTip == Spec => [](Steady => HeadIsTip)
<1>1. Typed /\ (Steady => AtTip) => (Steady => HeadIsTip)
  BY HeadEndsTranscript DEF HeadIsTip, Serving
<1>2. QED BY <1>1, SequencerTyped, SequencerAtTip, PTL

-----------------------------------------------------------------------------
(* The head and the holder of the slot *)

LEMMA QueueShrinks ==
    ASSUME NEW a, NEW q \in Seq(Session), PromoteLocked(a, q)
    PROVE  Range(queue') \subseteq Range(q)
<1>1. CASE q # <<>> /\ queue' = Tail(q)
  <2>1. \A i \in DOMAIN Tail(q) : Tail(q)[i] = q[i + 1] /\ i + 1 \in DOMAIN q
    BY <1>1
  <2>2. QED BY <1>1, <2>1 DEF Range
<1>2. CASE queue' = q
  BY <1>2
<1>3. QED BY <1>1, <1>2 DEF PromoteLocked

(* An admitted session that does not wait never waits again.               *)
LEMMA StaysOut ==
    ASSUME LobbyTypeOK, [LobbyNext]_lobbyVars,
           NEW s \in Session, Admitted(s), s \notin Range(queue)
    PROVE  Admitted(s)' /\ s \notin Range(queue')
<1>0. queue \in Seq(Session) /\ Admitted(s)'
  BY NobodyReturns DEF LobbyTypeOK
<1>1. ASSUME NEW k \in Challenge, NEW t \in Session, JoinAdmit(k, t)
      PROVE s \notin Range(queue')
  <2>1. t # s /\ PromoteLocked(active, Append(queue, t))
    BY <1>1 DEF JoinAdmit
  <2>2. Append(queue, t) \in Seq(Session)
        /\ Range(Append(queue, t)) \subseteq Range(queue) \cup {t}
    <3>1. /\ Append(queue, t) \in Seq(Session)
          /\ DOMAIN Append(queue, t) = 1..(Len(queue) + 1)
          /\ \A i \in 1..Len(queue) : Append(queue, t)[i] = queue[i] /\ i \in DOMAIN queue
          /\ Append(queue, t)[Len(queue) + 1] = t
      BY <1>0
    <3>2. \A i \in 1..(Len(queue) + 1) : i \in 1..Len(queue) \/ i = Len(queue) + 1
      BY <1>0
    <3>3. QED BY <3>1, <3>2 DEF Range
  <2>3. Range(queue') \subseteq Range(Append(queue, t))
    BY <2>1, <2>2, QueueShrinks
  <2>4. QED BY <2>1, <2>2, <2>3
<1>2. CASE Expire \/ \E t \in Session : Release(t)
  <2>1. PromoteLocked(None, queue)
    BY <1>2 DEF Expire, Release
  <2>2. QED BY <1>0, <2>1, QueueShrinks
<1>3. CASE LobbyRestart
  <2>1. queue' = <<>>
    BY <1>3 DEF LobbyRestart
  <2>2. QED BY <1>0, <2>1 DEF Range
<1>4. CASE \/ \E k \in Challenge : IssueChallenge(k) \/ ChallengeExpires(k)
                                   \/ JoinBegin(k) \/ JoinFails(k)
           \/ DeadlinePasses \/ Close \/ LoopStops \/ \E t \in Session : ExtendSlot(t)
           \/ UNCHANGED lobbyVars
  <2>1. queue' = queue
    BY <1>4 DEF IssueChallenge, ChallengeExpires, JoinBegin, JoinFails, DeadlinePasses, Close,
         LoopStops, ExtendSlot, lobbyVars, slotVars
  <2>2. QED BY <1>0, <2>1
<1>5. QED BY <1>0, <1>1, <1>2, <1>3, <1>4 DEF LobbyNext

(* Where an upload that runs after a step was before.                      *)
LEMMA UploadWasThere ==
    ASSUME Typed, [Next]_vars, NEW g \in Handler, upload'[g].pc # "idle"
    PROVE  \/ /\ upload[g].pc # "idle"
              /\ upload'[g].sess = upload[g].sess /\ upload'[g].prev = upload[g].prev
           \/ \E s \in Session : /\ ContributeBegin(g, s)
                                 /\ upload'[g].sess = s /\ upload'[g].prev = head
<1>0. upload \in [Handler -> UploadRecord]
  BY DEF Typed, UploadOK
<1>1. CASE Crash \/ PowerFailure
  BY <1>1 DEF Crash, PowerFailure, Dies, NoUpload
<1>2. CASE \/ \E c \in Circuit : Resume(c) \/ StartFresh(c)
           \/ InitHeadSaved \/ InitTranscriptSaved \/ BootFails \/ LobbyStep \/ TranscriptRead
           \/ \E s \in Session : HeadServed(s)
           \/ UNCHANGED vars
  BY <1>2 DEF Resume, StartFresh, InitHeadSaved, InitTranscriptSaved, BootFails, LobbyStep,
       TranscriptRead, HeadServed, vars, seqVars
<1>3. ASSUME NEW h \in Handler, NEW s \in Session, ContributeBegin(h, s)
      PROVE  \/ upload'[g] = upload[g]
             \/ g = h /\ upload'[g].sess = s /\ upload'[g].prev = head
  <2> DEFINE u == [pc |-> "receiving", sess |-> s, prev |-> head, next |-> None]
  <2>1. upload' = [upload EXCEPT ![h] = u] /\ u.sess = s /\ u.prev = head
    BY <1>3 DEF ContributeBegin
  <2> HIDE DEF u
  <2>2. QED BY <1>0, <2>1
<1>4. ASSUME NEW h \in Handler,
             \/ UploadFails(h) \/ CommitRefused(h) \/ TranscriptSaved(h)
             \/ EntryRefused(h) \/ SaveFails(h)
      PROVE  upload'[g] = upload[g]
  <2>1. upload' = [upload EXCEPT ![h] = NoUpload] /\ NoUpload.pc = "idle"
    BY <1>4 DEF UploadFails, CommitRefused, TranscriptSaved, Receipted, EntryRefused, SaveFails,
         NoUpload
  <2>2. QED BY <1>0, <2>1
<1>5. ASSUME NEW h \in Handler, NEW d \in Draw,
             UploadVerified(h, ContributePhase2(upload[h].prev, <<upload[h].sess, d>>))
      PROVE  \/ upload'[g] = upload[g]
             \/ /\ upload[g].pc # "idle"
                /\ upload'[g].sess = upload[g].sess /\ upload'[g].prev = upload[g].prev
  <2>1. PICK n : upload' = [upload EXCEPT ![h].pc = "verified", ![h].next = n]
    BY <1>5 DEF UploadVerified
  <2>2. upload[h].pc # "idle"
    BY <1>5 DEF UploadVerified
  <2>3. h # g => upload'[g] = upload[g]
    BY <1>0, <2>1
  <2>4. h = g => upload'[g].sess = upload[g].sess /\ upload'[g].prev = upload[g].prev
    BY <1>0, <2>1 DEF UploadRecord
  <2>5. QED BY <2>2, <2>3, <2>4
<1>6. ASSUME NEW h \in Handler, NEW x \in SavingStage, upload' = [upload EXCEPT ![h].pc = x]
      PROVE  upload'[g].sess = upload[g].sess /\ upload'[g].prev = upload[g].prev
  BY <1>0, <1>6 DEF UploadRecord
<1>7. ASSUME NEW h \in Handler,
             CommitBegin(h) \/ BlobSaved(h) \/ EntryAppended(h) \/ HeadSaved(h)
      PROVE  /\ upload[g].pc # "idle"
             /\ upload'[g].sess = upload[g].sess /\ upload'[g].prev = upload[g].prev
  <2>1. PICK x \in SavingStage : upload' = [upload EXCEPT ![h].pc = x]
    BY <1>7 DEF CommitBegin, BlobSaved, EntryAppended, HeadSaved, SavingStage
  <2>2. upload[h].pc # "idle"
    BY <1>7 DEF CommitBegin, BlobSaved, EntryAppended, HeadSaved
  <2>3. h # g => upload'[g] = upload[g]
    BY <1>0, <2>1
  <2>4. QED BY <1>6, <2>1, <2>2, <2>3
<1>8. QED BY <1>1, <1>2, <1>3, <1>4, <1>5, <1>7 DEF Next

(* Who has downloaded the head or is uploading has left the queue for good.*)
OutOfLine(s) == Admitted(s) /\ s \notin Range(queue)
ServedAreOut ==
    /\ \A s \in Session : served[s] # None => OutOfLine(s)
    /\ \A h \in Handler : upload[h].pc # "idle" => OutOfLine(upload[h].sess)

LEMMA ServedMoves ==
    ASSUME Typed, [Next]_vars, NEW s \in Session
    PROVE  \/ served'[s] = served[s]
           \/ active = s /\ served'[s] = head /\ UNCHANGED lobbyVars /\ head' = head
<1>0. served \in [Session -> Blob \cup {None}]
  BY DEF Typed, HistoryOK
<1>1. ASSUME NEW t \in Session, HeadServed(t)
      PROVE  \/ served'[s] = served[s]
             \/ active = s /\ served'[s] = head /\ UNCHANGED lobbyVars /\ head' = head
  BY <1>0, <1>1 DEF HeadServed, procVars
<1>2. CASE \/ \E c \in Circuit : Resume(c) \/ StartFresh(c)
           \/ InitHeadSaved \/ InitTranscriptSaved \/ BootFails \/ LobbyStep \/ TranscriptRead
           \/ \E h \in Handler, t \in Session : ContributeBegin(h, t)
           \/ Crash \/ PowerFailure \/ UNCHANGED vars
  BY <1>2 DEF Resume, StartFresh, InitHeadSaved, InitTranscriptSaved, BootFails, LobbyStep,
       TranscriptRead, ContributeBegin, Crash, PowerFailure, Dies, vars, seqVars, histVars
<1>3. ASSUME NEW h \in Handler,
             \/ \E d \in Draw :
                  UploadVerified(h, ContributePhase2(upload[h].prev, <<upload[h].sess, d>>))
             \/ UploadFails(h) \/ CommitRefused(h) \/ CommitBegin(h)
             \/ BlobSaved(h) \/ EntryAppended(h) \/ HeadSaved(h) \/ TranscriptSaved(h)
             \/ EntryRefused(h) \/ SaveFails(h)
      PROVE served' = served
  BY <1>3 DEF UploadVerified, UploadFails, CommitRefused, CommitBegin, BlobSaved, HeadSaved,
       EntryAppended, TranscriptSaved, Receipted, EntryRefused, SaveFails, histVars
<1>4. QED BY <1>1, <1>2, <1>3 DEF Next

LEMMA HolderIsOut ==
    ASSUME OneSeat, NEW s \in Session, active = s
    PROVE  OutOfLine(s)
BY PresentIsAdmitted DEF OneSeat, OutOfLine, Range, Present

LEMMA ServedAreOutStep ==
    ASSUME Typed, LobbyTypeOK, OneSeat, ServedAreOut, [Next]_vars
    PROVE  ServedAreOut'
<1>0. [LobbyNext]_lobbyVars
  BY LobbyImplemented DEF Typed, UploadOK, LobbySafe
<1>1. ASSUME NEW s \in Session, OutOfLine(s) PROVE OutOfLine(s)'
  BY <1>0, <1>1, StaysOut DEF OutOfLine
<1>2. ASSUME NEW s \in Session, served'[s] # None PROVE OutOfLine(s)'
  BY <1>1, <1>2, ServedMoves, HolderIsOut DEF ServedAreOut
<1>3. ASSUME NEW h \in Handler, upload'[h].pc # "idle" PROVE OutOfLine(upload[h].sess)'
  <2>1. PICK s \in Session : upload'[h].sess = s /\ OutOfLine(s)
    <3>1. CASE upload[h].pc # "idle" /\ upload'[h].sess = upload[h].sess
      BY <3>1 DEF Typed, UploadOK, ServedAreOut
    <3>2. ASSUME NEW s \in Session, ContributeBegin(h, s), upload'[h].sess = s
          PROVE  OutOfLine(s)
      BY <3>2, HolderIsOut DEF ContributeBegin, ExtendSlot
    <3>3. QED BY <1>3, <3>1, <3>2, UploadWasThere
  <2>2. OutOfLine(s)'
    BY <1>1, <2>1
  <2>3. QED BY <2>1, <2>2 DEF OutOfLine, Admitted
<1>4. QED BY <1>2, <1>3 DEF ServedAreOut

(* While no entry is being recorded, the head the holder downloaded and    *)
(* the one its uploads extend is the current one.                          *)
HeadIsHeld ==
    (\A h \in Handler : ~Recording(h)) /\ active # None =>
        /\ served[active] \in {None, head}
        /\ \A h \in Handler : upload[h].pc # "idle" /\ upload[h].sess = active
                                => upload[h].prev = head

(* Who is given the slot has just come or has waited.                      *)
LEMMA NewHolderIsNew ==
    ASSUME LobbyTypeOK, [LobbyNext]_lobbyVars, NEW s \in Session, active' = s, active # s
    PROVE  ~OutOfLine(s)
BY NobodyReturns DEF OutOfLine, Present, Waits

LEMMA AppendStarts ==
    ASSUME Typed, NEW h \in Handler, EntryAppended(h)
    PROVE  Recording(h)'
<1>1. upload' = [upload EXCEPT ![h].pc = "save_head"] /\ upload \in [Handler -> UploadRecord]
  BY DEF EntryAppended, Typed, UploadOK
<1>2. upload'[h].pc = "save_head"
  BY <1>1 DEF UploadRecord
<1>3. QED BY <1>2 DEF Recording

LEMMA HeadIsHeldStep ==
    ASSUME Typed, Typed', OneCommit, LobbyTypeOK, LobbyTypeOK', OneSeat,
           EmptyUnlessLive, EmptyUnlessLive', ServedAreOut, HeadIsHeld, [Next]_vars,
           faults'.writes = 0
    PROVE  HeadIsHeld'
<1> SUFFICES ASSUME \A h \in Handler : ~Recording(h)', active' # None
             PROVE  /\ served'[active'] \in {None, head'}
                    /\ \A h \in Handler : upload'[h].pc # "idle" /\ upload'[h].sess = active'
                                            => upload'[h].prev = head'
  BY DEF HeadIsHeld
<1>0. [LobbyNext]_lobbyVars
  BY LobbyImplemented DEF Typed, UploadOK, LobbySafe
<1>1. PICK a \in Session : a = active'
  BY DEF LobbyTypeOK
<1>2. phase' = "live" /\ ~Crash /\ ~PowerFailure
  BY DEF EmptyUnlessLive, Live, Crash, PowerFailure, Dies, Exited
<1>3. CASE active # a
  <2>1. ~OutOfLine(a)
    BY <1>0, <1>1, <1>3, NewHolderIsNew
  <2>2. served[a] = None /\ \A h \in Handler : upload[h].pc # "idle" => upload[h].sess # a
    BY <2>1 DEF ServedAreOut
  <2>3. served'[a] = None
    BY <1>1, <1>3, <2>2, ServedMoves
  <2>4. ASSUME NEW h \in Handler, NEW s \in Session, ContributeBegin(h, s) PROVE s # a
    BY <1>1, <1>3, <2>4 DEF ContributeBegin, ExtendSlot
  <2>5. ASSUME NEW h \in Handler, upload'[h].pc # "idle" PROVE upload'[h].sess # a
    BY <2>2, <2>4, <2>5, UploadWasThere
  <2>6. QED BY <1>1, <2>3, <2>5
<1>4. CASE active = a
  <2>1. Live
    BY <1>4, NoneIsNothing DEF EmptyUnlessLive
  <2>2. \A h \in Handler : ~Recording(h)
    <3> SUFFICES ASSUME NEW h \in Handler, Recording(h) PROVE FALSE
      OBVIOUS
    <3>1. ~SaveFails(h)
      BY WritesNotForgotten DEF Typed
    <3>2. ~TranscriptSaved(h)
      <4> SUFFICES ASSUME Release(a) PROVE FALSE
        BY <1>4 DEF TranscriptSaved, Release
      <4>1. QED BY <1>1, ReleasedIsGone DEF Present
    <3>3. QED BY <1>2, <3>1, <3>2, RecordingGoesOn
  <2>3. head' = head
    BY <1>2, <2>1, HeadMoves, AppendStarts DEF Live
  <2>4. /\ served[a] \in {None, head}
        /\ \A h \in Handler : upload[h].pc # "idle" /\ upload[h].sess = a
                                => upload[h].prev = head
    BY <1>4, <2>2, NoneIsNothing DEF HeadIsHeld
  <2>5. served'[a] \in {None, head}
    BY <2>4, ServedMoves
  <2>6. ASSUME NEW h \in Handler, upload'[h].pc # "idle", upload'[h].sess = a
        PROVE  upload'[h].prev = head
    BY <2>4, <2>6, UploadWasThere
  <2>7. QED BY <1>1, <2>3, <2>5, <2>6
<1>5. QED BY <1>3, <1>4

LEMMA SequencerHeadIsHeld == Spec => [](faults.writes = 0 => HeadIsHeld)
<1> DEFINE Kept == faults.writes = 0 => HeadIsHeld
           Seats == LobbyTypeOK /\ OneSeat
<1>1. Init => ServedAreOut /\ Kept
  BY DEF Init, LobbyInit, ServedAreOut, HeadIsHeld, NoUpload
<1>2. Spec => []Seats
  BY SequencerRefinesLobby, LobbyTypeCorrect, LobbyOneSeat, PTL
<1>3. Typed /\ Seats /\ ServedAreOut /\ [Next]_vars => ServedAreOut'
  BY ServedAreOutStep
<1>4. /\ Typed /\ Typed' /\ OneCommit /\ Seats /\ Seats' /\ EmptyUnlessLive /\ EmptyUnlessLive'
      /\ ServedAreOut /\ Kept /\ [Next]_vars
      => Kept'
  BY HeadIsHeldStep, WritesNotForgotten DEF Typed
<1> HIDE DEF Kept, Seats
<1>5. Spec => []Kept
  BY <1>1, <1>2, <1>3, <1>4, SequencerTyped, SequencerOneCommit, SequencerEmptyUnlessLive, PTL
     DEF Spec
<1>6. QED BY <1>5 DEF Kept

(* As long as every write succeeds, whatever expires, joins and crashes:   *)
(* the head does not move under the holder who downloaded it               *)
(* (sequencer.go:319).                                                     *)
THEOREM SequencerHeadStable == Spec => [](faults.writes = 0 => HeadStableWhileHeld)
<1>1. HeadIsHeld => HeadStableWhileHeld
  BY DEF HeadIsHeld, HeadStableWhileHeld, Serving, Saving, SavingStage, Recording
<1>2. (faults.writes = 0 => HeadIsHeld) => (faults.writes = 0 => HeadStableWhileHeld)
  BY <1>1
<1>3. QED BY <1>2, SequencerHeadIsHeld, PTL

-----------------------------------------------------------------------------
(* The archive *)

Flawless == Steady /\ faults.writes = 0

(* The files by the index and the hash that name them; the commits whose   *)
(* blob is archived and whose entry is not appended yet.                   *)
Filed(f) == [index |-> f.index, new |-> HashBlob(f.blob)]
FiledIn(files) == {Filed(f) : f \in files}
Appending == {h \in Handler : upload[h].pc = "append"}

ArchiveKept ==
    /\ ~Live => archive = {} /\ ~Readable(diskTr)
    /\ phase \in {"boot_head", "boot_transcript"} => Marks(tr) = {}
    /\ Live => /\ \A f \in archive : f.whole
               /\ FiledIn(archive) = Marks(tr) \cup {NextMark(h) : h \in Appending}

LEMMA MarksOfFresh == ASSUME NEW c \in Circuit PROVE Marks(EmptyTranscript(c)) = {}
BY DEF Marks, EmptyTranscript

LEMMA FiledByPut ==
    ASSUME NEW files, NEW i, NEW b
    PROVE  FiledIn(PutFile(files, i, b, TRUE)) =
             FiledIn(files) \cup {[index |-> i, new |-> HashBlob(b)]}
<1> DEFINE new == [index |-> i, blob |-> b, whole |-> TRUE]
           put == PutFile(files, i, b, TRUE)
           mark == [index |-> i, new |-> HashBlob(b)]
<1>1. Filed(new) = mark
  BY DEF Filed
<1>2. new \in put /\ \A f \in put : f = new \/ f \in files
  BY DEF PutFile
<1>3. \A f \in files : f \in put \/ Filed(f) = mark
  BY DEF PutFile, Filed
<1> HIDE DEF new, put, mark
<1>4. FiledIn(put) = FiledIn(files) \cup {mark}
  BY <1>1, <1>2, <1>3 DEF FiledIn
<1>5. QED BY <1>4 DEF put, mark

(* A step that archives nothing and appends nothing leaves the commits in  *)
(* between alone, as the append is never refused.                          *)
LEMMA AppendingStays ==
    ASSUME Typed, OneCommit, [Next]_vars, Live', faults'.writes = 0,
           \A h \in Handler : ~BlobSaved(h) /\ ~EntryAppended(h) /\ ~EntryRefused(h),
           ~Crash, ~PowerFailure
    PROVE  /\ archive' = archive /\ Appending' = Appending
           /\ \A h \in Appending : upload'[h] = upload[h]
<1>0. upload \in [Handler -> UploadRecord] /\ ~BootFails /\ \A h \in Handler : ~SaveFails(h)
  BY WritesNotForgotten DEF Typed, UploadOK
<1>1. CASE \/ \E c \in Circuit : Resume(c) \/ StartFresh(c)
           \/ InitHeadSaved \/ InitTranscriptSaved \/ LobbyStep \/ TranscriptRead
           \/ \E s \in Session : HeadServed(s)
           \/ UNCHANGED vars
  <2>1. archive' = archive /\ upload' = upload
    BY <1>1 DEF Resume, StartFresh, InitHeadSaved, InitTranscriptSaved, LobbyStep,
         TranscriptRead, HeadServed, vars, seqVars, storeVars
  <2>2. QED BY <2>1 DEF Appending
<1>2. ASSUME NEW h \in Handler, h \notin Appending, archive' = archive,
             \A g \in Handler : g # h => upload'[g] = upload[g],
             upload'[h].pc # "append"
      PROVE  /\ archive' = archive /\ Appending' = Appending
             /\ \A g \in Appending : upload'[g] = upload[g]
  BY <1>2 DEF Appending
<1>3. ASSUME NEW h \in Handler, NEW u, upload' = [upload EXCEPT ![h] = u], u.pc # "append",
             h \notin Appending, archive' = archive
      PROVE  /\ archive' = archive /\ Appending' = Appending
             /\ \A g \in Appending : upload'[g] = upload[g]
  <2>1. upload'[h] = u /\ \A g \in Handler : g # h => upload'[g] = upload[g]
    BY <1>0, <1>3
  <2>2. QED BY <1>2, <1>3, <2>1
<1>4. ASSUME NEW h \in Handler, NEW s \in Session, ContributeBegin(h, s)
      PROVE  /\ archive' = archive /\ Appending' = Appending
             /\ \A g \in Appending : upload'[g] = upload[g]
  <2> DEFINE u == [pc |-> "receiving", sess |-> s, prev |-> head, next |-> None]
  <2>1. upload' = [upload EXCEPT ![h] = u] /\ u.pc # "append" /\ h \notin Appending
        /\ archive' = archive
    BY <1>4 DEF ContributeBegin, Appending, storeVars
  <2> HIDE DEF u
  <2>2. QED BY <1>3, <2>1
<1>5. ASSUME NEW h \in Handler, UploadFails(h) \/ CommitRefused(h) \/ TranscriptSaved(h)
      PROVE  /\ archive' = archive /\ Appending' = Appending
             /\ \A g \in Appending : upload'[g] = upload[g]
  <2>1. /\ upload' = [upload EXCEPT ![h] = NoUpload] /\ NoUpload.pc # "append"
        /\ h \notin Appending /\ archive' = archive
    BY <1>5 DEF UploadFails, CommitRefused, TranscriptSaved, Receipted, NoUpload, Appending,
         storeVars
  <2>2. QED BY <1>3, <2>1
<1>6. ASSUME NEW h \in Handler, CommitBegin(h) \/ HeadSaved(h)
      PROVE  /\ archive' = archive /\ Appending' = Appending
             /\ \A g \in Appending : upload'[g] = upload[g]
  <2>1. PICK x \in {"save_blob", "save_transcript"} : upload' = [upload EXCEPT ![h].pc = x]
    BY <1>6 DEF CommitBegin, HeadSaved
  <2>2. h \notin Appending /\ archive' = archive
    BY <1>6 DEF CommitBegin, HeadSaved, Appending, storeVars
  <2>3. upload'[h].pc = x /\ \A g \in Handler : g # h => upload'[g] = upload[g]
    BY <1>0, <2>1 DEF UploadRecord
  <2>4. QED BY <1>2, <2>1, <2>2, <2>3
<1>7. ASSUME NEW h \in Handler, NEW d \in Draw,
             UploadVerified(h, ContributePhase2(upload[h].prev, <<upload[h].sess, d>>))
      PROVE  /\ archive' = archive /\ Appending' = Appending
             /\ \A g \in Appending : upload'[g] = upload[g]
  <2>1. PICK n : upload' = [upload EXCEPT ![h].pc = "verified", ![h].next = n]
    BY <1>7 DEF UploadVerified
  <2>2. h \notin Appending /\ archive' = archive
    BY <1>7 DEF UploadVerified, Appending, storeVars
  <2>3. upload'[h].pc = "verified" /\ \A g \in Handler : g # h => upload'[g] = upload[g]
    BY <1>0, <2>1 DEF UploadRecord
  <2>4. QED BY <1>2, <2>2, <2>3
<1>8. QED BY <1>0, <1>1, <1>4, <1>5, <1>6, <1>7 DEF Next

LEMMA ArchiveKeptStep ==
    ASSUME Typed, Typed', OneCommit, AtTip, HeadIsHeld, ArchiveKept, [Next]_vars, Flawless'
    PROVE  ArchiveKept'
<1>0. /\ ~Crash /\ ~PowerFailure /\ ~BootFails
      /\ upload \in [Handler -> UploadRecord]
      /\ \A h \in Handler : upload[h].pc # "idle" => Live
  BY CrashesNotForgotten, WritesNotForgotten DEF Flawless, Steady, Typed, UploadOK
<1>1. CASE ~Live
  <2>0. archive = {} /\ ~Readable(diskTr) /\ Appending = {}
    BY <1>0, <1>1 DEF ArchiveKept, Appending
  <2>1. ASSUME NEW c \in Circuit, StartFresh(c) PROVE ArchiveKept'
    <3>1. /\ phase' = "boot_head" /\ archive' = archive /\ diskTr' = diskTr
          /\ tr' = EmptyTranscript(c)
      BY <2>1 DEF StartFresh, storeVars
    <3>2. QED BY <2>0, <3>1, MarksOfFresh DEF ArchiveKept, Live, Readable, Marks
  <2>2. CASE InitHeadSaved
    <3>1. /\ phase' = "boot_transcript" /\ archive' = archive /\ diskTr' = diskTr /\ tr' = tr
          /\ phase = "boot_head"
      BY <2>2 DEF InitHeadSaved
    <3>2. QED BY <2>0, <3>1 DEF ArchiveKept, Live, Readable, Marks
  <2>3. CASE InitTranscriptSaved
    <3>1. /\ phase' = "live" /\ archive' = archive /\ tr' = tr /\ upload' = upload
          /\ phase = "boot_transcript"
      BY <2>3 DEF InitTranscriptSaved
    <3>2. FiledIn(archive') = {} /\ Appending' = {} /\ Marks(tr') = {}
      BY <2>0, <3>1 DEF ArchiveKept, FiledIn, Appending, Marks
    <3>3. {NextMark(h) : h \in Appending}' = {}
      BY <3>2
    <3>4. QED BY <2>0, <3>1, <3>2, <3>3 DEF ArchiveKept, Live
  <2>4. CASE UNCHANGED vars
    <3>1. UNCHANGED <<phase, archive, diskTr, tr>>
      BY <2>4 DEF vars, seqVars, procVars, storeVars
    <3>2. QED BY <1>1, <3>1 DEF ArchiveKept, Live, Readable, Marks
  <2>5. ASSUME NEW h \in Handler,
             \/ \E d \in Draw :
                  UploadVerified(h, ContributePhase2(upload[h].prev, <<upload[h].sess, d>>))
             \/ UploadFails(h) \/ CommitRefused(h) \/ CommitBegin(h)
             \/ BlobSaved(h) \/ EntryAppended(h) \/ HeadSaved(h) \/ TranscriptSaved(h)
             \/ EntryRefused(h) \/ SaveFails(h)
        PROVE FALSE
    BY <1>0, <1>1, <2>5 DEF UploadVerified, UploadFails, CommitRefused, CommitBegin, BlobSaved,
         EntryAppended, HeadSaved, TranscriptSaved, Receipted, EntryRefused, SaveFails
  <2>6. ~(LobbyStep \/ TranscriptRead \/ (\E s \in Session : HeadServed(s))
          \/ (\E h \in Handler, s \in Session : ContributeBegin(h, s))
          \/ \E c \in Circuit : Resume(c))
    BY <1>1, <2>0 DEF LobbyStep, TranscriptRead, HeadServed, ContributeBegin, Serving, Resume
  <2>7. QED BY <1>0, <2>1, <2>2, <2>3, <2>4, <2>5, <2>6 DEF Next
<1>2. CASE Live
  <2>1. Live' /\ (tr' = tr \/ \E h \in Handler : EntryAppended(h))
    BY <1>2, LifeGoesOn DEF Flawless, Steady
  <2>2. /\ \A f \in archive : f.whole
        /\ FiledIn(archive) = Marks(tr) \cup {NextMark(h) : h \in Appending}
    BY <1>2 DEF ArchiveKept
  <2>3. \A g, h \in Handler : Saving(g) /\ Saving(h) => g = h
    BY DEF OneCommit
  <2>4. ASSUME NEW h \in Handler, BlobSaved(h) PROVE ArchiveKept'
    <3>1. /\ archive' = PutFile(archive, TranscriptLen(tr), upload[h].next, TRUE)
          /\ tr' = tr /\ upload' = [upload EXCEPT ![h].pc = "append"] /\ Saving(h)
          /\ h \notin Appending
      BY <2>4 DEF BlobSaved, procVars, Saving, SavingStage, Appending
    <3>2. upload'[h].pc = "append" /\ upload'[h].next = upload[h].next
          /\ \A g \in Handler : g # h => upload'[g] = upload[g]
      BY <1>0, <3>1 DEF UploadRecord
    <3>3. Appending = {} /\ Appending' = {h}
      BY <2>3, <3>1, <3>2 DEF Appending, Saving, SavingStage
    <3>4. FiledIn(archive') = Marks(tr) \cup {NextMark(h)}
      <4>1. FiledIn(archive) = Marks(tr)
        BY <2>2, <3>3
      <4>2. FiledIn(archive') = FiledIn(archive) \cup {NextMark(h)}
        BY <3>1, FiledByPut DEF NextMark
      <4>3. QED BY <4>1, <4>2
    <3>5. NextMark(h)' = NextMark(h)
      BY <3>1, <3>2 DEF NextMark
    <3>6. {NextMark(g) : g \in Appending}' = {NextMark(h)}
      BY <3>3, <3>5
    <3>7. \A f \in archive' : f.whole
      BY <2>2, <3>1 DEF PutFile
    <3>8. Marks(tr') = Marks(tr)
      BY <3>1
    <3>9. QED BY <2>1, <3>4, <3>6, <3>7, <3>8 DEF ArchiveKept, Live
  <2>5. ASSUME NEW h \in Handler, EntryAppended(h) PROVE ArchiveKept'
    <3>1. /\ archive' = archive /\ upload' = [upload EXCEPT ![h].pc = "save_head"]
          /\ Saving(h) /\ h \in Appending
      BY <2>5 DEF EntryAppended, storeVars, Saving, SavingStage, Appending
    <3>2. upload'[h].pc = "save_head" /\ \A g \in Handler : g # h => upload'[g] = upload[g]
      BY <1>0, <3>1 DEF UploadRecord
    <3>3. Appending = {h} /\ Appending' = {}
      BY <2>3, <3>1, <3>2 DEF Appending, Saving, SavingStage
    <3>4. FiledIn(archive') = Marks(tr')
      BY <2>2, <2>5, <3>1, <3>3, MarksOfAppend
    <3>5. {NextMark(g) : g \in Appending}' = {}
      BY <3>3
    <3>6. QED BY <2>1, <2>2, <3>1, <3>4, <3>5 DEF ArchiveKept, Live
  <2>6. ASSUME NEW h \in Handler, EntryRefused(h) PROVE FALSE
    <3>1. /\ Saving(h) /\ ~Recording(h) /\ upload[h].pc # "idle"
          /\ ~AppendAllowed(tr, HashBlob(upload[h].prev))
      BY <2>6 DEF EntryRefused, Saving, SavingStage, Recording
    <3>2. active = upload[h].sess /\ active # None
      BY <3>1, NoneIsNothing DEF OneCommit, Typed, UploadOK
    <3>3. \A g \in Handler : ~Recording(g)
      BY <2>3, <3>1 DEF Recording, Saving, SavingStage
    <3>4. upload[h].prev = head
      BY <3>1, <3>2, <3>3 DEF HeadIsHeld
    <3>5. HashBlob(head) = WantPrev(tr)
      BY <1>2, HeadEndsTranscript
    <3>6. QED BY <3>1, <3>4, <3>5 DEF AppendAllowed
  <2>7. CASE \A h \in Handler : ~BlobSaved(h) /\ ~EntryAppended(h)
    <3>1. /\ archive' = archive /\ Appending' = Appending
          /\ \A h \in Appending : upload'[h] = upload[h]
      BY <1>0, <2>1, <2>6, <2>7, AppendingStays DEF Flawless
    <3>2. tr' = tr
      BY <2>1, <2>7
    <3>3. {NextMark(h) : h \in Appending}' = {NextMark(h) : h \in Appending}
      BY <3>1, <3>2 DEF NextMark
    <3>4. QED BY <2>1, <2>2, <3>1, <3>2, <3>3 DEF ArchiveKept, Live
  <2>8. QED BY <2>4, <2>5, <2>7
<1>3. QED BY <1>1, <1>2

(* In a ceremony without a crash or a failing write the archive is exactly *)
(* the chain the transcript lists, whatever uploads were overtaken,        *)
(* refused or sent twice (storage.go:20).                                  *)
THEOREM SequencerArchiveIsChain == Spec => [](Flawless => ArchiveIsChain)
<1> DEFINE Kept == Flawless => ArchiveKept
           Tipped == Steady => AtTip
           Held == faults.writes = 0 => HeadIsHeld
<1>1. Init => Kept
  BY DEF Init, StorageInit, ArchiveKept, Live, Readable
<1>2. Typed /\ Typed' /\ OneCommit /\ Tipped /\ Held /\ Kept /\ [Next]_vars => Kept'
  <2>1. Typed /\ [Next]_vars /\ Flawless' => Flawless
    BY CrashesNotForgotten, FaultsNotForgotten, WritesNotForgotten DEF Flawless, Steady, Typed
  <2>2. QED BY <2>1, ArchiveKeptStep DEF Flawless
<1>3. Typed /\ Kept => (Flawless => ArchiveIsChain)
  <2> SUFFICES ASSUME ArchiveKept, Serving PROVE
                 /\ LoadChainWorks
                 /\ LoadChainIndexed = {<<tr.entries[i].index, tr.entries[i].new>> :
                                          i \in DOMAIN tr.entries}
    BY DEF ArchiveIsChain
  <2>1. Live /\ Appending = {}
    BY DEF Serving, Appending, Saving, SavingStage
  <2>2. LoadChainWorks /\ FiledIn(archive) = Marks(tr)
    BY <2>1 DEF ArchiveKept, LoadChainWorks
  <2> DEFINE Pair(m) == <<m.index, m.new>>
  <2>3. /\ \A f \in archive : Pair(Filed(f)) = <<f.index, HashBlob(f.blob)>>
        /\ \A e : Pair(Mark(e)) = <<e.index, e.new>>
    BY DEF Filed, Mark
  <2> HIDE DEF Pair
  <2>4. LoadChainIndexed = {Pair(m) : m \in FiledIn(archive)}
    BY <2>3 DEF LoadChainIndexed, FiledIn
  <2>5. {Pair(m) : m \in Marks(tr)} =
          {<<tr.entries[i].index, tr.entries[i].new>> : i \in DOMAIN tr.entries}
    BY <2>3 DEF Marks
  <2>6. QED BY <2>2, <2>4, <2>5
<1>4. Spec => []Tipped /\ []Held
  BY SequencerAtTip, SequencerHeadIsHeld
<1> HIDE DEF Kept, Tipped, Held
<1>5. QED BY <1>1, <1>2, <1>3, <1>4, SequencerTyped, SequencerOneCommit, PTL DEF Spec

-----------------------------------------------------------------------------
(* A head that is ahead of the transcript *)

(* Every upload then extends a head the transcript does not end in.        *)
UploadsRefused ==
    Tip(tr) # head =>
        \A h \in Handler : upload[h].pc # "idle" =>
            upload[h].prev = head /\ upload[h].pc \notin {"save_head", "save_transcript"}

LEMMA NothingAppended ==
    ASSUME Typed, UploadsRefused, Tip(tr) # head, NEW h \in Handler
    PROVE  ~EntryAppended(h)
<1> SUFFICES ASSUME EntryAppended(h) PROVE FALSE
  OBVIOUS
<1>1. upload[h].pc = "append" /\ HashBlob(upload[h].prev) = WantPrev(tr)
  BY DEF EntryAppended, AppendAllowed
<1>2. upload[h].prev = head
  BY <1>1 DEF UploadsRefused
<1>3. HashBlob(head).sha256 = head
  BY DEF HashBlob
<1>4. QED BY <1>1, <1>2, <1>3 DEF Tip

LEMMA UploadsRefusedStep ==
    ASSUME Typed, Typed', UploadsRefused, [Next]_vars PROVE UploadsRefused'
<1> SUFFICES ASSUME Tip(tr') # head', NEW g \in Handler, upload'[g].pc # "idle"
             PROVE  /\ upload'[g].prev = head'
                    /\ upload'[g].pc \notin {"save_head", "save_transcript"}
  BY DEF UploadsRefused
<1>1. CASE /\ upload[g].pc # "idle"
           /\ upload'[g].sess = upload[g].sess /\ upload'[g].prev = upload[g].prev
  <2>1. phase # "down" /\ phase' # "down"
    BY <1>1 DEF Typed, UploadOK, Live
  <2>2. \A h \in Handler : ~EntryAppended(h)
    BY TipAfterAppend
  <2>3. tr' = tr /\ head' = head
    BY <2>1, <2>2, HeadMoves
  <2>4. upload[g].prev = head /\ upload[g].pc \notin {"save_head", "save_transcript"}
    BY <1>1, <2>3 DEF UploadsRefused
  <2>5. ~HeadSaved(g)
    BY <2>4 DEF HeadSaved
  <2>6. upload'[g].pc \notin {"save_head", "save_transcript"}
    BY <2>2, <2>4, <2>5, UploadComesFrom
  <2>7. QED BY <1>1, <2>3, <2>4, <2>6
<1>2. ASSUME NEW s \in Session, ContributeBegin(g, s), upload'[g].prev = head
      PROVE  upload'[g].prev = head' /\ upload'[g].pc = "receiving"
  <2> DEFINE u == [pc |-> "receiving", sess |-> s, prev |-> head, next |-> None]
  <2>1. upload' = [upload EXCEPT ![g] = u] /\ u.pc = "receiving" /\ head' = head
    BY <1>2 DEF ContributeBegin, procVars
  <2> HIDE DEF u
  <2>2. QED BY <1>2, <2>1 DEF Typed, UploadOK
<1>3. QED BY <1>1, <1>2, UploadWasThere

(* A serving process that does not die and saves neither head nor          *)
(* transcript changes neither them nor the receipts.                       *)
LEMMA OnlySavesChange ==
    ASSUME [Next]_vars, Live, ~Crash, ~PowerFailure,
           \A h \in Handler : /\ ~EntryAppended(h)
                              /\ upload[h].pc \notin {"save_head", "save_transcript"}
    PROVE  UNCHANGED <<phase, head, tr, diskHead, diskTr, receipts>>
<1>1. ~(\E c \in Circuit : Resume(c) \/ StartFresh(c)) /\ ~InitHeadSaved /\ ~InitTranscriptSaved
      /\ ~BootFails
  BY DEF Resume, StartFresh, InitHeadSaved, InitTranscriptSaved, BootFails, Live
<1>2. CASE \/ LobbyStep \/ TranscriptRead
           \/ \E s \in Session : HeadServed(s)
           \/ \E h \in Handler, s \in Session : ContributeBegin(h, s)
           \/ UNCHANGED vars
  BY <1>2 DEF LobbyStep, TranscriptRead, HeadServed, ContributeBegin, vars, seqVars, procVars,
       histVars, storeVars
<1>3. ASSUME NEW h \in Handler,
             \/ \E d \in Draw :
                  UploadVerified(h, ContributePhase2(upload[h].prev, <<upload[h].sess, d>>))
             \/ UploadFails(h) \/ CommitRefused(h) \/ CommitBegin(h)
             \/ BlobSaved(h) \/ HeadSaved(h) \/ TranscriptSaved(h)
             \/ EntryRefused(h) \/ SaveFails(h)
      PROVE UNCHANGED <<phase, head, tr, diskHead, diskTr, receipts>>
  BY <1>3 DEF UploadVerified, UploadFails, CommitRefused, CommitBegin, BlobSaved, HeadSaved,
       TranscriptSaved, Receipted, EntryRefused, SaveFails, procVars, histVars, storeVars
<1>4. QED BY <1>1, <1>2, <1>3 DEF Next

(* What a crash or a failed write between SaveHead and SaveTranscript      *)
(* leaves: both files can be read, and the head is not what the            *)
(* transcript ends in.                                                     *)
Stuck ==
    /\ Readable(diskTr) /\ Readable(diskHead) /\ Tip(diskTr) # diskHead
    /\ phase = "down" \/ (Live /\ tr = diskTr /\ head = diskHead)

LEMMA StuckStep ==
    ASSUME Typed, UploadsRefused, Stuck, [Next]_vars,
           faults'.reads = faults.reads, faults'.power = faults.power
    PROVE  Stuck' /\ UNCHANGED <<diskHead, diskTr, receipts>>
<1>0. ~PowerFailure /\ \A c \in Circuit : ~StartFresh(c)
  BY FaultsOnlyGrow DEF Typed, Stuck
<1>1. CASE phase = "down"
  <2>1. \A h \in Handler : upload[h].pc = "idle"
    BY <1>1 DEF Typed, UploadOK, Live
  <2>2. ASSUME NEW c \in Circuit, Resume(c)
        PROVE  Stuck' /\ UNCHANGED <<diskHead, diskTr, receipts>>
    BY <2>2 DEF Resume, Stuck, Live, histVars, storeVars
  <2>3. receipts' = receipts
    <3>1. ASSUME NEW h \in Handler, TranscriptSaved(h) PROVE FALSE
      BY <2>1, <3>1 DEF TranscriptSaved, Receipted
    <3>2. QED BY <3>1, ReceiptsMove
  <2>4. CASE UNCHANGED <<phase, head, tr, diskHead, diskTr>>
    BY <2>3, <2>4 DEF Stuck, Live
  <2>5. QED BY <1>0, <1>1, <2>2, <2>4, DownMoves
<1>2. CASE Live /\ tr = diskTr /\ head = diskHead
  <2>1. \A h \in Handler : /\ ~EntryAppended(h)
                           /\ upload[h].pc \notin {"save_head", "save_transcript"}
    BY <1>2, NothingAppended DEF UploadsRefused, Stuck
  <2>2. CASE Crash
    <3>1. ~WritingHead /\ ~WritingTranscript
      BY <1>2, <2>1 DEF WritingHead, WritingTranscript, Live
    <3>2. UNCHANGED <<diskHead, diskTr, receipts>> /\ phase' = "down"
      BY <2>2, <3>1 DEF Crash, Dies, Exited, TornTranscripts, histVars
    <3>3. QED BY <3>2 DEF Stuck
  <2>3. CASE ~Crash
    BY <1>0, <1>2, <2>1, <2>3, OnlySavesChange DEF Stuck, Live
  <2>4. QED BY <2>2, <2>3
<1>3. QED BY <1>1, <1>2 DEF Stuck

(* A ceremony whose head got ahead of its transcript accepts nothing ever  *)
(* again: no upload is appended, no receipt written, and every restart     *)
(* resumes the same two files, unless a read fails or the power does (the  *)
(* 500 of sequencer.go:393 for every participant from then on).            *)
THEOREM SequencerStuckForGood ==
    Spec => [][Stuck /\ faults'.reads = faults.reads /\ faults'.power = faults.power
               => Stuck' /\ UNCHANGED <<diskHead, diskTr, receipts>>]_vars
<1> DEFINE Stays == Stuck /\ faults'.reads = faults.reads /\ faults'.power = faults.power
                    => Stuck' /\ UNCHANGED <<diskHead, diskTr, receipts>>
<1>1. Init => UploadsRefused
  BY DEF Init, NoUpload, UploadsRefused
<1>2. Typed /\ Typed' /\ UploadsRefused /\ [Next]_vars => UploadsRefused'
  BY UploadsRefusedStep
<1>3. Typed /\ UploadsRefused /\ [Next]_vars => Stays
  BY StuckStep
<1>4. [Stays]_vars <=> [Stuck /\ faults'.reads = faults.reads /\ faults'.power = faults.power
                         => Stuck' /\ UNCHANGED <<diskHead, diskTr, receipts>>]_vars
  OBVIOUS
<1> HIDE DEF Stays
<1>5. Spec => [][Stays]_vars
  BY <1>1, <1>2, <1>3, SequencerTyped, PTL DEF Spec
<1>6. QED BY <1>4, <1>5, PTL
=============================================================================
