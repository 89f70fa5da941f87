--------------------------- MODULE CeremonyProofs ---------------------------
(***************************************************************************)
(* The participants and the sequencer together, for every instance: the    *)
(* ceremony is an implementation of the sequencer's specification, so that *)
(* what is proved of the sequencer holds of it, and what participants can  *)
(* rely on: they are recorded once, their receipts are true, and they      *)
(* contribute to the circuit they expect.                                  *)
(***************************************************************************)
EXTENDS Ceremony, CalmProofs

-----------------------------------------------------------------------------
(* The participants *)

(* A participant who joins has a challenge; the blob it holds ends in its  *)
(* own contribution, and is there from the download on; and only one that  *)
(* is uploading has a connection.                                          *)
ClientOK(s, c) ==
    /\ c \in ClientRecord
    /\ c.pc \in {"join", "joining"} => c.chal # None
    /\ c.blob # None => \E b \in Blob, d \in Draw : c.blob = Append(b, <<s, d>>)
    /\ c.pc \in Calling => c.blob = None
    /\ c.pc \in {"upload", "uploading", "done"} => c.blob # None
    /\ c.conn # None => c.pc = "uploading"

Clients ==
    /\ client \in [Session -> ClientRecord]
    /\ \A s \in Session : ClientOK(s, client[s])
    /\ losses \in 0..MaxLosses
    /\ deaths \in 0..MaxDeaths

(* No blob is given up for another.                                        *)
BlobsStay == \A s \in Session : client[s].blob # None => client'[s].blob = client[s].blob

LEMMA ClientsInit == ASSUME CeremonyInit PROVE Clients
BY ClientBounds
   DEF CeremonyInit, Clients, ClientOK, NewClient, ClientRecord, Calling, Ended, Working

(* A call fails, or the participant disappears.                            *)
LEMMA EndsOK ==
    ASSUME NEW s \in Session, NEW c, ClientOK(s, c), NEW pc \in {"failed", "rejected", "dead"}
    PROVE  /\ ClientOK(s, [c EXCEPT !.pc = pc, !.conn = None])
           /\ c.pc # "uploading" => ClientOK(s, [c EXCEPT !.pc = pc])
BY DEF ClientOK, ClientRecord, Calling, Ended, Working

LEMMA AttemptFailedOK ==
    ASSUME NEW s \in Session, NEW c, ClientOK(s, c), c.pc \in {"upload", "uploading"}
    PROVE  ClientOK(s, AttemptFailed(c)) /\ AttemptFailed(c).blob = c.blob
<1>1. CASE c.attempt < MaxAttempts
  <2> DEFINE f == [c EXCEPT !.pc = "upload", !.attempt = @ + 1, !.conn = None]
  <2>1. c.attempt + 1 \in 0..MaxAttempts
    BY <1>1, ClientBounds DEF ClientOK, ClientRecord
  <2>2. AttemptFailed(c) = f
    BY <1>1 DEF AttemptFailed
  <2>3. /\ f \in ClientRecord /\ f.pc = "upload" /\ f.conn = None
        /\ f.blob = c.blob
    BY <2>1 DEF ClientOK, ClientRecord, Calling, Ended, Working
  <2> HIDE DEF f
  <2>4. QED BY <2>2, <2>3 DEF ClientOK, Calling
<1>2. CASE ~(c.attempt < MaxAttempts)
  <2> DEFINE f == [c EXCEPT !.pc = "failed", !.conn = None]
  <2>1. AttemptFailed(c) = f
    BY <1>2 DEF AttemptFailed
  <2>2. ClientOK(s, f)
    BY EndsOK
  <2>3. f.blob = c.blob
    BY DEF ClientOK, ClientRecord
  <2> HIDE DEF f
  <2>4. QED BY <2>1, <2>2, <2>3
<1>3. QED BY <1>1, <1>2

(* The step of one participant.                                            *)
LEMMA Becoming ==
    ASSUME Clients, NEW s \in Session, NEW c, Becomes(s, c), ClientOK(s, c),
           client[s].blob # None => c.blob = client[s].blob,
           netVars' = netVars \/ Lose
           \/ (deaths < MaxDeaths /\ deaths' = deaths + 1 /\ UNCHANGED losses)
    PROVE  Clients' /\ BlobsStay
<1>1. client'[s] = c /\ \A r \in Session : r # s => client'[r] = client[r]
  BY DEF Becomes, Clients
<1>2. client' \in [Session -> ClientRecord]
  BY DEF Becomes, Clients, ClientOK
<1>3. losses' \in 0..MaxLosses /\ deaths' \in 0..MaxDeaths
  BY ClientBounds DEF Clients, Lose, netVars
<1>4. QED BY <1>1, <1>2, <1>3 DEF Clients, BlobsStay

(* A step of several participants at once that loses nothing.              *)
LEMMA BecomingAll ==
    ASSUME Clients, UNCHANGED netVars, NEW f, client' = [s \in Session |-> f[s]],
           \A s \in Session : ClientOK(s, f[s]) /\ (client[s].blob # None => f[s].blob = client[s].blob)
    PROVE  Clients' /\ BlobsStay
BY DEF Clients, BlobsStay, netVars, ClientOK

(* How the stages of Join lead to one another.                             *)
LEMMA GoesOK ==
    ASSUME NEW s \in Session, NEW c, ClientOK(s, c), NEW pc \in {"challenge", "poll", "head"},
           c.pc \in Calling
    PROVE  ClientOK(s, [c EXCEPT !.pc = pc]) /\ [c EXCEPT !.pc = pc].blob = c.blob
BY DEF ClientOK, ClientRecord, Calling, Ended, Working

LEMMA SendsOK ==
    ASSUME NEW s \in Session, NEW c, ClientOK(s, c)
    PROVE  /\ \A k \in Challenge : c.pc = "challenge" =>
                ClientOK(s, [c EXCEPT !.pc = "join", !.chal = k])
           /\ c.pc = "join" => ClientOK(s, [c EXCEPT !.pc = "joining"])
           /\ \A h \in Handler : c.pc = "upload" =>
                ClientOK(s, [c EXCEPT !.pc = "uploading", !.conn = h])
BY NoneIsNothing DEF ClientOK, ClientRecord, Calling, Ended, Working

LEMMA DownloadsOK ==
    ASSUME NEW s \in Session, NEW c, ClientOK(s, c), c.pc = "head",
           NEW b \in Blob, NEW d \in Draw
    PROVE  ClientOK(s, [c EXCEPT !.pc = "upload", !.blob = Append(b, <<s, d>>), !.attempt = 1])
<1>1. Append(b, <<s, d>>) \in Blob
  BY ContributionType DEF ContributePhase2, Contribution
<1>2. Append(b, <<s, d>>) # None
  BY <1>1, NoneIsNoContent
<1>3. 1 \in 0..MaxAttempts
  BY ClientBounds
<1> DEFINE n == Append(b, <<s, d>>)
<1>4. n \in Blob /\ n # None /\ \E b1 \in Blob, d1 \in Draw : n = Append(b1, <<s, d1>>)
  BY <1>1, <1>2
<1> HIDE DEF n
<1>5. ClientOK(s, [c EXCEPT !.pc = "upload", !.blob = n, !.attempt = 1])
  BY <1>3, <1>4 DEF ClientOK, ClientRecord, Calling, Ended, Working
<1>6. QED BY <1>5 DEF n

LEMMA ReceivesOK ==
    ASSUME NEW s \in Session, NEW c, ClientOK(s, c), c.pc = "uploading", NEW r \in Receipt
    PROVE  ClientOK(s, [c EXCEPT !.pc = "done", !.conn = None, !.receipt = r])
           /\ [c EXCEPT !.pc = "done", !.conn = None, !.receipt = r].blob = c.blob
BY DEF ClientOK, ClientRecord, Calling, Ended, Working

(* The answer of a short request arrives, or is lost.                      *)
LEMMA AnsweredOK ==
    ASSUME Clients, NEW s \in Session, NEW c, Answered(s, c), ClientOK(s, c),
           client[s].pc # "uploading",
           client[s].blob # None => c.blob = client[s].blob
    PROVE  Clients' /\ BlobsStay
<1> DEFINE f == Goes(s, "failed")
<1>1. ClientOK(s, f) /\ f.blob = client[s].blob
  <2>1. client[s] \in ClientRecord /\ ClientOK(s, client[s])
    BY DEF Clients
  <2>2. QED BY <2>1, EndsOK DEF Goes, ClientRecord
<1> HIDE DEF f
<1>2. CASE Becomes(s, c) /\ UNCHANGED netVars
  BY <1>2, Becoming
<1>3. CASE Becomes(s, f) /\ Lose
  BY <1>1, <1>3, Becoming
<1>4. QED BY <1>2, <1>3 DEF Answered, f

LEMMA ClientsStep ==
    ASSUME Typed, Typed', Clients, [CeremonyNext]_cvars
    PROVE  Clients' /\ BlobsStay
<1>0. \A s \in Session : client[s] \in ClientRecord /\ ClientOK(s, client[s])
  BY DEF Clients
<1>1. ASSUME UNCHANGED <<client, netVars>> PROVE Clients' /\ BlobsStay
  BY <1>1 DEF Clients, BlobsStay, netVars
<1>2. ASSUME NEW s \in Session, NEW pc \in {"failed", "rejected", "dead"},
             Becomes(s, Goes(s, pc)), client[s].pc # "uploading",
             netVars' = netVars \/ Lose
      PROVE Clients' /\ BlobsStay
  <2> DEFINE f == Goes(s, pc)
  <2>1. ClientOK(s, f) /\ f.blob = client[s].blob
    BY <1>0, <1>2, EndsOK DEF Goes, ClientRecord
  <2> HIDE DEF f
  <2>2. QED BY <1>2, <2>1, Becoming DEF f
<1>3. ASSUME NEW s \in Session, NEW pc \in {"challenge", "poll", "head"},
             Becomes(s, Goes(s, pc)), client[s].pc \in Calling, UNCHANGED netVars
      PROVE Clients' /\ BlobsStay
  <2> DEFINE f == Goes(s, pc)
  <2>1. ClientOK(s, f) /\ f.blob = client[s].blob
    BY <1>0, <1>3, GoesOK DEF Goes
  <2> HIDE DEF f
  <2>2. QED BY <1>3, <2>1, Becoming DEF f
<1>4. ASSUME NEW s \in Session, CallFails(s) PROVE Clients' /\ BlobsStay
  BY <1>2, <1>4 DEF CallFails, Calling
<1>5. ASSUME NEW s \in Session, GetInfo(s) PROVE Clients' /\ BlobsStay
  <2>1. /\ client[s].pc = "info" /\ UNCHANGED netVars
        /\ Becomes(s, Goes(s, "challenge")) \/ Becomes(s, Goes(s, "failed"))
    BY <1>5 DEF GetInfo, At
  <2>2. QED BY <1>2, <1>3, <2>1 DEF Calling
<1>6. ASSUME NEW s \in Session, NEW k \in Challenge, GetChallenge(s, k) PROVE Clients' /\ BlobsStay
  <2> DEFINE f == [client[s] EXCEPT !.pc = "join", !.chal = k]
  <2>1. client[s].pc = "challenge" /\ Answered(s, f)
    BY <1>6 DEF GetChallenge, At, Goes
  <2>2. ClientOK(s, f) /\ f.blob = client[s].blob
    BY <1>0, <2>1, SendsOK DEF ClientRecord
  <2> HIDE DEF f
  <2>3. QED BY <2>1, <2>2, AnsweredOK
<1>7. ASSUME NEW s \in Session, PostJoin(s) PROVE Clients' /\ BlobsStay
  <2> DEFINE f == [client[s] EXCEPT !.pc = "joining"]
  <2>1. client[s].pc = "join" /\ Becomes(s, f) /\ UNCHANGED netVars
    BY <1>7 DEF PostJoin, At, Goes
  <2>2. ClientOK(s, f) /\ f.blob = client[s].blob
    BY <1>0, <2>1, SendsOK DEF ClientRecord
  <2> HIDE DEF f
  <2>3. QED BY <2>1, <2>2, Becoming
<1>8. ASSUME NEW s \in Session, JoinRefused(s) \/ ProofRejected(s) \/ HeadRefused(s)
      PROVE Clients' /\ BlobsStay
  BY <1>2, <1>8 DEF JoinRefused, ProofRejected, HeadRefused, At
<1>9. ASSUME NEW s \in Session, Joined(s) PROVE Clients' /\ BlobsStay
  <2> DEFINE f == Goes(s, "poll")
  <2>1. CASE At(s, "joining") /\ Answered(s, f)
    <3>1. ClientOK(s, f) /\ f.blob = client[s].blob
      BY <1>0, <2>1, GoesOK DEF Goes, At, Calling
    <3> HIDE DEF f
    <3>2. QED BY <2>1, <3>1, AnsweredOK DEF At
  <2>2. QED BY <1>1, <1>9, <2>1 DEF Joined
<1>10. ASSUME NEW s \in Session, Poll(s) PROVE Clients' /\ BlobsStay
  BY <1>2, <1>3, <1>10 DEF Poll, At, Calling
<1>11. ASSUME NEW s \in Session, NEW d \in Draw, GetHead(s, d) PROVE Clients' /\ BlobsStay
  <2> DEFINE f == [client[s] EXCEPT !.pc = "upload", !.blob = Append(head, <<s, d>>), !.attempt = 1]
  <2>1. CASE Answered(s, f)
    <3>1. client[s].pc = "head" /\ head \in Blob
      BY <1>11 DEF GetHead, At, HeadServed, Serving, Live, Typed, MemoryOK
    <3>2. ClientOK(s, f)
      BY <1>0, <3>1, DownloadsOK
    <3>3. client[s].blob = None
      BY <1>0, <3>1 DEF ClientOK, Calling
    <3> HIDE DEF f
    <3>4. QED BY <2>1, <3>1, <3>2, <3>3, AnsweredOK
  <2>2. CASE Answered(s, Goes(s, "failed"))
    BY <1>2, <1>11, <2>2 DEF Answered, GetHead, At
  <2>3. QED BY <1>11, <2>1, <2>2 DEF GetHead, Goes, ContributePhase2
<1>12. ASSUME NEW s \in Session, NEW h \in Handler, UploadBegin(s, h) PROVE Clients' /\ BlobsStay
  <2> DEFINE f == [client[s] EXCEPT !.pc = "uploading", !.conn = h]
  <2>1. client[s].pc = "upload" /\ Becomes(s, f) /\ UNCHANGED netVars
    BY <1>12 DEF UploadBegin, At, Goes
  <2>2. ClientOK(s, f) /\ f.blob = client[s].blob
    BY <1>0, <2>1, SendsOK DEF ClientRecord
  <2> HIDE DEF f
  <2>3. QED BY <2>1, <2>2, Becoming
<1>13. ASSUME NEW s \in Session, UploadRefused(s) \/ ConnectionBreaks(s)
       PROVE Clients' /\ BlobsStay
  <2>1. /\ client[s].pc \in {"upload", "uploading"}
        /\ Becomes(s, AttemptFailed(client[s]))
        /\ netVars' = netVars \/ Lose
    BY <1>13 DEF UploadRefused, ConnectionBreaks, At
  <2>2. QED BY <1>0, <2>1, AttemptFailedOK, Becoming
<1>14. ASSUME NEW s \in Session, Die(s) PROVE Clients' /\ BlobsStay
  <2> DEFINE f == [client[s] EXCEPT !.pc = "dead", !.conn = None]
  <2>1. Becomes(s, f) /\ deaths < MaxDeaths /\ deaths' = deaths + 1 /\ UNCHANGED losses
    BY <1>14 DEF Die, Goes
  <2>2. ClientOK(s, f) /\ f.blob = client[s].blob
    BY <1>0, EndsOK DEF ClientRecord
  <2> HIDE DEF f
  <2>3. QED BY <2>1, <2>2, Becoming
<1>15. ASSUME NEW h \in Handler, TellFailure(h) PROVE Clients' /\ BlobsStay
  <2> DEFINE f == [s \in Session |-> IF s \in Connected(h) THEN AttemptFailed(client[s])
                                     ELSE client[s]]
  <2>1. ASSUME NEW s \in Session
        PROVE  ClientOK(s, f[s]) /\ (client[s].blob # None => f[s].blob = client[s].blob)
    <3>1. CASE s \in Connected(h)
      <4>1. client[s].pc = "uploading"
        BY <1>0, <3>1, NoneIsNoHandler DEF Connected, ClientOK
      <4>2. QED BY <1>0, <3>1, <4>1, AttemptFailedOK
    <3>2. CASE s \notin Connected(h)
      BY <1>0, <3>2
    <3>3. QED BY <3>1, <3>2
  <2>2. client' = f /\ UNCHANGED netVars
    BY <1>15 DEF TellFailure
  <2>3. client' = [s \in Session |-> f[s]]
    BY <2>2
  <2> HIDE DEF f
  <2>4. QED BY <2>1, <2>2, <2>3, BecomingAll
<1>16. ASSUME NEW h \in Handler, TranscriptSaved(h), TellReceipt(h) PROVE Clients' /\ BlobsStay
  <2> DEFINE r == [index |-> TranscriptLen(tr) - 1, new |-> HashBlob(upload[h].next)]
             f == [s \in Session |-> IF s \in Connected(h)
                                     THEN [client[s] EXCEPT !.pc = "done", !.conn = None, !.receipt = r]
                                     ELSE client[s]]
  <2>1. r \in Receipt
    BY <1>16 DEF TranscriptSaved, Receipted, Typed, HistoryOK
  <2>2. client' = f /\ UNCHANGED netVars
    BY <1>16 DEF TellReceipt
  <2> HIDE DEF r
  <2>3. ASSUME NEW s \in Session
        PROVE  ClientOK(s, f[s]) /\ (client[s].blob # None => f[s].blob = client[s].blob)
    <3>1. CASE s \in Connected(h)
      <4>1. client[s].pc = "uploading"
        BY <1>0, <3>1, NoneIsNoHandler DEF Connected, ClientOK
      <4>2. QED BY <1>0, <2>1, <3>1, <4>1, ReceivesOK
    <3>2. CASE s \notin Connected(h)
      BY <1>0, <3>2
    <3>3. QED BY <3>1, <3>2
  <2>4. client' = [s \in Session |-> f[s]]
    BY <2>2
  <2> HIDE DEF f
  <2>5. QED BY <2>2, <2>3, <2>4, BecomingAll
<1>17. CASE SequencerCrashes
  <2> DEFINE f == [s \in Session |-> IF At(s, "uploading") THEN AttemptFailed(client[s])
                                     ELSE IF At(s, "joining") THEN Goes(s, "failed")
                                     ELSE client[s]]
  <2>1. ASSUME NEW s \in Session
        PROVE  ClientOK(s, f[s]) /\ (client[s].blob # None => f[s].blob = client[s].blob)
    <3>1. CASE At(s, "uploading")
      BY <1>0, <3>1, AttemptFailedOK DEF At
    <3>2. CASE At(s, "joining")
      <4>1. ClientOK(s, Goes(s, "failed")) /\ client[s].blob = None
        BY <1>0, <3>2, EndsOK DEF Goes, At, ClientOK, Calling
      <4>2. QED BY <3>2, <4>1 DEF At
    <3>3. CASE ~At(s, "uploading") /\ ~At(s, "joining")
      BY <1>0, <3>3
    <3>4. QED BY <3>1, <3>2, <3>3
  <2>2. client' = f /\ UNCHANGED netVars
    BY <1>17 DEF SequencerCrashes
  <2>3. client' = [s \in Session |-> f[s]]
    BY <2>2
  <2> HIDE DEF f
  <2>4. QED BY <2>1, <2>2, <2>3, BecomingAll
<1>18. CASE UNCHANGED cvars \/ Environment \/ \E s \in Session : Heartbeat(s)
  BY <1>1, <1>18 DEF cvars, Environment, Heartbeat
<1>19. ASSUME NEW h \in Handler, HandlerStep(h) PROVE Clients' /\ BlobsStay
  BY <1>1, <1>15, <1>16, <1>19 DEF HandlerStep, BodyVerified, BodyRejected, Refuse, Commit
<1>20. ASSUME NEW s \in Session, ClientStep(s) PROVE Clients' /\ BlobsStay
  BY <1>4, <1>5, <1>6, <1>7, <1>8, <1>9, <1>10, <1>11, <1>12, <1>13, <1>20 DEF ClientStep
<1>21. QED BY <1>13, <1>14, <1>17, <1>18, <1>19, <1>20 DEF CeremonyNext

-----------------------------------------------------------------------------
(* The ceremony implements the sequencer *)

(* What an upload brings is the contribution of the session it belongs to. *)
LEMMA BodyIsOwn ==
    ASSUME Typed, Clients, NEW h \in Handler, upload[h].pc = "receiving",
           VerifyPhase2Step(upload[h].prev, client[upload[h].sess].blob)
    PROVE  \E d \in Draw : client[upload[h].sess].blob
                             = ContributePhase2(upload[h].prev, <<upload[h].sess, d>>)
<1> DEFINE s == upload[h].sess
           p == upload[h].prev
           b == client[s].blob
<1>1. s \in Session /\ p \in Blob
  BY DEF Typed, UploadOK
<1>2. PICK who \in Contribution : b = Append(p, who)
  BY DEF VerifyPhase2Step, ContributePhase2
<1>3. b \in Blob
  BY <1>1, <1>2, ContributionType DEF ContributePhase2
<1>4. PICK q \in Blob, d \in Draw : b = Append(q, <<s, d>>)
  BY <1>1, <1>3, NoneIsNoContent DEF Clients, ClientOK
<1> HIDE DEF s, p, b
<1>5. who = <<s, d>>
  <2> DEFINE x == <<s, d>>
  <2>1. Append(p, who) = Append(q, x)
    BY <1>2, <1>4
  <2>2. /\ p \in Seq(Circuit \cup Contribution) /\ q \in Seq(Circuit \cup Contribution)
        /\ x \in Circuit \cup Contribution /\ who \in Circuit \cup Contribution
    BY <1>1, <1>4 DEF Blob, Contribution, s, p
  <2> HIDE DEF x
  <2>3. Len(Append(p, who)) = Len(p) + 1 /\ Len(Append(q, x)) = Len(q) + 1
        /\ Append(p, who)[Len(p) + 1] = who /\ Append(q, x)[Len(q) + 1] = x
    BY <2>2
  <2>4. Len(p) = Len(q)
    BY <2>1, <2>2, <2>3
  <2>5. QED BY <2>1, <2>3, <2>4 DEF x
<1>6. QED BY <1>2, <1>5 DEF s, p, b, ContributePhase2

LEMMA SequencerMoves ==
    ASSUME Typed, Clients, [CeremonyNext]_cvars
    PROVE  [Next]_vars
<1>0. \A s \in Session : client[s].pc \in {"join", "joining"} => client[s].chal \in Challenge
  BY DEF Clients, ClientOK, ClientRecord
<1>1. ASSUME NEW s \in Session,
             \/ CallFails(s) \/ GetInfo(s) \/ JoinRefused(s) \/ Poll(s) \/ HeadRefused(s)
             \/ UploadRefused(s) \/ ConnectionBreaks(s) \/ Die(s)
      PROVE UNCHANGED vars
  BY <1>1 DEF CallFails, GetInfo, JoinRefused, Poll, HeadRefused, UploadRefused,
       ConnectionBreaks, Die
<1>2. ASSUME NEW s \in Session, NEW k \in Challenge, GetChallenge(s, k) PROVE LobbyStep
  BY <1>2 DEF GetChallenge, LobbyStep
<1>3. ASSUME NEW s \in Session, PostJoin(s) \/ ProofRejected(s) \/ Joined(s) PROVE LobbyStep
  <2>1. CASE PostJoin(s)
    BY <1>0, <2>1 DEF PostJoin, LobbyStep, At
  <2>2. CASE ProofRejected(s)
    BY <1>0, <2>2 DEF ProofRejected, LobbyStep, At
  <2>3. CASE Joined(s)
    <3>1. client[s].chal \in Challenge
      BY <2>3 DEF Joined, Clients, ClientRecord
    <3>2. QED BY <2>3, <3>1 DEF Joined, LobbyStep
  <2>4. QED BY <1>3, <2>1, <2>2, <2>3
<1>4. ASSUME NEW s \in Session, Heartbeat(s) PROVE LobbyStep
  BY <1>4 DEF Heartbeat, LobbyStep
<1>5. ASSUME NEW s \in Session, NEW d \in Draw, GetHead(s, d) PROVE HeadServed(s)
  BY <1>5 DEF GetHead
<1>6. ASSUME NEW s \in Session, NEW h \in Handler, UploadBegin(s, h) PROVE ContributeBegin(h, s)
  BY <1>6 DEF UploadBegin
<1>7. ASSUME NEW h \in Handler, BodyVerified(h)
      PROVE \E d \in Draw :
              UploadVerified(h, ContributePhase2(upload[h].prev, <<upload[h].sess, d>>))
  <2>1. /\ upload[h].pc = "receiving"
        /\ VerifyPhase2Step(upload[h].prev, client[upload[h].sess].blob)
        /\ UploadVerified(h, client[upload[h].sess].blob)
    BY <1>7 DEF BodyVerified, UploadVerified
  <2>2. PICK d \in Draw : client[upload[h].sess].blob
                            = ContributePhase2(upload[h].prev, <<upload[h].sess, d>>)
    BY <2>1, BodyIsOwn
  <2>3. QED BY <2>1, <2>2
<1>8. ASSUME NEW h \in Handler, BodyRejected(h) \/ Refuse(h) \/ Commit(h)
      PROVE \/ UploadFails(h) \/ CommitRefused(h) \/ CommitBegin(h)
            \/ BlobSaved(h) \/ EntryAppended(h) \/ HeadSaved(h) \/ TranscriptSaved(h)
            \/ EntryRefused(h) \/ SaveFails(h)
  BY <1>8 DEF BodyRejected, Refuse, Commit
<1>9. CASE Environment
  <2>1. CASE Start
    BY <2>1 DEF Start, Next
  <2>2. CASE Clock \/ Ticker \/ Coordinator
    BY <2>2 DEF Clock, Ticker, Coordinator, LobbyStep, Next
  <2>3. QED BY <1>9, <2>1, <2>2 DEF Environment
<1>10. CASE SequencerCrashes
  BY <1>10 DEF SequencerCrashes, Next
<1>11. CASE UNCHANGED cvars
  BY <1>11 DEF cvars
<1>12. ASSUME NEW s \in Session, ClientStep(s) PROVE [Next]_vars
  BY <1>1, <1>2, <1>3, <1>5, <1>6, <1>12 DEF ClientStep, Next
<1>13. ASSUME NEW h \in Handler, HandlerStep(h) PROVE Next
  BY <1>7, <1>8, <1>13 DEF HandlerStep, Next
<1>14. QED BY <1>1, <1>4, <1>9, <1>10, <1>11, <1>12, <1>13 DEF CeremonyNext, Next

(* The participants only do what the sequencer's specification lets its    *)
(* environment do: whatever is proved of the sequencer holds of it in the  *)
(* ceremony.                                                               *)
THEOREM CeremonyRefinesSequencer == CeremonySpec => Spec
<1>1. CeremonyInit => Init /\ Typed /\ Clients
  BY TypedInit, ClientsInit DEF CeremonyInit
<1>2. Typed /\ Clients /\ [CeremonyNext]_cvars => [Next]_vars
  BY SequencerMoves
<1>3. Typed /\ Clients /\ [CeremonyNext]_cvars => Typed' /\ Clients'
  BY SequencerMoves, TypedStep, ClientsStep
<1>4. QED BY <1>1, <1>2, <1>3, PTL DEF CeremonySpec, Spec

LEMMA CeremonyClients == CeremonySpec => []Clients
<1>1. CeremonyInit => Clients
  BY ClientsInit
<1>2. Typed /\ Typed' /\ Clients /\ [CeremonyNext]_cvars => Clients'
  BY ClientsStep
<1>3. QED BY <1>1, <1>2, CeremonyRefinesSequencer, SequencerTyped, PTL DEF CeremonySpec

(* The participants stay well-typed: no more attempts than allowed, and a  *)
(* receipt is one.                                                         *)
THEOREM CeremonyTypeCorrect == CeremonySpec => []CeremonyTypeOK
<1>1. Clients => CeremonyTypeOK
  BY DEF Clients, CeremonyTypeOK
<1>2. QED BY <1>1, CeremonyClients, PTL

-----------------------------------------------------------------------------
(* Uploads and the participants they come from *)

(* An upload is of a session that has contributed, what it has verified is *)
(* that contribution, and a connection is one to an upload of one's own.   *)
Bodies ==
    \A h \in Handler : upload[h].pc # "idle" =>
        /\ client[upload[h].sess].blob # None
        /\ upload[h].pc # "receiving" => upload[h].next = client[upload[h].sess].blob
Connections ==
    \A s \in Session : client[s].conn # None =>
        LET u == upload[client[s].conn] IN u.pc # "idle" /\ u.sess = s
Uploads == Bodies /\ Connections

(* The uploads do not change, or only in what they hold beyond the session.*)
LEMMA BodiesKept ==
    ASSUME Typed, Typed', Uploads, BlobsStay,
           \A h \in Handler :
             \/ upload'[h] = upload[h]
             \/ upload'[h].pc = "idle"
             \/ /\ upload[h].pc # "idle" /\ upload'[h].pc # "idle"
                /\ upload'[h].sess = upload[h].sess
                /\ upload'[h].next = client[upload[h].sess].blob
    PROVE  Bodies'
BY DEF Uploads, Bodies, BlobsStay, Typed, UploadOK

LEMMA ConnectionsKept ==
    ASSUME Typed, Clients, Uploads,
           \A s \in Session : client'[s].conn \in {None, client[s].conn},
           \A s \in Session : client'[s].conn # None =>
             LET h == client[s].conn IN
             upload'[h].pc # "idle" /\ upload'[h].sess = upload[h].sess
    PROVE  Connections'
BY DEF Uploads, Connections

LEMMA AttemptFailedConn ==
    ASSUME NEW c \in ClientRecord PROVE AttemptFailed(c).conn = None
BY DEF AttemptFailed, ClientRecord

(* One participant's record changes, and it opens no connection.           *)
LEMMA ConnOfOne ==
    ASSUME Clients, NEW s \in Session, NEW c, Becomes(s, c), c.conn \in {None, client[s].conn}
    PROVE  \A r \in Session : client'[r].conn \in {None, client[r].conn}
BY DEF Becomes, Clients

LEMMA ConnAnswered ==
    ASSUME Clients, NEW s \in Session, NEW c, Answered(s, c), c.conn = client[s].conn
    PROVE  \A r \in Session : client'[r].conn \in {None, client[r].conn}
<1>1. Goes(s, "failed").conn = client[s].conn
  BY DEF Goes, Clients, ClientRecord
<1>2. QED BY <1>1, ConnOfOne DEF Answered

LEMMA NoNewConnection ==
    ASSUME Clients, NEW s \in Session,
           \/ CallFails(s) \/ GetInfo(s) \/ PostJoin(s) \/ JoinRefused(s)
           \/ ProofRejected(s) \/ Joined(s) \/ Poll(s) \/ HeadRefused(s) \/ UploadRefused(s)
           \/ ConnectionBreaks(s) \/ Die(s)
           \/ \E k \in Challenge : GetChallenge(s, k)
           \/ \E d \in Draw : GetHead(s, d)
    PROVE  \A r \in Session : client'[r].conn \in {None, client[r].conn}
<1>0. client[s] \in ClientRecord
  BY DEF Clients
<1>1. \A pc : Goes(s, pc).conn = client[s].conn
  BY <1>0 DEF Goes, ClientRecord
<1>2. CASE \/ CallFails(s) \/ GetInfo(s) \/ PostJoin(s) \/ JoinRefused(s)
           \/ ProofRejected(s) \/ Poll(s) \/ HeadRefused(s)
  <2>1. \E pc : Becomes(s, Goes(s, pc))
    BY <1>2 DEF CallFails, GetInfo, PostJoin, JoinRefused, ProofRejected, Poll, HeadRefused
  <2>2. PICK pc : Becomes(s, Goes(s, pc))
    BY <2>1
  <2>3. QED BY <1>1, <2>2, ConnOfOne
<1>3. CASE Joined(s)
  BY <1>1, <1>3, ConnAnswered DEF Joined
<1>4. CASE UploadRefused(s) \/ ConnectionBreaks(s)
  BY <1>0, <1>4, AttemptFailedConn, ConnOfOne DEF UploadRefused, ConnectionBreaks
<1>5. CASE Die(s)
  <2> DEFINE f == [Goes(s, "dead") EXCEPT !.conn = None]
  <2>1. f.conn = None
    BY <1>0 DEF Goes, ClientRecord
  <2>2. Becomes(s, f)
    BY <1>5 DEF Die
  <2> HIDE DEF f
  <2>3. QED BY <2>1, <2>2, ConnOfOne
<1>6. ASSUME NEW k \in Challenge, GetChallenge(s, k)
      PROVE  \A r \in Session : client'[r].conn \in {None, client[r].conn}
  <2> DEFINE f == [Goes(s, "join") EXCEPT !.chal = k]
  <2>1. f.conn = client[s].conn
    BY <1>0 DEF Goes, ClientRecord
  <2>2. Answered(s, f)
    BY <1>6 DEF GetChallenge
  <2> HIDE DEF f
  <2>3. QED BY <2>1, <2>2, ConnAnswered
<1>7. ASSUME NEW d \in Draw, GetHead(s, d)
      PROVE  \A r \in Session : client'[r].conn \in {None, client[r].conn}
  <2> DEFINE f == [Goes(s, "upload") EXCEPT !.blob = ContributePhase2(head, <<s, d>>),
                                            !.attempt = 1]
  <2>1. f.conn = client[s].conn
    BY <1>0 DEF Goes, ClientRecord
  <2>2. Answered(s, f) \/ Answered(s, Goes(s, "failed"))
    BY <1>7 DEF GetHead
  <2> HIDE DEF f
  <2>3. QED BY <1>1, <2>1, <2>2, ConnAnswered
<1>8. QED BY <1>2, <1>3, <1>4, <1>5, <1>6, <1>7

LEMMA UploadsStep ==
    ASSUME Typed, Typed', Clients, Clients', BlobsStay, Uploads, [CeremonyNext]_cvars
    PROVE  Uploads'
<1>0. /\ upload \in [Handler -> UploadRecord]
      /\ \A s \in Session : client[s] \in ClientRecord /\ ClientOK(s, client[s])
      /\ \A s \in Session : client[s].conn \in Handler \cup {None}
  BY DEF Typed, UploadOK, Clients, ClientRecord
<1>1. ASSUME upload' = upload, \A s \in Session : client'[s].conn \in {None, client[s].conn}
      PROVE  Uploads'
  <2>1. Bodies'
    BY <1>1, BodiesKept
  <2>2. Connections'
    BY <1>1 DEF Uploads, Connections
  <2>3. QED BY <2>1, <2>2 DEF Uploads
<1>2. ASSUME NEW s \in Session,
             \/ CallFails(s) \/ GetInfo(s) \/ PostJoin(s) \/ JoinRefused(s)
             \/ ProofRejected(s) \/ Joined(s) \/ Poll(s) \/ HeadRefused(s) \/ UploadRefused(s)
             \/ ConnectionBreaks(s) \/ Die(s)
             \/ \E k \in Challenge : GetChallenge(s, k)
             \/ \E d \in Draw : GetHead(s, d)
      PROVE  Uploads'
  <2>1. upload' = upload
    BY <1>2 DEF CallFails, GetInfo, PostJoin, JoinRefused, ProofRejected, Joined, Poll,
         HeadRefused, UploadRefused, ConnectionBreaks, Die, GetChallenge, GetHead, HeadServed,
         vars, seqVars
  <2>2. QED BY <1>1, <1>2, <2>1, NoNewConnection
<1>3. CASE UNCHANGED cvars \/ Environment \/ \E s \in Session : Heartbeat(s)
  <2>1. upload' = upload /\ client' = client
    BY <1>3 DEF cvars, vars, seqVars, Environment, Start, Clock, Ticker, Coordinator, Heartbeat,
         Resume, StartFresh, InitHeadSaved, InitTranscriptSaved, BootFails
  <2>2. QED BY <1>1, <2>1
<1>4. ASSUME NEW s \in Session, NEW h \in Handler, UploadBegin(s, h) PROVE Uploads'
  <2> DEFINE u == [pc |-> "receiving", sess |-> s, prev |-> head, next |-> None]
             c == [client[s] EXCEPT !.pc = "uploading", !.conn = h]
  <2>1. /\ upload' = [upload EXCEPT ![h] = u] /\ upload[h].pc = "idle"
        /\ client' = [client EXCEPT ![s] = c] /\ client[s].pc = "upload"
    BY <1>4 DEF UploadBegin, ContributeBegin, Becomes, Goes, At
  <2>2. /\ u.pc = "receiving" /\ u.sess = s
        /\ c.conn = h /\ c.blob # None
    BY <1>0, <2>1 DEF ClientOK, ClientRecord
  <2> HIDE DEF u, c
  <2>3. /\ upload'[h] = u /\ client'[s] = c
        /\ \A g \in Handler : g # h => upload'[g] = upload[g]
        /\ \A r \in Session : r # s => client'[r] = client[r]
    BY <1>0, <2>1 DEF Clients
  <2>4. Bodies'
    BY <2>2, <2>3 DEF Uploads, Bodies, BlobsStay, Typed, UploadOK
  <2>5. Connections'
    BY <1>0, <2>1, <2>2, <2>3 DEF Uploads, Connections
  <2>6. QED BY <2>4, <2>5 DEF Uploads
<1>5. ASSUME NEW h \in Handler, NEW u, upload' = [upload EXCEPT ![h] = u],
             upload[h].pc # "idle", u.pc # "idle", u.sess = upload[h].sess,
             u.next = client[upload[h].sess].blob, client' = client
      PROVE  Uploads'
  <2>1. upload'[h] = u /\ \A g \in Handler : g # h => upload'[g] = upload[g]
    BY <1>0, <1>5
  <2>2. Bodies'
    BY <1>5, <2>1, BodiesKept
  <2>3. Connections'
    BY <1>0, <1>5, <2>1 DEF Uploads, Connections
  <2>4. QED BY <2>2, <2>3 DEF Uploads
<1>6. ASSUME NEW h \in Handler, BodyVerified(h) PROVE Uploads'
  <2> DEFINE b == client[upload[h].sess].blob
             u == [upload[h] EXCEPT !.pc = "verified", !.next = b]
  <2>1. /\ upload' = [upload EXCEPT ![h] = u] /\ upload[h].pc = "receiving" /\ client' = client
    BY <1>6 DEF BodyVerified, UploadVerified
  <2>2. u.pc = "verified" /\ u.sess = upload[h].sess /\ u.next = b
    BY <1>0 DEF UploadRecord
  <2> HIDE DEF u
  <2>3. QED BY <1>5, <2>1, <2>2
<1>7. ASSUME NEW h \in Handler, NEW x \in SavingStage, upload' = [upload EXCEPT ![h].pc = x],
             upload[h].pc \notin {"idle", "receiving"}, client' = client
      PROVE  Uploads'
  <2> DEFINE u == [upload[h] EXCEPT !.pc = x]
  <2>1. upload' = [upload EXCEPT ![h] = u]
    BY <1>7
  <2>2. /\ u.pc = x /\ u.sess = upload[h].sess /\ u.next = upload[h].next
        /\ x # "idle" /\ upload[h].next = client[upload[h].sess].blob
    BY <1>0, <1>7 DEF UploadRecord, SavingStage, Uploads, Bodies
  <2> HIDE DEF u
  <2>3. QED BY <1>5, <1>7, <2>1, <2>2
<1>8. ASSUME NEW h \in Handler, CommitBegin(h) \/ BlobSaved(h) \/ EntryAppended(h) \/ HeadSaved(h),
             client' = client
      PROVE  Uploads'
  <2>1. /\ upload[h].pc \notin {"idle", "receiving"}
        /\ \E x \in SavingStage : upload' = [upload EXCEPT ![h].pc = x]
    BY <1>8 DEF CommitBegin, BlobSaved, EntryAppended, HeadSaved, SavingStage
  <2>2. QED BY <1>7, <1>8, <2>1
<1>9. ASSUME NEW h \in Handler, upload' = [upload EXCEPT ![h] = NoUpload],
             \A s \in Session : IF client[s].conn = h THEN client'[s].conn = None
                                ELSE client'[s] = client[s]
      PROVE  Uploads'
  <2>1. /\ upload'[h].pc = "idle" /\ \A g \in Handler : g # h => upload'[g] = upload[g]
    BY <1>0, <1>9 DEF NoUpload
  <2>2. Bodies'
    BY <2>1, BodiesKept
  <2>3. Connections'
    BY <1>0, <1>9, <2>1 DEF Uploads, Connections
  <2>4. QED BY <2>2, <2>3 DEF Uploads
<1>10. ASSUME NEW h \in Handler, TellFailure(h) \/ TellReceipt(h)
       PROVE \A s \in Session : IF client[s].conn = h THEN client'[s].conn = None
                                ELSE client'[s] = client[s]
  <2>1. CASE TellFailure(h)
    BY <1>0, <2>1, AttemptFailedConn DEF TellFailure, Connected
  <2>2. CASE TellReceipt(h)
    <3> DEFINE r == [index |-> TranscriptLen(tr) - 1, new |-> HashBlob(upload[h].next)]
    <3>1. client' = [s \in Session |-> IF s \in Connected(h)
                       THEN [client[s] EXCEPT !.pc = "done", !.conn = None, !.receipt = r]
                       ELSE client[s]]
      BY <2>2 DEF TellReceipt
    <3> HIDE DEF r
    <3>2. QED BY <1>0, <3>1 DEF Connected, ClientRecord
  <2>3. QED BY <1>10, <2>1, <2>2
<1>11. ASSUME NEW h \in Handler,
              \/ UploadFails(h) \/ CommitRefused(h) \/ EntryRefused(h) \/ SaveFails(h)
              \/ TranscriptSaved(h)
       PROVE  upload' = [upload EXCEPT ![h] = NoUpload]
  BY <1>11 DEF UploadFails, CommitRefused, EntryRefused, SaveFails, TranscriptSaved, Receipted
<1>12. ASSUME NEW h \in Handler, HandlerStep(h) PROVE Uploads'
  <2>1. CASE BodyRejected(h) \/ Refuse(h)
    BY <1>9, <1>10, <1>11, <2>1 DEF BodyRejected, Refuse
  <2>2. CASE Commit(h)
    BY <1>8, <1>9, <1>10, <1>11, <2>2 DEF Commit
  <2>3. QED BY <1>6, <1>12, <2>1, <2>2 DEF HandlerStep
<1>13. CASE SequencerCrashes
  <2>1. /\ \A h \in Handler : upload'[h].pc = "idle"
        /\ client' = [s \in Session |->
             IF At(s, "uploading") THEN AttemptFailed(client[s])
             ELSE IF At(s, "joining") THEN Goes(s, "failed")
             ELSE client[s]]
    BY <1>13 DEF SequencerCrashes, Crash, Dies, NoUpload
  <2>2. \A s \in Session : client'[s].conn = None
    BY <1>0, <2>1, AttemptFailedConn DEF At, Goes, ClientOK, ClientRecord
  <2>3. QED BY <2>1, <2>2 DEF Uploads, Bodies, Connections
<1>14. ASSUME NEW s \in Session, ClientStep(s) PROVE Uploads'
  BY <1>2, <1>4, <1>14 DEF ClientStep
<1>15. QED BY <1>2, <1>3, <1>12, <1>13, <1>14 DEF CeremonyNext

LEMMA CeremonyUploads == CeremonySpec => []Uploads
<1>1. CeremonyInit => Uploads
  BY DEF CeremonyInit, Init, NewClient, NoUpload, Uploads, Bodies, Connections
<1>2. Typed /\ Typed' /\ Clients /\ Clients' /\ Uploads /\ [CeremonyNext]_cvars => Uploads'
  BY ClientsStep, UploadsStep
<1>3. QED
  BY <1>1, <1>2, CeremonyClients, CeremonyRefinesSequencer, SequencerTyped, PTL DEF CeremonySpec

-----------------------------------------------------------------------------
(* What is recorded *)

(* The blob of an entry starts with the circuit, and each entry's is one   *)
(* longer than that of the entry before.                                   *)
Grown(t) ==
    \A i \in DOMAIN t.entries :
        /\ Len(t.entries[i].new.sha256) = i + 1
        /\ Head(t.entries[i].new.sha256) = t.circuit

(* An entry is the contribution of the participant it names.               *)
IsOwn(e) == client[e.by].blob # None /\ e.new = HashBlob(client[e.by].blob)
Truthful(t) == \A i \in DOMAIN t.entries : IsOwn(t.entries[i])

Recorded == \A t \in Docs : Grown(t) /\ Truthful(t)

LEMMA BlobGrows ==
    ASSUME NEW b \in Blob, NEW n, VerifyPhase2Step(b, n)
    PROVE  /\ Len(b) \in Nat /\ Len(n) = Len(b) + 1
           /\ Head(n) = Head(b) /\ n \in Blob
<1>1. PICK who \in Contribution : n = Append(b, who)
  BY DEF VerifyPhase2Step, ContributePhase2
<1>2. b \in Seq(Circuit \cup Contribution) /\ Len(b) \in Nat \ {0}
  BY DEF Blob
<1>3. Len(n) = Len(b) + 1 /\ n[1] = b[1]
  BY <1>1, <1>2
<1>4. Head(n) = Head(b)
  BY <1>3 DEF Head
<1>5. QED BY <1>2, <1>3, <1>4, VerifiedType

(* The blob an accepted append extends.                                    *)
LEMMA TipGrown ==
    ASSUME NEW t \in TranscriptDoc, NEW b \in Blob, Sound(t), Grown(t),
           AppendAllowed(t, HashBlob(b))
    PROVE  Len(b) = Len(t.entries) + 1 /\ Head(b) = t.circuit
<1>0. Len(t.entries) \in Nat /\ DOMAIN t.entries = 1..Len(t.entries)
  BY EntriesOf
<1>1. HashBlob(b) = WantPrev(t) /\ HashBlob(b).sha256 = b
  BY HashType DEF AppendAllowed
<1>2. CASE t.entries = <<>>
  <2>1. b = <<t.circuit>>
    BY <1>1, <1>2 DEF WantPrev, Sound, HashBlob, InitPhase2
  <2>2. Len(t.entries) = 0
    BY <1>2
  <2>3. QED BY <2>1, <2>2
<1>3. CASE t.entries # <<>>
  <2>1. b = t.entries[Len(t.entries)].new.sha256
    BY <1>1, <1>3 DEF WantPrev
  <2>2. Len(t.entries) \in DOMAIN t.entries
    BY <1>0, <1>3 DEF TranscriptDoc
  <2>3. QED BY <2>1, <2>2 DEF Grown
<1>4. QED BY <1>2, <1>3

LEMMA AppendIsOwn ==
    ASSUME Typed, ChainSound, Uploads, Recorded, NEW h \in Handler, EntryAppended(h)
    PROVE  Grown(tr') /\ Truthful(tr')
<1> DEFINE p == HashBlob(upload[h].prev)
           n == HashBlob(upload[h].next)
           m == Len(tr.entries)
<1>1. /\ tr \in TranscriptDoc /\ tr' \in TranscriptDoc /\ tr # None
      /\ DOMAIN tr.entries = 1..m /\ DOMAIN tr'.entries = 1..(m + 1)
      /\ upload[h].sess \in Session /\ upload[h].next \in Blob /\ m \in Nat
      /\ \A i \in 1..m : tr'.entries[i] = tr.entries[i]
      /\ tr'.entries[m + 1] = [index |-> m, by |-> upload[h].sess, prev |-> p, new |-> n]
  BY EntryIsAppended
<1>2. /\ upload[h].prev \in Blob /\ VerifyPhase2Step(upload[h].prev, upload[h].next)
      /\ upload[h].pc \notin {"idle", "receiving"} /\ AppendAllowed(tr, p)
  BY DEF EntryAppended, Typed, UploadOK
<1>3. Grown(tr) /\ Truthful(tr) /\ Sound(tr)
  BY <1>1 DEF Recorded, Docs, ChainSound
<1>4. tr'.circuit = tr.circuit
  <2>1. \E es : tr' = [tr EXCEPT !.entries = es]
    BY DEF EntryAppended, TranscriptAppend
  <2>2. QED BY <1>1, <2>1 DEF TranscriptDoc
<1>5. Len(upload[h].prev) = m + 1 /\ Head(upload[h].prev) = tr.circuit
  BY <1>1, <1>2, <1>3, TipGrown
<1>6. /\ Len(upload[h].next) = m + 2 /\ Head(upload[h].next) = tr.circuit
      /\ n.sha256 = upload[h].next
  BY <1>1, <1>2, <1>5, BlobGrows, HashType
<1>7. client[upload[h].sess].blob # None /\ n = HashBlob(client[upload[h].sess].blob)
  BY <1>2 DEF Uploads, Bodies
<1> DEFINE s == upload[h].sess
           b == upload[h].next
<1>8. /\ tr'.entries[m + 1].by = s /\ tr'.entries[m + 1].new = n
      /\ n.sha256 = b /\ Len(b) = m + 2 /\ Head(b) = tr.circuit
      /\ client[s].blob # None /\ n = HashBlob(client[s].blob)
  BY <1>1, <1>6, <1>7
<1> HIDE DEF p, n, m, s, b
<1>9. Grown(tr')
  <2> SUFFICES ASSUME NEW i \in 1..(m + 1)
               PROVE  /\ Len(tr'.entries[i].new.sha256) = i + 1
                      /\ Head(tr'.entries[i].new.sha256) = tr'.circuit
    BY <1>1 DEF Grown
  <2>1. CASE i = m + 1
    BY <1>1, <1>4, <1>8, <2>1
  <2>2. CASE i \in 1..m
    BY <1>1, <1>3, <1>4, <2>2 DEF Grown
  <2>3. QED BY <1>1, <2>1, <2>2
<1>10. Truthful(tr')
  <2> SUFFICES ASSUME NEW i \in 1..(m + 1) PROVE IsOwn(tr'.entries[i])
    BY <1>1 DEF Truthful
  <2>1. CASE i = m + 1
    BY <1>8, <2>1 DEF IsOwn
  <2>2. CASE i \in 1..m
    BY <1>1, <1>3, <2>2 DEF Truthful
  <2>3. QED BY <1>1, <2>1, <2>2
<1>11. QED BY <1>9, <1>10

LEMMA RecordedStep ==
    ASSUME Typed, Clients, BlobsStay, ChainSound, Uploads, Recorded, [CeremonyNext]_cvars
    PROVE  Recorded'
<1> SUFFICES ASSUME NEW t \in Docs' PROVE Grown(t) /\ Truthful(t)'
  BY DEF Recorded
<1>1. \/ t \in Docs
      \/ \E c \in Circuit : t = EmptyTranscript(c)
      \/ t = tr' /\ \E h \in Handler : EntryAppended(h)
  BY SequencerMoves, DocsMove
<1>2. ASSUME t \in TranscriptDoc, Grown(t), Truthful(t) PROVE Grown(t) /\ Truthful(t)'
  <2>1. ASSUME NEW i \in DOMAIN t.entries PROVE IsOwn(t.entries[i])'
    <3>1. IsOwn(t.entries[i]) /\ t.entries[i].by \in Session
      BY <1>2, EntriesOf DEF Truthful, Entry
    <3>2. QED BY <3>1 DEF IsOwn, BlobsStay
  <2>2. QED BY <1>2, <2>1 DEF Truthful
<1>3. CASE t \in Docs
  BY <1>2, <1>3 DEF Recorded, Docs
<1>4. ASSUME NEW c \in Circuit, t = EmptyTranscript(c) PROVE Grown(t) /\ Truthful(t)'
  BY <1>4 DEF EmptyTranscript, Grown, Truthful
<1>5. ASSUME NEW h \in Handler, EntryAppended(h), t = tr' PROVE Grown(t) /\ Truthful(t)'
  <2>1. t \in TranscriptDoc
    BY DEF Docs
  <2> DEFINE u == tr'
  <2>2. Grown(u) /\ \A i \in DOMAIN u.entries : IsOwn(u.entries[i])
    BY <1>5, AppendIsOwn DEF Truthful
  <2> HIDE DEF u
  <2>3. Grown(t) /\ Truthful(t)
    BY <1>5, <2>2 DEF u, Truthful
  <2>4. QED BY <1>2, <2>1, <2>3
<1>6. QED BY <1>1, <1>3, <1>4, <1>5

LEMMA CeremonyRecorded == CeremonySpec => []Recorded
<1>1. CeremonyInit => Recorded
  BY NoneIsNoContent, NoFileIsNoContent DEF CeremonyInit, Init, StorageInit, Recorded, Docs
<1>2. Typed /\ Typed' /\ Clients /\ ChainSound /\ Uploads /\ Recorded /\ [CeremonyNext]_cvars
      => Recorded'
  BY ClientsStep, RecordedStep
<1>3. QED
  BY <1>1, <1>2, CeremonyClients, CeremonyUploads, CeremonyRefinesSequencer, SequencerTyped,
     SequencerChainSound, PTL DEF CeremonySpec

(* Whatever is lost, retried, fails or crashes, no participant is recorded *)
(* twice: two entries of one participant would have the same blob, and the *)
(* blobs along a chain have different lengths.                             *)
THEOREM CeremonyRecordedOnce == CeremonySpec => []RecordedOnce
<1>1. ASSUME Typed, Recorded PROVE RecordedOnce
  <2> SUFFICES ASSUME tr # None, NEW i \in DOMAIN tr.entries, NEW j \in DOMAIN tr.entries,
                      tr.entries[i].by = tr.entries[j].by
               PROVE  i = j
    BY DEF RecordedOnce
  <2>1. tr \in Docs /\ tr \in TranscriptDoc
    BY <1>1, DocsAre
  <2>2. IsOwn(tr.entries[i]) /\ IsOwn(tr.entries[j]) /\ Grown(tr)
    BY <1>1, <2>1 DEF Recorded, Truthful
  <2>3. Len(tr.entries[i].new.sha256) = i + 1 /\ Len(tr.entries[j].new.sha256) = j + 1
    BY <2>2 DEF Grown
  <2>4. tr.entries[i].new = tr.entries[j].new
    BY <2>2 DEF IsOwn
  <2>5. i \in Nat /\ j \in Nat
    BY <2>1, EntriesOf
  <2>6. QED BY <2>3, <2>4, <2>5
<1>2. QED
  BY <1>1, CeremonyRecorded, CeremonyRefinesSequencer, SequencerTyped, PTL

-----------------------------------------------------------------------------
(* What participants can rely on *)

(* Nothing that matters here happens to a participant.                     *)
Quiet(s) ==
    /\ client'[s].blob = client[s].blob
    /\ client'[s].pc = "done" => client'[s] = client[s]

LEMMA QuietOne ==
    ASSUME Clients, NEW s \in Session, NEW c, Becomes(s, c),
           c.blob = client[s].blob, c.pc # "done"
    PROVE  \A r \in Session : Quiet(r)
BY DEF Becomes, Clients, Quiet

LEMMA QuietGoes ==
    ASSUME Clients, NEW s \in Session, NEW pc, pc # "done", Becomes(s, Goes(s, pc))
    PROVE  \A r \in Session : Quiet(r)
<1> DEFINE f == Goes(s, pc)
<1>1. f.blob = client[s].blob /\ f.pc = pc
  BY DEF Goes, Clients, ClientRecord
<1> HIDE DEF f
<1>2. QED BY <1>1, QuietOne DEF f

LEMMA AttemptFailedIs ==
    ASSUME NEW c \in ClientRecord
    PROVE  AttemptFailed(c).blob = c.blob /\ AttemptFailed(c).pc # "done"
BY DEF AttemptFailed, ClientRecord

LEMMA ClientMoves ==
    ASSUME Typed, Clients, [CeremonyNext]_cvars, NEW r \in Session
    PROVE  \/ Quiet(r)
           \/ \E d \in Draw :
                /\ GetHead(r, d) /\ CircuitAccepted(circuitFP)
                /\ client'[r].blob = ContributePhase2(head, <<r, d>>)
                /\ client'[r].pc = "upload"
           \/ \E h \in Handler :
                /\ TranscriptSaved(h) /\ client[r].conn = h
                /\ client'[r].blob = client[r].blob
                /\ client'[r].receipt = LastMark(h)
<1>0. \A s \in Session : client[s] \in ClientRecord
  BY DEF Clients
<1>1. ASSUME NEW s \in Session,
             \/ CallFails(s) \/ GetInfo(s) \/ PostJoin(s) \/ JoinRefused(s)
             \/ ProofRejected(s) \/ Poll(s) \/ HeadRefused(s)
      PROVE  Quiet(r)
  <2>1. PICK pc \in {"failed", "challenge", "joining", "rejected", "head"} : Becomes(s, Goes(s, pc))
    BY <1>1 DEF CallFails, GetInfo, PostJoin, JoinRefused, ProofRejected, Poll, HeadRefused
  <2>2. QED BY <2>1, QuietGoes
<1>2. ASSUME client' = client PROVE Quiet(r)
  BY <1>2 DEF Quiet
<1>3. ASSUME NEW s \in Session, Joined(s) PROVE Quiet(r)
  <2>1. Becomes(s, Goes(s, "poll")) \/ Becomes(s, Goes(s, "failed")) \/ client' = client
    BY <1>3 DEF Joined, Answered
  <2>2. QED BY <1>2, <2>1, QuietGoes
<1>4. ASSUME NEW s \in Session, NEW k \in Challenge, GetChallenge(s, k) PROVE Quiet(r)
  <2> DEFINE f == [Goes(s, "join") EXCEPT !.chal = k]
  <2>1. f.blob = client[s].blob /\ f.pc = "join"
    BY <1>0 DEF Goes, ClientRecord
  <2>2. Becomes(s, f) \/ Becomes(s, Goes(s, "failed"))
    BY <1>4 DEF GetChallenge, Answered
  <2> HIDE DEF f
  <2>3. QED BY <2>1, <2>2, QuietOne, QuietGoes
<1>5. ASSUME NEW s \in Session, NEW d \in Draw, GetHead(s, d)
      PROVE  \/ Quiet(r)
             \/ /\ r = s /\ CircuitAccepted(circuitFP)
                /\ client'[r].blob = ContributePhase2(head, <<r, d>>)
                /\ client'[r].pc = "upload"
  <2> DEFINE n == ContributePhase2(head, <<s, d>>)
             f == [Goes(s, "upload") EXCEPT !.blob = n, !.attempt = 1]
  <2>1. CASE CircuitAccepted(circuitFP) /\ Becomes(s, f)
    <3>1. client'[s] = f /\ \A q \in Session : q # s => client'[q] = client[q]
      BY <2>1 DEF Becomes, Clients
    <3> HIDE DEF n
    <3>2. f.blob = n /\ f.pc = "upload"
      BY <1>0 DEF Goes, ClientRecord
    <3> HIDE DEF f
    <3>3. CASE r = s
      BY <2>1, <3>1, <3>2, <3>3 DEF n
    <3>4. CASE r # s
      BY <3>1, <3>4 DEF Quiet
    <3>5. QED BY <3>3, <3>4
  <2>2. CASE Becomes(s, Goes(s, "failed"))
    BY <2>2, QuietGoes
  <2>3. QED BY <1>5, <2>1, <2>2 DEF GetHead, Answered
<1>6. ASSUME NEW s \in Session, NEW h \in Handler, UploadBegin(s, h) PROVE Quiet(r)
  <2> DEFINE f == [Goes(s, "uploading") EXCEPT !.conn = h]
  <2>1. f.blob = client[s].blob /\ f.pc = "uploading"
    BY <1>0 DEF Goes, ClientRecord
  <2>2. Becomes(s, f)
    BY <1>6 DEF UploadBegin
  <2> HIDE DEF f
  <2>3. QED BY <2>1, <2>2, QuietOne
<1>7. ASSUME NEW s \in Session, UploadRefused(s) \/ ConnectionBreaks(s) PROVE Quiet(r)
  BY <1>0, <1>7, AttemptFailedIs, QuietOne DEF UploadRefused, ConnectionBreaks
<1>8. ASSUME NEW s \in Session, Die(s) PROVE Quiet(r)
  <2> DEFINE f == [Goes(s, "dead") EXCEPT !.conn = None]
  <2>1. f.blob = client[s].blob /\ f.pc = "dead"
    BY <1>0 DEF Goes, ClientRecord
  <2>2. Becomes(s, f)
    BY <1>8 DEF Die
  <2> HIDE DEF f
  <2>3. QED BY <2>1, <2>2, QuietOne
<1>9. ASSUME NEW h \in Handler, TellFailure(h) PROVE Quiet(r)
  BY <1>0, <1>9, AttemptFailedIs DEF TellFailure, Quiet
<1>10. ASSUME NEW h \in Handler, TellReceipt(h)
       PROVE  \/ Quiet(r)
              \/ /\ client[r].conn = h /\ client'[r].blob = client[r].blob
                 /\ client'[r].receipt = LastMark(h)
  <2> DEFINE m == LastMark(h)
  <2>1. client'[r] = IF r \in Connected(h)
                     THEN [client[r] EXCEPT !.pc = "done", !.conn = None, !.receipt = m]
                     ELSE client[r]
    BY <1>10 DEF TellReceipt, LastMark
  <2> HIDE DEF m
  <2>2. CASE r \in Connected(h)
    BY <1>0, <2>1, <2>2 DEF Connected, ClientRecord, m
  <2>3. CASE r \notin Connected(h)
    BY <2>1, <2>3 DEF Quiet
  <2>4. QED BY <2>2, <2>3
<1>11. CASE SequencerCrashes
  <2>1. client'[r] \in {AttemptFailed(client[r]), client[r]} \/ client'[r] = Goes(r, "failed")
    BY <1>11 DEF SequencerCrashes
  <2>2. Goes(r, "failed").blob = client[r].blob /\ Goes(r, "failed").pc = "failed"
    BY <1>0 DEF Goes, ClientRecord
  <2>3. QED BY <1>0, <2>1, <2>2, AttemptFailedIs DEF Quiet
<1>12. CASE UNCHANGED cvars \/ Environment \/ \E s \in Session : Heartbeat(s)
  BY <1>2, <1>12 DEF cvars, Environment, Heartbeat
<1>13. ASSUME NEW h \in Handler, HandlerStep(h)
       PROVE  \/ Quiet(r)
              \/ /\ TranscriptSaved(h) /\ client[r].conn = h
                 /\ client'[r].blob = client[r].blob
                 /\ client'[r].receipt = LastMark(h)
  BY <1>2, <1>9, <1>10, <1>13 DEF HandlerStep, BodyVerified, BodyRejected, Refuse, Commit
<1>14. ASSUME NEW s \in Session, ClientStep(s)
       PROVE  \/ Quiet(r)
              \/ \E d \in Draw :
                   /\ GetHead(r, d) /\ CircuitAccepted(circuitFP)
                   /\ client'[r].blob = ContributePhase2(head, <<r, d>>)
                   /\ client'[r].pc = "upload"
  BY <1>1, <1>3, <1>4, <1>5, <1>6, <1>7, <1>14 DEF ClientStep
<1>15. QED BY <1>7, <1>8, <1>11, <1>12, <1>13, <1>14 DEF CeremonyNext

(* The history of receipts only grows.                                     *)
LEMMA ReceiptsStay == ASSUME [Next]_vars PROVE receipts \subseteq receipts'
BY ReceiptsMove

(* A participant that is done holds a receipt of the sequencer for the     *)
(* contribution it made.                                                   *)
OwnReceipt(s) ==
    At(s, "done") => /\ client[s].receipt.new = HashBlob(client[s].blob)
                     /\ client[s].receipt \in receipts
ReceiptsOwned == \A s \in Session : OwnReceipt(s)

LEMMA ReceiptsOwnedStep ==
    ASSUME Typed, Clients, Uploads, ReceiptsOwned, [CeremonyNext]_cvars
    PROVE  ReceiptsOwned'
<1> SUFFICES ASSUME NEW s \in Session, client'[s].pc = "done"
             PROVE  /\ client'[s].receipt.new = HashBlob(client'[s].blob)
                    /\ client'[s].receipt \in receipts'
  BY DEF ReceiptsOwned, OwnReceipt, At
<1>1. receipts \subseteq receipts'
  BY SequencerMoves, ReceiptsStay
<1>2. CASE Quiet(s)
  BY <1>1, <1>2 DEF Quiet, ReceiptsOwned, OwnReceipt, At
<1>3. ASSUME NEW h \in Handler, TranscriptSaved(h), client[s].conn = h,
             client'[s].blob = client[s].blob, client'[s].receipt = LastMark(h)
      PROVE  /\ client'[s].receipt.new = HashBlob(client'[s].blob)
             /\ client'[s].receipt \in receipts'
  <2>1. upload[h].pc = "save_transcript" /\ LastMark(h) \in receipts'
    BY <1>3 DEF TranscriptSaved, Receipted, LastMark
  <2>2. upload[h].sess = s /\ upload[h].next = client[s].blob
    BY <1>3, <2>1, NoneIsNoHandler DEF Uploads, Connections, Bodies
  <2>3. LastMark(h).new = HashBlob(upload[h].next)
    BY DEF LastMark
  <2>4. QED BY <1>3, <2>1, <2>2, <2>3
<1>4. QED BY <1>2, <1>3, ClientMoves

(* A receipt that Join returns is for the contribution the participant     *)
(* made, and the transcript lists it until the store lost something.       *)
THEOREM CeremonyReceiptTruthful == CeremonySpec => [](NoneLost => ReceiptTruthful)
<1>1. CeremonyInit => ReceiptsOwned
  BY DEF CeremonyInit, NewClient, ReceiptsOwned, OwnReceipt, At
<1>2. Typed /\ Clients /\ Uploads /\ ReceiptsOwned /\ [CeremonyNext]_cvars => ReceiptsOwned'
  BY ReceiptsOwnedStep
<1>3. ReceiptsOwned /\ (NoneLost => ReceiptsDurable) => (NoneLost => ReceiptTruthful)
  BY DEF ReceiptsOwned, OwnReceipt, ReceiptsDurable, ReceiptTruthful
<1>4. Spec => [](NoneLost => ReceiptsDurable)
  BY SequencerReceiptsDurable
<1>5. QED
  BY <1>1, <1>2, <1>3, <1>4, CeremonyClients, CeremonyUploads, CeremonyRefinesSequencer,
     SequencerTyped, PTL DEF CeremonySpec

(* While the sequencer serves, its head begins with its circuit.           *)
LEMMA HeadIsOfCircuit ==
    ASSUME Typed, ChainSound, Recorded, InOrder, OneCircuit, Live
    PROVE  head \in Blob /\ Head(head) = circuitFP
<1>1. tr \in TranscriptDoc /\ tr # None /\ head \in Blob /\ phase # "down"
  BY NoneIsNoContent DEF Typed, MemoryOK, Live
<1>2. Sound(tr) /\ Grown(tr) /\ tr.circuit = circuitFP /\ IsPrefix(Tip(tr), head)
  BY <1>1 DEF ChainSound, Recorded, Docs, OneCircuit, InOrder, MemoryInOrder
<1>3. Tip(tr) \in Blob /\ WantPrev(tr) = HashBlob(Tip(tr))
  <2>1. WantPrev(tr) \in Hash
    <3>1. tr.init \in Hash /\ tr.entries \in Seq(Entry)
      BY <1>1 DEF TranscriptDoc
    <3>2. tr.entries # <<>> => tr.entries[Len(tr.entries)] \in Entry
      BY <3>1
    <3>3. QED BY <3>1, <3>2 DEF WantPrev, Entry
  <2>2. QED BY <1>1, <2>1, TipType DEF Hash, Tip, HashBlob
<1> DEFINE b == Tip(tr)
<1>4. b \in Blob /\ IsPrefix(b, head) /\ Head(b) = circuitFP
  BY <1>1, <1>2, <1>3, TipGrown DEF AppendAllowed
<1> HIDE DEF b
<1>5. /\ b \in Seq(Circuit \cup Contribution) /\ head \in Seq(Circuit \cup Contribution)
      /\ Len(b) \in Nat \ {0}
  BY <1>1, <1>4 DEF Blob
<1>6. Len(b) <= Len(head) /\ \A i \in 1..Len(b) : b[i] = head[i]
  BY <1>4, <1>5, PrefixMeans
<1>7. head[1] = b[1]
  BY <1>5, <1>6
<1>8. QED BY <1>1, <1>4, <1>5, <1>7 DEF Head

(* A participant told which circuit to expect contributes to no other, as  *)
(* long as transcript.json can be read when it is there and no power       *)
(* failure brings back an older one (client.go:79, :150).                  *)
THEOREM CeremonyRightCircuit == CeremonySpec => [](NoneOverwritten => RightCircuit)
<1> DEFINE Right == NoneOverwritten => RightCircuit
<1>1. CeremonyInit => Right
  BY DEF CeremonyInit, NewClient, RightCircuit
<1>2. ASSUME Typed, Clients, ChainSound, Recorded, NoneOverwritten => InOrder,
             NoneOverwritten => OneCircuit, Right, [CeremonyNext]_cvars
      PROVE  Right'
  <2> SUFFICES ASSUME NoneOverwritten', NEW s \in Session, ExpectCircuit # None,
                      client'[s].blob # None
               PROVE  Head(client'[s].blob) = ExpectCircuit
    BY DEF RightCircuit
  <2>1. NoneOverwritten
    BY <1>2, SequencerMoves, FaultsNotForgotten DEF Typed
  <2>2. CASE client'[s].blob = client[s].blob
    BY <1>2, <2>1, <2>2 DEF RightCircuit
  <2>3. ASSUME NEW d \in Draw, GetHead(s, d), CircuitAccepted(circuitFP),
               client'[s].blob = ContributePhase2(head, <<s, d>>)
        PROVE  Head(client'[s].blob) = ExpectCircuit
    <3>1. Live /\ circuitFP = ExpectCircuit
      BY <2>3 DEF GetHead, HeadServed, Serving, CircuitAccepted
    <3>2. head \in Blob /\ Head(head) = ExpectCircuit
      BY <1>2, <2>1, <3>1, HeadIsOfCircuit
    <3>3. VerifyPhase2Step(head, ContributePhase2(head, <<s, d>>))
      BY DEF VerifyPhase2Step, Contribution
    <3>4. QED BY <2>3, <3>2, <3>3, BlobGrows
  <2>4. Quiet(s) => client'[s].blob = client[s].blob
    BY DEF Quiet
  <2>5. QED BY <1>2, <2>2, <2>3, <2>4, ClientMoves
<1>3. Right => (NoneOverwritten => RightCircuit)
  OBVIOUS
<1>4. /\ Typed /\ Clients /\ ChainSound /\ Recorded /\ (NoneOverwritten => InOrder)
      /\ (NoneOverwritten => OneCircuit) /\ Right /\ [CeremonyNext]_cvars
      => Right'
  BY <1>2
<1> HIDE DEF Right
<1>5. QED
  BY <1>1, <1>3, <1>4, CeremonyClients, CeremonyRecorded, CeremonyRefinesSequencer,
     SequencerTyped, SequencerChainSound, SequencerInOrder, SequencerOneCircuit, PTL
     DEF CeremonySpec

-----------------------------------------------------------------------------
(* What a failure means *)

(* No connection or answer was lost, the sequencer did not crash, and      *)
(* every write succeeded.                                                  *)
Untroubled == losses = 0 /\ faults.crashes = 0 /\ faults.writes = 0

(* Then an upload has its participant waiting for it, unless it died; and  *)
(* who is recorded has the receipt, waits for it, or is dead.              *)
Attended ==
    \A h \in Handler : upload[h].pc # "idle" =>
        client[upload[h].sess].conn = h \/ At(upload[h].sess, "dead")
Settled(s) ==
    \/ client[s].pc \in {"done", "dead"}
    \/ /\ client[s].conn # None
       /\ upload[client[s].conn].pc \in {"save_head", "save_transcript"}
AllSettled == \A t \in Docs : \A i \in DOMAIN t.entries : Settled(t.entries[i].by)

LEMMA TroubleNotForgotten ==
    ASSUME Typed, Clients, [CeremonyNext]_cvars, Untroubled'
    PROVE  /\ Untroubled /\ ~SequencerCrashes
           /\ \A s \in Session : ~ConnectionBreaks(s)
           /\ \A h \in Handler : ~SaveFails(h)
<1>0. losses \in Nat
  BY ClientBounds DEF Clients
<1>1. ~Lose
  BY <1>0 DEF Lose, Untroubled
<1>2. [Next]_vars /\ faults'.crashes = 0 /\ faults'.writes = 0
  BY SequencerMoves DEF Untroubled
<1>3. /\ faults.crashes = 0 /\ ~Crash /\ faults.writes = 0
      /\ \A h \in Handler : ~SaveFails(h)
  BY <1>2, CrashesNotForgotten, WritesNotForgotten DEF Typed, Undisturbed
<1>4. losses' = losses
  <2>1. ASSUME NEW s \in Session, NEW c, Answered(s, c) PROVE losses' = losses
    BY <1>1, <2>1 DEF Answered, netVars
  <2>2. ASSUME NEW s \in Session,
               \/ ClientStep(s) \/ Heartbeat(s) \/ ConnectionBreaks(s) \/ Die(s)
        PROVE  losses' = losses
    BY <1>1, <2>1, <2>2 DEF ClientStep, CallFails, GetInfo, PostJoin, JoinRefused, ProofRejected,
         Joined, Poll, HeadRefused, UploadRefused, GetChallenge, GetHead, UploadBegin,
         Heartbeat, ConnectionBreaks, Die, netVars
  <2>3. ASSUME NEW h \in Handler, HandlerStep(h) PROVE losses' = losses
    BY <2>3 DEF HandlerStep, BodyVerified, BodyRejected, Refuse, Commit, TellFailure,
         TellReceipt, netVars
  <2>4. CASE Environment \/ SequencerCrashes \/ UNCHANGED cvars
    BY <2>4 DEF Environment, SequencerCrashes, cvars, netVars
  <2>5. QED BY <2>2, <2>3, <2>4 DEF CeremonyNext
<1>5. QED BY <1>1, <1>3, <1>4 DEF Untroubled, SequencerCrashes, ConnectionBreaks

(* A participant that is not uploading moves alone, and nobody who is done *)
(* or dead moves; one that is uploading can only die.                      *)
LEMMA AloneMoves ==
    ASSUME Clients, NEW s \in Session,
           \/ CallFails(s) \/ GetInfo(s) \/ PostJoin(s) \/ JoinRefused(s)
           \/ ProofRejected(s) \/ Joined(s) \/ Poll(s) \/ HeadRefused(s) \/ UploadRefused(s)
           \/ Die(s)
           \/ \E k \in Challenge : GetChallenge(s, k)
           \/ \E d \in Draw : GetHead(s, d),
           NEW r \in Session
    PROVE  \/ client'[r] = client[r]
           \/ client'[r].pc = "dead"
           \/ client[r].conn = None /\ client[r].pc \notin {"done", "dead"}
<1>0. client \in [Session -> ClientRecord] /\ client[s] \in ClientRecord
  BY DEF Clients
<1>1. \A c : Becomes(s, c) /\ r # s => client'[r] = client[r]
  BY <1>0 DEF Becomes
<1>2. CASE Die(s)
  <2> DEFINE f == [Goes(s, "dead") EXCEPT !.conn = None]
  <2>1. f.pc = "dead" /\ Becomes(s, f)
    BY <1>0, <1>2 DEF Die, Goes, ClientRecord
  <2> HIDE DEF f
  <2>2. r = s => client'[r] = f
    BY <1>0, <2>1 DEF Becomes
  <2>3. QED BY <1>1, <2>1, <2>2
<1>3. CASE \/ CallFails(s) \/ GetInfo(s) \/ PostJoin(s) \/ JoinRefused(s)
           \/ ProofRejected(s) \/ Poll(s) \/ HeadRefused(s) \/ UploadRefused(s)
  <2>1. /\ client[s].pc \in Calling \cup {"upload"}
        /\ \E c : Becomes(s, c)
    BY <1>3 DEF CallFails, GetInfo, PostJoin, JoinRefused, ProofRejected, Poll, HeadRefused,
         UploadRefused, At, Calling
  <2>2. r = s => client[r].conn = None /\ client[r].pc \notin {"done", "dead"}
    BY <2>1 DEF Clients, ClientOK, Calling
  <2>3. QED BY <1>1, <2>1, <2>2
<1>4. ASSUME NEW c, Answered(s, c), client[s].pc \in Calling
      PROVE  \/ client'[r] = client[r]
             \/ client[r].conn = None /\ client[r].pc \notin {"done", "dead"}
  <2>1. r = s => client[r].conn = None /\ client[r].pc \notin {"done", "dead"}
    BY <1>4 DEF Clients, ClientOK, Calling
  <2>2. \E d : Becomes(s, d)
    BY <1>4 DEF Answered
  <2>3. QED BY <1>1, <2>1, <2>2
<1>5. CASE \/ Joined(s)
           \/ \E k \in Challenge : GetChallenge(s, k)
           \/ \E d \in Draw : GetHead(s, d)
  <2>1. \/ client' = client
        \/ client[s].pc \in Calling /\ \E c : Answered(s, c)
    BY <1>5 DEF Joined, GetChallenge, GetHead, At, Calling
  <2>2. QED BY <1>4, <2>1
<1>6. QED BY <1>2, <1>3, <1>5

LEMMA SettledStep ==
    ASSUME Typed, Clients, Uploads, Attended, [CeremonyNext]_cvars, Untroubled'
    PROVE  /\ Attended'
           /\ \A s \in Session : Settled(s) => Settled(s)'
           /\ \A h \in Handler, s \in Session : EntryAppended(h) /\ upload[h].sess = s => Settled(s)'
<1> DEFINE Goal == /\ Attended'
                   /\ \A s \in Session : Settled(s) => Settled(s)'
                   /\ \A h \in Handler, s \in Session : EntryAppended(h) /\ upload[h].sess = s => Settled(s)'
<1>0. /\ upload \in [Handler -> UploadRecord]
      /\ \A h \in Handler : upload[h].pc # "idle" => upload[h].sess \in Session
      /\ client \in [Session -> ClientRecord]
      /\ \A s \in Session : /\ client[s].conn \in Handler \cup {None}
                            /\ client[s].conn # None => client[s].pc = "uploading"
      /\ None \notin Handler
  BY NoneIsNoHandler DEF Typed, UploadOK, Clients, ClientOK, ClientRecord
<1>1. /\ Untroubled /\ ~SequencerCrashes
      /\ \A s \in Session : ~ConnectionBreaks(s)
      /\ \A h \in Handler : ~SaveFails(h)
  BY TroubleNotForgotten
<1>2. ASSUME \A h \in Handler : ~EntryAppended(h), upload' = upload,
             \A r \in Session :
               \/ client'[r] = client[r]
               \/ client'[r].pc = "dead"
               \/ client[r].conn = None /\ client[r].pc \notin {"done", "dead"}
      PROVE  Goal
  BY <1>0, <1>2 DEF Attended, Settled, At
<1>3. ASSUME NEW h \in Handler, EntryAppended(h)
      PROVE  upload[h].pc = "append" /\ upload' = [upload EXCEPT ![h].pc = "save_head"]
  BY <1>3 DEF EntryAppended
<1>4. ASSUME upload' = upload PROVE \A h \in Handler : ~EntryAppended(h)
  BY <1>0, <1>3, <1>4 DEF UploadRecord
<1>5. ASSUME NEW s \in Session,
             \/ CallFails(s) \/ GetInfo(s) \/ PostJoin(s) \/ JoinRefused(s)
             \/ ProofRejected(s) \/ Joined(s) \/ Poll(s) \/ HeadRefused(s) \/ UploadRefused(s)
             \/ Die(s)
             \/ \E k \in Challenge : GetChallenge(s, k)
             \/ \E d \in Draw : GetHead(s, d)
      PROVE  Goal
  <2>1. upload' = upload
    BY <1>5 DEF CallFails, GetInfo, PostJoin, JoinRefused, ProofRejected, Joined, Poll,
         HeadRefused, UploadRefused, Die, GetChallenge, GetHead, HeadServed, vars, seqVars
  <2>2. \A r \in Session :
          \/ client'[r] = client[r]
          \/ client'[r].pc = "dead"
          \/ client[r].conn = None /\ client[r].pc \notin {"done", "dead"}
    BY <1>5, AloneMoves
  <2> HIDE DEF Goal
  <2>3. QED BY <1>2, <1>4, <2>1, <2>2
<1>6. ASSUME UNCHANGED cvars \/ Environment \/ \E s \in Session : Heartbeat(s) PROVE Goal
  <2>1. upload' = upload /\ client' = client
    BY <1>6 DEF cvars, vars, seqVars, Environment, Start, Clock, Ticker, Coordinator, Heartbeat,
         Resume, StartFresh, InitHeadSaved, InitTranscriptSaved, BootFails
  <2> HIDE DEF Goal
  <2>2. QED BY <1>2, <1>4, <2>1
<1>7. ASSUME NEW s \in Session, NEW h \in Handler, UploadBegin(s, h) PROVE Goal
  <2> DEFINE u == [pc |-> "receiving", sess |-> s, prev |-> head, next |-> None]
             c == [client[s] EXCEPT !.pc = "uploading", !.conn = h]
  <2>1. /\ upload' = [upload EXCEPT ![h] = u] /\ upload[h].pc = "idle"
        /\ client' = [client EXCEPT ![s] = c] /\ client[s].pc = "upload"
    BY <1>7 DEF UploadBegin, ContributeBegin, Becomes, Goes, At
  <2>2. u.pc = "receiving" /\ u.sess = s /\ c.conn = h
    BY <1>0 DEF ClientRecord
  <2> HIDE DEF u, c
  <2>3. /\ upload'[h] = u /\ client'[s] = c
        /\ \A g \in Handler : g # h => upload'[g] = upload[g]
        /\ \A r \in Session : r # s => client'[r] = client[r]
        /\ client[s].conn = None
    <3>1. client[s].conn = None
      BY <1>0, <2>1
    <3>2. /\ upload'[h] = u
          /\ \A g \in Handler : g # h => upload'[g] = upload[g]
      BY <1>0, <2>1
    <3>3. /\ client'[s] = c
          /\ \A r \in Session : r # s => client'[r] = client[r]
      BY <1>0, <2>1
    <3>4. QED BY <3>1, <3>2, <3>3
  <2>4. \A g \in Handler : ~EntryAppended(g)
    <3>1. SUFFICES ASSUME NEW g \in Handler, EntryAppended(g) PROVE FALSE
      OBVIOUS
    <3>2. upload'[g].pc = "save_head" /\ upload[g].pc = "append"
      BY <1>0, <1>3, <3>1 DEF UploadRecord
    <3>3. QED BY <2>1, <2>2, <2>3, <3>2
  <2>5. Attended'
    BY <1>0, <2>1, <2>2, <2>3 DEF Attended, At
  <2>6. \A r \in Session : Settled(r) => Settled(r)'
    BY <1>0, <2>1, <2>2, <2>3 DEF Settled
  <2>7. QED BY <2>4, <2>5, <2>6
<1>8. ASSUME NEW h \in Handler, NEW u, upload' = [upload EXCEPT ![h] = u],
             upload[h].pc # "idle", u.pc # "idle", u.sess = upload[h].sess, client' = client,
             upload[h].pc \in {"save_head", "save_transcript"} =>
               u.pc \in {"save_head", "save_transcript"},
             \A g \in Handler : EntryAppended(g) => g = h /\ u.pc = "save_head"
      PROVE  Goal
  <2>1. upload'[h] = u /\ \A g \in Handler : g # h => upload'[g] = upload[g]
    BY <1>0, <1>8
  <2>2. Attended'
    BY <1>0, <1>8, <2>1 DEF Attended, At
  <2>3. \A r \in Session : Settled(r) => Settled(r)'
    BY <1>0, <1>8, <2>1 DEF Settled
  <2>4. ASSUME NEW g \in Handler, EntryAppended(g), NEW s \in Session, upload[g].sess = s
        PROVE  Settled(s)'
    <3>1. g = h /\ upload'[h].pc = "save_head"
      BY <1>8, <2>1, <2>4
    <3>2. client[s].conn = h \/ client[s].pc = "dead"
      BY <1>8, <2>4, <3>1 DEF Attended, At
    <3>3. QED BY <1>0, <1>8, <3>1, <3>2 DEF Settled
  <2>5. QED BY <2>2, <2>3, <2>4
<1>9. ASSUME NEW h \in Handler, BodyVerified(h) PROVE Goal
  <2> DEFINE b == client[upload[h].sess].blob
             u == [upload[h] EXCEPT !.pc = "verified", !.next = b]
  <2>1. /\ upload' = [upload EXCEPT ![h] = u] /\ upload[h].pc = "receiving" /\ client' = client
    BY <1>9 DEF BodyVerified, UploadVerified
  <2>2. u.pc = "verified" /\ u.sess = upload[h].sess
    BY <1>0 DEF UploadRecord
  <2> HIDE DEF u
  <2>3. \A g \in Handler : ~EntryAppended(g)
    <3>1. SUFFICES ASSUME NEW g \in Handler, EntryAppended(g) PROVE FALSE
      OBVIOUS
    <3>2. upload'[g].pc = "save_head" /\ upload[g].pc = "append"
      BY <1>0, <1>3, <3>1 DEF UploadRecord
    <3>3. QED BY <1>0, <2>1, <2>2, <3>2
  <2> HIDE DEF Goal
  <2>4. QED BY <1>8, <2>1, <2>2, <2>3
<1>10. ASSUME NEW h \in Handler, CommitBegin(h) \/ BlobSaved(h) \/ EntryAppended(h) \/ HeadSaved(h),
              client' = client
       PROVE  Goal
  <2>1. PICK x \in SavingStage :
          /\ upload' = [upload EXCEPT ![h].pc = x]
          /\ upload[h].pc # "idle"
          /\ upload[h].pc \in {"save_head", "save_transcript"} => x = "save_transcript"
    BY <1>10 DEF CommitBegin, BlobSaved, EntryAppended, HeadSaved, SavingStage
  <2> DEFINE u == [upload[h] EXCEPT !.pc = x]
  <2>2. upload' = [upload EXCEPT ![h] = u]
    BY <2>1
  <2>3. u.pc = x /\ u.sess = upload[h].sess /\ x # "idle"
    BY <1>0 DEF UploadRecord, SavingStage
  <2> HIDE DEF u
  <2>4. ASSUME NEW g \in Handler, EntryAppended(g) PROVE g = h /\ u.pc = "save_head"
    <3>1. upload'[g].pc = "save_head" /\ upload[g].pc = "append"
      BY <1>0, <1>3, <2>4 DEF UploadRecord
    <3>2. QED BY <1>0, <2>2, <3>1
  <2> HIDE DEF Goal
  <2>5. QED BY <1>8, <1>10, <2>1, <2>2, <2>3, <2>4
<1>11. ASSUME NEW h \in Handler, upload' = [upload EXCEPT ![h] = NoUpload],
              \A r \in Session :
                \/ client[r].conn # h /\ client'[r] = client[r]
                \/ client[r].conn = h /\ client'[r].pc = "done"
                \/ client[r].conn = h /\ upload[h].pc \notin {"save_head", "save_transcript"}
       PROVE  Goal
  <2>1. /\ upload'[h].pc = "idle" /\ \A g \in Handler : g # h => upload'[g] = upload[g]
    BY <1>0, <1>11 DEF NoUpload
  <2>2. \A g \in Handler : ~EntryAppended(g)
    <3>1. SUFFICES ASSUME NEW g \in Handler, EntryAppended(g) PROVE FALSE
      OBVIOUS
    <3>2. upload'[g].pc = "save_head" /\ upload[g].pc = "append"
      BY <1>0, <1>3, <3>1 DEF UploadRecord
    <3>3. QED BY <2>1, <3>2
  <2>3. Attended'
    <3> SUFFICES ASSUME NEW g \in Handler, upload'[g].pc # "idle"
                 PROVE  \/ client'[upload'[g].sess].conn = g
                        \/ client'[upload'[g].sess].pc = "dead"
      BY DEF Attended, At
    <3>1. g # h /\ upload'[g] = upload[g]
      BY <2>1
    <3>2. PICK r \in Session : r = upload[g].sess
      BY <1>0, <3>1
    <3>3. client[r].conn = g \/ client[r].pc = "dead"
      BY <3>1, <3>2 DEF Attended, At
    <3>4. client[r].conn # h
      BY <1>0, <3>1, <3>3
    <3>5. QED BY <1>11, <3>1, <3>2, <3>3, <3>4
  <2>4. ASSUME NEW r \in Session, Settled(r) PROVE Settled(r)'
    <3>1. CASE client[r].conn # h
      BY <1>0, <1>11, <2>1, <2>4, <3>1 DEF Settled
    <3>2. CASE client[r].conn = h
      BY <1>0, <1>11, <2>4, <3>2 DEF Settled
    <3>3. QED BY <3>1, <3>2
  <2>5. QED BY <2>2, <2>3, <2>4
<1>12. ASSUME NEW h \in Handler, BodyRejected(h) \/ Refuse(h) PROVE Goal
  <2>1. /\ upload' = [upload EXCEPT ![h] = NoUpload]
        /\ upload[h].pc \in {"receiving", "verified", "append"}
        /\ TellFailure(h)
    BY <1>1, <1>12 DEF BodyRejected, UploadFails, Refuse, CommitRefused, EntryRefused
  <2>2. \A r \in Session : client[r].conn # h => client'[r] = client[r]
    BY <2>1 DEF TellFailure, Connected
  <2> HIDE DEF Goal
  <2>3. QED BY <1>11, <2>1, <2>2
<1>13. ASSUME NEW h \in Handler, TranscriptSaved(h), TellReceipt(h) PROVE Goal
  <2> DEFINE m == LastMark(h)
  <2>1. upload' = [upload EXCEPT ![h] = NoUpload]
    BY <1>13 DEF TranscriptSaved, Receipted
  <2>2. \A r \in Session :
          client'[r] = IF r \in Connected(h)
                       THEN [client[r] EXCEPT !.pc = "done", !.conn = None, !.receipt = m]
                       ELSE client[r]
    BY <1>13 DEF TellReceipt, LastMark
  <2> HIDE DEF m, Goal
  <2>3. \A r \in Session :
          \/ client[r].conn # h /\ client'[r] = client[r]
          \/ client[r].conn = h /\ client'[r].pc = "done"
    <3>1. client \in [Session -> ClientRecord]
      BY <1>0
    <3>2. QED BY <2>2, <3>1 DEF Connected, ClientRecord
  <2>4. QED BY <1>11, <2>1, <2>3
<1> HIDE DEF Goal
<1>14. ASSUME NEW h \in Handler, HandlerStep(h) PROVE Goal
  BY <1>9, <1>10, <1>12, <1>13, <1>14 DEF HandlerStep, Commit
<1>15. ASSUME NEW s \in Session, ClientStep(s) PROVE Goal
  BY <1>5, <1>7, <1>15 DEF ClientStep
<1>16. Goal
  BY <1>1, <1>5, <1>6, <1>14, <1>15 DEF CeremonyNext
<1>17. QED BY <1>16 DEF Goal

LEMMA AllSettledStep ==
    ASSUME Typed, Clients, Uploads, Attended, AllSettled, [CeremonyNext]_cvars, Untroubled'
    PROVE  AllSettled'
<1> SUFFICES ASSUME NEW t \in Docs', NEW i \in DOMAIN t.entries
             PROVE  Settled(t.entries[i].by)'
  BY DEF AllSettled
<1>0. /\ \A s \in Session : Settled(s) => Settled(s)'
      /\ \A h \in Handler, s \in Session : EntryAppended(h) /\ upload[h].sess = s => Settled(s)'
  BY SettledStep
<1>1. \/ t \in Docs
      \/ \E c \in Circuit : t = EmptyTranscript(c)
      \/ t = tr' /\ \E h \in Handler : EntryAppended(h)
  BY SequencerMoves, DocsMove
<1>2. ASSUME NEW d \in Docs, NEW j \in DOMAIN d.entries PROVE Settled(d.entries[j].by)'
  <2>1. d.entries[j].by \in Session
    BY <1>2, DocsAre, EntriesOf DEF Entry
  <2>2. Settled(d.entries[j].by)
    BY DEF AllSettled
  <2>3. QED BY <1>0, <2>1, <2>2
<1>3. CASE t \in Docs
  BY <1>2, <1>3
<1>4. ASSUME NEW c \in Circuit, t = EmptyTranscript(c) PROVE FALSE
  BY <1>4 DEF EmptyTranscript
<1>5. ASSUME NEW h \in Handler, EntryAppended(h), t = tr' PROVE Settled(t.entries[i].by)'
  <2>1. /\ tr \in Docs /\ Len(tr.entries) \in Nat
        /\ DOMAIN tr.entries = 1..Len(tr.entries)
        /\ i \in 1..(Len(tr.entries) + 1)
        /\ \A j \in 1..Len(tr.entries) : t.entries[j] = tr.entries[j]
        /\ t.entries[Len(tr.entries) + 1].by = upload[h].sess
    BY <1>5, AppendedBy
  <2>2. CASE i = Len(tr.entries) + 1
    <3>1. upload[h].sess \in Session
      BY <1>5 DEF Typed, UploadOK, EntryAppended
    <3>2. PICK s \in Session : s = upload[h].sess
      BY <3>1
    <3>3. Settled(s)'
      BY <1>0, <1>5, <3>2
    <3>4. t.entries[i].by = s
      BY <2>1, <2>2, <3>2
    <3>5. QED BY <3>3, <3>4 DEF Settled
  <2>3. CASE i \in 1..Len(tr.entries)
    BY <1>2, <2>1, <2>3
  <2>4. QED BY <2>1, <2>2, <2>3
<1>6. QED BY <1>1, <1>3, <1>4, <1>5

(* A run of Join that fails left nothing in the transcript, as long as no  *)
(* answer is lost, the sequencer does not crash and every write succeeds:  *)
(* only then is running it again a retry (client.go:176).  Each of the     *)
(* three conditions is needed.                                             *)
THEOREM CeremonyFailureMeansNotRecorded ==
    CeremonySpec => [](Untroubled => FailureMeansNotRecorded)
<1> DEFINE Kept == Untroubled => Attended /\ AllSettled
<1>1. CeremonyInit => Kept
  BY NoneIsNoContent, NoFileIsNoContent
     DEF CeremonyInit, Init, StorageInit, NoUpload, Attended, AllSettled, Docs
<1>2. Typed /\ Clients /\ Uploads /\ Kept /\ [CeremonyNext]_cvars => Kept'
  BY TroubleNotForgotten, SettledStep, AllSettledStep
<1>3. Typed /\ Clients /\ Kept => (Untroubled => FailureMeansNotRecorded)
  <2> SUFFICES ASSUME Typed, Clients, AllSettled, NEW s \in Session, At(s, "failed"), tr # None,
                      NEW i \in DOMAIN tr.entries
               PROVE  tr.entries[i].by # s
    BY DEF FailureMeansNotRecorded
  <2>1. tr \in Docs
    BY DocsAre
  <2>2. Settled(tr.entries[i].by)
    BY <2>1 DEF AllSettled
  <2>3. ~Settled(s)
    BY DEF Settled, At, Clients, ClientOK
  <2>4. QED BY <2>2, <2>3
<1> HIDE DEF Kept
<1>4. QED
  BY <1>1, <1>2, <1>3, CeremonyClients, CeremonyUploads, CeremonyRefinesSequencer, SequencerTyped,
     PTL DEF CeremonySpec
=============================================================================
