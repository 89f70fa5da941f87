----------------------------- MODULE Ceremony -----------------------------
(***************************************************************************)
(* The participants' program (Join, src/ceremony/client.go) against the    *)
(* sequencer, over HTTP that loses requests and answers.  One run of Join  *)
(* gets at most one session, so a run is named by its session.             *)
(*                                                                         *)
(* A short request is one step: the handler runs and the answer arrives,   *)
(* or is lost after the handler has run (Answered), or the request itself  *)
(* is lost (CallFails).  An upload is a connection to one handleContribute *)
(* that can break at any moment without the handler noticing.              *)
(***************************************************************************)
EXTENDS Sequencer

CONSTANTS
    ExpectCircuit,   \* --expect-circuit, or None
    MaxAttempts,     \* uploadWithRetry: 4 in the code
    MaxLosses,       \* bound: lost requests, answers and connections
    MaxDeaths        \* bound: participants that disappear

ASSUME ClientBounds ==
    /\ ExpectCircuit \in Circuit \cup {None}
    /\ MaxAttempts \in Nat \ {0}
    /\ MaxLosses \in Nat
    /\ MaxDeaths \in Nat
ASSUME NoneIsNoHandler == None \notin Handler

VARIABLES
    client,   \* per run of Join: where it is and what it holds
    losses,
    deaths

netVars == <<losses, deaths>>
cvars == <<vars, client, netVars>>

Calling == {"info", "challenge", "join", "joining", "poll", "head"}
Ended == {"done", "failed", "rejected", "dead"}
Working == {"head", "upload", "uploading"}     \* startHeartbeat is running

NewClient == [pc |-> "info", chal |-> None, blob |-> None,
              attempt |-> 0, conn |-> None, receipt |-> None]

ClientRecord ==
    [pc : Calling \cup Ended \cup Working, chal : Challenge \cup {None},
     blob : Blob \cup {None}, attempt : 0..MaxAttempts,
     conn : Handler \cup {None}, receipt : Receipt \cup {None}]

CeremonyInit ==
    /\ Init
    /\ client = [s \in Session |-> NewClient]
    /\ losses = 0
    /\ deaths = 0

At(s, pc) == client[s].pc = pc
Becomes(s, c) == client' = [client EXCEPT ![s] = c]
Goes(s, pc) == [client[s] EXCEPT !.pc = pc]
Lose == losses < MaxLosses /\ losses' = losses + 1 /\ UNCHANGED deaths
CircuitAccepted(fp) == ExpectCircuit \in {None, fp}

(* The answer arrives, or is lost and Join returns the error.              *)
Answered(s, c) ==
    \/ (Becomes(s, c) /\ UNCHANGED netVars)
    \/ (Becomes(s, Goes(s, "failed")) /\ Lose)

(* Mutation: one attempt too many.                                         *)
AttemptFailedOffByOne(c) ==
    IF c.attempt <= MaxAttempts
    THEN [c EXCEPT !.pc = "upload", !.attempt = @ + 1, !.conn = None]
    ELSE [c EXCEPT !.pc = "failed", !.conn = None]

(* An attempt of uploadWithRetry fails: any error is retried.              *)
AttemptFailed(c) ==
    IF c.attempt < MaxAttempts
    THEN [c EXCEPT !.pc = "upload", !.attempt = @ + 1, !.conn = None]
    ELSE [c EXCEPT !.pc = "failed", !.conn = None]

-----------------------------------------------------------------------------
(* Join, up to the slot *)

(* Which circuits an answer to GET /info may name.  A process answers it   *)
(* from its start with the circuit it was configured with (warmingHandler),*)
(* before NewSequencer has looked at the store.  While it loads its initial*)
(* head nothing of it is in the state yet, so "down" stands for no process *)
(* and for one that is loading, with any circuit: it may die, be refused by*)
(* NewSequencer, or get as far as Start.                                   *)
InfoCircuits == IF phase = "down" THEN Circuit ELSE {circuitFP}

(* getJSON or postJSON fails without having reached a handler: the network *)
(* lost the request, nobody serves it, or the process is warming up and    *)
(* answers everything but /info with 503.                                  *)
CallFails(s) ==
    /\ client[s].pc \in Calling \ {"joining"}
    /\ Becomes(s, Goes(s, "failed"))
    /\ \/ Lose
       \/ ~Live /\ (At(s, "info") => phase = "down") /\ UNCHANGED netVars
    /\ UNCHANGED vars

(* handleInfo takes the lock, warmingHandler does not.                     *)
GetInfo(s) ==
    /\ At(s, "info")
    /\ Live => Serving
    /\ \E fp \in InfoCircuits :
         Becomes(s, Goes(s, IF CircuitAccepted(fp) THEN "challenge" ELSE "failed"))
    /\ UNCHANGED <<vars, netVars>>

GetChallenge(s, k) ==
    /\ Serving /\ At(s, "challenge")
    /\ IssueChallenge(k)
    /\ Answered(s, [Goes(s, "join") EXCEPT !.chal = k])
    /\ UNCHANGED seqVars

PostJoin(s) ==
    /\ Serving /\ At(s, "join")
    /\ JoinBegin(client[s].chal)
    /\ Becomes(s, Goes(s, "joining"))
    /\ UNCHANGED <<seqVars, netVars>>

JoinRefused(s) ==
    /\ Serving /\ At(s, "join")
    /\ closed \/ chal[client[s].chal] # "fresh"
    /\ Becomes(s, Goes(s, "failed"))
    /\ UNCHANGED <<vars, netVars>>

ProofRejected(s) ==
    /\ Live /\ At(s, "joining")
    /\ JoinFails(client[s].chal)
    /\ Becomes(s, Goes(s, "rejected"))
    /\ UNCHANGED <<seqVars, netVars>>

(* The session is admitted even when nobody waits for the answer any more. *)
Joined(s) ==
    /\ Serving /\ client[s].chal # None
    /\ JoinAdmit(client[s].chal, s)
    /\ \/ (At(s, "joining") /\ Answered(s, Goes(s, "poll")))
       \/ (At(s, "dead") /\ UNCHANGED <<client, netVars>>)
    /\ UNCHANGED seqVars

(* Mutation: a session the sequencer does not know is polled for ever.     *)
PollIgnoresGone(s) ==
    /\ Serving /\ At(s, "poll")
    /\ \/ (active = s /\ ~closed /\ Becomes(s, Goes(s, "head")))
       \/ (closed /\ Becomes(s, Goes(s, "failed")))
    /\ UNCHANGED <<vars, netVars>>

(* One round of the polling loop that ends it; a closed lobby is noticed   *)
(* before the turn is.                                                     *)
Poll(s) ==
    /\ Serving /\ At(s, "poll")
    /\ \/ (active = s /\ ~closed /\ Becomes(s, Goes(s, "head")))
       \/ ((~Present(s) \/ closed) /\ Becomes(s, Goes(s, "failed")))
    /\ UNCHANGED <<vars, netVars>>

(* startHeartbeat: errors are ignored, and it runs until Join returns.     *)
Heartbeat(s) ==
    /\ Serving /\ client[s].pc \in Working
    /\ ExtendSlot(s)
    /\ UNCHANGED <<seqVars, client, netVars>>

(* Mutation: the circuit of the head is not compared again.                *)
GetHeadUnchecked(s, d) ==
    /\ At(s, "head")
    /\ HeadServed(s)
    /\ Answered(s, [Goes(s, "upload") EXCEPT
                      !.blob = ContributePhase2(head, <<s, d>>), !.attempt = 1])

(* Download the head, contribute to it locally, keep the result.           *)
GetHead(s, d) ==
    /\ At(s, "head")
    /\ HeadServed(s)
    /\ \/ /\ CircuitAccepted(circuitFP)
          /\ Answered(s, [Goes(s, "upload") EXCEPT
                            !.blob = ContributePhase2(head, <<s, d>>), !.attempt = 1])
       \/ /\ ~CircuitAccepted(circuitFP)
          /\ Answered(s, Goes(s, "failed"))

HeadRefused(s) ==
    /\ Serving /\ At(s, "head")
    /\ active # s
    /\ Becomes(s, Goes(s, "failed"))
    /\ UNCHANGED <<vars, netVars>>

-----------------------------------------------------------------------------
(* uploadWithRetry *)

UploadBegin(s, h) ==
    /\ At(s, "upload")
    /\ ContributeBegin(h, s)
    /\ Becomes(s, [Goes(s, "uploading") EXCEPT !.conn = h])
    /\ UNCHANGED netVars

(* 403, no connection, or nobody who serves it.                            *)
UploadRefused(s) ==
    /\ At(s, "upload")
    /\ \/ (Serving /\ active # s /\ UNCHANGED netVars)
       \/ (~Live /\ UNCHANGED netVars)
       \/ Lose
    /\ Becomes(s, AttemptFailed(client[s]))
    /\ UNCHANGED vars

(* The connection of an upload breaks; its handler goes on or notices.     *)
ConnectionBreaks(s) ==
    /\ At(s, "uploading")
    /\ Lose
    /\ Becomes(s, AttemptFailed(client[s]))
    /\ UNCHANGED vars

Connected(h) == {s \in Session : client[s].conn = h}

(* What the handler answers, if anyone is still connected.                 *)
TellFailure(h) ==
    /\ client' = [s \in Session |-> IF s \in Connected(h) THEN AttemptFailed(client[s])
                                    ELSE client[s]]
    /\ UNCHANGED netVars

TellReceipt(h) ==
    /\ client' = [s \in Session |->
         IF s \in Connected(h)
         THEN [client[s] EXCEPT !.pc = "done", !.conn = None,
                 !.receipt = [index |-> TranscriptLen(tr) - 1, new |-> HashBlob(upload[h].next)]]
         ELSE client[s]]
    /\ UNCHANGED netVars

(* The whole body arrived: it is the blob the client holds.                *)
BodyVerified(h) ==
    /\ upload[h].pc = "receiving"
    /\ UploadVerified(h, client[upload[h].sess].blob)
    /\ UNCHANGED <<client, netVars>>

(* The body did not arrive whole, or it does not extend the head.          *)
BodyRejected(h) ==
    /\ UploadFails(h)
    /\ \/ Connected(h) = {}
       \/ ~VerifyPhase2Step(upload[h].prev, client[upload[h].sess].blob)
    /\ TellFailure(h)

Refuse(h) == (CommitRefused(h) \/ EntryRefused(h) \/ SaveFails(h)) /\ TellFailure(h)

Commit(h) ==
    \/ /\ CommitBegin(h) \/ BlobSaved(h) \/ EntryAppended(h) \/ HeadSaved(h)
       /\ UNCHANGED <<client, netVars>>
    \/ (TranscriptSaved(h) /\ TellReceipt(h))

-----------------------------------------------------------------------------
(* The rest of the world *)

Die(s) ==
    /\ client[s].pc \notin Ended
    /\ deaths < MaxDeaths
    /\ deaths' = deaths + 1
    /\ Becomes(s, [Goes(s, "dead") EXCEPT !.conn = None])
    /\ UNCHANGED <<vars, losses>>

(* The sequencer dies: the connections that were open break with it.       *)
SequencerCrashes ==
    /\ Crash
    /\ client' = [s \in Session |->
         IF At(s, "uploading") THEN AttemptFailed(client[s])
         ELSE IF At(s, "joining") THEN Goes(s, "failed")
         ELSE client[s]]
    /\ UNCHANGED netVars

Start == \/ \E c \in Circuit : Resume(c) \/ StartFresh(c)
         \/ InitHeadSaved \/ InitTranscriptSaved \/ BootFails

Clock == /\ Live
         /\ DeadlinePasses \/ (\E k \in Challenge : ChallengeExpires(k))
         /\ UNCHANGED seqVars

(* Mutations: the ticker does not take the lock; it never expires a slot.  *)
TickerUnlocked == Live /\ (Expire \/ LoopStops) /\ UNCHANGED seqVars
TickerNeverExpires == Live /\ LoopStops /\ UNCHANGED seqVars

Ticker == /\ (Serving /\ Expire) \/ (Live /\ LoopStops)
          /\ UNCHANGED seqVars

Coordinator == Serving /\ Close /\ UNCHANGED seqVars

Environment == (Start \/ Clock \/ Ticker \/ Coordinator) /\ UNCHANGED <<client, netVars>>

ClientStep(s) ==
    \/ CallFails(s) \/ GetInfo(s) \/ PostJoin(s) \/ JoinRefused(s)
    \/ ProofRejected(s) \/ Joined(s) \/ Poll(s) \/ HeadRefused(s) \/ UploadRefused(s)
    \/ \E k \in Challenge : GetChallenge(s, k)
    \/ \E d \in Draw : GetHead(s, d)
    \/ \E h \in Handler : UploadBegin(s, h)

HandlerStep(h) == BodyVerified(h) \/ BodyRejected(h) \/ Refuse(h) \/ Commit(h)

CeremonyNext ==
    \/ \E s \in Session : ClientStep(s) \/ Heartbeat(s) \/ ConnectionBreaks(s) \/ Die(s)
    \/ \E h \in Handler : HandlerStep(h)
    \/ Environment
    \/ SequencerCrashes

CeremonySpec == CeremonyInit /\ [][CeremonyNext]_cvars

(* A living participant's program goes on, a handler that runs finishes,   *)
(* time passes and the ticker fires.  Nothing makes the network lose a     *)
(* message or the operator restart a sequencer that is down.               *)
CeremonyFairness ==
    /\ \A s \in Session : WF_cvars(ClientStep(s) /\ UNCHANGED losses)
    /\ \A h \in Handler : WF_cvars(HandlerStep(h))
    /\ WF_cvars(Clock /\ DeadlinePasses /\ UNCHANGED <<client, netVars>>)
    /\ WF_cvars(Ticker /\ UNCHANGED <<client, netVars>>)

CeremonyFairSpec == CeremonySpec /\ CeremonyFairness

-----------------------------------------------------------------------------
(* Properties *)

(* Type invariant of the participants.                                     *)
CeremonyTypeOK ==
    /\ client \in [Session -> ClientRecord]
    /\ losses \in 0..MaxLosses
    /\ deaths \in 0..MaxDeaths

(* Join returns a receipt only for the contribution this participant made, *)
(* and only when the sequencer that issued it has the entry both in its    *)
(* transcript and on disk (client.go:178, "recorded as contribution").     *)
ReceiptTruthful ==
    \A s \in Session : At(s, "done") =>
        /\ client[s].receipt.new = HashBlob(client[s].blob)
        /\ client[s].receipt \in receipts
        /\ Live => Lists(tr, client[s].receipt)

(* However often an upload is retried, and although a retry can follow an  *)
(* attempt that succeeded with its answer lost or failed half-way through  *)
(* the commit, a participant is recorded at most once (client.go:339).     *)
RecordedOnce ==
    tr # None => \A i, j \in DOMAIN tr.entries : tr.entries[i].by = tr.entries[j].by => i = j

(* No participant contributes to a circuit other than the one it was told  *)
(* to expect.  What /info said does not settle it: a process that is still *)
(* warming up names the circuit it was configured with and may then be     *)
(* refused, and the one that serves the head is another (client.go:79,     *)
(* :150, cmd/sequencer/main.go:151).                                       *)
RightCircuit ==
    \A s \in Session : ExpectCircuit # None /\ client[s].blob # None =>
        Head(client[s].blob) = ExpectCircuit

(* A run of Join that is told it failed left nothing in the transcript, so *)
(* that running it again is a retry and not a second contribution          *)
(* (client.go:176 "re-run join to retry").                                 *)
FailureMeansNotRecorded ==
    \A s \in Session : At(s, "failed") /\ tr # None =>
        \A i \in DOMAIN tr.entries : tr.entries[i].by # s

(* Every run of Join ends: nobody polls or retries for ever, whoever else  *)
(* dies, and whatever becomes of the sequencer.                            *)
JoinEnds == \A s \in Session : At(s, "info") ~> client[s].pc \in Ended

(* Without crashes and lost messages, when the heartbeats of a working     *)
(* participant arrive in time, challenges are used within their TTL and    *)
(* the lobby stays open, every participant that asks a sequencer which is  *)
(* up for a challenge and stays alive contributes, unless its proof is     *)
(* rejected, also behind others that die holding the slot or waiting for   *)
(* it (sequencer.go:287, "only a truly idle/dead session is").  One that   *)
(* asks while the process is warming up is turned away.                    *)
InTime ==
    /\ faults.crashes = 0 /\ faults.writes = 0 /\ losses = 0
    /\ late => active = None \/ client[active].pc \in Ended
    /\ \A s \in Session : At(s, "join") => chal[client[s].chal] = "fresh"
    /\ ~closed
EveryoneServed ==
    []InTime => \A s \in Session :
        (Live /\ At(s, "challenge")) ~> client[s].pc \in {"done", "rejected", "dead"}
=============================================================================
