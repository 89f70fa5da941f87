# A TLA+ model of gnark-mpc-ceremony

This directory holds the specification of gnark-mpc-ceremony: the Phase-2
sequencer with its lobby and storage, the program participants run against it,
the two programs that make the keys from what it has archived, and the two ways
to the `commons.bin` a ceremony starts from. TLC checks it on small instances,
TLAPS proves most of it for instances of any size. `PROJECT.json` ties every
definition to the lines of code it stands for.

## The system

A Groth16 setup is a chain of contributions. Phase 1 (or an import of a public
powers-of-tau file) gives the commons; Phase 2 folds contributions of many
participants into circuit-specific parameters. The sequencer admits one
participant at a time, hands out the current parameters (the *head*), verifies
what comes back, archives it and records it in a hash-chained public transcript.
When enough have contributed, the operator finalizes the archived chain into
`vk.bin`, `pk.bin` and `ccs.bin` and pins the fingerprint of `vk.bin`.

| Component | State it keeps | Operations | What makes it hard |
|---|---|---|---|
| Lobby (`ceremony/sequencer.go`) | challenges with a TTL, FIFO queue, one active slot with a deadline, `closed` | `handleChallenge`, `handleJoin`, `handleStatus`, `handleHeartbeat`, `promoteLocked`, `expiryLoop`, `Close` | `handleJoin` gives up the lock between consuming the challenge and queueing the session; expiry, admission and commit all move the line; the slot timeout races polling and heartbeats |
| Sequencer (`ceremony/sequencer.go`) | head, transcript, in-flight uploads | `NewSequencer` (fresh or resume), `handleHead`, `handleContribute`, `handleTranscript`, `handleInfo` | an upload is received and verified without the lock and then commits in four steps, three of them writes to the store |
| Transcript (`ceremony/transcript.go`) | entries linked by hashes | `Append`, `Verify`, `Len`, load and snapshot | has its own lock, so it is readable in the middle of a commit |
| Storage (`ceremony/storage.go`) | `head.bin`, `transcript.json`, `blobs/` | `SaveHead`, `SaveBlob`, `SaveTranscript`, `LoadHead`, `LoadTranscript`, `LoadChain` | three files, no transaction; files are truncated and rewritten in place, one of them without a sync |
| Backend (`ceremony/backend.go`, `bls12381.go`) | none | init, contribute, verify, seal and finalize for both phases, hashes | cryptography, delegated to gnark; `uint8` sizes |
| Auth (`ceremony/auth.go`) | allowlists | `Verify` of a token or of a signature on the challenge | only the ed25519 provider looks at the challenge |
| Client (`ceremony/client.go`) | session, contributed blob, attempts | `Join`, `startHeartbeat`, `uploadWithRetry`, `verifyInclusion` | lost requests and answers, retries of an upload that may have committed |
| Finalizers (`cmd/finalize-stream`, `phase2-finalize` of `cmd/ceremony`) | what has been read and written of a run, the keys directory, the pinned fingerprint | read and verify the archived chain, seal it, write three key files, print the fingerprint | the archive goes on changing and holds more than the accepted chain; a run can die between two key files |
| Phase 1 by hand (`cmd/ceremony`) | files passed from hand to hand | `phase1-init`, `phase1-contribute`, `phase1-seal` | files overwritten in place, torn, forked, listed in any order; a power that does not fit its byte |
| `ingest-ptau` (`cmd/ingest-ptau`) | the arrays read so far, `commons.bin` | fetch five arrays by offset, decode, gates, probe or write | offsets in `int64` from flags the operator can get wrong |

Participants talk to the sequencer over HTTP. Handlers, the ticker goroutine and
`Close` share the sequencer's mutex. The store is the only thing that survives a
restart; sessions and challenges do not. The finalizers read `blobs/` behind the
sequencer's back. The commands meet in files only.

## Modules

| Module | Models | Correspondence |
|---|---|---|
| `Participants` | names of sessions, nil | |
| `Lobby` | the waiting room, as a specification of its own (`LobbySpec`) | one action per critical section: `IssueChallenge`, `JoinBegin` / `JoinFails` / `JoinAdmit` (the two halves of `handleJoin` around `prov.Verify`), `ExtendSlot`, `Expire`, `Release`, `Close`, `LoopStops`, `LobbyRestart`. The deadline is the Boolean `late`; `via` is a history variable |
| `SlotTiming` | one slot and one participant with clocks in seconds | ticker, deadline, polling loop, heartbeat goroutine with its HTTP timeout, messages that take up to `Delay`; what `Lobby` leaves to `late`. `Room` shows a state of it as one of the lobby |
| `Backend` | Phase-2 operations on abstract blobs | a blob is its circuit followed by the contributions folded into it; `VerifyPhase2Step` holds of a blob and its extension by one contribution; `VerifyPhase2` of a whole chain; keys are named by the blob they are sealed from; `HashBlob` is injective |
| `Transcript` | the document and `Append`, `Verify` | operators on a record |
| `Storage` | the three kinds of file and what an interrupted write or a power failure leaves | `TornWrites = TRUE` is `LocalStorage`; `FALSE` is a store with atomic puts, which the `Storage` interface is meant to allow (storage.go:13). `versions` are the transcripts the disk may turn out to hold after a power failure |
| `Sequencer` | `NewSequencer`, `handleHead`, `handleTranscript`, `handleContribute`, crashes and power failures, on top of `Lobby` and `Storage` | one action per step between two points where another actor or a crash can intervene; see below |
| `Ledger` | what the sequencer promises of the chain it serves, whatever it is stored in | a chain that grows by one verified contribution at a time; a stop may forget the end of it, but nothing with a receipt; the next start goes on with what was left |
| `Ceremony` | participants running `Join` against the sequencer, over a network that loses requests, answers and connections | one client record per run of `Join`; its actions call the sequencer's |
| `KeyMaking` | what a finalization promises, whichever program does it | four actions: ask, give up, write (or tear) a key file of a chain that verifies, finish when all three are there |
| `Finalize` | `phase2-finalize` and `finalize-stream` over an archive | the batch reads everything, verifies, writes in any order (a Go map); the stream verifies each link as it reads, writes vk, pk, ccs. `FinalizeDies` can end either anywhere |
| `Finalization` | `Finalize` over the archive of a running `Sequencer` | the names are listed once, at any moment of a commit, and the files opened later |
| `Ptau` | `ingest-ptau` over a source file that may be wrong in one place, with flags that may be wrong | `OffsetOf` computes in `IntBits`-bit arithmetic; a point is what it is a multiple of; `SameRatioMany` is modelled by what it establishes |
| `Phase1` | the three Phase-1 commands over files | `--power` goes through `Uint8` and a shift; each command writes in two steps and can die |
| `Commons` | a ceremony takes one of the two ways | |
| `MC*` | instances for TLC | symmetry and a bound on faults |
| `*Proofs` | theorems, see below | |

*The lock.* `handleContribute` holds `Sequencer.mu` from the second look at the
slot (sequencer.go:375) until it returns, through all the writes. So the mutex is
not a variable: it is held exactly when some upload is in a saving stage
(`Saving`), and every action that needs it has `Serving` as its guard. What does
not need it stays enabled: time, the authentication of a join, receiving and
verifying another upload, and `GET /transcript`, which takes only the
transcript's own lock.

*The commit.* `CommitBegin` or `CommitRefused` (the second look), `BlobSaved`,
`EntryAppended` (the transcript in memory and `s.head`), `HeadSaved`,
`TranscriptSaved` (with the hand-over of the slot and the receipt). Each write
may fail instead (`SaveFails`: the handler returns 500, nothing is undone, the
slot stays), and a crash may come before, after or in the middle of each
(`Crash`).

*The disk.* `head.bin` and the archive are written with a sync
(storage.go:35), `transcript.json` is not (storage.go:111). `PowerFailure`
therefore brings back any transcript written since the last power failure, or a
torn one. Directory entries are taken to be as durable as their files.

*Warm-up.* A process answers `GET /info` from its first second with the circuit
it was configured with, and everything else with 503, until `NewSequencer`
returns (cmd/sequencer/main.go:116). `InfoCircuits` is what such an answer may
name: `circuitFP` once `NewSequencer` writes or is done, any circuit before that.
A process that is still loading its initial head has no state of its own: it can
die at any moment without a trace, so a later start for another circuit is always
possible, and the phase `down` stands for it as well as for no process. A
participant that arrives then passes its check of `/info` and fails at
`/auth/challenge`, or goes on to a sequencer of another circuit, where only the
second check, at the head, protects it (`RightCircuit`).

*Start.* `Resume` needs a readable transcript of the configured circuit and a
readable head. `StartFresh` is taken on any error of `LoadTranscript`. In every
other case `NewSequencer` returns an error and the process exits, which leaves
the model in `down`. The model lets the operator choose the circuit anew at every
start; the initial head always belongs to the circuit given with it (the code
does not check `--circuit-fp` against `--init-head`).

*Refinement.* `Sequencer` extends `Lobby`, so its variables are
among the sequencer's; `LobbySpec` is a property of the sequencer, and `Spec` (the
sequencer's) a property of `Ceremony`. `Finalize` implements `KeyMaking` under a
mapping: a run in progress is an order for the chain its file names stand for
(`Promise == INSTANCE KeyMaking WITH order <- Promised`). The abstract machine
sees the chain as a whole; `finalize-stream` never has more than two blobs.
`Sequencer` implements `Ledger` in the same way: the chain is the blob the
transcript ends in, in memory or, while the process is down, on disk
(`ServedChain`), and the promise ends when the store loses something (`Lose`:
nothing is said of what comes after). `SlotTiming` takes only steps of the
lobby (`KeepsToLobby`): beats and expiries are `ExtendSlot` and `Expire`, and the
rest leaves the lobby alone.

## Runs

| Run | Question | Result |
|---|---|---|
| `sequencer` | Is the chain sound, is an upload that comes too late ignored, is every blob archived that was accepted or shown, is nobody recorded twice by two uploads in flight, and does the sequencer implement the lobby, over `LocalStorage` with a crash (and torn write) anywhere, a failing write, or a power failure? | holds |
| `calm` | With no fault: is the line first come first served with one seat each, is the slot never idle, is the head the tip of the transcript and stable under its holder, is a published entry never changed, is the archive exactly the chain? | holds |
| `ceremony` | With participants, lost requests and answers, a death, two crashes and a failing write over a store with atomic puts: are receipts true and durable, is nobody recorded twice, is another circuit refused at a restart and by a participant that was told otherwise during warm-up, does the composition implement the sequencer, and that the ledger? | holds |
| `participants` | Does every run of `Join` end, also behind a session whose program never got the answer to its join? With timely heartbeats and no fault but a death, is everyone who stays served? | holds |
| `timing` | With the durations of the code, which slot timeout never drops a participant that is alive, and is the slot of a dead one freed? | holds with 56 s |
| `finalize` | Do both finalizers, started at any moment over the archive of a running or crashed sequencer and dying anywhere, fold every receipt, implement `KeyMaking`, and does an interrupted stream not mix its keys with the pinned ones? | holds |
| `commons` | Is `commons.bin` the true prefix of its source whatever flags are given, are the right flags accepted, does a probe vouch for the ingest, is a seal by hand the fold of a whole chain of the right power? | holds |
| `resume_broken` | `HeadIsTip` after a crash ("we pick up exactly where we left off") | violated |
| `resume_wipes` | `ReceiptsDurable` over `LocalStorage` | violated |
| `retry_doubles` | A failed `Join` has recorded nothing | violated |
| `finalize_orphan` | The keys fold the accepted chain and nothing else | violated |
| `stream_in_place` | COMPLETE means three whole key files | violated |

Every property of a passing run has a mutant in `PROJECT.json`: a plausible bug
in one mapped definition with which TLC finds the property violated under the
same configuration.

No run checks for deadlock except `timing`. The others do stop: every challenge
is used up, the lobby is closed, the sequencer is down and nobody starts it
again, or the last file is written. That nobody waits in vain is what
`NoIdleSlot`, `JoinEnds` and `EveryoneServed` say instead.

### Bounds

| Bound | Value | Why it is enough |
|---|---|---|
| sessions, challenges | 2, in `calm` 3 | two give every race between a holder and its successor; the order of a line, and being overtaken in it, take three |
| handlers (concurrent uploads) | 2, in `finalize` and `participants` 1 | two uploads of one session race, or the late upload of one session with the upload of the next |
| circuits | 1, in `ceremony` and `finalize` 2 | a restart for another circuit, keys asked for the wrong one. In `finalize` circuits are symmetric; in `ceremony` one of them is the expected one |
| draws | 1 | the randomness of a contribution; a second one renames blobs |
| `MaxCrashes` | 1, in `ceremony` 2, in `calm` 0 | the second crash hits a resumed process |
| `MaxWriteFaults`, `MaxPowerFailures` | at most one of both (`FewFaults` in `MCSequencer`) | both in one behaviour exceed what TLC can enumerate in minutes; the theorems have no such bound |
| `MaxReadFaults` | 0 | a failed read of an intact transcript starts afresh and overwrites it; nothing is promised then. The theorems name it (`NoneOverwritten`) |
| `MaxLosses`, `MaxDeaths`, `MaxAttempts` | 1, 1, 2 | one lost answer and its retry |
| `MaxRuns` | 1 after an earlier finalization (`Before`) | files of two finalizations side by side; three runs without crashes were checked too |
| `IntBits` | 20 | wide enough that right offsets fit, narrow enough that wrong shifts wrap |
| header, powers, flaws | one wrong point at 0, 1, 3 or 31 of any array | the first elements, the last of a small array, one past what the probe reads |
| `Power`, `MaxFolded` | {0, 1, 2, 64, 257}, 2 | 64 is where the shift overflows, 257 where the byte wraps |

`participants` has no symmetry because TLC's symmetry is not sound for liveness.

### What the violated properties say

*`resume_broken`.* `SaveHead` comes before `SaveTranscript`. A crash in between
leaves `head.bin` one contribution ahead; after the restart every append is
refused because the chain check compares with the transcript, until someone
repairs the files.

*`resume_wipes`.* A crash while `transcript.json` is rewritten leaves a file that
does not parse, and `NewSequencer` takes any error as "there is no ceremony yet".
With atomic puts the property holds (`ceremony`).

*`retry_doubles`.* The answer to a committed upload is lost, the retry is refused
because the slot has moved on, and `Join` tells the participant to run it again.
`RecordedOnce` still holds: one run of `Join` is recorded at most once.

*`finalize_orphan`.* `SaveBlob` comes before acceptance. After a crash the file is
in `blobs/` and verifies as the next link, so `./state/blobs/*.bin` folds a
contribution the transcript does not list. If the ceremony goes on instead, an
accepted blob gets the same index, and the list is refused as it does not verify.

*`stream_in_place`.* `copyFile` truncates its target before reading its source.

### Where a property stops

These limits are real ones of the code; a wider property would not hold.

- `HeadStableWhileHeld` leaves failing writes out: when `SaveHead` fails the head
  in memory has already moved, the slot is still held and the holder's next
  upload is measured against the new head.
- `HeadIsTip` and `ArchiveIsChain` hold until the first crash, `PublishedOnce`
  within a life of the process: `GET /transcript` can show an entry whose
  transcript is not on disk yet. Its blob stays in the archive whatever happens
  (`AcceptedArchived`).
- After a power failure a receipted contribution can be missing from
  `transcript.json`. `ChainSound` and `AcceptedArchived` survive; `HeadNotBehind`,
  `ReceiptsDurable` and, over `LocalStorage`, `CircuitPinned` are about behaviours
  without one. An older transcript can even reappear beside the initial head of a
  later fresh start.
- `ReceiptTruthful` and `RightCircuit` need a store that keeps its transcript.
- `SealedPower` is about powers below 256: `--power 257` passes for 1, 256 for 0,
  and 64 to 255 panic on an empty slice before anything is written.
- `RightFlagsWork` leaves the probe out for sources of a power below 4: it reads
  16 elements of every array, more than there are. No gate bounds the alpha
  array; that it belongs with the others rests on the offsets alone.
- An interrupted `phase2-finalize` can leave the pinned `vk.bin` beside a `pk.bin`
  of other keys, since it writes in the order of a map. `StreamKeepsTogether` is
  therefore about `finalize-stream`, and leaves out one case of that too: a run
  that makes the pinned keys again in a directory that has come to hold others.
- `EveryoneServed` assumes the handler of the slot's holder ends. Nothing bounds
  an upload that hangs while heartbeats arrive. It is about participants that ask
  for a challenge once the sequencer is up: who comes during warm-up is told 503
  and has to run `join` again.

## Fairness

`CeremonyFairness` is weak fairness of each participant's program while it lives
(a goroutine goes on), of each handler that has begun (an HTTP handler runs to
its end), of the passing of the deadline and of the ticker (`time.Ticker` in
`expiryLoop`). The steps of a program that fairness speaks of are those without
a loss, so that nobody gets on because a message is bound to be lost some day.
There is none for starting a sequencer that is down, for closing, for deaths or
for faults: the operator and the environment owe nothing. The queue serves in
order, so weak fairness suffices.

`JoinEnds` needs only that. `EveryoneServed` assumes in addition `[]InTime`: no
crash, no failing write, no loss, the deadline passes only for a holder whose
program has ended, challenges are used within their TTL and the lobby stays
open. That heartbeats are in time is not left an assumption: `SlotTiming`, which
has the clocks, derives it from
`Enough == SlotTimeout >= PollInterval + Beat + 4 * Delay + LossTime`. With a
message delay of a second and one beat lost for 30 s this is 56 s. TLC finds a
living participant dropped at 55, so the condition is tight.

## Proofs

All theorems hold for every value of the constants, under the assumptions the
modules name: nil, marks and contents are distinct (`NoneIsNothing`,
`NoneIsNoContent`, `NoFileIsNoContent`, `NoneIsNoHandler`), bounds are naturals
(`FaultBounds`, `ClientBounds`, `Durations`), parameters of the commands make
sense (`FinalizeParameters`, `Phase1Parameters`, `PtauParameters`), and the
offsets in a source file fit the `int64` that addresses it (`FilesFitInt64`). TLC
evaluates them in the runs. `HashBlob` is a constructor: no collisions.

| Module | Theorems | Argument |
|---|---|---|
| `LobbyProofs` | type, `NoIdleSlot`, `SingleUse`, `OneSeat`, `LineIsFifo`, `ClosedGrantsNothing` | each inductive with the type. `SingleUse` needs `Consumed`: a challenge of a session or of a pending join is out of the map. `LineIsFifo` needs `OneSeat` |
| `SequencerProofs` | type, `LobbySpec`, `OneCommit`, `NoLateCommit`, `ChainSound` | `Typed` (types, the lobby's safety and the phases) is the invariant of every later proof. Each action of the sequencer is an action of the lobby or a stutter. `OneCommit` is what the mutex gives, and from it and the second look follows that an entry is the holder's |
| `DurabilityProofs` | `HeadNotBehind`, `OneEntryPerSession`, `AcceptedArchived`, `ReceiptsDurable`, `CircuitPinned`, `KeepsLedger` (refinement) | `InOrder`: what disk, transcript and head contain are prefixes of each other in that order. `OncePerSession`: those recorded in any document, versions on disk included, were admitted, and as long as every write succeeds have left the line. `Shelved`: every entry anywhere, also one that was only shown, has its file, and nobody will write it again, as its maker has left (`MakersHaveLeft`). `ReceiptsKept`: until something in the store is lost (`NoneLost`: a failed read, a power failure, a `transcript.json` cut short) the receipts are in the transcript, over any store; an atomic one cuts nothing short. `OneCircuit` for the circuit, and with power failures over atomic puts `VersionsAgree`: all that one can bring back is of one circuit. `KeepsLedger`: the blob of every entry is a prefix of the last one (`EntriesInTip`), so receipts in the transcript are prefixes of the chain; each action of the sequencer is one of the ledger or a stutter (`LedgerStep`) |
| `CalmProofs` | `PublishedOnce`, `HeadIsTip`, `HeadStableWhileHeld`, `ArchiveIsChain`, and `SequencerStuckForGood` | under the conditions named in their statements: no crash (`Undisturbed`), also no failed read or power failure (`Steady`), no failing write, none at all (`Flawless`). `ServedAreOut` and `HeadIsHeld`: the downloaded head of the holder is the head. `SequencerStuckForGood` is what run `resume_broken` ends in: once `head.bin` is ahead of the transcript and the process has died, the two files and the receipts never change again, through any restarts. An upload in flight is measured against the head (`UploadsRefused`), so every append is refused (`Stuck`) |
| `CeremonyProofs` | `Spec` (refinement), type, `RecordedOnce`, `ReceiptTruthful`, `RightCircuit`, and `FailureMeansNotRecorded` without trouble | `Clients`: what a participant's record may hold at each point of `Join`; `Uploads`: an upload in flight is its participant's; `Recorded`: an entry anywhere is the contribution of the participant it names, and blobs grow along every document, so that nobody is in it twice even after a failed write; `ReceiptsOwned`; `HeadIsOfCircuit`. What run `retry_doubles` refutes holds as long as no answer is lost, the sequencer does not crash and every write succeeds (`Untroubled`; TLC refutes it without any one of the three): an upload has its participant waiting (`Attended`), and who is recorded has a receipt coming or is dead (`AllSettled`) |
| `SlotTimingProofs` | type, `WorkerKeepsSlot`, `DeadFreed`, `KeepsToLobby` | `StagesOK` relates the stage of program and heartbeat; `Margin` bounds the time left at each stage from below, `Leftover` from above after a death. `KeepsToLobby` follows step by step; no run checks it apart |
| `FinalizeProofs` | `KeepsPromise` (refinement), `StreamKeepsTogether`, `ReceiptsFolded`, type, `CleanFinalizes` | `FinOK`: what is read is linked, and what is written is of that chain. `OwedFolded`: every receipt owed has its file in the list, and a chain that verifies only grows. `Clean`: sorted names of an archive that is the chain are the chain in order. All with `~InPlace`, and `CleanFinalizes` with `NoneOverwritten` as well |
| `CommonsProofs` | `TruePrefix`, `RightFlagsWork`, `ConfirmedIngests`, `SealFoldsAll`, `SealedPower` | Powers of two first: `2^n` counts the subsets of an `n`-element set, which gives doubling, growth and divisibility. `Int64` adds a multiple of `2^IntBits` (`Int64Wraps`). The gates read two generators, at the places the code takes for `tau_g1` and `tau_g2`; with a beta offset that can be asked for, these fix where every array is taken to be (`GeneratorsLocate`) and, as different powers do not differ by such a multiple (`SamePower`), the source power. A place in the file is hit by one array only (`Apart`). A file without a flaw passes the gates (`FlawlessGates`). `Phase1OK`: a sealed file holds the chain it is sealed from, with the size of its first file; by a least counterexample each link is a prefix of the last |

Statements about a whole chain are proved by a least counterexample
(`LeastNumber`, from the well-foundedness of the naturals), since the library's
induction theorems cannot be instantiated here. Only `SortedHasAll` and
`SortedIsChain` need facts about `Sorted`, the order in which a shell expands
`blobs/*.bin`.

*Only model-checked.* The two liveness properties, `JoinEnds` and
`EveryoneServed`. The invariants and action properties of the passing runs are
all proved, some under the conditions named above.

## Not modelled

- The rolling average and the ETA, the counters of `/info`, logging: shown and
  never read by a decision.
- JSON, HTTP status codes and size limits of bodies, beyond success, refusal and
  no answer. `protocol.go` declares messages only.
- What the providers of `auth.go` accept. They are pure functions of an allowlist
  fixed at start; the model lets them accept or refuse anything, so all of the
  lobby's properties hold whatever they do.
- `verifyInclusion` and the saved contribution of `client.go`: the first warns,
  the second is a file no code reads again.
- `phase2-init`, `phase2-contribute`, `keygen`, `keygen-team`, `verify-circuit`,
  `transcript`: each reads, computes and writes or prints once. The first two
  have the hazards `Phase1` shows for their Phase-1 twins.
- Proofs of knowledge and pairings are external: gnark's verification is taken to
  establish what it is for.
- Whether the entry of a new file in its directory survives a power failure: the
  code syncs no directory, the model takes entries to be as durable as files.
- `internal/gendemo`: generates a demo circuit.

## Plan

Modelled in this order: lobby, sequencer and store, participants, slot timing,
finalizers, the two ways to the commons. Open: the offline Phase-2
commands beside `Phase1`; the store behind `Storage` when directory entries are
lost.
