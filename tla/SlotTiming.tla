----------------------------- MODULE SlotTiming -----------------------------
(***************************************************************************)
(* One slot and the participant it is for, with clocks: the deadline and   *)
(* the ticker of the sequencer (src/ceremony/sequencer.go), the polling    *)
(* loop and the heartbeat goroutine of the client (src/ceremony/client.go).*)
(* Lobby says only that a deadline passes; here it is a matter of numbers  *)
(* whether it passes under a participant that is working.                  *)
(*                                                                         *)
(* Time is discrete.  A timer is the time that remains; a message that     *)
(* travels may arrive earlier, a sleep and a ticker are exact.             *)
(***************************************************************************)
EXTENDS Integers

CONSTANTS
    SlotTimeout,   \* SequencerConfig.SlotTimeout (flag --slot-timeout)
    TickPeriod,    \* the ticker of expiryLoop: 1 s
    PollInterval,  \* ClientConfig.PollInterval: 2 s
    Beat,          \* the ticker of startHeartbeat: 20 s
    BeatTimeout,   \* the timeout of its HTTP client: 30 s
    Delay,         \* how long a request or an answer travels at most,
                   \* waiting for the sequencer's lock included
    LossTime       \* how much waiting lost heartbeats in a row may cost

ASSUME Durations ==
    /\ SlotTimeout \in Nat /\ LossTime \in Nat /\ PollInterval \in Nat
    /\ TickPeriod \in Nat \ {0} /\ Beat \in Nat \ {0} /\ Delay \in Nat
    /\ BeatTimeout \in Nat /\ 2 * Delay < BeatTimeout

(* The slot timeout that is enough: the poll that just missed the opening, *)
(* the sleep after it, the poll that sees it, the first beat.              *)
Enough == SlotTimeout >= PollInterval + Beat + 4 * Delay + LossTime

VARIABLES
    slot,    \* "other": not ours yet; "ours"; "freed": expired or given up
    left,    \* deadline - now, while the slot is ours
    pc,      \* Join: "asking", "answered", "sleeping", "working" or "gone"
    turn,    \* what the answer to the status request says
    wait,    \* of the step pc is in
    tick,    \* until the heartbeat ticker fires again
    due,     \* a tick is in the ticker's channel, which holds one
    beat,    \* the heartbeat request: "none", "sent", "handled" or "lost"
    fly,     \* of the request or the answer that travels
    giveUp,  \* until the HTTP client gives up on the heartbeat
    cost,    \* the waiting that heartbeats lost in a row have cost
    idle     \* how long the slot has been held by a participant that is gone

clientVars == <<pc, turn, wait>>
beatVars == <<tick, due, beat, fly, giveUp, cost>>
slotVars == <<slot, left>>
timingVars == <<slotVars, clientVars, beatVars, idle>>

Init ==
    /\ slot = "other" /\ left = 0
    /\ pc = "asking" /\ turn = FALSE /\ wait = Delay
    /\ tick = Beat /\ due = FALSE /\ beat = "none"
    /\ fly = 0 /\ giveUp = 0 /\ cost = 0
    /\ idle = 0

(* The longer of a beat's own timeout and the time to the next tick.       *)
LossCost == IF BeatTimeout > Beat THEN BeatTimeout ELSE Beat

-----------------------------------------------------------------------------
(* The sequencer *)

(* promoteLocked, because whoever had the slot has left it.                *)
Opens ==
    /\ slot = "other"
    /\ slot' = "ours"
    /\ left' = SlotTimeout
    /\ UNCHANGED <<clientVars, beatVars, idle>>

(* A tick of expiryLoop that finds the deadline in the past.               *)
Expires ==
    /\ slot = "ours"
    /\ left < 0
    /\ slot' = "freed"
    /\ UNCHANGED <<left, clientVars, beatVars, idle>>

(* Mutations: the deadline is pushed out from where it was; not at all.    *)
ExtendedFromDeadline == left' = IF slot = "ours" THEN left + SlotTimeout ELSE left
NotExtended == left' = left

(* handleHeartbeat and the first look of handleContribute.                 *)
Extended == left' = IF slot = "ours" THEN SlotTimeout ELSE left

-----------------------------------------------------------------------------
(* Join *)

(* handleStatus; a session it does not know ends Join.                     *)
StatusHandled ==
    /\ pc = "asking"
    /\ IF slot = "freed"
       THEN pc' = "gone" /\ UNCHANGED <<turn, wait>>
       ELSE pc' = "answered" /\ turn' = (slot = "ours") /\ wait' = Delay
    /\ UNCHANGED <<slotVars, beatVars, idle>>

TurnComes ==
    /\ pc = "answered" /\ turn
    /\ pc' = "working"
    /\ tick' = Beat /\ due' = FALSE
    /\ UNCHANGED <<slotVars, turn, wait, beat, fly, giveUp, cost, idle>>

KeepsWaiting ==
    /\ pc = "answered" /\ ~turn
    /\ pc' = "sleeping" /\ wait' = PollInterval
    /\ UNCHANGED <<slotVars, turn, beatVars, idle>>

Wakes ==
    /\ pc = "sleeping" /\ wait = 0
    /\ pc' = "asking" /\ wait' = Delay
    /\ UNCHANGED <<slotVars, turn, beatVars, idle>>

UploadBegins ==
    /\ pc = "working"
    /\ Extended
    /\ UNCHANGED <<slot, clientVars, beatVars, idle>>

Contributes ==
    /\ pc = "working" /\ slot = "ours"
    /\ slot' = "freed" /\ pc' = "gone"
    /\ UNCHANGED <<left, turn, wait, beatVars, idle>>

(* The program is killed, or Join returns an error.                        *)
Leaves ==
    /\ pc # "gone"
    /\ pc' = "gone"
    /\ UNCHANGED <<slotVars, turn, wait, beatVars, idle>>

-----------------------------------------------------------------------------
(* startHeartbeat *)

(* Mutation: the goroutine is not stopped when Join returns an error.      *)
BeatSentByGone ==
    /\ pc \in {"working", "gone"} /\ due /\ beat = "none"
    /\ due' = FALSE
    /\ beat' = "sent" /\ fly' = Delay /\ giveUp' = BeatTimeout
    /\ UNCHANGED <<slotVars, clientVars, tick, cost, idle>>

BeatSent ==
    /\ pc = "working" /\ due /\ beat = "none"
    /\ due' = FALSE
    /\ beat' = "sent" /\ fly' = Delay /\ giveUp' = BeatTimeout
    /\ UNCHANGED <<slotVars, clientVars, tick, cost, idle>>

BeatHandled ==
    /\ beat = "sent"
    /\ Extended
    /\ beat' = "handled" /\ fly' = Delay
    /\ UNCHANGED <<slot, clientVars, tick, due, giveUp, cost, idle>>

BeatAnswered ==
    /\ beat = "handled"
    /\ beat' = "none" /\ cost' = 0
    /\ UNCHANGED <<slotVars, clientVars, tick, due, fly, giveUp, idle>>

(* The request or the answer is lost.                                      *)
BeatLost ==
    /\ beat \in {"sent", "handled"}
    /\ cost + LossCost <= LossTime
    /\ beat' = "lost" /\ cost' = cost + LossCost
    /\ UNCHANGED <<slotVars, clientVars, tick, due, fly, giveUp, idle>>

(* Post returns an error, at once or at its timeout; it is ignored.        *)
BeatFails ==
    /\ beat = "lost"
    /\ beat' = "none"
    /\ UNCHANGED <<slotVars, clientVars, tick, due, fly, giveUp, cost, idle>>

-----------------------------------------------------------------------------
Less(t) == IF t = 0 THEN 0 ELSE t - 1

(* Nothing that has to happen by now is outstanding.                       *)
NothingIsDue ==
    /\ pc \in {"asking", "answered", "sleeping"} => wait > 0
    /\ pc = "working" => ~(due /\ beat = "none")
    /\ beat \in {"sent", "handled"} => fly > 0
    /\ pc = "working" /\ beat = "lost" => giveUp > 0
    /\ slot = "ours" => left > -TickPeriod

TimePasses ==
    /\ slot # "freed"
    /\ NothingIsDue
    /\ wait' = Less(wait) /\ fly' = Less(fly) /\ giveUp' = Less(giveUp)
    /\ tick' = IF tick = 1 THEN Beat ELSE tick - 1
    /\ due' = (due \/ tick = 1)
    /\ left' = IF slot = "ours" THEN left - 1 ELSE left
    /\ idle' = IF slot = "ours" /\ pc = "gone" THEN idle + 1 ELSE idle
    /\ UNCHANGED <<slot, pc, turn, beat, cost>>

(* The story ends with the slot.                                           *)
Over == slot = "freed" /\ UNCHANGED timingVars

Next ==
    \/ Opens \/ Expires
    \/ StatusHandled \/ TurnComes \/ KeepsWaiting \/ Wakes
    \/ UploadBegins \/ Contributes \/ Leaves
    \/ BeatSent \/ BeatHandled \/ BeatAnswered \/ BeatLost \/ BeatFails
    \/ TimePasses
    \/ Over

Spec == Init /\ [][Next]_timingVars

-----------------------------------------------------------------------------
(* Properties *)

(* Type invariant; the deadline is never further away than one timeout.    *)
TypeOK ==
    /\ slot \in {"other", "ours", "freed"}
    /\ left \in -TickPeriod .. SlotTimeout
    /\ pc \in {"asking", "answered", "sleeping", "working", "gone"}
    /\ turn \in BOOLEAN /\ wait \in Nat
    /\ tick \in 1..Beat /\ due \in BOOLEAN
    /\ beat \in {"none", "sent", "handled", "lost"}
    /\ fly \in 0..Delay /\ giveUp \in 0..BeatTimeout
    /\ cost \in 0..LossTime
    /\ idle \in Nat

(* "someone genuinely making progress is never dropped" (sequencer.go:289):*)
(* with a slot timeout that is Enough, the slot is never taken from a      *)
(* participant that is alive, however its polling falls, although its      *)
(* heartbeats start only when it has learnt of its turn, and although some *)
(* in a row are lost, each of which holds up the next.                     *)
WorkerKeepsSlot == Enough /\ pc # "gone" => slot # "freed"

(* "only a truly idle/dead session is" (sequencer.go:290): a participant   *)
(* that is gone loses the slot one timeout later, at the latest after the  *)
(* heartbeat that was under way and the next tick.                         *)
DeadFreed == slot = "ours" => idle <= SlotTimeout + Delay + TickPeriod

(* The slot with clocks is the slot of the lobby, from when the participant*)
(* is next in line: what Lobby says of late is what the deadline does.     *)
Two == {"ours", "other"}
Room == INSTANCE Lobby WITH
            Session <- Two, Challenge <- Two, None <- "none",
            chal <- [k \in Two |-> "gone"], joining <- {}, via <- [s \in Two |-> s],
            queue <- IF slot = "other" THEN <<"ours">> ELSE <<>>,
            active <- IF slot = "freed" THEN "none" ELSE slot,
            late <- left < 0, closed <- FALSE, ticking <- TRUE
KeepsToLobby == [][Room!LobbyNext]_(Room!lobbyVars)
=============================================================================
