-------------------------- MODULE SlotTimingProofs --------------------------
(***************************************************************************)
(* The two halves of the promise about slots, for all durations: with a    *)
(* timeout that is Enough a living participant is never dropped, and one   *)
(* that is gone is dropped in bounded time.                                *)
(***************************************************************************)
EXTENDS SlotTiming, TLAPS

(* A message that travels is not older than it may be, and the HTTP client *)
(* does not give up on a beat before its answer is overdue.                *)
TimersOK ==
    /\ TypeOK
    /\ pc \in {"asking", "answered"} => wait <= Delay
    /\ pc = "sleeping" => wait <= PollInterval
    /\ beat = "sent" => giveUp >= fly + BeatTimeout - Delay
    /\ beat = "handled" => giveUp >= fly + BeatTimeout - 2 * Delay

(* Nobody works before the slot is open, nobody beats before working.      *)
StagesOK ==
    /\ pc = "working" \/ (pc = "answered" /\ turn) => slot # "other"
    /\ pc \in {"asking", "answered", "sleeping"} => beat = "none" /\ cost = 0

NextTick == IF due THEN 0 ELSE tick
Later(a, b) == IF a >= b THEN a ELSE b
Resend == Later(giveUp, NextTick)

(* The time until the sequencer handles the next heartbeat at the latest,  *)
(* with all the losses that may still come, does not exceed what is left.  *)
JoinMargin ==
    /\ pc = "asking" => left >= wait + 2 * Delay + Beat + LossTime
    /\ pc = "answered" /\ turn => left >= wait + Delay + Beat + LossTime
    /\ pc = "answered" /\ ~turn => left >= wait + PollInterval + 3 * Delay + Beat + LossTime
    /\ pc = "sleeping" => left >= wait + 3 * Delay + Beat + LossTime

BeatMargin ==
    /\ beat = "none" => left >= NextTick + Delay + LossTime - cost
    /\ beat = "sent" => left >= fly
    /\ beat = "handled" => left >= Later(fly, NextTick) + Delay + LossTime
    /\ beat \in {"sent", "handled"} /\ cost + LossCost <= LossTime =>
         left >= Resend + Delay + LossTime - cost - LossCost
    /\ beat = "lost" => left >= Resend + Delay + LossTime - cost

Margin ==
    pc # "gone" =>
        /\ slot # "freed"
        /\ slot = "ours" => JoinMargin /\ (pc = "working" => BeatMargin)

(* What a participant that is gone can still hold.                         *)
Leftover ==
    /\ pc # "gone" => idle = 0
    /\ idle + left <= SlotTimeout + Delay \/ slot # "ours"
    /\ slot = "other" => idle = 0
    /\ slot = "ours" /\ beat = "sent" => idle + fly <= Delay

-----------------------------------------------------------------------------
LEMMA InitTimers == Init => TimersOK
<1> SUFFICES ASSUME Init PROVE TimersOK
  OBVIOUS
<1>1. turn \in BOOLEAN /\ due \in BOOLEAN
  BY Zenon DEF Init
<1> QED
  BY <1>1, Durations DEF Init, TimersOK, TypeOK

(* Every step keeps the timers within their bounds.                        *)
LEMMA StepTimers == TimersOK /\ [Next]_timingVars => TimersOK'
<1> SUFFICES ASSUME TimersOK, [Next]_timingVars PROVE TimersOK'
  OBVIOUS
<1> USE DEF TimersOK, TypeOK
<1>1. CASE Opens
  BY <1>1, Durations DEF Opens, clientVars, beatVars
<1>2. CASE Expires
  BY <1>2, Durations DEF Expires, clientVars, beatVars
<1>3. CASE StatusHandled
  <2>1. turn' \in BOOLEAN /\ due' \in BOOLEAN
    BY Zenon, <1>3 DEF StatusHandled, beatVars
  <2> QED
    BY <1>3, <2>1, Durations DEF StatusHandled, slotVars, clientVars, beatVars
<1>4. CASE TurnComes
  <2>1. turn' \in BOOLEAN /\ due' \in BOOLEAN
    BY Zenon, <1>4 DEF TurnComes, beatVars
  <2> QED
    BY <1>4, <2>1, Durations DEF TurnComes, slotVars, clientVars, beatVars
<1>5. CASE KeepsWaiting
  BY <1>5, Durations DEF KeepsWaiting, slotVars, beatVars
<1>6. CASE Wakes
  BY <1>6, Durations DEF Wakes, slotVars, beatVars
<1>7. CASE UploadBegins
  BY <1>7, Durations DEF UploadBegins, Extended, clientVars, beatVars
<1>8. CASE Contributes
  BY <1>8, Durations DEF Contributes, beatVars
<1>9. CASE Leaves
  BY <1>9, Durations DEF Leaves, slotVars, beatVars
<1>10. CASE BeatSent
  <2>1. turn' \in BOOLEAN /\ due' \in BOOLEAN
    BY Zenon, <1>10 DEF BeatSent, clientVars
  <2> QED
    BY <1>10, <2>1, Durations DEF BeatSent, slotVars, clientVars, beatVars
<1>11. CASE BeatHandled
  BY <1>11, Durations DEF BeatHandled, Extended, clientVars
<1>12. CASE BeatAnswered
  BY <1>12, Durations DEF BeatAnswered, slotVars, clientVars
<1>13. CASE BeatLost
  BY <1>13, Durations DEF BeatLost, LossCost, slotVars, clientVars
<1>14. CASE BeatFails
  BY <1>14, Durations DEF BeatFails, slotVars, clientVars
<1>15. CASE TimePasses
  BY <1>15, Durations DEF TimePasses, Less, NothingIsDue
<1>16. CASE UNCHANGED timingVars
  BY <1>16 DEF timingVars, slotVars, clientVars, beatVars
<1> QED
  BY <1>1, <1>2, <1>3, <1>4, <1>5, <1>6, <1>7, <1>8, <1>9, <1>10, <1>11, <1>12, <1>13, <1>14, <1>15, <1>16 DEF Next, Over

LEMMA InitStages == Init => StagesOK
BY DEF Init, StagesOK

(* Work starts with a turn, heartbeats with work.                          *)
LEMMA StepStages == TimersOK /\ StagesOK /\ [Next]_timingVars => StagesOK'
<1> SUFFICES ASSUME TimersOK, StagesOK, [Next]_timingVars PROVE StagesOK'
  OBVIOUS
<1> USE DEF StagesOK, TimersOK, TypeOK
<1>1. CASE Opens
  BY <1>1, Durations DEF Opens, clientVars, beatVars
<1>2. CASE Expires
  BY <1>2, Durations DEF Expires, clientVars, beatVars
<1>3. CASE StatusHandled
  BY <1>3, Durations DEF StatusHandled, slotVars, beatVars
<1>4. CASE TurnComes
  BY <1>4, Durations DEF TurnComes, slotVars
<1>5. CASE KeepsWaiting
  BY <1>5, Durations DEF KeepsWaiting, slotVars, beatVars
<1>6. CASE Wakes
  BY <1>6, Durations DEF Wakes, slotVars, beatVars
<1>7. CASE UploadBegins
  BY <1>7, Durations DEF UploadBegins, Extended, clientVars, beatVars
<1>8. CASE Contributes
  BY <1>8, Durations DEF Contributes, beatVars
<1>9. CASE Leaves
  BY <1>9, Durations DEF Leaves, slotVars, beatVars
<1>10. CASE BeatSent
  BY <1>10, Durations DEF BeatSent, slotVars, clientVars
<1>11. CASE BeatHandled
  BY <1>11, Durations DEF BeatHandled, Extended, clientVars
<1>12. CASE BeatAnswered
  BY <1>12, Durations DEF BeatAnswered, slotVars, clientVars
<1>13. CASE BeatLost
  BY <1>13, Durations DEF BeatLost, slotVars, clientVars
<1>14. CASE BeatFails
  BY <1>14, Durations DEF BeatFails, slotVars, clientVars
<1>15. CASE TimePasses
  BY <1>15, Durations DEF TimePasses
<1>16. CASE UNCHANGED timingVars
  BY <1>16 DEF timingVars, slotVars, clientVars, beatVars
<1> QED
  BY <1>1, <1>2, <1>3, <1>4, <1>5, <1>6, <1>7, <1>8, <1>9, <1>10, <1>11, <1>12, <1>13, <1>14, <1>15, <1>16 DEF Next, Over

LEMMA InitMargin == Init => Margin
BY DEF Init, Margin

(* What is left shrinks no faster than the time to the next heartbeat that *)
(* is handled; a handled one leaves room for the next.                     *)
LEMMA StepMargin ==
    Enough /\ TimersOK /\ StagesOK /\ Margin /\ [Next]_timingVars => Margin'
<1> SUFFICES ASSUME Enough, TimersOK, StagesOK, Margin, [Next]_timingVars PROVE Margin'
  OBVIOUS
<1> USE DEF Margin, JoinMargin, BeatMargin, StagesOK, TimersOK, TypeOK, Enough
<1>1. CASE Opens
  BY <1>1, Durations DEF Opens, NextTick, Later, Resend, LossCost, clientVars, beatVars
<1>2. CASE Expires
  BY <1>2, Durations DEF Expires, NextTick, Later, Resend, LossCost, clientVars, beatVars
<1>3. CASE StatusHandled
  <2>1. CASE slot = "freed"
    BY <1>3, <2>1 DEF StatusHandled
  <2>2. CASE slot = "ours"
    <3>1. turn' /\ pc' = "answered" /\ wait' = Delay
      BY Zenon, <1>3, <2>2 DEF StatusHandled
    <3>2. slot' = slot /\ left' = left
      BY <1>3 DEF StatusHandled, slotVars
    <3> QED
      BY <2>2, <3>1, <3>2, <1>3, Durations DEF StatusHandled
  <2>3. CASE slot = "other"
    BY <1>3, <2>3 DEF StatusHandled, slotVars
  <2> QED
    BY <2>1, <2>2, <2>3
<1>4. CASE TurnComes
  BY <1>4, Durations DEF TurnComes, NextTick, Later, Resend, LossCost, slotVars
<1>5. CASE KeepsWaiting
  BY <1>5, Durations DEF KeepsWaiting, NextTick, Later, Resend, LossCost, slotVars, beatVars
<1>6. CASE Wakes
  BY <1>6, Durations DEF Wakes, NextTick, Later, Resend, LossCost, slotVars, beatVars
<1>7. CASE UploadBegins
  BY <1>7, Durations DEF UploadBegins, Extended, NextTick, Later, Resend, LossCost, clientVars, beatVars
<1>8. CASE Contributes
  BY <1>8, Durations DEF Contributes, NextTick, Later, Resend, LossCost, beatVars
<1>9. CASE Leaves
  BY <1>9, Durations DEF Leaves, NextTick, Later, Resend, LossCost, slotVars, beatVars
<1>10. CASE BeatSent
  BY <1>10, Durations DEF BeatSent, NextTick, Later, Resend, LossCost, slotVars, clientVars
<1>11. CASE BeatHandled
  BY <1>11, Durations DEF BeatHandled, Extended, NextTick, Later, Resend, LossCost, clientVars
<1>12. CASE BeatAnswered
  BY <1>12, Durations DEF BeatAnswered, NextTick, Later, Resend, LossCost, slotVars, clientVars
<1>13. CASE BeatLost
  BY <1>13, Durations DEF BeatLost, NextTick, Later, Resend, LossCost, slotVars, clientVars
<1>14. CASE BeatFails
  BY <1>14, Durations DEF BeatFails, NextTick, Later, Resend, LossCost, slotVars, clientVars
<1>15. CASE TimePasses
  <2>1. CASE due \/ tick = 1
    <3>1. due'
      BY Zenon, <1>15, <2>1 DEF TimePasses
    <3> QED
      BY <1>15, <2>1, <3>1, Durations DEF TimePasses, NextTick, Later, Resend, LossCost, Less, NothingIsDue
  <2>2. CASE ~due /\ tick # 1
    <3>1. ~due' /\ tick' = tick - 1
      BY Zenon, <1>15, <2>2 DEF TimePasses
    <3> QED
      BY <1>15, <2>2, <3>1, Durations DEF TimePasses, NextTick, Later, Resend, LossCost, Less, NothingIsDue
  <2> QED
    BY <2>1, <2>2
<1>16. CASE UNCHANGED timingVars
  BY <1>16 DEF timingVars, NextTick, Later, Resend, LossCost, slotVars, clientVars, beatVars
<1> QED
  BY <1>1, <1>2, <1>3, <1>4, <1>5, <1>6, <1>7, <1>8, <1>9, <1>10, <1>11, <1>12, <1>13, <1>14, <1>15, <1>16 DEF Next, Over

LEMMA InitLeftover == Init => Leftover
BY Durations DEF Init, Leftover

(* A participant that is gone sends nothing any more.                      *)
LEMMA StepLeftover == TimersOK /\ StagesOK /\ Leftover /\ [Next]_timingVars => Leftover'
<1> SUFFICES ASSUME TimersOK, StagesOK, Leftover, [Next]_timingVars PROVE Leftover'
  OBVIOUS
<1> USE DEF Leftover, StagesOK, TimersOK, TypeOK
<1>1. CASE Opens
  BY <1>1, Durations DEF Opens, clientVars, beatVars
<1>2. CASE Expires
  BY <1>2, Durations DEF Expires, clientVars, beatVars
<1>3. CASE StatusHandled
  BY <1>3, Durations DEF StatusHandled, slotVars, beatVars
<1>4. CASE TurnComes
  BY <1>4, Durations DEF TurnComes, slotVars
<1>5. CASE KeepsWaiting
  BY <1>5, Durations DEF KeepsWaiting, slotVars, beatVars
<1>6. CASE Wakes
  BY <1>6, Durations DEF Wakes, slotVars, beatVars
<1>7. CASE UploadBegins
  BY <1>7, Durations DEF UploadBegins, Extended, clientVars, beatVars
<1>8. CASE Contributes
  BY <1>8, Durations DEF Contributes, beatVars
<1>9. CASE Leaves
  BY <1>9, Durations DEF Leaves, slotVars, beatVars
<1>10. CASE BeatSent
  BY <1>10, Durations DEF BeatSent, slotVars, clientVars
<1>11. CASE BeatHandled
  BY <1>11, Durations DEF BeatHandled, Extended, clientVars
<1>12. CASE BeatAnswered
  BY <1>12, Durations DEF BeatAnswered, slotVars, clientVars
<1>13. CASE BeatLost
  BY <1>13, Durations DEF BeatLost, slotVars, clientVars
<1>14. CASE BeatFails
  BY <1>14, Durations DEF BeatFails, slotVars, clientVars
<1>15. CASE TimePasses
  BY <1>15, Durations DEF TimePasses, Less, NothingIsDue
<1>16. CASE UNCHANGED timingVars
  BY <1>16 DEF timingVars, slotVars, clientVars, beatVars
<1> QED
  BY <1>1, <1>2, <1>3, <1>4, <1>5, <1>6, <1>7, <1>8, <1>9, <1>10, <1>11, <1>12, <1>13, <1>14, <1>15, <1>16 DEF Next, Over

-----------------------------------------------------------------------------
(* The timers stay within their bounds whatever the durations are.         *)
THEOREM TimingTypeCorrect == Spec => []TypeOK
<1>1. TimersOK => TypeOK
  BY DEF TimersOK
<1> QED
  BY InitTimers, StepTimers, <1>1, PTL DEF Spec

(* "someone genuinely making progress is never dropped" (sequencer.go:289),*)
(* for all durations that satisfy Enough.                                  *)
THEOREM TimingWorkerKeepsSlot == Spec => []WorkerKeepsSlot
<1>1. CASE ~Enough
  <2>1. WorkerKeepsSlot
    BY <1>1 DEF WorkerKeepsSlot
  <2> QED
    BY <2>1, PTL
<1>2. CASE Enough
  <2>1. Init => TimersOK /\ StagesOK /\ Margin
    BY InitTimers, InitStages, InitMargin
  <2>2. TimersOK /\ StagesOK /\ Margin /\ [Next]_timingVars => (TimersOK /\ StagesOK /\ Margin)'
    BY <1>2, StepTimers, StepStages, StepMargin
  <2>3. Margin => WorkerKeepsSlot
    BY DEF Margin, WorkerKeepsSlot
  <2> QED
    BY <2>1, <2>2, <2>3, PTL DEF Spec
<1> QED
  BY <1>1, <1>2

(* "only a truly idle/dead session is" (sequencer.go:290), and within one  *)
(* timeout, one message and one tick.                                      *)
THEOREM TimingDeadFreed == Spec => []DeadFreed
<1>1. Init => TimersOK /\ StagesOK /\ Leftover
  BY InitTimers, InitStages, InitLeftover
<1>2. TimersOK /\ StagesOK /\ Leftover /\ [Next]_timingVars => (TimersOK /\ StagesOK /\ Leftover)'
  BY StepTimers, StepStages, StepLeftover
<1>3. TimersOK /\ Leftover => DeadFreed
  BY Durations DEF TimersOK, TypeOK, Leftover, DeadFreed
<1> QED
  BY <1>1, <1>2, <1>3, PTL DEF Spec

-----------------------------------------------------------------------------
(* The lobby *)

(* The holder's deadline is pushed out, or there is nothing to push out.   *)
LEMMA ExtendedKeeps ==
    ASSUME TimersOK, Extended, slot' = slot
    PROVE  [Room!LobbyNext]_(Room!lobbyVars)
<1>1. CASE slot = "ours"
  <2>1. ~(left' < 0)
    BY <1>1, Durations DEF Extended
  <2>2. Room!ExtendSlot("ours")
    BY <1>1, <2>1 DEF Room!ExtendSlot, Room!joinVars, Room!runVars, Two
  <2>3. QED BY <2>2 DEF Room!LobbyNext, Two
<1>2. CASE slot # "ours"
  BY <1>2 DEF Extended, Room!lobbyVars
<1>3. QED BY <1>1, <1>2

(* Every step of the clocks is a step of the lobby, or leaves it alone.    *)
LEMMA StepOfLobby ==
    ASSUME TimersOK, [Next]_timingVars
    PROVE  [Room!LobbyNext]_(Room!lobbyVars)
<1>0. slot \in {"other", "ours", "freed"} /\ left \in Int
  BY Durations DEF TimersOK, TypeOK
<1>1. CASE Opens
  <2>1. slot = "other" /\ slot' = "ours" /\ ~(left' < 0)
    BY <1>1, Durations DEF Opens
  <2>2. Room!PromoteLocked("none", <<"ours">>)
    BY <2>1 DEF Room!PromoteLocked
  <2>3. Room!Release("other")
    BY <2>1, <2>2 DEF Room!Release, Room!joinVars, Room!runVars
  <2>4. QED BY <2>3 DEF Room!LobbyNext, Two
<1>2. CASE Expires
  <2>1. slot = "ours" /\ slot' = "freed" /\ left < 0 /\ left' = left
    BY <1>2 DEF Expires
  <2>2. Room!PromoteLocked("none", <<>>)
    BY <2>1 DEF Room!PromoteLocked
  <2>3. Room!Expire
    BY <2>1, <2>2 DEF Room!Expire, Room!joinVars, Room!runVars
  <2>4. QED BY <2>3 DEF Room!LobbyNext
<1>3. CASE Contributes
  <2>1. slot = "ours" /\ slot' = "freed" /\ left' = left
    BY <1>3 DEF Contributes
  <2>2. Room!PromoteLocked("none", <<>>)
    BY <2>1 DEF Room!PromoteLocked
  <2>3. Room!Release("ours")
    BY <2>1, <2>2 DEF Room!Release, Room!joinVars, Room!runVars
  <2>4. QED BY <2>3 DEF Room!LobbyNext, Two
<1>4. CASE UploadBegins \/ BeatHandled
  BY <1>4, ExtendedKeeps DEF UploadBegins, BeatHandled
<1>5. CASE TimePasses
  <2>1. CASE slot = "ours" /\ left = 0
    <3>1. slot' = slot /\ ~(left < 0) /\ left' < 0
      BY <1>5, <2>1 DEF TimePasses
    <3>2. Room!DeadlinePasses
      BY <2>1, <3>1 DEF Room!DeadlinePasses, Room!joinVars, Room!runVars
    <3>3. QED BY <3>2 DEF Room!LobbyNext
  <2>2. CASE slot # "ours" \/ left # 0
    <3>1. slot' = slot /\ ((left' < 0) = (left < 0))
      BY <1>0, <1>5, <2>2 DEF TimePasses
    <3>2. QED BY <3>1 DEF Room!lobbyVars
  <2>3. QED BY <2>1, <2>2
<1>6. CASE \/ StatusHandled \/ TurnComes \/ KeepsWaiting \/ Wakes \/ Leaves
           \/ BeatSent \/ BeatAnswered \/ BeatLost \/ BeatFails \/ Over \/ UNCHANGED timingVars
  <2>1. slot' = slot /\ left' = left
    BY <1>6 DEF StatusHandled, TurnComes, KeepsWaiting, Wakes, Leaves, BeatSent, BeatAnswered,
         BeatLost, BeatFails, Over, timingVars, slotVars
  <2>2. QED BY <2>1 DEF Room!lobbyVars
<1>7. QED
  BY <1>1, <1>2, <1>3, <1>4, <1>5, <1>6 DEF Next

(* The timed slot takes part in the lobby's protocol only by steps of the  *)
(* lobby, for all durations, so that TimingWorkerKeepsSlot and             *)
(* TimingDeadFreed are about the slot of Lobby (sequencer.go:117, :289).   *)
THEOREM TimingKeepsToLobby == Spec => KeepsToLobby
<1>1. TimersOK /\ [Next]_timingVars => [Room!LobbyNext]_(Room!lobbyVars)
  BY StepOfLobby
<1> QED
  BY InitTimers, StepTimers, <1>1, PTL DEF Spec, KeepsToLobby
=============================================================================
