------------------------------- MODULE Lobby -------------------------------
(***************************************************************************)
(* The sequencer's waiting room: join challenges, the FIFO of admitted     *)
(* sessions, the single contribution slot and its deadline                 *)
(* (src/ceremony/sequencer.go).  Everything here is guarded by             *)
(* Sequencer.mu; each action is one critical section of that mutex, except *)
(* that handleJoin has two of them with the authentication in between.     *)
(*                                                                         *)
(* What happens to the head and the transcript while the slot is held is   *)
(* in Sequencer, which extends this module and implements it.              *)
(***************************************************************************)
EXTENDS Participants, Naturals, Sequences, FiniteSets, Functions

CONSTANT
    Challenge   \* challenges handleChallenge can issue, each at most once

ASSUME NoneIsNothing == None \notin Session \cup Challenge

VARIABLES
    chal,     \* Sequencer.chals: "unused" not issued yet, "fresh" in the map,
              \* "stale" in the map past its TTL, "gone" deleted from the map
    joining,  \* challenges of the handleJoin calls that are inside prov.Verify
    via,      \* history: the challenge each session was admitted with
    queue,    \* Sequencer.queue
    active,   \* Sequencer.active
    late,     \* time.Now().After(Sequencer.deadline)
    closed,   \* Sequencer.closed
    ticking   \* the goroutine of expiryLoop is running

lobbyVars == <<chal, joining, via, queue, active, late, closed, ticking>>
slotVars == <<queue, active, late>>
joinVars == <<chal, joining, via>>
runVars == <<closed, ticking>>

Admitted(s) == via[s] # None

(* positionLocked: 0 for the holder of the slot, the 1-based place for a   *)
(* session that waits.  The code's -1 (unknown session) is the case that   *)
(* neither Holds nor Waits.                                                *)
Waits(s) == s \in Range(queue)
Present(s) == active = s \/ Waits(s)
Position(s) == IF active = s THEN 0 ELSE CHOOSE i \in DOMAIN queue : queue[i] = s

LobbyInit ==
    /\ chal = [k \in Challenge |-> "unused"]
    /\ joining = {}
    /\ via = [s \in Session |-> None]
    /\ queue = <<>>
    /\ active = None
    /\ late = FALSE
    /\ closed = FALSE
    /\ ticking = TRUE

(* Mutations of promoteLocked: the head of the queue is not taken off; the *)
(* last comer is served first; a closed lobby still promotes.              *)
PromoteKeepsQueue(a, q) ==
    /\ active' = IF a = None /\ ~closed /\ q # <<>> THEN Head(q) ELSE a
    /\ queue' = q
    /\ late' = (late /\ a # None)
PromoteLast(a, q) ==
    /\ active' = IF a = None /\ ~closed /\ q # <<>> THEN q[Len(q)] ELSE a
    /\ queue' = IF a = None /\ ~closed /\ q # <<>> THEN SubSeq(q, 1, Len(q) - 1) ELSE q
    /\ late' = (late /\ a # None)
PromoteWhenClosed(a, q) ==
    /\ active' = IF a = None /\ q # <<>> THEN Head(q) ELSE a
    /\ queue' = IF a = None /\ q # <<>> THEN Tail(q) ELSE q
    /\ late' = (late /\ a # None)

(* promoteLocked, run on the slot holder a and the queue q its caller has  *)
(* just written: an open lobby with a free slot gives it to the head of    *)
(* the queue, with a fresh deadline.                                       *)
PromoteLocked(a, q) ==
    \/ /\ a = None /\ ~closed /\ q # <<>>
       /\ active' = Head(q)
       /\ queue' = Tail(q)
       /\ late' = FALSE
    \/ /\ a # None \/ closed \/ q = <<>>
       /\ active' = a
       /\ queue' = q
       /\ UNCHANGED late

(* handleChallenge: prune what has expired, remember the new challenge.    *)
IssueChallenge(k) ==
    /\ chal[k] = "unused"
    /\ chal' = [c \in Challenge |-> IF c = k THEN "fresh"
                                    ELSE IF chal[c] = "stale" THEN "gone"
                                    ELSE chal[c]]
    /\ UNCHANGED <<joining, via, slotVars, runVars>>

(* ChallengeTTL elapses; the entry stays in the map until a prune.         *)
ChallengeExpires(k) ==
    /\ chal[k] = "fresh"
    /\ chal' = [chal EXCEPT ![k] = "stale"]
    /\ UNCHANGED <<joining, via, slotVars, runVars>>

(* Mutation: the challenge is left in the map while the proof is checked.  *)
JoinBeginKeepsChallenge(k) ==
    /\ ~closed
    /\ chal[k] = "fresh"
    /\ joining' = joining \cup {k}
    /\ UNCHANGED <<chal, via, slotVars, runVars>>

(* handleJoin, first critical section: the lobby is open, the challenge is *)
(* known and in time, and is deleted before anyone looks at the proof.     *)
JoinBegin(k) ==
    /\ ~closed
    /\ chal[k] = "fresh"
    /\ chal' = [chal EXCEPT ![k] = "gone"]
    /\ joining' = joining \cup {k}
    /\ UNCHANGED <<via, slotVars, runVars>>

(* handleJoin: prov.Verify, outside the lock, rejects the proof.           *)
JoinFails(k) ==
    /\ k \in joining
    /\ joining' = joining \ {k}
    /\ UNCHANGED <<chal, via, slotVars, runVars>>

(* handleJoin, second critical section: prov.Verify accepted; a new        *)
(* session goes to the back of the queue.  The code does not look at       *)
(* closed again.                                                           *)
JoinAdmit(k, s) ==
    /\ k \in joining
    /\ ~Admitted(s)
    /\ joining' = joining \ {k}
    /\ via' = [via EXCEPT ![s] = k]
    /\ PromoteLocked(active, Append(queue, s))
    /\ UNCHANGED <<chal, runVars>>

(* The holder of the slot gets a fresh deadline: handleHeartbeat, and the  *)
(* first critical section of handleContribute.                             *)
ExtendSlot(s) ==
    /\ active = s
    /\ late' = FALSE
    /\ UNCHANGED <<queue, active, joinVars, runVars>>

DeadlinePasses ==
    /\ active # None
    /\ ~late
    /\ late' = TRUE
    /\ UNCHANGED <<queue, active, joinVars, runVars>>

(* Mutation: the slot is taken from its holder and given to nobody.        *)
ExpireWithoutPromote ==
    /\ ticking
    /\ active # None
    /\ late
    /\ active' = None
    /\ UNCHANGED <<queue, late, joinVars, runVars>>

(* One tick of expiryLoop that finds the slot past its deadline.           *)
Expire ==
    /\ ticking
    /\ active # None
    /\ late
    /\ PromoteLocked(None, queue)
    /\ UNCHANGED <<joinVars, runVars>>

(* The end of a handleContribute that committed: the slot is handed on.    *)
Release(s) ==
    /\ active = s
    /\ PromoteLocked(None, queue)
    /\ UNCHANGED <<joinVars, runVars>>

Close ==
    /\ ~closed
    /\ closed' = TRUE
    /\ UNCHANGED <<joinVars, slotVars, ticking>>

(* expiryLoop receives from stop and returns.  Its select may pick a tick  *)
(* first when both are ready.                                              *)
LoopStops ==
    /\ closed
    /\ ticking
    /\ ticking' = FALSE
    /\ UNCHANGED <<joinVars, slotVars, closed>>

(* The process dies and NewSequencer builds an empty lobby: no session and *)
(* no challenge survives a restart.                                        *)
LobbyRestart ==
    /\ chal' = [k \in Challenge |-> IF chal[k] = "unused" THEN "unused" ELSE "gone"]
    /\ joining' = {}
    /\ queue' = <<>>
    /\ active' = None
    /\ late' = FALSE
    /\ closed' = FALSE
    /\ ticking' = TRUE
    /\ UNCHANGED via

LobbyNext ==
    \/ \E k \in Challenge : IssueChallenge(k)
    \/ \E k \in Challenge : ChallengeExpires(k)
    \/ \E k \in Challenge : JoinBegin(k)
    \/ \E k \in Challenge : JoinFails(k)
    \/ \E k \in Challenge, s \in Session : JoinAdmit(k, s)
    \/ \E s \in Session : ExtendSlot(s)
    \/ DeadlinePasses
    \/ Expire
    \/ \E s \in Session : Release(s)
    \/ Close
    \/ LoopStops
    \/ LobbyRestart

LobbySpec == LobbyInit /\ [][LobbyNext]_lobbyVars

-----------------------------------------------------------------------------

(* Type invariant of the lobby.                                            *)
LobbyTypeOK ==
    /\ chal \in [Challenge -> {"unused", "fresh", "stale", "gone"}]
    /\ joining \subseteq Challenge
    /\ via \in [Session -> Challenge \cup {None}]
    /\ queue \in Seq(Session)
    /\ active \in Session \cup {None}
    /\ late \in BOOLEAN
    /\ closed \in BOOLEAN
    /\ ticking \in BOOLEAN

(* A session has at most one seat: it waits in one place of the queue and  *)
(* does not hold the slot meanwhile; only admitted sessions have a seat.   *)
(* This is what makes positionLocked (sequencer.go:256) well defined.      *)
OneSeat ==
    /\ \A i, j \in DOMAIN queue : queue[i] = queue[j] => i = j
    /\ \A i \in DOMAIN queue : queue[i] # active /\ Admitted(queue[i])
    /\ active # None => Admitted(active)

(* While the lobby is open the slot is never free with someone waiting:    *)
(* every path that frees the slot or fills the queue promotes              *)
(* (sequencer.go:135).                                                     *)
NoIdleSlot == active = None /\ ~closed => queue = <<>>

(* A challenge admits at most one session, although handleJoin lets go of  *)
(* the lock between consuming the challenge and admitting the session      *)
(* (sequencer.go:234 "single use"), and none once it is back in the map.   *)
SingleUse ==
    \A s, t \in Session : Admitted(s) => /\ chal[via[s]] = "gone"
                                         /\ via[s] \notin joining
                                         /\ via[s] = via[t] => s = t

(* The line is first-come first-served whatever expires, joins or          *)
(* contributes meanwhile: nobody moves back or is overtaken, and a session *)
(* that has left the lobby, by contributing or by expiry, never reappears. *)
Ahead(s, t) == Present(s) /\ Present(t) /\ Position(s) < Position(t)
LineIsFifo ==
    [][/\ \A s, t \in Session : Ahead(s, t) => ~Ahead(t, s)'
       /\ \A s \in Session :
            /\ Present(s) /\ Present(s)' => Position(s)' <= Position(s)
            /\ Admitted(s) /\ Present(s)' => Present(s)]_lobbyVars

(* Once Close has run nobody is given the slot any more, whatever join was *)
(* already past its check of closed (sequencer.go:225, :136).              *)
ClosedGrantsNothing == [][closed /\ closed' => active' \in {active, None}]_lobbyVars
=============================================================================
