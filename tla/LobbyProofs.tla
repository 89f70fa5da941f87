---------------------------- MODULE LobbyProofs ----------------------------
(***************************************************************************)
(* The lobby's invariants for every set of sessions and challenges.        *)
(***************************************************************************)
EXTENDS Lobby, TLAPS

(* The queue that is left, and who holds the slot, after promoteLocked.    *)
LEMMA PromoteType ==
    ASSUME NEW a \in Session \cup {None}, NEW q \in Seq(Session),
           PromoteLocked(a, q), late \in BOOLEAN
    PROVE  /\ queue' \in Seq(Session)
           /\ active' \in Session \cup {None}
           /\ late' \in BOOLEAN
<1>1. CASE a = None /\ ~closed /\ q # <<>>
  <2>1. Head(q) \in Session /\ Tail(q) \in Seq(Session)
    BY <1>1
  <2>2. active' = Head(q) /\ queue' = Tail(q) /\ late' = FALSE
    BY <1>1 DEF PromoteLocked
  <2>3. QED BY <2>1, <2>2
<1>2. CASE ~(a = None /\ ~closed /\ q # <<>>)
  BY <1>2 DEF PromoteLocked
<1>3. QED BY <1>1, <1>2

(* Every state of the lobby is well typed.                                 *)
THEOREM LobbyTypeCorrect == LobbySpec => []LobbyTypeOK
<1>1. LobbyInit => LobbyTypeOK
  <2> SUFFICES ASSUME LobbyInit PROVE LobbyTypeOK
    OBVIOUS
  <2>1. queue \in Seq(Session)
    BY DEF LobbyInit
  <2>2. /\ chal \in [Challenge -> {"unused", "fresh", "stale", "gone"}]
        /\ joining \subseteq Challenge
        /\ via \in [Session -> Challenge \cup {None}]
    BY DEF LobbyInit
  <2>3. /\ active \in Session \cup {None}
        /\ late \in BOOLEAN /\ closed \in BOOLEAN /\ ticking \in BOOLEAN
    BY DEF LobbyInit
  <2>4. QED BY <2>1, <2>2, <2>3 DEF LobbyTypeOK
<1>2. LobbyTypeOK /\ [LobbyNext]_lobbyVars => LobbyTypeOK'
  <2> SUFFICES ASSUME LobbyTypeOK, [LobbyNext]_lobbyVars PROVE LobbyTypeOK'
    OBVIOUS
  <2> USE DEF LobbyTypeOK, joinVars, slotVars, runVars
  <2>1. ASSUME NEW k \in Challenge, IssueChallenge(k) PROVE LobbyTypeOK'
    BY <2>1 DEF IssueChallenge
  <2>2. ASSUME NEW k \in Challenge, ChallengeExpires(k) PROVE LobbyTypeOK'
    BY <2>2 DEF ChallengeExpires
  <2>3. ASSUME NEW k \in Challenge, JoinBegin(k) PROVE LobbyTypeOK'
    BY <2>3 DEF JoinBegin
  <2>4. ASSUME NEW k \in Challenge, JoinFails(k) PROVE LobbyTypeOK'
    BY <2>4 DEF JoinFails
  <2>5. ASSUME NEW k \in Challenge, NEW s \in Session, JoinAdmit(k, s) PROVE LobbyTypeOK'
    <3>1. Append(queue, s) \in Seq(Session)
      OBVIOUS
    <3>2. queue' \in Seq(Session) /\ active' \in Session \cup {None} /\ late' \in BOOLEAN
      BY <2>5, <3>1, PromoteType DEF JoinAdmit
    <3>3. QED BY <2>5, <3>2 DEF JoinAdmit
  <2>6. ASSUME NEW s \in Session, ExtendSlot(s) PROVE LobbyTypeOK'
    BY <2>6 DEF ExtendSlot
  <2>7. CASE DeadlinePasses
    BY <2>7 DEF DeadlinePasses
  <2>8. CASE Expire
    <3>1. queue' \in Seq(Session) /\ active' \in Session \cup {None} /\ late' \in BOOLEAN
      BY <2>8, PromoteType DEF Expire
    <3>2. QED BY <2>8, <3>1 DEF Expire
  <2>9. ASSUME NEW s \in Session, Release(s) PROVE LobbyTypeOK'
    <3>1. queue' \in Seq(Session) /\ active' \in Session \cup {None} /\ late' \in BOOLEAN
      BY <2>9, PromoteType DEF Release
    <3>2. QED BY <2>9, <3>1 DEF Release
  <2>10. CASE Close
    BY <2>10 DEF Close
  <2>11. CASE LoopStops
    BY <2>11 DEF LoopStops
  <2>12. CASE LobbyRestart
    <3>1. queue' \in Seq(Session)
      BY <2>12 DEF LobbyRestart
    <3>2. /\ chal' \in [Challenge -> {"unused", "fresh", "stale", "gone"}]
          /\ joining' \subseteq Challenge
          /\ via' \in [Session -> Challenge \cup {None}]
      BY <2>12 DEF LobbyRestart
    <3>3. /\ active' \in Session \cup {None}
          /\ late' \in BOOLEAN /\ closed' \in BOOLEAN /\ ticking' \in BOOLEAN
      BY <2>12 DEF LobbyRestart
    <3>4. QED BY <3>1, <3>2, <3>3
  <2>13. CASE UNCHANGED lobbyVars
    BY <2>13 DEF lobbyVars
  <2> HIDE DEF LobbyTypeOK
  <2>14. QED
    BY <2>1, <2>2, <2>3, <2>4, <2>5, <2>6, <2>7, <2>8, <2>9, <2>10, <2>11, <2>12, <2>13
    DEF LobbyNext
<1>3. QED BY <1>1, <1>2, PTL DEF LobbySpec

-----------------------------------------------------------------------------
(* Seats: who is in the queue and in the slot after promoteLocked.         *)
Distinct(q) == \A i, j \in DOMAIN q : q[i] = q[j] => i = j

LEMMA PromoteSeats ==
    ASSUME NEW a \in Session \cup {None}, NEW q \in Seq(Session), PromoteLocked(a, q),
           Distinct(q), \A i \in DOMAIN q : q[i] # a
    PROVE  /\ Distinct(queue')
           /\ \A i \in DOMAIN queue' : queue'[i] # active'
           /\ \A i \in DOMAIN queue' : \E j \in DOMAIN q : queue'[i] = q[j]
           /\ active' # a => \E j \in DOMAIN q : active' = q[j]
<1>1. CASE a = None /\ ~closed /\ q # <<>>
  <2>1. active' = q[1] /\ queue' = Tail(q) /\ Len(q) \in Nat \ {0}
    BY <1>1 DEF PromoteLocked
  <2>2. \A i \in DOMAIN queue' : i + 1 \in DOMAIN q /\ queue'[i] = q[i + 1] /\ i \in Nat \ {0}
    BY <2>1
  <2>3. 1 \in DOMAIN q
    BY <2>1
  <2>4. Distinct(queue')
    BY <2>2 DEF Distinct
  <2>5. \A i \in DOMAIN queue' : queue'[i] # active'
    BY <2>1, <2>2, <2>3 DEF Distinct
  <2>6. QED BY <2>1, <2>2, <2>3, <2>4, <2>5
<1>2. CASE ~(a = None /\ ~closed /\ q # <<>>)
  BY <1>2 DEF PromoteLocked
<1>3. QED BY <1>1, <1>2

(* promoteLocked leaves the slot free only with nobody to give it to.      *)
LEMMA PromoteFills ==
    ASSUME NEW a \in Session \cup {None}, NEW q \in Seq(Session), PromoteLocked(a, q)
    PROVE  active' = None /\ ~closed => queue' = <<>>
<1>1. CASE a = None /\ ~closed /\ q # <<>>
  <2>1. active' = Head(q) /\ Head(q) \in Session
    BY <1>1 DEF PromoteLocked
  <2>2. QED BY <2>1, NoneIsNothing
<1>2. CASE ~(a = None /\ ~closed /\ q # <<>>)
  BY <1>2 DEF PromoteLocked
<1>3. QED BY <1>1, <1>2

(* The slot is never free while someone waits.                             *)
THEOREM LobbyNeverIdle == LobbySpec => []NoIdleSlot
<1>1. LobbyInit => NoIdleSlot
  BY DEF LobbyInit, NoIdleSlot
<1>2. LobbyTypeOK /\ NoIdleSlot /\ [LobbyNext]_lobbyVars => NoIdleSlot'
  <2> SUFFICES ASSUME LobbyTypeOK, NoIdleSlot, [LobbyNext]_lobbyVars PROVE NoIdleSlot'
    OBVIOUS
  <2>1. ASSUME NEW a \in Session \cup {None}, NEW q \in Seq(Session),
               PromoteLocked(a, q), closed' = closed
        PROVE NoIdleSlot'
    BY <2>1, PromoteFills DEF NoIdleSlot
  <2>2. ASSUME UNCHANGED <<queue, active>>, closed => closed' PROVE NoIdleSlot'
    BY <2>2 DEF NoIdleSlot
  <2>3. queue \in Seq(Session) /\ active \in Session \cup {None}
    BY DEF LobbyTypeOK
  <2>4. ASSUME NEW k \in Challenge, NEW s \in Session, JoinAdmit(k, s) PROVE NoIdleSlot'
    <3>1. Append(queue, s) \in Seq(Session)
      BY <2>3
    <3>2. QED BY <2>1, <2>3, <2>4, <3>1 DEF JoinAdmit, runVars
  <2>5. CASE Expire \/ \E s \in Session : Release(s)
    BY <2>1, <2>3, <2>5 DEF Expire, Release, runVars
  <2>6. CASE LobbyRestart
    BY <2>6 DEF LobbyRestart, NoIdleSlot
  <2>7. CASE \E k \in Challenge : \/ IssueChallenge(k) \/ ChallengeExpires(k)
                                  \/ JoinBegin(k) \/ JoinFails(k)
    BY <2>2, <2>7 DEF IssueChallenge, ChallengeExpires, JoinBegin, JoinFails, slotVars, runVars
  <2>8. CASE (\E s \in Session : ExtendSlot(s)) \/ DeadlinePasses \/ Close \/ LoopStops
    BY <2>2, <2>8 DEF ExtendSlot, DeadlinePasses, Close, LoopStops, slotVars, runVars
  <2>9. CASE UNCHANGED lobbyVars
    BY <2>2, <2>9 DEF lobbyVars
  <2>10. QED BY <2>4, <2>5, <2>6, <2>7, <2>8, <2>9 DEF LobbyNext
<1>3. QED BY <1>1, <1>2, LobbyTypeCorrect, PTL DEF LobbySpec

-----------------------------------------------------------------------------
(* Admission, seen through the history variable via.  A challenge whose    *)
(* proof is being checked has already been deleted from the map; that is   *)
(* what keeps it from admitting a second session.                          *)
Consumed == \A k \in joining : chal[k] = "gone"

THEOREM LobbySingleUse == LobbySpec => []SingleUse
<1> DEFINE Inv == SingleUse /\ Consumed
<1>1. LobbyInit => Inv
  BY DEF LobbyInit, SingleUse, Consumed, Admitted
<1>2. LobbyTypeOK /\ Inv /\ [LobbyNext]_lobbyVars => Inv'
  <2> SUFFICES ASSUME LobbyTypeOK, Inv, [LobbyNext]_lobbyVars PROVE Inv'
    OBVIOUS
  <2>0. /\ chal \in [Challenge -> {"unused", "fresh", "stale", "gone"}]
        /\ via \in [Session -> Challenge \cup {None}]
        /\ joining \subseteq Challenge
        /\ \A s \in Session : Admitted(s) => via[s] \in Challenge
        /\ None \notin Challenge
    BY NoneIsNothing DEF LobbyTypeOK, Admitted
  <2>1. ASSUME UNCHANGED joinVars PROVE Inv'
    BY <2>1 DEF joinVars, SingleUse, Consumed, Admitted
  <2>2. ASSUME NEW k \in Challenge, IssueChallenge(k) PROVE Inv'
    BY <2>0, <2>2 DEF IssueChallenge, SingleUse, Consumed, Admitted
  <2>3. ASSUME NEW k \in Challenge, ChallengeExpires(k) PROVE Inv'
    BY <2>0, <2>3 DEF ChallengeExpires, SingleUse, Consumed, Admitted
  <2>4. ASSUME NEW k \in Challenge, JoinBegin(k) PROVE Inv'
    BY <2>0, <2>4 DEF JoinBegin, SingleUse, Consumed, Admitted
  <2>5. ASSUME NEW k \in Challenge, JoinFails(k) PROVE Inv'
    BY <2>0, <2>5 DEF JoinFails, SingleUse, Consumed, Admitted
  <2>6. ASSUME NEW k \in Challenge, NEW s \in Session, JoinAdmit(k, s) PROVE Inv'
    <3>1. /\ k \in joining /\ ~Admitted(s)
          /\ chal' = chal /\ joining' = joining \ {k} /\ via' = [via EXCEPT ![s] = k]
      BY <2>6 DEF JoinAdmit
    <3>2. chal[k] = "gone" /\ \A t \in Session : Admitted(t) => via[t] # k
      BY <3>1 DEF SingleUse, Consumed
    <3>3. via'[s] = k /\ \A t \in Session \ {s} : via'[t] = via[t]
      BY <2>0, <3>1
    <3>4. SingleUse'
      BY <2>0, <3>1, <3>2, <3>3 DEF SingleUse, Admitted
    <3>5. Consumed'
      BY <3>1 DEF Consumed
    <3>6. QED BY <3>4, <3>5
  <2>7. CASE LobbyRestart
    BY <2>0, <2>7 DEF LobbyRestart, SingleUse, Consumed, Admitted
  <2>8. CASE \/ \E s \in Session : ExtendSlot(s) \/ Release(s)
             \/ DeadlinePasses \/ Expire \/ Close \/ LoopStops \/ UNCHANGED lobbyVars
    BY <2>1, <2>8 DEF ExtendSlot, Release, DeadlinePasses, Expire, Close, LoopStops,
                      lobbyVars, joinVars
  <2>9. QED BY <2>2, <2>3, <2>4, <2>5, <2>6, <2>7, <2>8 DEF LobbyNext
<1>3. QED BY <1>1, <1>2, LobbyTypeCorrect, PTL DEF LobbySpec

-----------------------------------------------------------------------------
(* Nobody has two seats.  An admission brings in a session that was never  *)
(* admitted, so it cannot be in the queue or in the slot already.          *)
THEOREM LobbyOneSeat == LobbySpec => []OneSeat
<1>1. LobbyInit => OneSeat
  BY DEF LobbyInit, OneSeat
<1>2. LobbyTypeOK /\ OneSeat /\ [LobbyNext]_lobbyVars => OneSeat'
  <2> SUFFICES ASSUME LobbyTypeOK, OneSeat, [LobbyNext]_lobbyVars PROVE OneSeat'
    OBVIOUS
  <2>0. /\ queue \in Seq(Session) /\ active \in Session \cup {None}
        /\ via \in [Session -> Challenge \cup {None}]
        /\ None \notin Session /\ None \notin Challenge
        /\ Distinct(queue)
    BY NoneIsNothing DEF LobbyTypeOK, OneSeat, Distinct
  <2>1. ASSUME UNCHANGED <<queue, active, via>> PROVE OneSeat'
    BY <2>1 DEF OneSeat, Admitted
  <2>2. ASSUME NEW k \in Challenge, NEW s \in Session, JoinAdmit(k, s) PROVE OneSeat'
    <3> DEFINE q == Append(queue, s)
    <3>1. q \in Seq(Session) /\ PromoteLocked(active, q) /\ ~Admitted(s)
      BY <2>0, <2>2 DEF JoinAdmit
    <3>2. via'[s] = k /\ \A t \in Session \ {s} : via'[t] = via[t]
      BY <2>0, <2>2 DEF JoinAdmit
    <3>3. \A i \in DOMAIN q : q[i] = s \/ (i \in DOMAIN queue /\ q[i] = queue[i])
      BY <2>0
    <3>4. s # active /\ \A i \in DOMAIN queue : queue[i] # s
      BY <2>0, <3>1 DEF OneSeat
    <3>5. Distinct(q)
      BY <2>0, <3>4 DEF Distinct
    <3>6. \A i \in DOMAIN q : q[i] # active
      BY <3>3, <3>4 DEF OneSeat
    <3> HIDE DEF q
    <3>7. /\ Distinct(queue')
          /\ \A i \in DOMAIN queue' : queue'[i] # active'
          /\ \A i \in DOMAIN queue' : \E j \in DOMAIN q : queue'[i] = q[j]
          /\ active' # active => \E j \in DOMAIN q : active' = q[j]
      BY <2>0, <3>1, <3>5, <3>6, PromoteSeats
    <3>8. \A j \in DOMAIN q : q[j] \in Session /\ via'[q[j]] # None
      BY <2>0, <3>1, <3>2, <3>3 DEF OneSeat, Admitted
    <3>9. active # None => via'[active] # None
      BY <2>0, <3>2, <3>4 DEF OneSeat, Admitted
    <3>10. QED BY <3>7, <3>8, <3>9 DEF OneSeat, Admitted, Distinct
  <2>3. ASSUME PromoteLocked(None, queue), UNCHANGED via PROVE OneSeat'
    <3>1. \A i \in DOMAIN queue : queue[i] # None
      BY <2>0
    <3>2. /\ Distinct(queue')
          /\ \A i \in DOMAIN queue' : queue'[i] # active'
          /\ \A i \in DOMAIN queue' : \E j \in DOMAIN queue : queue'[i] = queue[j]
          /\ active' # None => \E j \in DOMAIN queue : active' = queue[j]
      BY <2>0, <2>3, <3>1, PromoteSeats
    <3>3. QED BY <2>3, <3>2 DEF OneSeat, Admitted, Distinct
  <2>4. CASE Expire \/ \E s \in Session : Release(s)
    BY <2>3, <2>4 DEF Expire, Release, joinVars
  <2>5. CASE LobbyRestart
    BY <2>5 DEF LobbyRestart, OneSeat
  <2>6. CASE \E k \in Challenge : \/ IssueChallenge(k) \/ ChallengeExpires(k)
                                  \/ JoinBegin(k) \/ JoinFails(k)
    BY <2>1, <2>6 DEF IssueChallenge, ChallengeExpires, JoinBegin, JoinFails, slotVars
  <2>7. CASE (\E s \in Session : ExtendSlot(s)) \/ DeadlinePasses \/ Close \/ LoopStops
    BY <2>1, <2>7 DEF ExtendSlot, DeadlinePasses, Close, LoopStops, slotVars, joinVars
  <2>8. CASE UNCHANGED lobbyVars
    BY <2>1, <2>8 DEF lobbyVars
  <2>9. QED BY <2>2, <2>4, <2>5, <2>6, <2>7, <2>8 DEF LobbyNext
<1>3. QED BY <1>1, <1>2, LobbyTypeCorrect, PTL DEF LobbySpec

(* The place of t before and after: the seat of positionLocked, as a       *)
(* function of the slot and the queue.                                     *)
Place(a, q, t) == IF a = t THEN 0 ELSE CHOOSE i \in DOMAIN q : q[i] = t

LEMMA PlaceInQueue ==
    ASSUME NEW a, NEW q, Distinct(q), NEW i \in DOMAIN q, q[i] # a
    PROVE  Place(a, q, q[i]) = i
<1>1. \A j \in DOMAIN q : q[j] = q[i] => j = i
  BY DEF Distinct
<1>2. (CHOOSE j \in DOMAIN q : q[j] = q[i]) = i
  BY <1>1
<1>3. QED BY <1>2 DEF Place

(* promoteLocked moves everybody up by the same one place, or nobody.      *)
LEMMA PromoteMovesUp ==
    ASSUME NEW a \in Session \cup {None}, NEW q \in Seq(Session), PromoteLocked(a, q),
           Distinct(q), \A i \in DOMAIN q : q[i] # a
    PROVE  \E c \in {0, 1} : \A t \in Session :
             active' = t \/ t \in Range(queue') =>
               /\ a = t \/ t \in Range(q)
               /\ Place(active', queue', t) = Place(a, q, t) - c
               /\ Place(a, q, t) \in Nat
<1>0. /\ \A i \in DOMAIN q : q[i] \in Session /\ i \in Nat \ {0}
      /\ None \notin Session
  BY NoneIsNothing
<1>1. CASE a = None /\ ~closed /\ q # <<>>
  <2>1. active' = q[1] /\ queue' = Tail(q) /\ 1 \in DOMAIN q
    BY <1>1 DEF PromoteLocked
  <2>2. \A i \in DOMAIN queue' : i + 1 \in DOMAIN q /\ queue'[i] = q[i + 1] /\ i \in Nat \ {0}
    BY <2>1
  <2>3. Distinct(queue') /\ \A i \in DOMAIN queue' : queue'[i] # active'
    BY PromoteSeats
  <2> SUFFICES ASSUME NEW t \in Session, active' = t \/ t \in Range(queue')
               PROVE  /\ t \in Range(q)
                      /\ Place(active', queue', t) = Place(a, q, t) - 1
                      /\ Place(a, q, t) \in Nat
    OBVIOUS
  <2>4. CASE active' = t
    <3>1. Place(active', queue', t) = 0
      BY <2>4 DEF Place
    <3>2. 1 \in DOMAIN q /\ q[1] = t /\ q[1] # a
      BY <2>1, <2>4
    <3>3. Place(a, q, q[1]) = 1
      BY <3>2, PlaceInQueue
    <3>4. t \in Range(q)
      BY <3>2 DEF Range
    <3>5. QED BY <3>1, <3>2, <3>3, <3>4
  <2>5. CASE t \in Range(queue')
    <3>1. PICK i \in DOMAIN queue' : queue'[i] = t
      BY <2>5 DEF Range
    <3>2. Place(active', queue', t) = i
      BY <2>3, <3>1, PlaceInQueue
    <3>3. i + 1 \in DOMAIN q /\ q[i + 1] = t /\ i \in Nat
      BY <2>2, <3>1
    <3>4. Place(a, q, t) = i + 1
      BY <3>3, PlaceInQueue
    <3>5. QED BY <3>2, <3>3, <3>4 DEF Range
  <2>6. QED BY <2>4, <2>5
<1>2. CASE ~(a = None /\ ~closed /\ q # <<>>)
  <2>1. active' = a /\ queue' = q
    BY <1>2 DEF PromoteLocked
  <2> SUFFICES ASSUME NEW t \in Session, a = t \/ t \in Range(q)
               PROVE  Place(a, q, t) \in Nat
    BY <2>1
  <2>2. CASE a = t
    BY <2>2 DEF Place
  <2>3. CASE t \in Range(q)
    <3>1. PICK i \in DOMAIN q : q[i] = t
      BY <2>3 DEF Range
    <3>2. Place(a, q, t) = i
      BY <3>1, PlaceInQueue
    <3>3. QED BY <1>0, <3>1, <3>2
  <2>4. QED BY <2>2, <2>3
<1>3. QED BY <1>1, <1>2

(* A step of the lobby: the admitted who are still there were there, and   *)
(* all of them have moved up by the same one place, or none has.           *)
MovesUp(c) ==
    \A t \in Session : Admitted(t) /\ Present(t)' =>
        /\ Present(t)
        /\ Place(active', queue', t) = Place(active, queue, t) - c
        /\ Place(active, queue, t) \in Nat

LEMMA LineStep ==
    ASSUME LobbyTypeOK, OneSeat, [LobbyNext]_lobbyVars
    PROVE  \E c \in {0, 1} : MovesUp(c)
<1>0. /\ queue \in Seq(Session) /\ active \in Session \cup {None}
      /\ None \notin Session
      /\ Distinct(queue)
      /\ \A i \in DOMAIN queue : queue[i] # active /\ queue[i] \in Session /\ i \in Nat
  BY NoneIsNothing DEF LobbyTypeOK, OneSeat, Distinct
<1>1. ASSUME UNCHANGED <<queue, active>> PROVE MovesUp(0)
  <2> SUFFICES ASSUME NEW t \in Session, Present(t) PROVE Place(active, queue, t) \in Nat
    BY <1>1 DEF MovesUp, Present, Waits
  <2>1. CASE active = t
    BY <2>1 DEF Place
  <2>2. CASE t \in Range(queue)
    <3>1. PICK i \in DOMAIN queue : queue[i] = t
      BY <2>2 DEF Range
    <3>2. Place(active, queue, t) = i
      BY <1>0, <3>1, PlaceInQueue
    <3>3. QED BY <1>0, <3>1, <3>2
  <2>3. QED BY <2>1, <2>2 DEF Present, Waits
<1>2. ASSUME NEW k \in Challenge, NEW s \in Session, JoinAdmit(k, s)
      PROVE  \E c \in {0, 1} : MovesUp(c)
  <2> DEFINE q == Append(queue, s)
  <2>1. q \in Seq(Session) /\ PromoteLocked(active, q) /\ ~Admitted(s)
    BY <1>0, <1>2 DEF JoinAdmit
  <2>2. \A i \in DOMAIN q : q[i] = s \/ (i \in DOMAIN queue /\ q[i] = queue[i])
    BY <1>0
  <2>3. s # active /\ \A i \in DOMAIN queue : queue[i] # s
    BY <1>0, <2>1 DEF OneSeat
  <2>4. Distinct(q)
    BY <1>0, <2>3 DEF Distinct
  <2>5. \A i \in DOMAIN q : q[i] # active
    BY <2>2, <2>3, <1>0
  <2>6. \A i \in DOMAIN queue : i \in DOMAIN q /\ q[i] = queue[i]
    BY <1>0
  <2> HIDE DEF q
  <2>7. PICK c \in {0, 1} : \A t \in Session :
             active' = t \/ t \in Range(queue') =>
               /\ active = t \/ t \in Range(q)
               /\ Place(active', queue', t) = Place(active, q, t) - c
               /\ Place(active, q, t) \in Nat
    BY <1>0, <2>1, <2>4, <2>5, PromoteMovesUp
  <2>8. ASSUME NEW t \in Session, t # s, active = t \/ t \in Range(q)
        PROVE  Present(t) /\ Place(active, q, t) = Place(active, queue, t)
    <3>1. CASE active = t
      BY <3>1 DEF Place, Present
    <3>2. CASE t \in Range(q)
      <4>1. PICK i \in DOMAIN q : q[i] = t
        BY <3>2 DEF Range
      <4>2. i \in DOMAIN queue /\ queue[i] = t
        BY <2>2, <2>8, <4>1
      <4>3. Place(active, q, t) = i
        BY <2>4, <2>5, <4>1, PlaceInQueue
      <4>4. Place(active, queue, t) = i
        BY <1>0, <4>2, PlaceInQueue
      <4>5. QED BY <4>2, <4>3, <4>4 DEF Present, Waits, Range
    <3>3. QED BY <2>8, <3>1, <3>2
  <2>9. MovesUp(c)
    BY <2>1, <2>7, <2>8 DEF MovesUp, Present, Waits
  <2>10. QED BY <2>9
<1>3. ASSUME PromoteLocked(None, queue) PROVE \E c \in {0, 1} : MovesUp(c)
  <2>1. \A i \in DOMAIN queue : queue[i] # None
    BY <1>0
  <2>2. PICK c \in {0, 1} : \A t \in Session :
             active' = t \/ t \in Range(queue') =>
               /\ None = t \/ t \in Range(queue)
               /\ Place(active', queue', t) = Place(None, queue, t) - c
               /\ Place(None, queue, t) \in Nat
    BY <1>0, <1>3, <2>1, PromoteMovesUp
  <2>3. ASSUME NEW t \in Session, t \in Range(queue)
        PROVE  Present(t) /\ Place(None, queue, t) = Place(active, queue, t)
    <3>1. PICK i \in DOMAIN queue : queue[i] = t
      BY <2>3 DEF Range
    <3>2. Place(None, queue, t) = i /\ Place(active, queue, t) = i
      BY <1>0, <2>1, <3>1, PlaceInQueue
    <3>3. QED BY <2>3, <3>2 DEF Present, Waits
  <2>4. MovesUp(c)
    BY <1>0, <2>2, <2>3 DEF MovesUp, Present, Waits
  <2>5. QED BY <2>4
<1>4. CASE Expire \/ \E s \in Session : Release(s)
  BY <1>3, <1>4 DEF Expire, Release
<1>5. CASE LobbyRestart
  <2>1. \A t \in Session : ~Present(t)'
    BY <1>0, <1>5 DEF LobbyRestart, Present, Waits, Range
  <2>2. QED BY <2>1 DEF MovesUp
<1>6. CASE \E k \in Challenge : \/ IssueChallenge(k) \/ ChallengeExpires(k)
                                \/ JoinBegin(k) \/ JoinFails(k)
  BY <1>1, <1>6 DEF IssueChallenge, ChallengeExpires, JoinBegin, JoinFails, slotVars
<1>7. CASE (\E s \in Session : ExtendSlot(s)) \/ DeadlinePasses \/ Close \/ LoopStops
  BY <1>1, <1>7 DEF ExtendSlot, DeadlinePasses, Close, LoopStops, slotVars
<1>8. CASE UNCHANGED lobbyVars
  BY <1>1, <1>8 DEF lobbyVars
<1>9. QED BY <1>2, <1>4, <1>5, <1>6, <1>7, <1>8 DEF LobbyNext

LEMMA PlaceIsPosition ==
    ASSUME NEW t
    PROVE  /\ Position(t) = Place(active, queue, t)
           /\ Position(t)' = Place(active', queue', t)
BY DEF Position, Place

(* First come, first served: whatever expires, joins or contributes        *)
(* meanwhile, nobody is overtaken, moves back or comes back.               *)
THEOREM LobbyLineIsFifo == LobbySpec => LineIsFifo
<1>1. LobbyTypeOK /\ OneSeat /\ [LobbyNext]_lobbyVars =>
        /\ \A s, t \in Session : Ahead(s, t) => ~Ahead(t, s)'
        /\ \A s \in Session :
             /\ Present(s) /\ Present(s)' => Position(s)' <= Position(s)
             /\ Admitted(s) /\ Present(s)' => Present(s)
  <2> SUFFICES ASSUME LobbyTypeOK, OneSeat, [LobbyNext]_lobbyVars
               PROVE  /\ \A s, t \in Session : Ahead(s, t) => ~Ahead(t, s)'
                      /\ \A s \in Session :
                           /\ Present(s) /\ Present(s)' => Position(s)' <= Position(s)
                           /\ Admitted(s) /\ Present(s)' => Present(s)
    OBVIOUS
  <2>1. PICK c \in {0, 1} : MovesUp(c)
    BY LineStep
  <2>2. \A t \in Session : Present(t) => Admitted(t)
    BY NoneIsNothing DEF OneSeat, Present, Waits, Range
  <2>3. ASSUME NEW t \in Session, Present(t), Present(t)'
        PROVE  Position(t)' = Position(t) - c /\ Position(t) \in Nat
    BY <2>1, <2>2, <2>3, PlaceIsPosition DEF MovesUp
  <2>4. ASSUME NEW s \in Session, NEW t \in Session, Ahead(s, t), Ahead(t, s)'
        PROVE  FALSE
    <3>1. /\ Present(s) /\ Present(t) /\ Position(s) < Position(t)
          /\ Present(s)' /\ Present(t)' /\ Position(t)' < Position(s)'
      BY <2>4 DEF Ahead
    <3> DEFINE ps == Position(s)
               pt == Position(t)
    <3>2. /\ Position(s)' = ps - c /\ ps \in Nat
          /\ Position(t)' = pt - c /\ pt \in Nat
          /\ ps < pt /\ Position(t)' < Position(s)'
      BY <2>3, <3>1
    <3> HIDE DEF ps, pt
    <3>3. QED BY <3>2
  <2>5. \A s \in Session : Present(s) /\ Present(s)' => Position(s)' <= Position(s)
    BY <2>3
  <2>6. \A s \in Session : Admitted(s) /\ Present(s)' => Present(s)
    BY <2>1 DEF MovesUp
  <2>7. QED BY <2>4, <2>5, <2>6
<1>2. QED BY <1>1, LobbyTypeCorrect, LobbyOneSeat, PTL DEF LobbySpec, LineIsFifo

(* After Close nobody is given the slot, whatever was already under way.   *)
THEOREM LobbyClosedGrantsNothing == LobbySpec => ClosedGrantsNothing
<1>1. [LobbyNext]_lobbyVars => (closed /\ closed' => active' \in {active, None})
  BY DEF LobbyNext, IssueChallenge, ChallengeExpires, JoinBegin, JoinFails, JoinAdmit,
       ExtendSlot, DeadlinePasses, Expire, Release, Close, LoopStops, LobbyRestart,
       PromoteLocked, lobbyVars, joinVars, slotVars, runVars
<1>2. QED BY <1>1, PTL DEF LobbySpec, ClosedGrantsNothing
=============================================================================
