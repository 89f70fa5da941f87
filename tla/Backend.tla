------------------------------ MODULE Backend ------------------------------
(***************************************************************************)
(* The Phase-2 side of the MPC backend (src/ceremony/backend.go,           *)
(* bls12381.go) as far as the sequencer can tell it apart.  A parameter    *)
(* blob is the record of how it came about: the circuit it was initialised *)
(* for, followed by the contributions folded into it, oldest first.  The   *)
(* pairing checks of gnark's mpcsetup are not modelled; what is kept is    *)
(* what they establish, that a blob extends another by one contribution.   *)
(***************************************************************************)
EXTENDS Participants, Naturals, Sequences

CONSTANTS
    Circuit,   \* circuit fingerprints (CircuitFingerprint)
    Draw       \* the different random values one participant can draw

(* Who drew what: two contributions of different sessions are never equal. *)
Contribution == Session \X Draw

Blob == Seq(Circuit \cup Contribution) \ {<<>>}

InitPhase2(c) == <<c>>

ContributePhase2(b, who) == Append(b, who)

(* Phase2.Verify: next folds one contribution into prev, and the challenge *)
(* in its proof is the hash of prev.                                       *)
VerifyPhase2Step(prev, next) ==
    \E who \in Contribution : next = ContributePhase2(prev, who)

(* mpcsetup.VerifyPhase2 over a whole chain: the first blob is verified    *)
(* against the init of the circuit, each other one against the one before. *)
VerifyPhase2(c, chain) ==
    \A i \in DOMAIN chain :
        VerifyPhase2Step(IF i = 1 THEN InitPhase2(c) ELSE chain[i - 1], chain[i])

(* FinalizePhase2: the keys derived from the last blob.  There is one      *)
(* beacon, so they are named by the blob they are sealed from.             *)
SealPhase2(chain) == chain[Len(chain)]

(* Mutation: the chain is cut after its first blob.                        *)
FinalizeFirst(c, chain) ==
    [ccs |-> c, pk |-> SealPhase2(<<chain[1]>>), vk |-> SealPhase2(<<chain[1]>>)]

FinalizePhase2(c, chain) ==
    [ccs |-> c, pk |-> SealPhase2(chain), vk |-> SealPhase2(chain)]

(* sha256 of the serialisation, taken to be injective: a constructor.      *)
HashBlob(b) == [sha256 |-> b]

Hash == [sha256 : Blob]
=============================================================================
