----------------------------- MODULE KeyMaking -----------------------------
(***************************************************************************)
(* What a finalization of Phase 2 promises, whichever program does it:     *)
(* phase2-finalize (src/cmd/ceremony/main.go), which holds everything in   *)
(* memory, or finalize-stream (src/cmd/finalize-stream/main.go), which     *)
(* reads and writes piece by piece.  It is asked to fold a chain of blobs  *)
(* for a circuit.  Key files are touched only for a chain that verifies as *)
(* a whole from the circuit's init, and a fingerprint is printed only when *)
(* the directory holds all three files of those keys.                      *)
(***************************************************************************)
EXTENDS Backend

CONSTANT Broken   \* a key file that is cut short

VARIABLES
    order,    \* [circuit, blobs]: what the run in progress is to fold, or None
    keyDir,   \* the keys directory: what each of its files holds
    pinned    \* the keys whose fingerprint was printed last, or None

keyVars == <<order, keyDir, pinned>>

KeyFile == {"vk", "pk", "ccs"}

Order == [circuit : Circuit, blobs : Seq(Blob) \ {<<>>}]

OrderedKeys == FinalizePhase2(order.circuit, order.blobs)

(* The directory may hold anything when the first run starts.              *)
KeyInit == order = None /\ DOMAIN keyDir = KeyFile

Ask == order = None /\ order' \in Order /\ UNCHANGED <<keyDir, pinned>>

GiveUp == order # None /\ order' = None /\ UNCHANGED <<keyDir, pinned>>

(* A file is written, or cut short by whatever ends the run there.         *)
WriteKey(f) ==
    /\ order # None
    /\ VerifyPhase2(order.circuit, order.blobs)
    /\ \/ keyDir' = [keyDir EXCEPT ![f] = OrderedKeys[f]] /\ order' \in {order, None}
       \/ keyDir' = [keyDir EXCEPT ![f] = Broken] /\ order' = None
    /\ UNCHANGED pinned

Finish ==
    /\ order # None
    /\ VerifyPhase2(order.circuit, order.blobs)
    /\ keyDir = OrderedKeys
    /\ pinned' = OrderedKeys
    /\ order' = None
    /\ UNCHANGED keyDir

KeyNext == Ask \/ GiveUp \/ (\E f \in KeyFile : WriteKey(f)) \/ Finish

KeySpec == KeyInit /\ [][KeyNext]_keyVars
=============================================================================
