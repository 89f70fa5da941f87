--------------------------- MODULE MCFinalization ---------------------------
(* Finalizing over a sequencer's archive, on small instances.              *)
EXTENDS Finalization

Symmetry == Permutations(Session) \cup Permutations(Challenge) \cup Permutations(Handler)
            \cup Permutations(Circuit)
=============================================================================
