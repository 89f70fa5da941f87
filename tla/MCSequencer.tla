---------------------------- MODULE MCSequencer ----------------------------
(* The sequencer over its store on small instances.  Sessions and          *)
(* challenges are used up by admissions; crashes and faults are bounded.   *)
EXTENDS Sequencer

Symmetry == Permutations(Session) \cup Permutations(Challenge) \cup Permutations(Handler)

(* One crash or power failure, and with a crash also a failing write.      *)
FewFaults == faults.writes + faults.power <= 1
=============================================================================
