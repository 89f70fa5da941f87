---------------------------- MODULE MCCeremony ----------------------------
(* Participants and sequencer together, on small instances.                *)
EXTENDS Ceremony

Symmetry == Permutations(Session) \cup Permutations(Challenge) \cup Permutations(Handler)
=============================================================================
