------------------------------ MODULE Commons ------------------------------
(***************************************************************************)
(* A ceremony starts from a commons.bin that is either ingested from a     *)
(* public powers-of-tau file or made by a Phase 1 of its own (RUNBOOK.md,  *)
(* section 1): one or the other.                                           *)
(***************************************************************************)
EXTENDS Ptau, Phase1

NothingIngested ==
    /\ source = [power |-> 0, flaw |-> Flawless] /\ run = NoIngest
    /\ probed = FALSE /\ commons = Before

CommonsInit ==
    /\ Phase1FilesInit
    /\ PtauInit \/ NothingIngested

CommonsNext ==
    \/ PtauNext /\ UNCHANGED p1vars
    \/ run = NoIngest /\ Phase1Next /\ UNCHANGED pvars

CommonsSpec == CommonsInit /\ [][CommonsNext]_<<pvars, p1vars>>
=============================================================================
