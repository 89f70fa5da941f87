------------------------------- MODULE Phase1 -------------------------------
(***************************************************************************)
(* The other way to a commons.bin: the commands phase1-init,               *)
(* phase1-contribute and phase1-seal (src/cmd/ceremony/main.go) over files *)
(* that are handed from one contributor to the next.  A state is its size  *)
(* and the contributions folded into it; the power that was asked of       *)
(* phase1-init travels with it as history.  A command can die while it     *)
(* writes, in place of its input included.                                 *)
(***************************************************************************)
EXTENDS Naturals, Sequences, FiniteSets, SequencesExt

CONSTANTS
    Contributor,   \* told apart from one another; two draws of one are not
    P1File,        \* names of files
    Power,         \* what --power can say
    NoFile, CutShort,
    MaxFolded      \* bound: contributions in one state

CommonsBin == "commons.bin"

ASSUME Phase1Parameters ==
    /\ Power \subseteq Nat /\ MaxFolded \in Nat
    /\ CommonsBin \notin P1File

VARIABLES
    p1files,   \* what each file holds
    command    \* the command being run, when it has its result

p1vars == <<p1files, command>>

NoCommand == [pc |-> "shell", out |-> CommonsBin, result |-> CutShort]

Phase1FilesInit ==
    /\ p1files = [f \in P1File \cup {CommonsBin} |-> NoFile]
    /\ command = NoCommand

Whole(f) == p1files[f] \notin {NoFile, CutShort}

Uint8(p) == p % 256

(* uint64(1) << power                                                      *)
Domain(power) == IF power >= 64 THEN 0 ELSE 2^power

InitPhase1(p) == [n |-> Domain(Uint8(p)), by |-> <<>>, asked |-> p]
ContributePhase1(b, who) == [b EXCEPT !.by = Append(@, who)]
VerifyPhase1Step(prev, next) ==
    \E who \in Contributor : next = ContributePhase1(prev, who)

(* mpcsetup.VerifyPhase1: the chain starts from the init of that size.     *)
VerifyPhase1(n, chain) ==
    /\ n # 0
    /\ chain[1].n = n /\ Len(chain[1].by) = 1
    /\ \A i \in 2..Len(chain) : VerifyPhase1Step(chain[i - 1], chain[i])

(* Mutation: one bit short.                                                *)
SealSizeHalved(p) == Domain(Uint8(p)) \div 2

SealSize(p) == Domain(Uint8(p))

SealState(b, p, chain) ==
    [n |-> SealSize(p), by |-> b.by, asked |-> b.asked, files |-> chain, sealedFor |-> p]

(* Mutation: the commons of the first file.                                *)
SealFirstFile(p, chain) == SealState(chain[1], p, chain)

(* The commons of the last file; with what was sealed as history.          *)
SealPhase1(p, chain) == SealState(chain[Len(chain)], p, chain)

Runs(out, result) ==
    /\ command' = [pc |-> "create", out |-> out, result |-> result]
    /\ UNCHANGED p1files

(* NewPhase1 panics for a size that is no power of two.                    *)
Phase1Init(out, p) ==
    /\ command.pc = "shell"
    /\ p # 0
    /\ Domain(Uint8(p)) # 0
    /\ Runs(out, InitPhase1(p))

Phase1Contribute(in, out, who) ==
    /\ command.pc = "shell"
    /\ Whole(in) /\ Len(p1files[in].by) < MaxFolded
    /\ Runs(out, ContributePhase1(p1files[in], who))

Phase1Seal(names, p) ==
    /\ command.pc = "shell"
    /\ p # 0
    /\ \A i \in DOMAIN names : Whole(names[i])
    /\ LET chain == [i \in DOMAIN names |-> p1files[names[i]]]
       IN  /\ VerifyPhase1(SealSize(p), chain)
           /\ Runs(CommonsBin, SealPhase1(p, chain))

(* writeBlob: os.Create, WriteTo, Sync, Close.                             *)
CreateFile ==
    /\ command.pc = "create"
    /\ p1files' = [p1files EXCEPT ![command.out] = CutShort]
    /\ command' = [command EXCEPT !.pc = "write"]

FileComplete ==
    /\ command.pc = "write"
    /\ p1files' = [p1files EXCEPT ![command.out] = command.result]
    /\ command' = NoCommand

CommandDies ==
    /\ command.pc # "shell"
    /\ command' = NoCommand
    /\ UNCHANGED p1files

Phase1Next ==
    \/ \E f \in P1File, p \in Power : Phase1Init(f, p)
    \/ \E in, out \in P1File, who \in Contributor : Phase1Contribute(in, out, who)
    \/ \E k \in 1..Cardinality(P1File), p \in Power :
         \E names \in [1..k -> P1File] : Phase1Seal(names, p)
    \/ CreateFile \/ FileComplete \/ CommandDies

-----------------------------------------------------------------------------
(* Properties *)

Sealed == p1files[CommonsBin]

(* A whole commons.bin folds one contribution of every file that was       *)
(* listed, each on top of the one before, from an empty state on, although *)
(* files are torn, written over in place, forked and mixed up in between   *)
(* (main.go:254).                                                          *)
SealFoldsAll ==
    Whole(CommonsBin) =>
        \A i \in DOMAIN Sealed.files :
            Len(Sealed.files[i].by) = i /\ IsPrefix(Sealed.files[i].by, Sealed.by)

(* It has the 2^power elements that were asked of phase1-init and again of *)
(* phase1-seal ("must match", main.go:238), as long as both powers fit the *)
(* byte they are converted to: 257 passes for 1.                           *)
SealedPower ==
    Whole(CommonsBin) /\ Sealed.asked < 256 /\ Sealed.sealedFor < 256 =>
        Sealed.asked = Sealed.sealedFor /\ Sealed.n = 2^Sealed.asked
=============================================================================
