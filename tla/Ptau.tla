-------------------------------- MODULE Ptau --------------------------------
(***************************************************************************)
(* ingest-ptau (src/cmd/ingest-ptau/main.go): the first 2^power elements   *)
(* of the five arrays of a powers-of-tau file are fetched by byte offset,  *)
(* decoded, put through the consistency gates and written to commons.bin;  *)
(* --probe puts the first 16 through the gates and writes nothing.  The    *)
(* operator can be wrong about the header or the power of the source, and  *)
(* the file can hold a point that is not the one it should be.             *)
(*                                                                         *)
(* A point is known by what it is a multiple of.  Bytes that are not those *)
(* of one encoded point of the right group do not decode: the decoder      *)
(* checks curve and subgroup.                                              *)
(***************************************************************************)
EXTENDS Integers, Sequences, SequencesExt

CONSTANTS
    IntBits,      \* width of the code's int64
    HeaderFlag,   \* what --header can say
    SourceFlag,   \* what --source-power can say
    PowerFlag,    \* what --power can say
    FileHeader,   \* the real length of the header
    FilePower,    \* the real powers of the source considered
    FlawIndex,    \* the places where a file may be wrong
    Before,       \* what commons.bin held before
    Torn          \* a commons.bin that is cut short

ASSUME PtauParameters ==
    /\ IntBits \in Nat \ {0}
    /\ HeaderFlag \subseteq Int /\ FileHeader \in Nat
    /\ SourceFlag \subseteq Nat /\ PowerFlag \subseteq Nat
    /\ FilePower \subseteq Nat /\ FlawIndex \subseteq Nat

-----------------------------------------------------------------------------
(* The source file *)

Arrays == <<"tau_g1", "tau_g2", "alpha", "beta", "beta_g2">>
ArrayName == ToSet(Arrays)

Group(a) == IF a \in {"tau_g2", "beta_g2"} THEN 2 ELSE 1

g1Uncompressed == 96
g2Uncompressed == 192
Width(a) == IF Group(a) = 1 THEN g1Uncompressed ELSE g2Uncompressed

(* How many elements an array has when the others have N.                  *)
Length(a, N) == CASE a = "tau_g1" -> 2 * N - 1 [] a = "beta_g2" -> 1 [] OTHER -> N

(* The i-th element: a generator times tau^i, times alpha or beta.         *)
Factor(a) == IF a \in {"alpha", "beta"} THEN a ELSE IF a = "beta_g2" THEN "beta" ELSE "one"
Point(a, i) == [group |-> Group(a), factor |-> Factor(a), tau |-> i]

(* Some other point of the group, and something that is no point.          *)
Foreign(a) == [group |-> Group(a), factor |-> "other", tau |-> 0]
Garbage == [group |-> 0, factor |-> "none", tau |-> 0]

Flawless == [array |-> "none", index |-> 0, point |-> TRUE]
Flaw == [array : ArrayName, index : FlawIndex, point : BOOLEAN]
Source ==
    {s \in [power : FilePower, flaw : Flaw] : s.flaw.index < Length(s.flaw.array, 2^s.power)}
        \cup [power : FilePower, flaw : {Flawless}]

Stored(file, a, i) ==
    IF file.flaw.array = a /\ file.flaw.index = i
    THEN IF file.flaw.point THEN Foreign(a) ELSE Garbage
    ELSE Point(a, i)

(* The arrays one after the other behind the header, N being 2^power.      *)
Start(N, a) ==
    LET Size(b) == Length(b, N) * Width(b)
        tauG2 == FileHeader + Size("tau_g1")
        alpha == tauG2 + Size("tau_g2")
        beta  == alpha + Size("alpha")
    IN  CASE a = "tau_g1"  -> FileHeader
          [] a = "tau_g2"  -> tauG2
          [] a = "alpha"   -> alpha
          [] a = "beta"    -> beta
          [] a = "beta_g2" -> beta + Size("beta")

(* No file is longer than an int64 can say.                                *)
ASSUME FilesFitInt64 ==
    \A p \in FilePower : Start(2^p, "beta_g2") + Width("beta_g2") < 2^(IntBits - 1)

(* What decoding a point of array a's group at a byte offset returns.      *)
DecodedAt(file, group, at) ==
    LET N == 2^file.power
        hits == {a \in ArrayName :
                   LET past == at - Start(N, a)
                   IN  /\ Group(a) = group
                       /\ past >= 0
                       /\ past % Width(a) = 0
                       /\ past \div Width(a) < Length(a, N)}
    IN  IF hits = {} THEN Garbage
        ELSE LET a == CHOOSE b \in hits : TRUE
             IN  Stored(file, a, (at - Start(N, a)) \div Width(a))

-----------------------------------------------------------------------------
(* Arithmetic of the code *)

Int64(x) == ((x + 2^(IntBits - 1)) % 2^IntBits) - 2^(IntBits - 1)
Shift(p) == IF p >= IntBits THEN 0 ELSE Int64(2^p)

(* Mutation: tau_g1 has an even number of points.                          *)
TauG1LenEven(srcN) == 2 * srcN

SrcTauG1Len(srcN) == 2 * srcN - 1

(* offTauG1, offTauG2, offAlpha, offBeta, offBetaG2                        *)
FirstByte(header, srcN, a) ==
    LET offTauG2 == header + SrcTauG1Len(srcN) * g1Uncompressed
        offAlpha == offTauG2 + srcN * g2Uncompressed
        offBeta  == offAlpha + srcN * g1Uncompressed
    IN  CASE a = "tau_g1"  -> header
          [] a = "tau_g2"  -> offTauG2
          [] a = "alpha"   -> offAlpha
          [] a = "beta"    -> offBeta
          [] a = "beta_g2" -> offBeta + srcN * g1Uncompressed

(* Mutation: the alpha points are counted from one.                        *)
OffsetOfLateAlpha(header, srcPower, a, i) ==
    Int64(FirstByte(header, Shift(srcPower), a)
            + (IF a = "alpha" THEN i + 1 ELSE i) * Width(a))

OffsetOf(header, srcPower, a, i) ==
    Int64(FirstByte(header, Shift(srcPower), a) + i * Width(a))

-----------------------------------------------------------------------------
VARIABLES
    source,    \* the file behind --url or --file
    run,       \* program counter, flags, and the arrays read so far
    probed,    \* a probe with the header and source power of run succeeded
    commons    \* commons.bin: Before, Torn, or the arrays it holds

pvars == <<source, run, probed, commons>>

Flags == [header : HeaderFlag, source : SourceFlag, power : PowerFlag, probe : BOOLEAN]

NoIngest == [pc |-> "none", got |-> <<>>,
             flags |-> [header |-> 0, source |-> 0, power |-> 0, probe |-> FALSE]]

PtauInit ==
    /\ source \in Source
    /\ \E f \in Flags : run = [pc |-> "flags", flags |-> f, got |-> <<>>]
    /\ probed = FALSE
    /\ commons = Before

Ends(pc) == run' = [run EXCEPT !.pc = pc] /\ UNCHANGED <<source, probed, commons>>

FlagsAccepted == run.flags.power # 0 /\ run.flags.power <= run.flags.source

CheckFlags ==
    /\ run.pc = "flags"
    /\ Ends(IF FlagsAccepted THEN "read" ELSE "usage")

Reading == run.pc = "read" /\ Len(run.got) < Len(Arrays)
NextArray == Arrays[Len(run.got) + 1]

(* How many elements are read of an array: 16 of each by a probe.          *)
Count(a) ==
    IF run.flags.probe THEN IF a = "beta_g2" THEN 1 ELSE 16
    ELSE Int64(Length(a, Shift(run.flags.power)))

At(i) == OffsetOf(run.flags.header, run.flags.source, NextArray, 0) + i * Width(NextArray)

Decoded(i) == DecodedAt(source, Group(NextArray), At(i))

(* A negative count panics; a negative offset cannot be asked for; the     *)
(* first bytes that do not decode, or the end of the file, end the run.    *)
Readable ==
    /\ Count(NextArray) >= 0 /\ At(0) >= 0
    /\ \A i \in 0..(Count(NextArray) - 1) : Decoded(i) # Garbage

ReadArray ==
    /\ Reading /\ Readable
    /\ run' = [run EXCEPT !.got = Append(@, [i \in 1..Count(NextArray) |-> Decoded(i - 1)])]
    /\ UNCHANGED <<source, probed, commons>>

DecodeFails == Reading /\ ~Readable /\ Ends("refused")

(* No such file, no range support, or the connection breaks.               *)
FetchFails == Reading /\ Ends("failed")

-----------------------------------------------------------------------------
(* verify *)

TauG1 == run.got[1]
TauG2 == run.got[2]
AlphaTau == run.got[3]
BetaTau == run.got[4]
BetaG2 == run.got[5][1]

StartsAtGenerators == TauG1[1] = Point("tau_g1", 0) /\ TauG2[1] = Point("tau_g2", 0)

(* gnark's check: every sequence grows by the same unknown factor.         *)
SameRatioMany(points) ==
    \A i \in 1..(Len(points) - 1) :
        /\ points[i].factor # "other"
        /\ points[i + 1] = [points[i] EXCEPT !.tau = @ + 1]

(* The pairing equation: the same multiple in both groups.                 *)
BetaPairing == BetaTau[1].factor = BetaG2.factor /\ BetaTau[1].tau = BetaG2.tau

(* Mutation: beta_g2 is not looked at.                                     *)
GatesWithoutPairing ==
    StartsAtGenerators /\ \A k \in 1..4 : SameRatioMany(run.got[k])

Gates ==
    /\ StartsAtGenerators
    /\ \A k \in 1..4 : SameRatioMany(run.got[k])
    /\ BetaPairing

AllRead == run.pc = "read" /\ Len(run.got) = Len(Arrays)

GatesFail == AllRead /\ ~Gates /\ Ends("refused")

ProbeConfirms ==
    /\ AllRead /\ Gates /\ run.flags.probe
    /\ run' = [run EXCEPT !.pc = "confirmed"]
    /\ probed' = TRUE
    /\ UNCHANGED <<source, commons>>

(* "safe to run the full ingest": the operator does, for any power.        *)
IngestAfterProbe ==
    /\ run.pc = "confirmed"
    /\ \E p \in PowerFlag :
         run' = [pc |-> "flags", got |-> <<>>,
                 flags |-> [run.flags EXCEPT !.probe = FALSE, !.power = p]]
    /\ UNCHANGED <<source, probed, commons>>

CreateCommons ==
    /\ AllRead /\ Gates /\ ~run.flags.probe
    /\ run' = [run EXCEPT !.pc = "writing"]
    /\ commons' = Torn
    /\ UNCHANGED <<source, probed>>

WriteFails == run.pc = "writing" /\ Ends("failed")

CommonsWritten ==
    /\ run.pc = "writing"
    /\ run' = [run EXCEPT !.pc = "ok"]
    /\ commons' = run.got
    /\ UNCHANGED <<source, probed>>

PtauNext ==
    \/ CheckFlags
    \/ ReadArray \/ DecodeFails \/ FetchFails
    \/ GatesFail \/ ProbeConfirms \/ IngestAfterProbe
    \/ CreateCommons \/ WriteFails \/ CommonsWritten

-----------------------------------------------------------------------------
(* Properties *)

Arrays5(N) == [k \in 1..5 |-> [i \in 1..Length(Arrays[k], N) |-> Point(Arrays[k], i - 1)]]

(* commons.bin is touched only to hold the first 2^power elements of the   *)
(* source, whatever the flags say of the file and wherever the file is     *)
(* wrong; until then an older one is kept (main.go:18, "the tool REFUSES   *)
(* to write commons.bin unless").                                          *)
TruePrefix ==
    commons # Before => run.got = Arrays5(2^run.flags.power) /\ commons \in {Torn, run.got}

RightFlags == run.flags.header = FileHeader /\ run.flags.source = source.power

(* A file without a flaw, described rightly, is never refused; a probe     *)
(* needs a file with 16 elements in every array (main.go:275).             *)
RightFlagsWork ==
    /\ RightFlags /\ source.flaw = Flawless
    /\ run.flags.probe => 2^source.power >= 16
    => run.pc # "refused"

(* Whatever the flags were: after a probe of a file without a flaw, the    *)
(* ingest is never refused, for any power, the largest included            *)
(* (main.go:288, "ENCODING + ALL OFFSETS CONFIRMED on real data - safe to  *)
(* run the full ingest").                                                  *)
ConfirmedIngests == probed /\ source.flaw = Flawless => run.pc # "refused"
=============================================================================
