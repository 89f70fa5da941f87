---------------------------- MODULE Transcript ----------------------------
(***************************************************************************)
(* The public record of a ceremony (src/ceremony/transcript.go): entries   *)
(* linked by hashes, the first of them to the uncontributed init head.     *)
(* Provider, display name, timestamp and the curve are left out; blob_ref  *)
(* is the pair (index, new hash), which is how SaveBlob names the file.    *)
(***************************************************************************)
EXTENDS Backend

Entry == [index : Nat, by : Session, prev : Hash, new : Hash]

TranscriptDoc == [circuit : Circuit, init : Hash, entries : Seq(Entry)]

(* The transcript NewSequencer starts a ceremony for circuit c with.       *)
EmptyTranscript(c) ==
    [circuit |-> c, init |-> HashBlob(InitPhase2(c)), entries |-> <<>>]

TranscriptLen(t) == Len(t.entries)

(* The hash the next entry has to name as its predecessor.                 *)
WantPrev(t) ==
    IF t.entries = <<>> THEN t.init ELSE t.entries[Len(t.entries)].new

(* Mutation: the link to the last entry is not checked.                    *)
AppendUnchecked(t, prev) == TRUE

(* Append: refused on a chain break; the index is assigned here.           *)
AppendAllowed(t, prev) == prev = WantPrev(t)

(* Mutation: the index is left at its zero value.                          *)
AppendWithoutIndex(t, by, prev, new) ==
    [t EXCEPT !.entries =
        Append(@, [index |-> 0, by |-> by, prev |-> prev, new |-> new])]

TranscriptAppend(t, by, prev, new) ==
    [t EXCEPT !.entries =
        Append(@, [index |-> Len(@), by |-> by, prev |-> prev, new |-> new])]

(* Transcript.Verify. *)
VerifyTranscript(t) ==
    \A i \in DOMAIN t.entries :
        /\ t.entries[i].index = i - 1
        /\ t.entries[i].prev = IF i = 1 THEN t.init ELSE t.entries[i - 1].new
=============================================================================
