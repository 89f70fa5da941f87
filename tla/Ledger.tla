------------------------------- MODULE Ledger -------------------------------
(***************************************************************************)
(* What the sequencer (src/ceremony/sequencer.go) promises of the chain of *)
(* contributions it serves, however it stores it and however often it is   *)
(* stopped.  While it serves, the chain only grows, by one verified        *)
(* contribution at a time, and receipts are given for all of it.  When it  *)
(* stops, the end of the chain may be forgotten, but nothing that somebody *)
(* has a receipt for; and what was left is what is served the next time.   *)
(* The promise ends when the store loses something (intact).               *)
(***************************************************************************)
EXTENDS Backend, SequencesExt

VARIABLES
    serving,     \* the sequencer is up
    chain,       \* the blob that holds all accepted contributions; <<>> before
                 \* there is any ceremony
    receipted,   \* the chains that receipts have been given for
    intact       \* nothing in the store has been lost

ledgerVars == <<serving, chain, receipted, intact>>

LedgerInit == serving = FALSE /\ chain = <<>> /\ receipted = {} /\ intact = TRUE

Open ==
    /\ ~serving /\ serving'
    /\ chain = <<>> /\ \E c \in Circuit : chain' = InitPhase2(c)
    /\ UNCHANGED <<receipted, intact>>

GoOn ==
    /\ ~serving /\ serving'
    /\ chain # <<>>
    /\ UNCHANGED <<chain, receipted, intact>>

Record ==
    /\ serving
    /\ VerifyPhase2Step(chain, chain')
    /\ UNCHANGED <<serving, receipted, intact>>

GiveReceipt ==
    /\ serving
    /\ Len(chain) > 1
    /\ receipted' = receipted \cup {chain}
    /\ UNCHANGED <<serving, chain, intact>>

Stop ==
    /\ serving /\ ~serving'
    /\ IsPrefix(chain', chain)
    /\ \A b \in receipted : IsPrefix(b, chain')
    /\ UNCHANGED <<receipted, intact>>

Lose == ~intact'

LedgerNext == Open \/ GoOn \/ Record \/ GiveReceipt \/ Stop \/ Lose

LedgerSpec == LedgerInit /\ [][LedgerNext]_ledgerVars
=============================================================================
