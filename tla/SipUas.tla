------------------------------- MODULE SipUas -------------------------------
(***************************************************************************)
(* An INVITE server transaction and the transaction of the PRACKs that        *)
(* acknowledge its reliable provisionals.  They meet in the key list: the      *)
(* INVITE puts the RSeq it repeats there, and a PRACK that finds it stops the  *)
(* INVITE's timer, through the pool, in the same step in which its own         *)
(* transaction is made (NonInvSerFsm_IdleStRecvNonInvReqEvt).                 *)
(***************************************************************************)
EXTENDS SipTxn

CONSTANTS
    InvTxns,    \* bound on the INVITE transactions
    PrackTxns   \* bound on the PRACK transactions

ASSUME InvTxnsAssumption == InvTxns \in Nat
ASSUME PrackTxnsAssumption == PrackTxns \in Nat

VARIABLES
    resp, hist,     \* of the INVITE transaction, which is txn
    ptxn, phist     \* the PRACK transaction and its history

vars == <<env, txn, keys, net, resp, hist, ptxn, phist>>

Inv == INSTANCE SipInvSer WITH MaxTxns <- InvTxns
Prack == INSTANCE SipNonInvSer WITH
    txn <- ptxn, hist <- phist, MaxTxns <- PrackTxns

Init == Inv!Init /\ Prack!Init

InviteStep == Inv!Other /\ UNCHANGED <<ptxn, phist>>

PrackStep == Prack!Other /\ UNCHANGED <<txn, resp, hist>>

\* A PRACK arrives, possibly late: for any reliable provisional sent so far.
RecvPrack(rseq) ==
    /\ Msg("1xx", NoTag, rseq) \in net
    /\ Prack!RecvPrack(rseq, txn.pool)
    /\ IF txn.pool /\ Inv!PrackMatches(rseq)
       THEN Inv!RecvPrack(rseq)
       ELSE UNCHANGED <<txn, resp, hist>>

Next == InviteStep \/ PrackStep \/ \E rseq \in 1..MaxRSeq : RecvPrack(rseq)

TimerFires ==
    \/ Inv!TimerFires /\ UNCHANGED <<ptxn, phist>>
    \/ Prack!TimerJFires /\ UNCHANGED <<txn, resp, hist>>

Spec == Init /\ [][Next]_vars /\ WF_vars(TimerFires)

-----------------------------------------------------------------------------
(***************************************************************************)
(* Properties.                                                             *)
(***************************************************************************)

\* A reliable provisional is repeated exactly until the user has been given a PRACK
\* for it: a PRACK called stray (481) must not stop the repetition, and one that is
\* passed up must, whatever copies of either arrive in between.
RepeatedUntilAccepted ==
    Inv!Pooled("PROCEEDING") /\ txn.sent.rseq # 0 =>
        (txn.timer.type = "G" <=> txn.sent.rseq \notin phist.accepted)
=============================================================================
