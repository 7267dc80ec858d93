---------------------------- MODULE SipNonInvSer ----------------------------
(***************************************************************************)
(* The server transaction of every request but INVITE and ACK:               *)
(* SipTxnNonInvSerFsm.cpp with what SipTxnHandler, SipStackManager and        *)
(* CbkTxnTimeout do around each event.                                      *)
(*                                                                         *)
(* A PRACK looks for the reliable provisional it acknowledges in the key      *)
(* list; whether the INVITE it finds there is still in the pool is the        *)
(* business of SipInvSer, and a parameter here.  Stuttering steps: a copy of  *)
(* the request in TRYING (IGNORE_REQ), anything without an entry in           *)
(* gpfSipNonInvSerTxnFsm.                                                   *)
(***************************************************************************)
EXTENDS SipTxn

CONSTANT MaxTxns     \* bound on the transactions that copies of the request make

ASSUME MaxTxnsAssumption == MaxTxns \in Nat

VARIABLE hist       \* what the transaction user has been told

vars == <<env, txn, keys, net, hist>>

States == {"IDLE", "TRYING", "PROCEEDING", "COMPLETED", "TERMINATED"}

(***************************************************************************)
(* born: transactions made; ended: ends announced; final: the user has sent   *)
(* a final response that reached the network, in the present transaction;    *)
(* accepted: RSeqs whose PRACK was passed up as new, all transactions.       *)
(***************************************************************************)
NewHist == [born |-> 0, ended |-> 0, final |-> FALSE, accepted |-> {}]

TxnType == [st : States, pool : BOOLEAN, timer : Timer, expired : Nat, retx : Nat,
            cur : Nat, sent : Message, proto : Protocols, ctx : BOOLEAN]
HistType == [born : Nat, ended : Nat, final : BOOLEAN, accepted : SUBSET (1..MaxRSeq)]

Init ==
    /\ env \in Envs
    /\ txn = NewTxn
    /\ keys = env.left
    /\ net = {}
    /\ hist = NewHist

TellBorn(h) == [h EXCEPT !.born = @ + 1, !.final = FALSE]
TellEnd(h) == [h EXCEPT !.ended = @ + 1]

Pooled(st) == txn.pool /\ txn.st = st
Answerable == Pooled("TRYING") \/ Pooled("PROCEEDING")

-----------------------------------------------------------------------------
\* A request that finds no transaction makes one.
Created ==
    /\ ~txn.pool /\ hist.born < MaxTxns
    /\ txn' = [NewTxn EXCEPT !.st = "TRYING", !.pool = TRUE]
    /\ UNCHANGED <<env, net>>

RecvRequest ==
    /\ Created
    /\ hist' = TellBorn(hist)
    /\ UNCHANGED keys

(***************************************************************************)
(* The three answers of the key list to a PRACK: its RSeq is there; only      *)
(* another of the dialog is (STATUS_STRAY_PRACK, the engine answers 481);     *)
(* nothing is, and the user decides.  The keys of the dialog go only when     *)
(* the INVITE is still in the pool.                                         *)
(***************************************************************************)
\* The keys of the Call-ID and From tag: all that the variable holds.
DeleteTxnKey == << >>

PrackFound(rseq, inPool) ==
    /\ ExactHits(keys, NoTag, rseq) # {}
    /\ keys' = IF inPool THEN DeleteTxnKey ELSE keys
    /\ hist' = [TellBorn(hist) EXCEPT !.accepted = @ \cup {rseq}]

PrackStray(rseq) ==
    /\ ExactHits(keys, NoTag, rseq) = {} /\ DialogHits(keys, NoTag) # {}
    /\ hist' = TellBorn(hist)
    /\ UNCHANGED keys

PrackUnmatched(rseq) ==
    /\ DialogHits(keys, NoTag) = {}
    /\ hist' = [TellBorn(hist) EXCEPT !.accepted = @ \cup {rseq}]
    /\ UNCHANGED keys

RecvPrack(rseq, inPool) ==
    /\ Created
    /\ PrackFound(rseq, inPool) \/ PrackStray(rseq) \/ PrackUnmatched(rseq)

\* A copy of the request: the stored response is repeated.
RecvRequestAgain ==
    /\ Pooled("PROCEEDING") \/ Pooled("COMPLETED")
    /\ \E sent \in Outcome("send") : Resend(txn, sent)
    /\ UNCHANGED <<env, txn, keys, hist>>

-----------------------------------------------------------------------------
\* SendMsg of a response whose handler leaves the transaction as t.
Terminated(t) ==
    /\ "transp" \in Faults
    /\ txn' = Stop(Removed(t))
    /\ hist' = TellEnd(hist)
    /\ UNCHANGED net
NotSent(t) ==
    /\ "send" \in Faults
    /\ txn' = t
    /\ UNCHANGED <<net, hist>>

Send1xx ==
    LET t == [txn EXCEPT !.st = "PROCEEDING"]
    IN
    /\ Answerable
    /\ \/ Terminated(t)
       \/ NotSent(t)
       \/ /\ txn' = Stored(t, Plain("1xx"), FirstProto)
          /\ net' = net \cup {Plain("1xx")}
          /\ UNCHANGED hist
    /\ UNCHANGED <<env, keys>>

(***************************************************************************)
(* A final response over UDP: timer J, or SendMsg fails and nothing changes. *)
(***************************************************************************)
LingerUntimed(t) == [t EXCEPT !.st = "COMPLETED"]  \* wrong: no timer J
LingerConfirmed(t) == [Start(t, "J", TWait) EXCEPT !.st = "CONFIRMED"]  \* wrong: not its state
Linger(t) == [Start(t, "J", TWait) EXCEPT !.st = "COMPLETED"]

SendFinalUdp ==
    /\ Answerable /\ Udp
    /\ \/ Terminated(Linger(txn))
       \/ NotSent(Linger(txn))
       \/ /\ txn' = Stored(Linger(txn), Plain("final"), FirstProto)
          /\ net' = net \cup {Plain("final")}
          /\ hist' = [hist EXCEPT !.final = TRUE]
    /\ UNCHANGED <<env, keys>>

\* Over any other transport it is deleted once the response is sent, not before.
SendFinalTcp ==
    LET t == [txn EXCEPT !.st = "TERMINATED"]
    IN
    /\ Answerable /\ ~Udp
    /\ \/ Terminated(t)
       \/ NotSent(t)
       \/ /\ txn' = Removed(t)
          /\ net' = net \cup {Plain("final")}
          /\ hist' = TellEnd([hist EXCEPT !.final = TRUE])
    /\ UNCHANGED <<env, keys>>

TimerJFires ==
    /\ Pooled("COMPLETED") /\ txn.timer.type = "J"
    /\ txn' = Removed([Stop(txn) EXCEPT !.st = "TERMINATED"])
    /\ hist' = TellEnd(hist)
    /\ UNCHANGED <<env, keys, net>>

-----------------------------------------------------------------------------
\* As in the other transactions; nothing is stored in TRYING, so nothing to report.
FallBackToUdp ==
    /\ "error" \in Faults /\ txn.pool /\ txn.proto = "TCP"
    /\ txn' = [txn EXCEPT !.proto = "UDP"]
    /\ net' = net \cup {txn.sent}
    /\ UNCHANGED <<env, keys, hist>>

TransportError ==
    /\ "error" \in Faults /\ txn.pool /\ txn.st # "TERMINATED"
    /\ \/ txn.proto = "UDP"
       \/ txn.proto = "TCP" /\ "send" \in Faults
    /\ LET t == IF txn.st = "COMPLETED" THEN Stop(txn) ELSE txn
       IN txn' = Removed([t EXCEPT !.st = "TERMINATED", !.proto = "UDP"])
    /\ hist' = TellEnd(hist)
    /\ UNCHANGED <<env, keys, net>>

Abort ==
    /\ "abort" \in Faults /\ txn.pool
    /\ txn' = Stop(Removed(txn))
    /\ hist' = TellEnd(hist)
    /\ UNCHANGED <<env, keys, net>>

-----------------------------------------------------------------------------
Respond == Send1xx \/ SendFinalUdp \/ SendFinalTcp
Other == RecvRequestAgain \/ Respond \/ TimerJFires \/ FallBackToUdp \/ TransportError \/ Abort

Next ==
    \/ RecvRequest
    \/ \E rseq \in 1..MaxRSeq, inPool \in BOOLEAN : RecvPrack(rseq, inPool)
    \/ Other

\* An armed timer fires; the peer and the user promise nothing.
Spec == Init /\ [][Next]_vars /\ WF_vars(TimerJFires)

-----------------------------------------------------------------------------
(***************************************************************************)
(* Properties.                                                             *)
(***************************************************************************)

\* Type invariant: the fields of SipTxn, the key list and the history.
TypeOK ==
    /\ env \in Envs
    /\ txn \in TxnType
    /\ keys \in Seq(Key)
    /\ net \subseteq Message
    /\ hist \in HistType

\* Every request announced to the user is matched by one announcement of its end,
\* exactly when its transaction leaves the pool.
ContextsBalance == hist.born - hist.ended = IF txn.pool THEN 1 ELSE 0

\* A transaction whose final response went out repeats that response to copies of
\* the request, or is gone; it never falls back to a provisional
\* (NonInvSerFsm_CompletedStRecvNonInvReqEvt).
FinalIsRepeated ==
    hist.final /\ txn.pool => txn.st = "COMPLETED" /\ txn.sent = Plain("final")

\* A transaction that sent its final response leaves the pool, when it is sent.
CompletedEnds ==
    Pooled("COMPLETED") \/ (hist.final /\ txn.pool) ~> ~txn.pool
=============================================================================
