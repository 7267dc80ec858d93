----------------------------- MODULE SipInvSer -----------------------------
(***************************************************************************)
(* The INVITE server transaction: SipTxnInvSerFsm.cpp with what             *)
(* SipTxnHandler, SipStackManager and CbkTxnTimeout do around each event,   *)
(* and what the PRACK handling of SipTxnNonInvSerFsm.cpp does to it.        *)
(*                                                                         *)
(* The peer has sent one INVITE; the network may deliver it any number of    *)
(* times, even after the transaction is gone, which makes a new one.  The     *)
(* user answers as it likes while the transaction is PROCEEDING; later       *)
(* SipServerConnection::Send refuses.  What reaches a state that has no entry *)
(* in gpfSipInvSerTxnFsm fails without effect: a stuttering step, as is an ACK *)
(* in CONFIRMED, which is passed up again.                                  *)
(***************************************************************************)
EXTENDS SipTxn

CONSTANT MaxTxns     \* bound on the transactions that copies of the INVITE make

ASSUME MaxTxnsAssumption == MaxTxns \in Nat

VARIABLES
    resp,   \* m_nRespCode: the response the user asked for last
    hist    \* what the transaction user has been told, and the time

vars == <<env, txn, keys, net, resp, hist>>

States == {"IDLE", "PROCEEDING", "COMPLETED", "CONFIRMED", "TERMINATED"}

(***************************************************************************)
(* born: new INVITEs passed up; ended: TxnTerminated and TxnTimeout notices,  *)
(* when the user lets go of its context.  Of the present transaction:         *)
(* expired: NotifyTimerExpired calls; next: m_nRSeqNumber, the RSeq of the     *)
(* next reliable provisional; rseq: the one asked for last; pracked: RSeqs     *)
(* whose PRACK has matched since they were sent; clock: total duration of the  *)
(* timers that have fired since the user sent its last response.             *)
(***************************************************************************)
NewHist == [born |-> 0, ended |-> 0, expired |-> 0,
            next |-> 1, rseq |-> 0, pracked |-> {}, clock |-> 0]

Responses == {"none", "100", "1xx", "2xx", "fail"}
TxnType == [st : States, pool : BOOLEAN, timer : Timer, expired : Nat, retx : Nat,
            cur : Nat, sent : Message, proto : Protocols, ctx : BOOLEAN]
HistType == [born : Nat, ended : Nat, expired : Nat,
             next : 1..(MaxRSeq + 1), rseq : 0..MaxRSeq, pracked : SUBSET (1..MaxRSeq), clock : Nat]

Init ==
    /\ env \in Envs
    /\ txn = NewTxn
    /\ keys = env.left
    /\ net = {}
    /\ resp = "none"
    /\ hist = NewHist

TellNew(h) == [NewHist EXCEPT !.born = h.born + 1, !.ended = h.ended]
TellEnd(h) == [h EXCEPT !.ended = @ + 1]
TellExpiry(h) == [h EXCEPT !.expired = @ + 1, !.ended = @ + 1]
Tick(h) == [h EXCEPT !.clock = @ + txn.timer.dur]
Rewound(h) == [h EXCEPT !.clock = 0]

Pooled(st) == txn.pool /\ txn.st = st

-----------------------------------------------------------------------------
(***************************************************************************)
(* An INVITE that finds no transaction makes one, with a context of its own. *)
(***************************************************************************)
RecvInvite ==
    /\ ~txn.pool /\ hist.born < MaxTxns
    /\ txn' = [NewTxn EXCEPT !.st = "PROCEEDING", !.pool = TRUE]
    /\ resp' = "none"
    /\ hist' = TellNew(hist)
    /\ UNCHANGED <<env, keys, net>>

\* A retransmitted INVITE: the stored response, when there is one, is repeated.
RecvInviteAgain ==
    /\ Pooled("PROCEEDING") \/ Pooled("COMPLETED")
    /\ \E sent \in Outcome("send") : Resend(txn, sent)
    /\ UNCHANGED <<env, txn, keys, resp, hist>>

-----------------------------------------------------------------------------
(***************************************************************************)
(* SendMsg of a response.  Every handler first stops the timer, drops the     *)
(* keys of the dialog and forgets the retransmission state.                  *)
(***************************************************************************)
Restarted(t) == [Stop(t) EXCEPT !.expired = 0, !.retx = 0, !.cur = 0]

\* The helper's number advances once a reliable provisional is out, not before.
Numbered(h, m) == [h EXCEPT !.next = IF m.rseq # 0 THEN m.rseq + 1 ELSE @]

\* m is ready to go out, with t and h the transaction and history after its handler.
HandOver(t, m, h) ==
    \/ /\ "transp" \in Faults     \* OnSendTranspError terminates it
       /\ txn' = Stop(Removed(t))
       /\ hist' = TellEnd(h)
       /\ UNCHANGED net
    \/ /\ "send" \in Faults       \* nothing is sent, nothing is stored
       /\ txn' = t
       /\ hist' = h
       /\ UNCHANGED net
    \/ /\ txn' = Stored(t, m, FirstProto)
       /\ net' = net \cup {m}
       /\ hist' = Numbered(h, m)

\* StartTimer failed in the handler: SendMsg fails and no message goes out.
Refused(h) ==
    /\ "timer" \in Faults
    /\ txn' = Restarted(txn)
    /\ hist' = h
    /\ UNCHANGED net

\* 100 and provisional responses without RSeq stop what an earlier one started.
SendProvisional(type) ==
    /\ Pooled("PROCEEDING")
    /\ resp' = type
    /\ keys' = << >>
    /\ HandOver(Restarted(txn), Plain(type), Rewound(hist))
    /\ UNCHANGED env

(***************************************************************************)
(* A reliable provisional: its key is added before timer G is started, and   *)
(* stays when that fails.                                                  *)
(***************************************************************************)
KeyAppended(rseq) == AddTxnKey(keys, NoTag, rseq)        \* wrong: the list is not emptied
KeyOfNext(rseq) == AddTxnKey(<< >>, NoTag, rseq + 1)     \* wrong: off by one
OnlyKey(rseq) == AddTxnKey(<< >>, NoTag, rseq)

SendReliable ==
    LET m == Msg("1xx", NoTag, hist.next)
        h == [Rewound(hist) EXCEPT !.rseq = m.rseq, !.pracked = @ \ {m.rseq}]
    IN
    /\ Pooled("PROCEEDING") /\ hist.next <= MaxRSeq
    /\ resp' = "1xx"
    /\ keys' = OnlyKey(m.rseq)
    /\ Refused(h) \/ HandOver(Start(Restarted(txn), "G", T1), m, h)
    /\ UNCHANGED env

Waiting(t) == [Start(t, "H", TLimit) EXCEPT !.st = "COMPLETED", !.expired = TLimit]
Repeating(t) == [Start(t, "G", T1) EXCEPT !.st = "COMPLETED"]

SendFailure ==
    /\ Pooled("PROCEEDING")
    /\ resp' = "fail"
    /\ keys' = << >>
    /\ \/ Refused(Rewound(hist))
       \/ HandOver(IF Udp THEN Repeating(Restarted(txn)) ELSE Waiting(Restarted(txn)),
                   Plain("fail"), Rewound(hist))
    /\ UNCHANGED env

Send2xx ==
    /\ Pooled("PROCEEDING")
    /\ resp' = "2xx"
    /\ keys' = << >>
    /\ HandOver(Waiting(Restarted(txn)), Plain("2xx"), Rewound(hist))
    /\ UNCHANGED env

\* Timer H could not be started: the transaction ends once the 2xx is sent.
Send2xxUntimed ==
    LET t == [Restarted(txn) EXCEPT !.st = "TERMINATED"]
    IN
    /\ Pooled("PROCEEDING") /\ "timer" \in Faults
    /\ resp' = "2xx"
    /\ keys' = << >>
    /\ \/ /\ "transp" \in Faults
          /\ txn' = Removed(t)
          /\ hist' = TellEnd(Rewound(hist))
          /\ UNCHANGED net
       \/ /\ "send" \in Faults
          /\ txn' = t
          /\ hist' = Rewound(hist)
          /\ UNCHANGED net
       \/ /\ txn' = Removed(t)
          /\ net' = net \cup {Plain("2xx")}
          /\ hist' = TellEnd(Rewound(hist))
    /\ UNCHANGED env

-----------------------------------------------------------------------------
(***************************************************************************)
(* Timers G and H, in PROCEEDING (where timer G repeats a reliable           *)
(* provisional over any transport) and in COMPLETED.                        *)
(***************************************************************************)
ExpiredAt(t) == IF t.expired = 0 THEN T1 ELSE t.expired
GivesUpOnTcp(t) == t.st = "COMPLETED" /\ t.proto # "UDP"  \* wrong: no limit
GivesUp(t) == ExpiredAt(t) >= TLimit \/ (t.st = "COMPLETED" /\ t.proto # "UDP")
DoubledUncut(t) == 2 * t.cur  \* wrong: the last interval is not cut
Doubled(t) ==
    Capped(ExpiredAt(t),
           IF t.st = "COMPLETED" /\ 2 * t.cur > T2 THEN T2 ELSE 2 * t.cur)

TimerGHDue == (Pooled("PROCEEDING") \/ Pooled("COMPLETED")) /\ txn.timer.type \in {"G", "H"}

TimerGHRepeats ==
    /\ TimerGHDue
    /\ ~GivesUp(txn)
    /\ LET dur == Doubled(txn)
           t == [Stop(txn) EXCEPT !.expired = ExpiredAt(txn)]
       IN \E started \in Outcome("timer"), sent \in Outcome("send") :
            /\ dur > 0
            /\ txn' = IF started
                      THEN [Start(t, "G", dur) EXCEPT !.retx = @ + 1, !.expired = @ + dur]
                      ELSE t
            /\ Resend(txn, started /\ sent)
    /\ hist' = Tick(hist)
    /\ UNCHANGED <<env, keys, resp>>

\* The key of an unacknowledged provisional stays in the list.
TimerGHGivesUp ==
    /\ TimerGHDue
    /\ GivesUp(txn)
    /\ txn' = Removed([Stop(txn) EXCEPT !.st = "TERMINATED", !.expired = ExpiredAt(txn)])
    /\ hist' = TellExpiry(Tick(hist))
    /\ UNCHANGED <<env, keys, net, resp>>

TimerIFires ==
    /\ Pooled("CONFIRMED") /\ txn.timer.type = "I"
    /\ txn' = Removed([Stop(txn) EXCEPT !.st = "TERMINATED"])
    /\ hist' = TellEnd(hist)
    /\ UNCHANGED <<env, keys, net, resp>>

-----------------------------------------------------------------------------
(***************************************************************************)
(* The ACK of a failure response carries the branch of the INVITE; a peer     *)
(* sends it once it has seen such a response.  CompareKeys does not let an    *)
(* ACK find a transaction whose last response is a 2xx.                      *)
(***************************************************************************)
AnyAckMatches == Plain("fail") \in net  \* wrong: the last response is not looked at
AckMatches == Plain("fail") \in net /\ resp # "2xx"

RecvAckUdp ==
    /\ Pooled("COMPLETED") /\ AckMatches /\ txn.proto = "UDP"
    /\ \/ /\ txn' = [Start(Stop(txn), "I", TWait) EXCEPT !.st = "CONFIRMED"]
       \/ /\ "timer" \in Faults
          /\ txn' = Stop(txn)
    /\ UNCHANGED <<env, keys, net, resp, hist>>

(***************************************************************************)
(* Over any other transport eTxnStatus keeps STATUS_INVALID_MESSAGE, and      *)
(* OnRecvMessage returns before it deletes the terminated transaction.       *)
(***************************************************************************)
RecvAckTcp ==
    /\ Pooled("COMPLETED") /\ AckMatches /\ txn.proto # "UDP"
    /\ txn' = [Stop(txn) EXCEPT !.st = "TERMINATED"]
    /\ UNCHANGED <<env, keys, net, resp, hist>>

(***************************************************************************)
(* A PRACK: when its RSeq is in the key list and the INVITE is in the pool,   *)
(* its retransmission stops and the keys of the dialog are removed.          *)
(***************************************************************************)
AnyPrack(rseq) == DialogHits(keys, NoTag) # {}  \* wrong: RSeq is not compared
PrackMatches(rseq) == ExactHits(keys, NoTag, rseq) # {}

RecvPrack(rseq) ==
    /\ txn.pool
    /\ Msg("1xx", NoTag, rseq) \in net
    /\ PrackMatches(rseq)
    /\ txn' = Stop(txn)
    /\ keys' = << >>
    /\ hist' = [hist EXCEPT !.pracked = @ \cup {rseq}]
    /\ UNCHANGED <<env, net, resp>>

-----------------------------------------------------------------------------
\* As in the client transaction; PROCEEDING keeps its timer, CONFIRMED ignores it.
FallBackToUdp ==
    /\ "error" \in Faults /\ txn.pool /\ txn.proto = "TCP"
    /\ txn' = [txn EXCEPT !.proto = "UDP"]
    /\ net' = net \cup {txn.sent}
    /\ UNCHANGED <<env, keys, resp, hist>>

TransportError ==
    /\ "error" \in Faults
    /\ Pooled("PROCEEDING") \/ Pooled("COMPLETED")
    /\ \/ txn.proto = "UDP"
       \/ txn.proto = "TCP" /\ "send" \in Faults
    /\ LET t == IF txn.st = "PROCEEDING" THEN txn ELSE Stop(txn)
       IN txn' = Removed([t EXCEPT !.st = "TERMINATED", !.proto = "UDP"])
    /\ hist' = TellEnd(hist)
    /\ UNCHANGED <<env, keys, net, resp>>

Abort ==
    /\ "abort" \in Faults /\ txn.pool
    /\ txn' = Stop(Removed(txn))
    /\ hist' = TellEnd(hist)
    /\ UNCHANGED <<env, keys, net, resp>>

-----------------------------------------------------------------------------
Respond ==
    \/ \E type \in {"100", "1xx"} : SendProvisional(type)
    \/ SendReliable
    \/ SendFailure
    \/ Send2xx
    \/ Send2xxUntimed

Receive == RecvInvite \/ RecvInviteAgain \/ RecvAckUdp \/ RecvAckTcp

TimerFires == TimerGHRepeats \/ TimerGHGivesUp \/ TimerIFires

Other == Respond \/ Receive \/ TimerFires \/ FallBackToUdp \/ TransportError \/ Abort

Next == Other \/ \E rseq \in 1..MaxRSeq : RecvPrack(rseq)

\* Armed timers fire; the peer and the user promise nothing.
Spec == Init /\ [][Next]_vars /\ WF_vars(TimerFires)

-----------------------------------------------------------------------------
(***************************************************************************)
(* Properties.                                                             *)
(***************************************************************************)

\* Type invariant: the fields of SipTxn, the key list and the history.
TypeOK ==
    /\ env \in Envs
    /\ txn \in TxnType
    /\ keys \in Seq(Key)
    /\ net \subseteq Message
    /\ resp \in Responses
    /\ hist \in HistType

\* Timers can be started and messages sent.
Reliably == Faults \cap {"timer", "transp", "send"} = {}

\* The user is told of a timeout only when timer H is due, counted from the
\* response sent last: intervals doubled from T1, held at T2 in COMPLETED and cut at
\* the end add up to the limit (Proceeding and CompletedStTimerG_H_TimeoutEvt).
GiveUpAtLimit == hist.expired > 0 /\ Reliably => hist.clock = TLimit

\* Every new INVITE announced to the user is matched by one announcement of its
\* end, exactly when its transaction leaves the pool, over all the transactions
\* that copies of the INVITE create (InvSerFsm_IdleStRecvInvReqEvt, TxnTerminated, TxnTimeout).
ContextsBalance == hist.born - hist.ended = IF txn.pool THEN 1 ELSE 0

\* A provisional that is being repeated can be acknowledged: the key list holds
\* its RSeq and no other of the dialog, whatever earlier responses left there.
RepeatedCanBePracked ==
    Pooled("PROCEEDING") /\ txn.timer.type = "G" =>
        keys = <<[tag |-> NoTag, rseq |-> hist.rseq]>>

\* The stored reliable provisional is repeated until its own PRACK arrives and no
\* longer: a late PRACK of an earlier one does not stop it
\* (NonInvSerFsm_IdleStRecvNonInvReqEvt).
Unpracked == txn.sent.rseq # 0 /\ txn.sent.rseq \notin hist.pracked
RepeatedUntilPracked ==
    Pooled("PROCEEDING") /\ Reliably => (txn.timer.type = "G" <=> Unpracked)

\* In COMPLETED and CONFIRMED the stored response, which answers a repeated
\* INVITE, is the final one the user sent.
CompletedRepeatsFinal ==
    Reliably /\ (Pooled("COMPLETED") \/ Pooled("CONFIRMED")) =>
        resp \in {"2xx", "fail"} /\ txn.sent = Plain(resp)

\* A terminated transaction is not left in the pool: OnRecvMessage says of an ACK
\* over TCP that the transaction is terminated, notified and deleted.
TerminatedLeavesPool == txn.st = "TERMINATED" => ~txn.pool

\* A transaction with a final response leaves the pool, with an ACK or without, but
\* for one case: over TCP the ACK of a failure response terminates it where it is,
\* and it stays in the pool (InvSerFsm_CompletedStRecvAckReqEvt,
\* TerminatedLeavesPool).
AckedOverTcp == txn.st = "TERMINATED" /\ txn.proto = "TCP" /\ resp = "fail"
CompletedEnds ==
    Reliably /\ (Pooled("COMPLETED") \/ Pooled("CONFIRMED")) ~> ~txn.pool \/ AckedOverTcp

\* A reliable provisional that is never acknowledged is not repeated for ever: it is
\* acknowledged or replaced, or the transaction ends.
RepeatsOf(r) == txn.pool /\ Unpracked /\ txn.sent.rseq = r
ReliableEnds == \A r \in 1..MaxRSeq : Reliably /\ RepeatsOf(r) ~> ~RepeatsOf(r)
=============================================================================
