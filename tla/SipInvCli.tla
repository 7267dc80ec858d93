----------------------------- MODULE SipInvCli -----------------------------
(***************************************************************************)
(* The INVITE client transaction: SipTxnInvCliFsm.cpp with what             *)
(* SipTxnHandler, SipStackManager and CbkTxnTimeout do around each event.   *)
(*                                                                         *)
(* Once the INVITE is on the network any response may arrive at any time,   *)
(* any number of times: the peer, its forks and the network are arbitrary.  *)
(* What the code answers with STATUS_STRAY_RESP, STATUS_IGNORE_RESP or      *)
(* STATUS_INVALID_MESSAGE and no other effect is a stuttering step and has  *)
(* no action here: responses that find no transaction in the pool, 1xx in   *)
(* COMPLETED, 2xx in COMPLETED, anything in TERMINATED.                     *)
(***************************************************************************)
EXTENDS SipTxn

\* A response without a To tag is told from every response with one.
ASSUME TagsAssumption == NoTag \notin Tags

VARIABLE hist       \* what the transaction user has been told, and the time

vars == <<env, txn, keys, net, hist>>

States == {"IDLE", "CALLING", "PROCEEDING", "COMPLETED", "TERMINATED"}

(***************************************************************************)
(* finals: final responses passed up; expired: NotifyTimerExpired calls;    *)
(* ended: TxnTerminated and TxnTimeout notices, after which the user lets go  *)
(* of its context; upto: the RSeq passed up last for each To tag, and    *)
(* disorder: one was repeated, skipped or late; clock: total duration of the  *)
(* timers A and B that have fired.                                          *)
(***************************************************************************)
NewHist == [finals |-> 0, expired |-> 0, ended |-> 0,
            upto |-> [t \in Tags |-> 0], disorder |-> FALSE, clock |-> 0]

TxnType == [st : States, pool : BOOLEAN, timer : Timer, expired : Nat, retx : Nat,
            cur : Nat, sent : Message, proto : Protocols, ctx : BOOLEAN]
HistType == [finals : Nat, expired : Nat, ended : Nat,
             upto : [Tags -> 0..MaxRSeq], disorder : BOOLEAN, clock : Nat]

Init ==
    /\ env \in Envs
    /\ txn = NewTxn
    /\ keys = env.left
    /\ net = {}
    /\ hist = NewHist

Reliable == {Msg("1xx", t, r) : t \in Tags, r \in 1..MaxRSeq}
Provisional == {Plain("100")} \cup {Msg("1xx", t, 0) : t \in Tags} \cup Reliable
Success == {Plain("2xx")}
Failure == {Plain("fail")}

TellFinal(h) == [h EXCEPT !.finals = @ + 1]
TellEnd(h) == [h EXCEPT !.ended = @ + 1]
TellExpiry(h) == [h EXCEPT !.expired = @ + (IF txn.ctx THEN 1 ELSE 0), !.ended = @ + 1]
TellProv(h, m) ==
    [h EXCEPT !.upto = [@ EXCEPT ![m.tag] = m.rseq],
              !.disorder = @ \/ h.upto[m.tag] \notin {0, m.rseq - 1}]
Tick(h) == [h EXCEPT !.clock = @ + txn.timer.dur]

-----------------------------------------------------------------------------
(***************************************************************************)
(* SendMsg of an INVITE.  A StartTimer failure leaves nothing behind (the    *)
(* object is taken out again and SendMsg fails), so only the three later     *)
(* outcomes are steps: OnSendTransp fails and the transaction is terminated; *)
(* SendToNetwork fails and the transaction stays, without message and        *)
(* context; the INVITE is sent and stored.                                  *)
(***************************************************************************)
SendInvite ==
    LET t == Start([txn EXCEPT !.st = "CALLING", !.pool = TRUE],
                   IF Udp THEN "A" ELSE "B", IF Udp THEN T1 ELSE TLimit)
    IN
    /\ txn.st = "IDLE"
    /\ UNCHANGED <<env, keys>>
    /\ \/ /\ "transp" \in Faults
          /\ txn' = Stop(Removed(t))
          /\ hist' = TellEnd(hist)
          /\ UNCHANGED net
       \/ /\ "send" \in Faults
          /\ txn' = [t EXCEPT !.ctx = FALSE]
          /\ UNCHANGED <<net, hist>>
       \/ /\ txn' = Stored(t, Plain("INVITE"), FirstProto)
          /\ net' = net \cup {Plain("INVITE")}
          /\ UNCHANGED hist

(***************************************************************************)
(* Timer A or B fires in CALLING.  m_nDurationExpired is ahead of the clock: *)
(* it already counts the interval that is being armed.                      *)
(***************************************************************************)
ExpiredUncounted(t) == t.expired  \* wrong: the first interval is not counted
ExpiredAt(t) == IF t.expired = 0 THEN T1 ELSE t.expired
NextInterval(t) == Capped(ExpiredAt(t), 2^(t.retx + 1) * T1)
GivesUpOnTcp(t) == t.proto # "UDP"  \* wrong: no limit
GivesUp(t) == t.proto # "UDP" \/ ExpiredAt(t) >= TLimit

TimerAFires ==
    /\ txn.pool /\ txn.st = "CALLING" /\ txn.timer.type \in {"A", "B"}
    /\ ~GivesUp(txn)
    /\ LET dur == NextInterval(txn)
           t == [Stop(txn) EXCEPT !.expired = ExpiredAt(txn)]
       IN \E started \in Outcome("timer"), sent \in Outcome("send") :
            /\ dur > 0
            /\ txn' = IF started
                      THEN [Start(t, "A", dur) EXCEPT !.retx = @ + 1, !.expired = @ + dur]
                      ELSE t
            /\ Resend(txn, started /\ sent)
    /\ hist' = Tick(hist)
    /\ UNCHANGED <<env, keys>>

TimerBFires ==
    /\ txn.pool /\ txn.st = "CALLING" /\ txn.timer.type \in {"A", "B"}
    /\ GivesUp(txn)
    /\ txn' = Removed([Stop(txn) EXCEPT !.st = "TERMINATED", !.expired = ExpiredAt(txn)])
    /\ hist' = TellExpiry(Tick(hist))
    /\ UNCHANGED <<env, keys, net>>

TimerDFires ==
    /\ txn.pool /\ txn.st = "COMPLETED" /\ txn.timer.type = "D"
    /\ txn' = Removed([Stop(txn) EXCEPT !.st = "TERMINATED"])
    /\ hist' = TellEnd(hist)
    /\ UNCHANGED <<env, keys, net>>

-----------------------------------------------------------------------------
\* The peer answers a request that it was sent.
Answered == Plain("INVITE") \in net

\* Which states have an entry for a response in gpfSipInvClientTxnFsm.
AwaitsAnyFinal == Answered /\ txn.pool /\ txn.st \in {"CALLING", "PROCEEDING", "COMPLETED"}  \* wrong: one state too many
AwaitsFinal == Answered /\ txn.pool /\ txn.st \in {"CALLING", "PROCEEDING"}
RingsOrCompleted == txn.pool /\ txn.st \in {"PROCEEDING", "COMPLETED"}  \* wrong: one state too many
Rings == txn.pool /\ txn.st = "PROCEEDING"

\* The first provisional response stops the timer for good; its RSeq is kept.
Recv1xxCalling(m) ==
    /\ Answered /\ txn.pool /\ txn.st = "CALLING"
    /\ txn' = [Stop(txn) EXCEPT !.st = "PROCEEDING"]
    /\ keys' = IF m.rseq # 0 THEN AddTxnKey(keys, m.tag, m.rseq) ELSE keys
    /\ hist' = IF m.rseq # 0 THEN TellProv(hist, m) ELSE hist
    /\ UNCHANGED <<env, net>>

(***************************************************************************)
(* A reliable provisional in PROCEEDING is new for its dialog, or next in    *)
(* sequence, or not passed up (retransmission or stray: no change).         *)
(***************************************************************************)
NewForDialog(m) == DialogHits(keys, m.tag) = {}
LaterInDialog(m) ==  \* wrong: any later RSeq is accepted
    /\ ExactHits(keys, m.tag, m.rseq) = {}
    /\ ~NewForDialog(m)
    /\ keys[First(DialogHits(keys, m.tag))].rseq < m.rseq
NextInDialog(m) ==
    /\ ExactHits(keys, m.tag, m.rseq) = {}
    /\ ~NewForDialog(m)
    /\ keys[First(DialogHits(keys, m.tag))].rseq + 1 = m.rseq

Recv1xxProceeding(m) ==
    /\ Rings
    /\ m.rseq # 0
    /\ \/ /\ NewForDialog(m)
          /\ keys' = AddTxnKey(keys, m.tag, m.rseq)
       \/ /\ NextInDialog(m)
          /\ keys' = SetRSeq(keys, First(DialogHits(keys, m.tag)), m.rseq)
    /\ hist' = TellProv(hist, m)
    /\ UNCHANGED <<env, txn, net>>

(***************************************************************************)
(* A final response.  The CALLING handlers stop the timer, the PROCEEDING    *)
(* handlers rely on there being none; those call DeleteTxnKey without the     *)
(* To tag, which empties the list, while the CALLING handlers leave it.      *)
(***************************************************************************)
AtFinal == IF txn.st = "CALLING" THEN Stop(txn) ELSE txn
KeysAfterFinal == IF txn.st = "PROCEEDING" THEN << >> ELSE keys

Recv2xx ==
    /\ AwaitsFinal
    /\ txn' = Removed([AtFinal EXCEPT !.st = "TERMINATED"])
    /\ keys' = KeysAfterFinal
    /\ hist' = TellEnd(TellFinal(hist))
    /\ UNCHANGED <<env, net>>

(***************************************************************************)
(* A 3xx-6xx response.  HandleFailureResp builds the ACK and, over UDP,      *)
(* starts timer D; when either fails the state stays and the response is     *)
(* not passed up.                                                           *)
(***************************************************************************)
RecvFailureUnhandled ==
    /\ AwaitsFinal
    /\ "ack" \in Faults \/ (txn.proto = "UDP" /\ "timer" \in Faults)
    /\ txn' = AtFinal
    /\ keys' = KeysAfterFinal
    /\ UNCHANGED <<env, net, hist>>

\* Encoding or OnSendTransp fails for the ACK: the transaction is terminated.
RecvFailureAckLost ==
    /\ AwaitsFinal
    /\ Faults \cap {"encode", "transp"} # {}
    /\ txn' = Removed([AtFinal EXCEPT
                  !.st = IF txn.proto = "UDP" THEN "COMPLETED" ELSE "TERMINATED"])
    /\ keys' = KeysAfterFinal
    /\ hist' = TellEnd(TellFinal(hist))
    /\ UNCHANGED <<env, net>>

\* What sipInvCli_HandleFailureResp and UpdateTxnDetails leave in the object.
LingerUntimed(t) == [t EXCEPT !.st = "COMPLETED"]  \* wrong: no timer D
Linger(t) == Start([t EXCEPT !.st = "COMPLETED"], "D", TWait)
AckForgotten(t) == t  \* wrong: UpdateTxnDetails is not called
AckStored(t) == Stored(t, Plain("ACK"), t.proto)

\* Over UDP the transaction lingers with timer D, to repeat the ACK.
RecvFailureUdp ==
    /\ AwaitsFinal /\ txn.proto = "UDP"
    /\ \E sent \in Outcome("send") :
         LET t == Linger(AtFinal)
         IN /\ txn' = IF sent THEN AckStored(t) ELSE t
            /\ net' = IF sent THEN net \cup {Plain("ACK")} ELSE net
    /\ keys' = KeysAfterFinal
    /\ hist' = TellFinal(hist)
    /\ UNCHANGED env

(***************************************************************************)
(* Otherwise it is terminated at once and deleted, but only after the ACK    *)
(* went out: OnRecvMessage returns before DeleteTxn when SendToNetwork fails. *)
(***************************************************************************)
RecvFailureTcp ==
    /\ AwaitsFinal /\ txn.proto # "UDP"
    /\ keys' = KeysAfterFinal
    /\ LET t == [AtFinal EXCEPT !.st = "TERMINATED"]
       IN \/ /\ txn' = Removed(AckStored(t))
             /\ net' = net \cup {Plain("ACK")}
             /\ hist' = TellEnd(TellFinal(hist))
          \/ /\ "send" \in Faults
             /\ txn' = t
             /\ hist' = TellFinal(hist)
             /\ UNCHANGED net
    /\ UNCHANGED env

\* A retransmitted failure response: the stored message is sent again.
RecvFailureAgain ==
    /\ txn.pool /\ txn.st = "COMPLETED"
    /\ \E sent \in Outcome("send") : Resend(txn, sent)
    /\ UNCHANGED <<env, txn, keys, hist>>

-----------------------------------------------------------------------------
(***************************************************************************)
(* OnRecvTanspError: a transport error for the stored message, reported       *)
(* through the stack's interface (nothing in the engine calls it).  Sent over *)
(* TCP it is repeated over UDP, and the stored protocol changes with it;     *)
(* else, or when that send fails, the transaction is over.                  *)
(***************************************************************************)
FallBackToUdp ==
    /\ "error" \in Faults /\ txn.pool /\ txn.proto = "TCP"
    /\ txn' = [txn EXCEPT !.proto = "UDP"]
    /\ net' = net \cup {txn.sent}
    /\ UNCHANGED <<env, keys, hist>>

TransportError ==
    /\ "error" \in Faults /\ txn.pool /\ txn.st # "TERMINATED"
    /\ \/ txn.proto = "UDP"
       \/ txn.proto = "TCP" /\ "send" \in Faults
    /\ LET t == IF txn.st = "PROCEEDING" THEN txn ELSE Stop(txn)
       IN txn' = Removed([t EXCEPT !.st = "TERMINATED", !.proto = "UDP"])
    /\ hist' = TellEnd(hist)
    /\ UNCHANGED <<env, keys, net>>

\* TerminateTxn, on behalf of the transaction user.
Abort ==
    /\ "abort" \in Faults /\ txn.pool
    /\ txn' = Stop(Removed(txn))
    /\ hist' = TellEnd(hist)
    /\ UNCHANGED <<env, keys, net>>

-----------------------------------------------------------------------------
Receive(m) ==
    \/ m \in Provisional /\ Recv1xxCalling(m)
    \/ m \in Provisional /\ Recv1xxProceeding(m)
    \/ m \in Success /\ Recv2xx
    \/ m \in Failure /\ RecvFailureUnhandled
    \/ m \in Failure /\ RecvFailureAckLost
    \/ m \in Failure /\ RecvFailureUdp
    \/ m \in Failure /\ RecvFailureTcp
    \/ m \in Failure /\ RecvFailureAgain

TimerFires == TimerAFires \/ TimerBFires \/ TimerDFires

Local == SendInvite \/ TimerFires \/ FallBackToUdp \/ TransportError \/ Abort

Next ==
    \/ Local
    \/ \E m \in Provisional \cup Success \cup Failure : Receive(m)

-----------------------------------------------------------------------------
(***************************************************************************)
(* Timers that are armed do fire: the platform's timer queue calls back.    *)
(* Nothing else is promised: the peer may never answer.                     *)
(***************************************************************************)
Spec == Init /\ [][Next]_vars /\ WF_vars(TimerFires)

-----------------------------------------------------------------------------
(***************************************************************************)
(* Properties.                                                             *)
(***************************************************************************)

\* Type invariant: the fields of SipTxn and of the history keep their types.
TypeOK ==
    /\ env \in Envs
    /\ txn \in TxnType
    /\ keys \in Seq(Key)
    /\ net \subseteq Message
    /\ hist \in HistType

\* The protocol changed after the INVITE was sent (OnRecvTanspError).
FellBack == ~Udp /\ txn.proto = "UDP"

\* The user hears of a timeout exactly when timer B is due: the doubling
\* intervals of timer A, cut by the last one, add up to the limit
\* (InvCliFsm_CallingStTimerA_B_TimeoutEvt).  After a fall-back to UDP a whole
\* chain of timer A follows timer B.
GiveUpAtLimit ==
    hist.expired > 0 =>
        hist.clock = IF FellBack THEN 2 * TLimit - T1 ELSE TLimit

\* The end of a transaction is announced once, when it leaves the pool: that is when
\* the user lets go of its context (TxnTerminated, TxnTimeout), so a second notice
\* would release it again and a missing one would keep it.
EndNotifiedOnce == hist.ended = IF txn.st # "IDLE" /\ ~txn.pool THEN 1 ELSE 0

\* Reliable provisionals reach the user in RSeq order, without gap or
\* repetition, for each fork by itself (InvCliFsm_ProceedingStRecv1xxRespEvt), when
\* the key list starts empty and every failure response can be handled: an unhandled
\* one empties the list while the transaction goes on.
ReliableInOrder == env.left = << >> /\ Faults \cap {"ack", "timer"} = {} => ~hist.disorder

\* After a final response no provisional response is passed up any more.
NoProvisionalAfterFinal == [][hist.finals > 0 => UNCHANGED <<hist.upto, hist.disorder>>]_vars

\* In COMPLETED the stored message is the ACK, which answers a repeated failure
\* response.
CompletedKeepsAck == txn.st = "COMPLETED" /\ txn.pool => txn.sent = Plain("ACK")

\* A call that nobody answers does not stay in CALLING, and the lingering in
\* COMPLETED ends, when timers can be started and ACKs built.
WaitingEnds ==
    \A st \in {"CALLING", "COMPLETED"} :
        txn.pool /\ txn.st = st /\ Faults \cap {"ack", "timer"} = {}
            ~> ~(txn.pool /\ txn.st = st)

-----------------------------------------------------------------------------
\* The promise of ClientTxn; a transaction left in TERMINATED was answered.
Phase ==
    CASE txn.st = "IDLE" -> "idle"
      [] txn.st # "IDLE" /\ ~txn.pool -> "over"
      [] txn.pool /\ hist.finals > 0 -> "answered"
      [] OTHER -> "waiting"

Abstract == INSTANCE ClientTxn WITH
    phase <- Phase, answers <- hist.finals, timeouts <- hist.expired

\* It keeps the promise of a client transaction: one outcome, heard while it
\* waits, and an end that is final.
KeepsPromise == Abstract!Spec
=============================================================================
