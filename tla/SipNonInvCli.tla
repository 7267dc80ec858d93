---------------------------- MODULE SipNonInvCli ----------------------------
(***************************************************************************)
(* The client transaction of every other request: SipTxnNonInvCliFsm.cpp     *)
(* with what SipTxnHandler, SipStackManager and CbkTxnTimeout do around each  *)
(* event.                                                                  *)
(*                                                                         *)
(* Unlike the INVITE transaction it keeps a timer in every state and repeats  *)
(* its request in PROCEEDING too.  Stuttering steps: responses without        *)
(* transaction (STRAY_RESP), responses in COMPLETED (IGNORE_RESP), further    *)
(* provisionals.                                                           *)
(***************************************************************************)
EXTENDS SipTxn

VARIABLE hist       \* what the transaction user has been told, and the time

vars == <<env, txn, keys, net, hist>>

States == {"IDLE", "TRYING", "PROCEEDING", "COMPLETED", "TERMINATED"}

(***************************************************************************)
(* finals, expired, ended: final responses, timeouts and ends announced;     *)
(* copies: how often the request went out; clock: total duration of the       *)
(* timers E and F that have fired.                                          *)
(***************************************************************************)
NewHist == [finals |-> 0, expired |-> 0, ended |-> 0, copies |-> 0, clock |-> 0]

TxnType == [st : States, pool : BOOLEAN, timer : Timer, expired : Nat, retx : Nat,
            cur : Nat, sent : Message, proto : Protocols, ctx : BOOLEAN]
HistType == [finals : Nat, expired : Nat, ended : Nat, copies : Nat, clock : Nat]

Init ==
    /\ env \in Envs
    /\ txn = NewTxn
    /\ keys = env.left
    /\ net = {}
    /\ hist = NewHist

TellFinal(h) == [h EXCEPT !.finals = @ + 1]
TellEnd(h) == [h EXCEPT !.ended = @ + 1]
TellExpiry(h) == [h EXCEPT !.expired = @ + (IF txn.ctx THEN 1 ELSE 0), !.ended = @ + 1]
Tick(h) == [h EXCEPT !.clock = @ + txn.timer.dur]
SentAgain(h, ok) == [h EXCEPT !.copies = @ + (IF ok /\ txn.proto # "NONE" THEN 1 ELSE 0)]

Pooled(st) == txn.pool /\ txn.st = st
Waits == Pooled("TRYING") \/ Pooled("PROCEEDING")

-----------------------------------------------------------------------------
(***************************************************************************)
(* SendMsg of a request; a CANCEL drops the keys of the dialog first.  A      *)
(* StartTimer failure leaves no transaction; the other outcomes are those of  *)
(* the INVITE.                                                              *)
(***************************************************************************)
FirstTimer(t) == IF Udp THEN Start(t, "E", T1) ELSE Start(t, "F", TLimit)

SendRequest(cancel) ==
    LET t == FirstTimer([txn EXCEPT !.st = "TRYING", !.pool = TRUE])
    IN
    /\ txn.st = "IDLE"
    /\ keys' = IF cancel THEN << >> ELSE keys
    /\ \/ /\ "transp" \in Faults
          /\ txn' = Stop(Removed(t))
          /\ hist' = TellEnd(hist)
          /\ UNCHANGED net
       \/ /\ "send" \in Faults
          /\ txn' = [t EXCEPT !.ctx = FALSE]
          /\ UNCHANGED <<net, hist>>
       \/ /\ txn' = Stored(t, Plain("REQ"), FirstProto)
          /\ net' = net \cup {Plain("REQ")}
          /\ hist' = [hist EXCEPT !.copies = 1]
    /\ UNCHANGED env

(***************************************************************************)
(* Timer E or F fires: the interval doubles up to T2 in TRYING and is T2 in   *)
(* PROCEEDING, and the last one is cut to end at the limit.                 *)
(***************************************************************************)
ExpiredAt(t) == IF t.expired = 0 THEN T1 ELSE t.expired
GivesUpOnTcp(t) == t.proto # "UDP"  \* wrong: no limit
GivesUp(t) == t.proto # "UDP" \/ ExpiredAt(t) >= TLimit
Uncut(t) == IF 2 * t.cur > T2 THEN T2 ELSE 2 * t.cur  \* wrong: no cut at the limit
FromT1(t) ==  \* wrong: timer E starts over in PROCEEDING
    Capped(ExpiredAt(t), IF t.st = "PROCEEDING" THEN T1 ELSE 2 * t.cur)
NextInterval(t) ==
    Capped(ExpiredAt(t),
           IF t.st = "PROCEEDING" \/ 2 * t.cur > T2 THEN T2 ELSE 2 * t.cur)

TimerEFRepeats ==
    /\ Waits /\ txn.timer.type \in {"E", "F"}
    /\ ~GivesUp(txn)
    /\ LET dur == NextInterval(txn)
           t == [Stop(txn) EXCEPT !.expired = ExpiredAt(txn)]
       IN \E started \in Outcome("timer"), sent \in Outcome("send") :
            /\ dur > 0
            /\ txn' = IF started
                      THEN [Start(t, "E", dur) EXCEPT !.retx = @ + 1, !.expired = @ + dur]
                      ELSE t
            /\ Resend(txn, started /\ sent)
            /\ hist' = SentAgain(Tick(hist), started /\ sent)
    /\ UNCHANGED <<env, keys>>

TimerEFGivesUp ==
    /\ Waits /\ txn.timer.type \in {"E", "F"}
    /\ GivesUp(txn)
    /\ txn' = Removed([Stop(txn) EXCEPT !.st = "TERMINATED", !.expired = ExpiredAt(txn)])
    /\ hist' = TellExpiry(Tick(hist))
    /\ UNCHANGED <<env, keys, net>>

TimerKFires ==
    /\ Pooled("COMPLETED") /\ txn.timer.type = "K"
    /\ txn' = Removed([Stop(txn) EXCEPT !.st = "TERMINATED"])
    /\ hist' = TellEnd(hist)
    /\ UNCHANGED <<env, keys, net>>

-----------------------------------------------------------------------------
\* The first provisional: the timer goes on.
Recv1xx ==
    /\ Pooled("TRYING")
    /\ txn' = [txn EXCEPT !.st = "PROCEEDING"]
    /\ UNCHANGED <<env, keys, net, hist>>

WaitsOrAbsorbs == Waits \/ Pooled("COMPLETED")  \* wrong: one state too many
AwaitsFinal == Waits

LingerConfirmed(t) == Start([Stop(t) EXCEPT !.st = "CONFIRMED"], "K", TWait)  \* wrong: not its state
Linger(t) == Start([Stop(t) EXCEPT !.st = "COMPLETED"], "K", TWait)

\* Sent over UDP, it lingers with timer K to absorb copies of the response.
RecvFinalUdp ==
    /\ AwaitsFinal /\ txn.proto = "UDP"
    /\ txn' = Linger(txn)
    /\ hist' = TellFinal(hist)
    /\ UNCHANGED <<env, keys, net>>

\* Timer K fails after timer E was stopped: the response is lost, the state stays.
RecvFinalUntimed ==
    /\ AwaitsFinal /\ txn.proto = "UDP" /\ "timer" \in Faults
    /\ txn' = Stop(txn)
    /\ UNCHANGED <<env, keys, net, hist>>

RecvFinalTcp ==
    /\ AwaitsFinal /\ txn.proto # "UDP"
    /\ txn' = Removed([Stop(txn) EXCEPT !.st = "TERMINATED"])
    /\ hist' = TellEnd(TellFinal(hist))
    /\ UNCHANGED <<env, keys, net>>

-----------------------------------------------------------------------------
\* As for the INVITE; every state stops its timer.
FallBackToUdp ==
    /\ "error" \in Faults /\ txn.pool /\ txn.proto = "TCP"
    /\ txn' = [txn EXCEPT !.proto = "UDP"]
    /\ net' = net \cup {txn.sent}
    /\ hist' = SentAgain(hist, TRUE)
    /\ UNCHANGED <<env, keys>>

TransportError ==
    /\ "error" \in Faults /\ txn.pool
    /\ \/ txn.proto = "UDP"
       \/ txn.proto = "TCP" /\ "send" \in Faults
    /\ txn' = Removed([Stop(txn) EXCEPT !.st = "TERMINATED", !.proto = "UDP"])
    /\ hist' = TellEnd(hist)
    /\ UNCHANGED <<env, keys, net>>

Abort ==
    /\ "abort" \in Faults /\ txn.pool
    /\ txn' = Stop(Removed(txn))
    /\ hist' = TellEnd(hist)
    /\ UNCHANGED <<env, keys, net>>

-----------------------------------------------------------------------------
Receive ==
    /\ Plain("REQ") \in net
    /\ Recv1xx \/ RecvFinalUdp \/ RecvFinalUntimed \/ RecvFinalTcp

TimerFires == TimerEFRepeats \/ TimerEFGivesUp \/ TimerKFires

Next ==
    \/ \E cancel \in BOOLEAN : SendRequest(cancel)
    \/ TimerFires
    \/ Receive
    \/ FallBackToUdp \/ TransportError \/ Abort

\* Armed timers fire; the peer promises nothing.
Spec == Init /\ [][Next]_vars /\ WF_vars(TimerFires)

-----------------------------------------------------------------------------
(***************************************************************************)
(* Properties.                                                             *)
(***************************************************************************)

\* Type invariant: the fields of SipTxn and of the history keep their types.
TypeOK ==
    /\ env \in Envs
    /\ txn \in TxnType
    /\ keys \in Seq(Key)
    /\ net \subseteq Message
    /\ hist \in HistType

\* The protocol changed after the request was sent (OnRecvTanspError).
FellBack == ~Udp /\ txn.proto = "UDP"

\* The user hears of a timeout exactly when timer F is due, however the intervals of
\* timer E were mixed by a provisional response (NonInvClient_TimeoutHandling).
\* After a fall-back to UDP a whole chain of timer E follows timer F.
GiveUpAtLimit ==
    hist.expired > 0 =>
        hist.clock = IF FellBack THEN 2 * TLimit - T1 ELSE TLimit

\* A request that no provisional answers: at, when timer E fires for the (n + 1)-th
\* time, and next, the interval that follows, doubled until T2.
Unanswered[n \in Nat] ==
    IF n = 0 THEN [at |-> T1, next |-> IF 2 * T1 > T2 THEN T2 ELSE 2 * T1]
    ELSE LET c == Unanswered[n - 1]
         IN  [at |-> c.at + c.next, next |-> IF 2 * c.next > T2 THEN T2 ELSE 2 * c.next]

\* No more copies of the request go out than if no provisional had come: as many
\* firings of timer E as there have been copies after the first come before the limit
\* there.  A provisional can only make them fewer (NonInvClient_TimeoutHandling).
RetransmissionBudget ==
    ~FellBack /\ hist.copies > 1 => Unanswered[hist.copies - 2].at < TLimit

\* The end of a transaction is announced once, when it leaves the pool.
EndNotifiedOnce == hist.ended = IF txn.st # "IDLE" /\ ~txn.pool THEN 1 ELSE 0

\* Whatever the peer does, the transaction ends, when timers can be started.
TransactionEnds == txn.pool /\ "timer" \notin Faults ~> ~txn.pool

-----------------------------------------------------------------------------
\* The promise of ClientTxn.
Phase ==
    CASE txn.st = "IDLE" -> "idle"
      [] txn.st # "IDLE" /\ ~txn.pool -> "over"
      [] txn.pool /\ hist.finals > 0 -> "answered"
      [] OTHER -> "waiting"

Abstract == INSTANCE ClientTxn WITH
    phase <- Phase, answers <- hist.finals, timeouts <- hist.expired

\* It keeps the promise of a client transaction: one outcome, heard while it
\* waits, and an end that is final.
KeepsPromise == Abstract!Spec
=============================================================================
