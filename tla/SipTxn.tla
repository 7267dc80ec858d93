------------------------------ MODULE SipTxn -------------------------------
(***************************************************************************)
(* What the four SIP transaction state machines of protocol/sip/txn share: *)
(* the transaction object (class SipTxn), its one timer, the message it     *)
(* keeps for retransmission, and the list of reliable-provisional keys      *)
(* (s_txnKeyList of SipTxnUtil.cpp).                                        *)
(*                                                                         *)
(* The stack runs on one thread: every public entry (SendMsg,               *)
(* OnRecvMessage, TerminateTxn, a timer callback) runs to its end before    *)
(* the next one starts, so each of them is one action of the modules that   *)
(* extend this one.                                                         *)
(*                                                                         *)
(* Here and in those modules a definition marked "wrong:" is no part of the   *)
(* specification: it is the definition below it with a plausible mistake, put *)
(* in its place to confirm that a property notices.                         *)
(***************************************************************************)
EXTENDS Integers, Sequences, FiniteSets

CONSTANTS
    T1,       \* timer T1: first retransmission interval
    T2,       \* timer T2: largest interval of timers E and G
    TLimit,   \* timers B, F and H: how long a transaction may wait
    TWait,    \* timers D, I, J and K: how long a finished one lingers
    Envs,     \* the environments a transaction may find itself in
    Tags,     \* To tags a peer (or its forks) may answer with
    MaxRSeq   \* bound on RSeq numbers

(***************************************************************************)
(* What may go wrong.  "timer": StartTimer fails; "ack": no ACK can be built; *)
(* "encode": a message the stack makes itself cannot be encoded; "transp":    *)
(* OnSendTransp fails; "send": SendToNetwork fails; "error": the transport     *)
(* reports an error later (OnRecvTanspError); "abort": the user terminates.  *)
(***************************************************************************)
FaultKinds == {"timer", "ack", "encode", "transp", "send", "error", "abort"}

ASSUME T1Assumption == T1 \in Nat \ {0}
ASSUME T2Assumption == T2 \in Nat \ {0}
ASSUME TLimitAssumption == TLimit \in Nat /\ T1 < TLimit
ASSUME TWaitAssumption == TWait \in Nat \ {0}
ASSUME MaxRSeqAssumption == MaxRSeq \in Nat

VARIABLES
    env,    \* the environment, chosen once
    txn,    \* the transaction object
    keys,   \* s_txnKeyList: the entries of this Call-ID and From tag
    net     \* every message handed to the network so far

(***************************************************************************)
(* Messages.  rseq = 0 stands for "no RSeq header", as m_nRSeqNum does; a   *)
(* message in net may arrive any number of times, late, or never.          *)
(***************************************************************************)
Msg(type, tag, rseq) == [type |-> type, tag |-> tag, rseq |-> rseq]
NoTag == "no_tag"
Plain(type) == Msg(type, NoTag, 0)
NoMsg == Plain("none")

MsgTypes == {"none", "INVITE", "ACK", "REQ", "PRACK", "100", "1xx", "2xx", "fail", "final"}
Message == [type : MsgTypes, tag : Tags \cup {NoTag}, rseq : 0..MaxRSeq]

Key == [tag : Tags \cup {NoTag}, rseq : 0..MaxRSeq]

(***************************************************************************)
(* An environment: whether the transport chosen for the first message is UDP, *)
(* which calls may fail, and the keys an earlier INVITE of the dialog left.  *)
(***************************************************************************)
Environment == [udp : BOOLEAN, faults : SUBSET FaultKinds, left : Seq(Key)]
ASSUME EnvsAssumption == Envs \subseteq Environment

Udp == env.udp
Faults == env.faults

NoTimer == [type |-> "none", dur |-> 0]
TimerTypes == {"none", "A", "B", "D", "E", "F", "G", "H", "I", "J", "K"}
Timer == [type : TimerTypes, dur : Nat]
Protocols == {"NONE", "UDP", "TCP"}

(***************************************************************************)
(* The object as its constructor leaves it.  pool: it is in the user's       *)
(* transaction table; expired, retx, cur: m_nDurationExpired, m_nReTxCount,  *)
(* m_nCurrentDuration; sent, proto: the message of m_pTranspInfo and its      *)
(* protocol ("NONE" when the pointer is null); ctx: the user's context is    *)
(* still attached to m_pUserData.                                           *)
(***************************************************************************)
NewTxn == [st |-> "IDLE", pool |-> FALSE, timer |-> NoTimer, expired |-> 0,
           retx |-> 0, cur |-> 0, sent |-> NoMsg, proto |-> "NONE", ctx |-> TRUE]

-----------------------------------------------------------------------------
\* Operations on the transaction object.

FirstProto == IF Udp THEN "UDP" ELSE "TCP"

\* A platform call of kind f fails only where Faults allows it.
Outcome(f) == {TRUE} \cup {f \notin Faults}

\* StartTxnTimer with a positive duration, when the platform starts the timer.
Start(t, type, dur) == [t EXCEPT !.timer = [type |-> type, dur |-> dur], !.cur = dur]

\* StopTxnTimer, AbortTxn, and the SetTimerId(NULL) of an expiry.
Stop(t) == [t EXCEPT !.timer = NoTimer]

\* UpdateTxnDetails: the message sent last replaces the stored one.
StoredOnce(t, m, proto) ==  \* wrong: only when nothing is stored yet
    IF t.proto = "NONE" THEN [t EXCEPT !.sent = m, !.proto = proto] ELSE t
Stored(t, m, proto) == [t EXCEPT !.sent = m, !.proto = proto]

\* The object leaves the pool: RemoveFromTxnPool, DeleteTxn.
RemovedNot(t) == t  \* wrong: it stays
Removed(t) == [t EXCEPT !.pool = FALSE]

\* The next interval, cut so that the total never passes the limit.
Capped(expired, dur) == IF expired + dur >= TLimit THEN TLimit - expired ELSE dur

\* The stored message goes out again; nothing is stored or the send fails: nothing does.
Resend(t, ok) == net' = IF ok /\ t.proto # "NONE" THEN net \cup {t.sent} ELSE net

-----------------------------------------------------------------------------
\* The reliable-provisional key list; the first match counts.

TagMatch(k, tag) == k.tag = NoTag \/ tag = NoTag \/ k.tag = tag

DialogHits(ks, tag) == {i \in DOMAIN ks : TagMatch(ks[i], tag)}
AnyHits(ks, tag, rseq) == DialogHits(ks, tag)  \* wrong: RSeq is not compared
ExactHits(ks, tag, rseq) ==
    {i \in DialogHits(ks, tag) : rseq = 0 \/ ks[i].rseq \in {0, rseq}}
First(S) == CHOOSE i \in S : \A j \in S : i <= j

AddTxnKey(ks, tag, rseq) == Append(ks, [tag |-> tag, rseq |-> rseq])
SetNextRSeq(ks, i, rseq) ==  \* wrong: the number expected next is kept
    [ks EXCEPT ![i] = [tag |-> ks[i].tag, rseq |-> rseq + 1]]
SetRSeq(ks, i, rseq) == [ks EXCEPT ![i] = [tag |-> ks[i].tag, rseq |-> rseq]]
=============================================================================
