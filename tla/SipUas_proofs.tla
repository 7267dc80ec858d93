---------------------------- MODULE SipUas_proofs -----------------------------
(***************************************************************************)
(* An INVITE and its PRACKs together: the repetition of a reliable provisional  *)
(* stops exactly when the user has been given its PRACK, for every timer value, *)
(* any number of reliable provisionals and of PRACK transactions.              *)
(*                                                                         *)
(* Each transaction brings the invariant of its own module (I and P are the     *)
(* two modules again, with their theorems).  What ties them together is that no  *)
(* RSeq is used twice (Fresh), so that a late PRACK cannot be taken for that of   *)
(* a provisional sent after it, and that for the provisional being repeated the   *)
(* user of the PRACK and the timer of the INVITE agree (Bond).                 *)
(***************************************************************************)
EXTENDS SipUas, TLAPS

I == INSTANCE SipInvSer_proofs WITH MaxTxns <- InvTxns
P == INSTANCE SipNonInvSer_proofs WITH
    txn <- ptxn, hist <- phist, MaxTxns <- PrackTxns

USE T1Assumption, T2Assumption, TLimitAssumption, TWaitAssumption, EnvsAssumption,
    MaxRSeqAssumption, InvTxnsAssumption, PrackTxnsAssumption

\* A copy of the INVITE that makes a second transaction starts the RSeqs anew.
OneInvite == hist.born <= 1

\* Timers can be started, and what is handed to the transport is sent.
Steadily == Faults \cap {"timer", "send"} = {}

Below(S) == \A r \in S : r < hist.next

Fresh ==
    /\ \A m \in net : m.rseq < hist.next
    /\ Below(phist.accepted) /\ Below(hist.pracked)
    /\ txn.sent.rseq < hist.next
    /\ hist.born = 0 => hist.next = 1

Bond ==
    Steadily /\ I!Pooled("PROCEEDING") /\ txn.sent.rseq # 0 =>
        (txn.sent.rseq \in phist.accepted <=> txn.sent.rseq \in hist.pracked)

IInv == I!IInv /\ P!IInv /\ P!NoRSeq /\ (OneInvite => Fresh /\ Bond)

-----------------------------------------------------------------------------
(***************************************************************************)
(* The environments satisfy the assumption of both modules, and their actions   *)
(* are those that SipUas composes.                                          *)
(***************************************************************************)
LEMMA EnvsOfInvite == Envs \subseteq I!Environment
BY DEF Environment, I!Environment, FaultKinds, I!FaultKinds, Key, I!Key, NoTag, I!NoTag

LEMMA EnvsOfPrack == Envs \subseteq P!Environment
BY DEF Environment, P!Environment, FaultKinds, P!FaultKinds, Key, P!Key, NoTag, P!NoTag

LEMMA InviteIsInvite == Inv!Other => I!Other
<1>. SUFFICES ASSUME Inv!Other PROVE I!Other
  OBVIOUS
<1>1. ASSUME NEW type \in {"100", "1xx"}, Inv!SendProvisional(type) PROVE I!Other
  <2>1. I!SendProvisional(type)
    BY <1>1 DEF Inv!SendProvisional, I!SendProvisional, Inv!Pooled, I!Pooled, Inv!HandOver,
           I!HandOver, Inv!Restarted, I!Restarted, Inv!Stop, I!Stop, Inv!NoTimer, I!NoTimer,
           Inv!Rewound, I!Rewound, Inv!Faults, I!Faults, Inv!Removed, I!Removed, Inv!TellEnd,
           I!TellEnd, Inv!Stored, I!Stored, Inv!FirstProto, I!FirstProto, Inv!Udp, I!Udp,
           Inv!Numbered, I!Numbered, Inv!Plain, I!Plain, Inv!Msg, I!Msg, Inv!NoTag, I!NoTag
  <2>. QED  BY <2>1 DEF I!Other, I!Respond
<1>2. CASE Inv!SendReliable
  <2>1. I!SendReliable
    BY <1>2 DEF Inv!SendReliable, I!SendReliable, Inv!Msg, I!Msg, Inv!NoTag, I!NoTag,
           Inv!Rewound, I!Rewound, Inv!Pooled, I!Pooled, Inv!OnlyKey, I!OnlyKey,
           Inv!AddTxnKey, I!AddTxnKey, Inv!Refused, I!Refused, Inv!Faults, I!Faults,
           Inv!Restarted, I!Restarted, Inv!Stop, I!Stop, Inv!NoTimer, I!NoTimer, Inv!HandOver,
           I!HandOver, Inv!Start, I!Start, Inv!Removed, I!Removed, Inv!TellEnd, I!TellEnd,
           Inv!Stored, I!Stored, Inv!FirstProto, I!FirstProto, Inv!Udp, I!Udp, Inv!Numbered,
           I!Numbered
  <2>. QED  BY <2>1 DEF I!Other, I!Respond
<1>3. CASE Inv!SendFailure
  <2>1. I!SendFailure
    BY <1>3 DEF Inv!SendFailure, I!SendFailure, Inv!Pooled, I!Pooled, Inv!Refused,
           I!Refused, Inv!Faults, I!Faults, Inv!Restarted, I!Restarted, Inv!Stop, I!Stop,
           Inv!NoTimer, I!NoTimer, Inv!Rewound, I!Rewound, Inv!HandOver, I!HandOver, Inv!Udp,
           I!Udp, Inv!Repeating, I!Repeating, Inv!Waiting, I!Waiting, Inv!Start, I!Start,
           Inv!Plain, I!Plain, Inv!Msg, I!Msg, Inv!NoTag, I!NoTag, Inv!Removed, I!Removed,
           Inv!TellEnd, I!TellEnd, Inv!Stored, I!Stored, Inv!FirstProto, I!FirstProto,
           Inv!Numbered, I!Numbered
  <2>. QED  BY <2>1 DEF I!Other, I!Respond
<1>4. CASE Inv!Send2xx
  <2>1. I!Send2xx
    BY <1>4 DEF Inv!Send2xx, I!Send2xx, Inv!Pooled, I!Pooled, Inv!Waiting,
           I!Waiting, Inv!Start, I!Start, Inv!Restarted,
           I!Restarted, Inv!Stop, I!Stop, Inv!NoTimer, I!NoTimer, Inv!Plain, I!Plain, Inv!Msg,
           I!Msg, Inv!NoTag, I!NoTag, Inv!Rewound, I!Rewound, Inv!HandOver, I!HandOver,
           Inv!Faults, I!Faults, Inv!Removed, I!Removed, Inv!TellEnd, I!TellEnd, Inv!Stored,
           I!Stored, Inv!FirstProto, I!FirstProto, Inv!Udp, I!Udp, Inv!Numbered, I!Numbered
  <2>. QED  BY <2>1 DEF I!Other, I!Respond
<1>5. CASE Inv!Send2xxUntimed
  <2>1. I!Send2xxUntimed
    BY <1>5 DEF Inv!Send2xxUntimed, I!Send2xxUntimed, Inv!Restarted, I!Restarted, Inv!Stop,
           I!Stop, Inv!NoTimer, I!NoTimer, Inv!Pooled, I!Pooled, Inv!Faults, I!Faults,
           Inv!Removed, I!Removed, Inv!TellEnd, I!TellEnd, Inv!Rewound, I!Rewound, Inv!Plain,
           I!Plain, Inv!Msg, I!Msg, Inv!NoTag, I!NoTag
  <2>. QED  BY <2>1 DEF I!Other, I!Respond
<1>6. CASE Inv!RecvInvite
  <2>1. I!RecvInvite
    BY <1>6 DEF Inv!RecvInvite, I!RecvInvite, Inv!NewTxn, I!NewTxn, Inv!NoTimer, I!NoTimer,
           Inv!NoMsg, I!NoMsg, Inv!Plain, I!Plain, Inv!Msg, I!Msg, Inv!NoTag, I!NoTag,
           Inv!TellNew, I!TellNew, Inv!NewHist, I!NewHist
  <2>. QED  BY <2>1 DEF I!Other, I!Receive
<1>7. CASE Inv!RecvInviteAgain
  <2>1. I!RecvInviteAgain
    BY <1>7 DEF Inv!RecvInviteAgain, I!RecvInviteAgain, Inv!Pooled, I!Pooled, Inv!Outcome,
           I!Outcome, Inv!Faults, I!Faults, Inv!Resend, I!Resend
  <2>. QED  BY <2>1 DEF I!Other, I!Receive
<1>8. CASE Inv!RecvAckUdp
  <2>1. I!RecvAckUdp
    BY <1>8 DEF Inv!RecvAckUdp, I!RecvAckUdp, Inv!Pooled, I!Pooled, Inv!AckMatches,
           I!AckMatches, Inv!Plain, I!Plain, Inv!Msg, I!Msg, Inv!NoTag, I!NoTag, Inv!Start,
           I!Start, Inv!Stop, I!Stop, Inv!NoTimer, I!NoTimer, Inv!Faults, I!Faults
  <2>. QED  BY <2>1 DEF I!Other, I!Receive
<1>9. CASE Inv!RecvAckTcp
  <2>1. I!RecvAckTcp
    BY <1>9 DEF Inv!RecvAckTcp, I!RecvAckTcp, Inv!Pooled, I!Pooled, Inv!AckMatches,
           I!AckMatches, Inv!Plain, I!Plain, Inv!Msg, I!Msg, Inv!NoTag, I!NoTag, Inv!Stop,
           I!Stop, Inv!NoTimer, I!NoTimer
  <2>. QED  BY <2>1 DEF I!Other, I!Receive
<1>10. CASE Inv!TimerGHRepeats
  <2>1. I!TimerGHRepeats
    BY <1>10 DEF Inv!TimerGHRepeats, I!TimerGHRepeats, Inv!TimerGHDue, I!TimerGHDue,
           Inv!Pooled, I!Pooled, Inv!GivesUp, I!GivesUp, Inv!ExpiredAt, I!ExpiredAt,
           Inv!Doubled, I!Doubled, Inv!Capped, I!Capped, Inv!Stop, I!Stop, Inv!NoTimer,
           I!NoTimer, Inv!Outcome, I!Outcome, Inv!Faults, I!Faults, Inv!Start, I!Start,
           Inv!Resend, I!Resend, Inv!Tick, I!Tick
  <2>. QED  BY <2>1 DEF I!Other, I!TimerFires
<1>11. CASE Inv!TimerGHGivesUp
  <2>1. I!TimerGHGivesUp
    BY <1>11 DEF Inv!TimerGHGivesUp, I!TimerGHGivesUp, Inv!TimerGHDue, I!TimerGHDue,
           Inv!Pooled, I!Pooled, Inv!GivesUp, I!GivesUp, Inv!ExpiredAt, I!ExpiredAt, Inv!Stop,
           I!Stop, Inv!NoTimer, I!NoTimer, Inv!Removed, I!Removed, Inv!TellExpiry,
           I!TellExpiry, Inv!Tick, I!Tick
  <2>. QED  BY <2>1 DEF I!Other, I!TimerFires
<1>12. CASE Inv!TimerIFires
  <2>1. I!TimerIFires
    BY <1>12 DEF Inv!TimerIFires, I!TimerIFires, Inv!Pooled, I!Pooled, Inv!Stop, I!Stop,
           Inv!NoTimer, I!NoTimer, Inv!Removed, I!Removed, Inv!TellEnd, I!TellEnd
  <2>. QED  BY <2>1 DEF I!Other, I!TimerFires
<1>13. CASE Inv!FallBackToUdp
  <2>1. I!FallBackToUdp
    BY <1>13 DEF Inv!FallBackToUdp, I!FallBackToUdp, Inv!Faults, I!Faults
  <2>. QED  BY <2>1 DEF I!Other
<1>14. CASE Inv!TransportError
  <2>1. I!TransportError
    BY <1>14 DEF Inv!TransportError, I!TransportError, Inv!Faults, I!Faults, Inv!Pooled,
           I!Pooled, Inv!Stop, I!Stop, Inv!NoTimer, I!NoTimer, Inv!Removed, I!Removed,
           Inv!TellEnd, I!TellEnd
  <2>. QED  BY <2>1 DEF I!Other
<1>15. CASE Inv!Abort
  <2>1. I!Abort
    BY <1>15 DEF Inv!Abort, I!Abort, Inv!Faults, I!Faults, Inv!Stop, I!Stop, Inv!NoTimer,
           I!NoTimer, Inv!Removed, I!Removed, Inv!TellEnd, I!TellEnd
  <2>. QED  BY <2>1 DEF I!Other
<1>. QED  BY <1>1, <1>2, <1>3, <1>4, <1>5, <1>6, <1>7, <1>8, <1>9, <1>10, <1>11, <1>12,
         <1>13, <1>14, <1>15
           DEF Inv!Other, Inv!Respond, Inv!Receive, Inv!TimerFires

LEMMA PrackIsPrack == Prack!Other => P!Other
<1>. SUFFICES ASSUME Prack!Other PROVE P!Other
  OBVIOUS
<1>1. CASE Prack!RecvRequestAgain
  <2>1. P!RecvRequestAgain
    BY <1>1 DEF Prack!RecvRequestAgain, P!RecvRequestAgain, Prack!Pooled, P!Pooled,
           Prack!Outcome, P!Outcome, Prack!Faults, P!Faults, Prack!Resend, P!Resend
  <2>. QED  BY <2>1 DEF P!Other
<1>2. CASE Prack!Send1xx
  <2>1. P!Send1xx
    BY <1>2 DEF Prack!Send1xx, P!Send1xx, Prack!Answerable, P!Answerable, Prack!Pooled,
           P!Pooled, Prack!Terminated, P!Terminated, Prack!NotSent, P!NotSent, Prack!Faults,
           P!Faults, Prack!Stop, P!Stop, Prack!NoTimer, P!NoTimer, Prack!Removed, P!Removed,
           Prack!TellEnd, P!TellEnd, Prack!Stored, P!Stored, Prack!Plain, P!Plain, Prack!Msg,
           P!Msg, Prack!NoTag, P!NoTag, Prack!FirstProto, P!FirstProto, Prack!Udp, P!Udp
  <2>. QED  BY <2>1 DEF P!Other, P!Respond
<1>3. CASE Prack!SendFinalUdp
  <2>1. P!SendFinalUdp
    BY <1>3 DEF Prack!SendFinalUdp, P!SendFinalUdp, Prack!Answerable, P!Answerable,
           Prack!Pooled, P!Pooled, Prack!Udp, P!Udp, Prack!Terminated, P!Terminated,
           Prack!NotSent, P!NotSent, Prack!Faults, P!Faults, Prack!Linger, P!Linger,
           Prack!Start, P!Start, Prack!Stop, P!Stop, Prack!NoTimer, P!NoTimer, Prack!Removed,
           P!Removed, Prack!TellEnd, P!TellEnd, Prack!Stored, P!Stored, Prack!Plain, P!Plain,
           Prack!Msg, P!Msg, Prack!NoTag, P!NoTag, Prack!FirstProto, P!FirstProto
  <2>. QED  BY <2>1 DEF P!Other, P!Respond
<1>4. CASE Prack!SendFinalTcp
  <2>1. P!SendFinalTcp
    BY <1>4 DEF Prack!SendFinalTcp, P!SendFinalTcp, Prack!Answerable, P!Answerable,
           Prack!Pooled, P!Pooled, Prack!Udp, P!Udp, Prack!Terminated, P!Terminated,
           Prack!NotSent, P!NotSent, Prack!Faults, P!Faults, Prack!Stop, P!Stop,
           Prack!NoTimer, P!NoTimer, Prack!Removed, P!Removed, Prack!TellEnd, P!TellEnd,
           Prack!Plain, P!Plain, Prack!Msg, P!Msg, Prack!NoTag, P!NoTag
  <2>. QED  BY <2>1 DEF P!Other, P!Respond
<1>5. CASE Prack!TimerJFires
  <2>1. P!TimerJFires
    BY <1>5 DEF Prack!TimerJFires, P!TimerJFires, Prack!Pooled, P!Pooled, Prack!Stop,
           P!Stop, Prack!NoTimer, P!NoTimer, Prack!Removed, P!Removed, Prack!TellEnd,
           P!TellEnd
  <2>. QED  BY <2>1 DEF P!Other
<1>6. CASE Prack!FallBackToUdp
  <2>1. P!FallBackToUdp
    BY <1>6 DEF Prack!FallBackToUdp, P!FallBackToUdp, Prack!Faults, P!Faults
  <2>. QED  BY <2>1 DEF P!Other
<1>7. CASE Prack!TransportError
  <2>1. P!TransportError
    BY <1>7 DEF Prack!TransportError, P!TransportError, Prack!Faults, P!Faults, Prack!Stop,
           P!Stop, Prack!NoTimer, P!NoTimer, Prack!Removed, P!Removed, Prack!TellEnd,
           P!TellEnd
  <2>. QED  BY <2>1 DEF P!Other
<1>8. CASE Prack!Abort
  <2>1. P!Abort
    BY <1>8 DEF Prack!Abort, P!Abort, Prack!Faults, P!Faults, Prack!Stop, P!Stop,
           Prack!NoTimer, P!NoTimer, Prack!Removed, P!Removed, Prack!TellEnd, P!TellEnd
  <2>. QED  BY <2>1 DEF P!Other
<1>. QED  BY <1>1, <1>2, <1>3, <1>4, <1>5, <1>6, <1>7, <1>8
           DEF Prack!Other, Prack!Respond

LEMMA PrackMatchesInvite ==
    ASSUME NEW rseq \in 1..MaxRSeq, txn.pool, Inv!PrackMatches(rseq), Inv!RecvPrack(rseq)
    PROVE  I!RecvPrack(rseq)
BY DEF Inv!RecvPrack, I!RecvPrack, Inv!PrackMatches, I!PrackMatches, Inv!ExactHits, I!ExactHits,
       Inv!DialogHits, I!DialogHits, Inv!TagMatch, I!TagMatch, Inv!Stop, I!Stop, Inv!NoTimer,
       I!NoTimer, Inv!Msg, I!Msg, Inv!NoTag, I!NoTag

LEMMA PrackComes ==
    ASSUME NEW rseq \in 1..MaxRSeq, NEW inPool \in BOOLEAN, Prack!RecvPrack(rseq, inPool)
    PROVE  P!RecvPrack(rseq, inPool)
BY DEF Prack!RecvPrack, P!RecvPrack, Prack!Created, P!Created, Prack!NewTxn, P!NewTxn,
       Prack!NoTimer, P!NoTimer, Prack!NoMsg, P!NoMsg, Prack!Plain, P!Plain, Prack!Msg, P!Msg,
       Prack!NoTag, P!NoTag, Prack!PrackFound, P!PrackFound, Prack!PrackStray, P!PrackStray,
       Prack!PrackUnmatched, P!PrackUnmatched, Prack!ExactHits, P!ExactHits, Prack!DialogHits,
       P!DialogHits, Prack!TagMatch, P!TagMatch, Prack!TellBorn, P!TellBorn,
       Prack!DeleteTxnKey, P!DeleteTxnKey

-----------------------------------------------------------------------------
(***************************************************************************)
(* A step of one transaction and the invariant of the other: they share the     *)
(* environment, the key list and the network.                               *)
(***************************************************************************)
Shared == /\ env' = env /\ keys' \in Seq(Key) /\ net' \subseteq Message

LEMMA SameTypes ==
    /\ Key = I!Key /\ Key = P!Key /\ Message = I!Message /\ Message = P!Message
BY DEF Key, I!Key, P!Key, Message, I!Message, P!Message, MsgTypes, I!MsgTypes, P!MsgTypes,
       NoTag, I!NoTag, P!NoTag

LEMMA InviteRests ==
    ASSUME I!IInv, UNCHANGED <<txn, resp, hist>>, Shared, keys' = keys
    PROVE  I!IInv'
<1>1. I!TypeOK'
  BY SameTypes DEF I!IInv, I!TypeOK, Shared
<1>2. I!ContextsBalance' /\ I!GiveUpAtLimit'
  BY DEF I!IInv, I!ContextsBalance, I!GiveUpAtLimit, I!Reliably, I!Faults, Shared
<1>3. I!Standing' <=> I!Standing
  BY DEF I!Standing, I!Steadily, I!Faults, I!Handled, I!Dated, I!ExpiredAt, I!Keyed, I!Sure, Shared
<1>. QED  BY <1>1, <1>2, <1>3 DEF I!IInv

LEMMA PrackRests ==
    ASSUME P!IInv, UNCHANGED <<ptxn, phist>>, Shared
    PROVE  P!IInv'
<1>1. P!TypeOK'
  BY SameTypes DEF P!IInv, P!TypeOK, Shared
<1>. QED  BY <1>1 DEF P!IInv, P!ContextsBalance, P!FinalIsRepeated

-----------------------------------------------------------------------------
LEMMA Numbers ==
    ASSUME I!IInv
    PROVE  /\ hist.born \in Nat /\ hist.next \in Nat \ {0} /\ hist.pracked \subseteq Nat
           /\ net \subseteq Message /\ txn.sent \in Message
           /\ \A m \in Message : m.rseq \in Nat
<1>1. hist \in I!HistType /\ txn \in I!TxnType /\ net \subseteq Message
  BY SameTypes DEF I!IInv, I!TypeOK
<1>2. hist.born \in Nat /\ hist.next \in 1..(MaxRSeq + 1) /\ hist.pracked \subseteq 1..MaxRSeq
  BY <1>1 DEF I!HistType
<1>3. txn.sent \in Message
  BY <1>1, SameTypes DEF I!TxnType
<1>4. \A m \in Message : m.rseq \in Nat
  BY DEF Message
<1>. QED  BY <1>1, <1>2, <1>3, <1>4

LEMMA Initial == Init => IInv
<1>. SUFFICES ASSUME Init PROVE IInv
  OBVIOUS
<1>1. I!Init /\ P!Init
  BY DEF Init, Inv!Init, I!Init, Prack!Init, P!Init, Inv!NewTxn, I!NewTxn, Inv!NoTimer, I!NoTimer,
         Inv!NoMsg, I!NoMsg, Inv!Plain, I!Plain, Inv!Msg, I!Msg, Inv!NoTag, I!NoTag,
         Inv!NewHist, I!NewHist, Prack!NewTxn, P!NewTxn, Prack!NoTimer, P!NoTimer,
         Prack!NoMsg, P!NoMsg, Prack!Plain, P!Plain, Prack!Msg, P!Msg, Prack!NoTag, P!NoTag,
         Prack!NewHist, P!NewHist
<1>2. I!IInv /\ P!IInv
  BY <1>1, I!Initial, P!Initial, EnvsOfInvite, EnvsOfPrack
<1>3. P!NoRSeq /\ txn.sent.rseq = 0
  BY <1>1 DEF I!Init, P!Init, P!NoRSeq, I!NewTxn, I!NoMsg, I!Plain, I!Msg,
              P!NewTxn, P!NoMsg, P!Plain, P!Msg
<1>4. Fresh /\ Bond
  BY <1>1, <1>3 DEF I!Init, I!NewHist, P!Init, P!NewHist, Fresh, Bond, Below
<1>. QED  BY <1>2, <1>3, <1>4 DEF IInv

LEMMA InviteKeeps == ASSUME IInv, InviteStep PROVE IInv'
<1>1. I!Other /\ UNCHANGED <<ptxn, phist>>
  BY InviteIsInvite DEF InviteStep
<1>2. I!IInv' /\ env' = env
  BY <1>1, I!Inductive, I!EnvKept, EnvsOfInvite DEF IInv, I!Next
<1>3. Shared
  BY <1>2, SameTypes DEF I!IInv, I!TypeOK, Shared
<1>4. P!IInv' /\ P!NoRSeq'
  BY <1>1, <1>3, PrackRests DEF IInv, P!NoRSeq
<1>5. IF I!RecvInvite THEN I!Anew ELSE I!Proceeds
  BY <1>1, I!StepSends, EnvsOfInvite DEF IInv
<1>6. I!Plain("2xx").rseq = 0
  BY DEF I!Plain, I!Msg
<1>7. ASSUME OneInvite' PROVE Fresh' /\ Bond'
  <2>1. CASE I!RecvInvite
    <3>1. hist.born = 0 /\ Fresh /\ hist.next = 1
      BY <1>5, <1>7, <2>1, Numbers DEF IInv, OneInvite, Fresh, I!Anew
    <3>2. hist'.born = 1 /\ hist'.next = 1 /\ hist'.pracked = {} /\ txn'.sent.rseq = 0 /\ net' = net
      BY <1>5, <2>1, <3>1 DEF I!Anew
    <3>3. Fresh'
      BY <1>1, <3>1, <3>2 DEF Fresh, Below
    <3>4. Bond'
      BY <3>2 DEF Bond
    <3>. QED  BY <3>3, <3>4
  <2>2. CASE ~I!RecvInvite
    <3>1. hist'.born = hist.born /\ I!SamePracked(hist') /\ (I!Repeats \/ I!SendsPlain \/ I!SendsNumbered)
      BY <1>5, <2>2 DEF I!Proceeds
    <3>2. Fresh /\ Bond
      BY <1>7, <3>1 DEF IInv, OneInvite
    <3>3. hist'.pracked \subseteq hist.pracked /\ \A q \in hist.pracked : q # hist.next => q \in hist'.pracked
      BY <3>1 DEF I!SamePracked
    <3>4. hist.born # 0
      <4>1. txn.pool
        BY <1>1, <2>2 DEF I!Other, I!Respond, I!Receive, I!TimerFires, I!SendProvisional,
           I!SendReliable, I!SendFailure, I!Send2xx, I!Send2xxUntimed, I!RecvInviteAgain,
           I!RecvAckUdp, I!RecvAckTcp, I!TimerGHRepeats, I!TimerGHDue, I!TimerGHGivesUp,
           I!TimerIFires, I!FallBackToUdp, I!TransportError, I!Abort, I!Pooled
      <4>2. hist.born - hist.ended = 1 /\ hist.ended \in Nat
        BY <4>1 DEF IInv, I!IInv, I!ContextsBalance, I!TypeOK, I!HistType
      <4>. QED  BY <4>2
    <3>5. hist'.next = hist.next \/ hist'.next = hist.next + 1
      BY <3>1 DEF I!Repeats, I!SendsPlain, I!SendsNumbered
    <3>6. txn'.sent.rseq < hist'.next /\ \A m \in net' : m.rseq < hist'.next
      <4>1. hist.next \in Nat \ {0} /\ txn.sent.rseq < hist.next /\ \A m \in net : m.rseq < hist.next
        BY <3>2, Numbers DEF IInv, Fresh
      <4>2. \A m \in net : m.rseq \in Nat
        BY Numbers DEF IInv
      <4>3. CASE I!Repeats
        BY <1>6, <4>1, <4>3 DEF I!Repeats
      <4>4. CASE I!SendsPlain
        BY <4>1, <4>4 DEF I!SendsPlain
      <4>5. CASE I!SendsNumbered
        BY <4>1, <4>2, <4>5 DEF I!SendsNumbered
      <4>. QED  BY <3>1, <4>3, <4>4, <4>5
    <3>7. Fresh'
      <4>1. phist.accepted \subseteq Nat /\ hist.pracked \subseteq Nat /\ hist.next \in Nat
        BY Numbers DEF IInv, P!IInv, P!TypeOK, P!HistType
      <4>2. Below(phist.accepted)' /\ Below(hist.pracked)'
        BY <1>1, <3>2, <3>3, <3>5, <4>1 DEF Fresh, Below
      <4>. QED  BY <3>1, <3>4, <3>6, <4>2 DEF Fresh
    <3>8. Bond'
      <4>. SUFFICES ASSUME Steadily', I!Pooled("PROCEEDING")', txn'.sent.rseq # 0
                    PROVE  txn'.sent.rseq \in phist.accepted <=> txn'.sent.rseq \in hist'.pracked
        BY <1>1 DEF Bond
      <4>1. CASE I!Repeats
        <5>1. I!Pooled("PROCEEDING")
          BY <1>1, <2>2, I!StaysProceeding, EnvsOfInvite DEF IInv
        <5>2. Steadily /\ txn'.sent = txn.sent
          BY <1>2, <4>1 DEF Steadily, Faults, I!Repeats
        <5>3. txn.sent.rseq \in phist.accepted <=> txn.sent.rseq \in hist.pracked
          BY <3>2, <5>1, <5>2 DEF Bond
        <5>4. txn.sent.rseq # hist.next
          BY <3>2, Numbers DEF IInv, Fresh
        <5>. QED  BY <3>3, <5>2, <5>3, <5>4
      <4>2. CASE I!SendsNumbered
        BY <3>2, <3>3, <4>2, Numbers DEF IInv, Fresh, Below, I!SendsNumbered
      <4>. QED  BY <3>1, <4>1, <4>2 DEF I!SendsPlain
    <3>. QED  BY <3>7, <3>8
  <2>. QED  BY <2>1, <2>2
<1>. QED  BY <1>2, <1>4, <1>7 DEF IInv

LEMMA PrackKeeps == ASSUME IInv, PrackStep PROVE IInv'
<1>1. P!Other /\ UNCHANGED <<txn, resp, hist>>
  BY PrackIsPrack DEF PrackStep
<1>2. P!IInv'
  BY <1>1, P!Inductive, EnvsOfPrack DEF IInv, P!Next
<1>3. /\ keys' = keys /\ phist'.accepted = phist.accepted /\ P!NoRSeq'
      /\ \A m \in net' : m \in net \/ m.rseq = 0
  BY <1>1, P!OtherKeeps, EnvsOfPrack DEF IInv
<1>4. env' = env
  BY <1>1 DEF P!Other, P!RecvRequestAgain, P!Respond, P!Send1xx, P!SendFinalUdp, P!SendFinalTcp,
              P!TimerJFires, P!FallBackToUdp, P!TransportError, P!Abort
<1>5. Shared
  BY <1>2, <1>4, SameTypes DEF P!IInv, P!TypeOK, Shared
<1>6. I!IInv'
  BY <1>1, <1>3, <1>5, InviteRests DEF IInv
<1>7. OneInvite' => Fresh' /\ Bond'
  <2>. SUFFICES ASSUME Fresh, Bond PROVE Fresh' /\ Bond'
    BY <1>1 DEF IInv, OneInvite
  <2>1. Fresh'
    BY <1>1, <1>3, Numbers DEF IInv, Fresh, Below
  <2>2. Bond'
    BY <1>1, <1>3, <1>4 DEF Bond, Steadily, Faults, I!Pooled
  <2>. QED  BY <2>1, <2>2
<1>. QED  BY <1>2, <1>3, <1>6, <1>7 DEF IInv

\* A key in the list is one of the dialog, so that no PRACK is passed up unmatched
\* while it is there.
LEMMA KeyHits == ASSUME NEW k, keys = <<k>> PROVE P!DialogHits(keys, P!NoTag) # {}
<1>1. 1 \in DOMAIN keys
  OBVIOUS
<1>2. 1 \in P!DialogHits(keys, P!NoTag)
  BY <1>1 DEF P!DialogHits, P!TagMatch
<1>. QED  BY <1>2

LEMMA RecvPrackKeeps == ASSUME IInv, NEW r \in 1..MaxRSeq, RecvPrack(r) PROVE IInv'
<1>0. txn.pool \in BOOLEAN /\ r \in Nat
  BY DEF IInv, I!IInv, I!TypeOK, I!TxnType
<1>1. P!RecvPrack(r, txn.pool)
  BY <1>0, PrackComes DEF RecvPrack
<1>2. P!IInv'
  BY <1>0, <1>1, P!Inductive, EnvsOfPrack DEF IInv, P!Next
<1>3. P!NoRSeq' /\ env' = env /\ net' = net
  BY <1>1 DEF P!RecvPrack, P!Created, P!NewTxn, P!NoMsg, P!Plain, P!Msg, P!NoRSeq
<1>4. Shared
  BY <1>2, <1>3, SameTypes DEF P!IInv, P!TypeOK, Shared, IInv, I!IInv, I!TypeOK
<1>5. phist \in P!HistType
  BY DEF IInv, P!IInv, P!TypeOK
<1>6. OneInvite => r < hist.next
  <2>1. Msg("1xx", NoTag, r) \in net
    BY DEF RecvPrack
  <2>. QED  BY <2>1 DEF IInv, Fresh, Msg
<1>a. CASE txn.pool /\ Inv!PrackMatches(r)
  <2>1. I!RecvPrack(r)
    BY <1>a, PrackMatchesInvite DEF RecvPrack
  <2>2. I!IInv'
    BY <2>1, I!Inductive, EnvsOfInvite DEF IInv, I!Next
  <2>3. P!PrackFound(r, txn.pool)
    BY <1>1, <1>a DEF P!RecvPrack, P!PrackStray, P!PrackUnmatched, Inv!PrackMatches,
       Inv!ExactHits, P!ExactHits, Inv!DialogHits, P!DialogHits, Inv!TagMatch, P!TagMatch,
       Inv!NoTag, P!NoTag
  <2>4. phist'.accepted = phist.accepted \cup {r}
    BY <1>5, <2>3 DEF P!PrackFound, P!TellBorn, P!HistType
  <2>5. /\ hist'.pracked = hist.pracked \cup {r} /\ hist'.born = hist.born
        /\ hist'.next = hist.next /\ txn'.sent = txn.sent /\ txn'.st = txn.st
    <3>1. hist \in I!HistType /\ txn \in I!TxnType
      BY DEF IInv, I!IInv, I!TypeOK
    <3>. QED  BY <2>1, <3>1 DEF I!RecvPrack, I!Stop, I!HistType, I!TxnType
  <2>6. ASSUME OneInvite PROVE Fresh' /\ Bond'
    BY <1>3, <1>6, <1>a, <2>4, <2>5, <2>6
       DEF IInv, Fresh, Bond, Below, Steadily, Faults, I!Pooled
  <2>. QED  BY <1>2, <1>3, <2>2, <2>5, <2>6 DEF IInv, OneInvite
<1>b. CASE ~(txn.pool /\ Inv!PrackMatches(r))
  <2>1. UNCHANGED <<txn, resp, hist>>
    BY <1>b DEF RecvPrack
  <2>2. keys' = keys
    BY <1>1, <1>b DEF P!RecvPrack, P!PrackFound, P!PrackStray, P!PrackUnmatched, Inv!PrackMatches,
       Inv!ExactHits, P!ExactHits, Inv!DialogHits, P!DialogHits, Inv!TagMatch, P!TagMatch,
       Inv!NoTag, P!NoTag
  <2>3. I!IInv'
    BY <1>4, <2>1, <2>2, InviteRests DEF IInv
  <2>4. phist'.accepted \in {phist.accepted, phist.accepted \cup {r}}
    BY <1>1, <1>5 DEF P!RecvPrack, P!PrackFound, P!PrackStray, P!PrackUnmatched, P!TellBorn,
       P!HistType
  <2>5. ASSUME OneInvite PROVE Fresh' /\ Bond'
    <3>1. Fresh /\ Bond
      BY <2>5 DEF IInv
    <3>2. Fresh'
      BY <1>3, <1>6, <2>1, <2>4, <2>5, <3>1 DEF Fresh, Below
    <3>3. Bond'
      <4>. SUFFICES ASSUME Steadily, I!Pooled("PROCEEDING"), txn.sent.rseq # 0,
                           phist'.accepted = phist.accepted \cup {r}, r = txn.sent.rseq
                    PROVE  txn.sent.rseq \in hist.pracked
        BY <1>3, <2>1, <2>4, <3>1 DEF Bond, Steadily, Faults, I!Pooled
      <4>1. CASE r \in phist.accepted
        BY <3>1, <4>1 DEF Bond
      <4>2. CASE r \notin phist.accepted
        <5>1. P!PrackUnmatched(r)
          BY <1>1, <1>5, <1>b, <4>2 DEF P!RecvPrack, P!PrackFound, P!PrackStray, P!TellBorn,
             P!HistType, I!Pooled, Inv!PrackMatches, Inv!ExactHits, P!ExactHits,
             Inv!DialogHits, P!DialogHits, Inv!TagMatch, P!TagMatch, Inv!NoTag, P!NoTag
        <5>2. txn.timer.type # "G"
          BY <5>1, KeyHits DEF IInv, I!IInv, I!Standing, I!Keyed, I!Pooled, P!PrackUnmatched
        <5>. QED  BY <5>2 DEF IInv, I!IInv, I!Standing, I!Sure, I!Pooled, Steadily, I!Steadily,
                              Faults, I!Faults
      <4>. QED  BY <4>1, <4>2
    <3>. QED  BY <3>2, <3>3
  <2>. QED  BY <1>2, <1>3, <2>1, <2>3, <2>5 DEF IInv, OneInvite
<1>. QED  BY <1>a, <1>b

LEMMA Inductive == IInv /\ [Next]_vars => IInv'
<1>. SUFFICES ASSUME IInv, [Next]_vars PROVE IInv'
  OBVIOUS
<1>1. CASE UNCHANGED vars
  <2>1. Shared /\ keys' = keys
    BY <1>1, SameTypes DEF vars, Shared, IInv, I!IInv, I!TypeOK
  <2>2. I!IInv' /\ P!IInv'
    BY <1>1, <2>1, InviteRests, PrackRests DEF vars, IInv
  <2>3. P!NoRSeq' /\ (OneInvite' => Fresh' /\ Bond')
    BY <1>1 DEF vars, IInv, P!NoRSeq, OneInvite, Fresh, Bond, Below, Steadily, Faults, I!Pooled
  <2>. QED  BY <2>2, <2>3 DEF IInv
<1>. QED  BY <1>1, InviteKeeps, PrackKeeps, RecvPrackKeeps DEF Next

-----------------------------------------------------------------------------
\* The invariants of both transactions, with fresh RSeqs and the agreement about the
\* provisional being repeated, hold after every step of either.
THEOREM Invariance == Spec => []IInv
BY Initial, Inductive, PTL DEF Spec

\* As long as there is one INVITE transaction and timers and sends succeed, a reliable
\* provisional is repeated until the user has been given its PRACK and no longer:
\* whatever a late PRACK finds in the key list
\* (NonInvSerFsm_IdleStRecvNonInvReqEvt, InvSerFsm_ProceedingStSendNon100ProvRespEvt).
THEOREM UntilAccepted == Spec => [](OneInvite /\ Steadily => RepeatedUntilAccepted)
<1>1. IInv /\ OneInvite /\ Steadily => RepeatedUntilAccepted
  BY DEF IInv, I!IInv, I!Standing, I!Sure, Bond, Steadily, I!Steadily, Faults, I!Faults,
         RepeatedUntilAccepted, Inv!Pooled, I!Pooled
<1>. QED  BY <1>1, Invariance, PTL
=============================================================================
