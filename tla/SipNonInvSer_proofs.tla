------------------------ MODULE SipNonInvSer_proofs -------------------------
(***************************************************************************)
(* Safety of the non-INVITE server transactions, for every timer value, every *)
(* set of faults, every key list and any number of copies of the request.     *)
(*                                                                         *)
(* The three properties are inductive together: that a final response is what  *)
(* is repeated keeps a transaction that has answered out of TRYING and         *)
(* PROCEEDING, so that no second answer can follow.                          *)
(***************************************************************************)
EXTENDS SipNonInvSer, TLAPS

IInv == TypeOK /\ ContextsBalance /\ FinalIsRepeated

USE TWaitAssumption, EnvsAssumption, MaxRSeqAssumption

-----------------------------------------------------------------------------
LEMMA PlainType ==
    \A type \in {"none", "1xx", "final"} : Plain(type) \in Message
BY DEF Plain, Msg, Message, MsgTypes

LEMMA NewType ==
    [NewTxn EXCEPT !.st = "TRYING", !.pool = TRUE] \in TxnType /\ NewTxn \in TxnType
BY PlainType DEF NewTxn, TxnType, States, Timer, TimerTypes, NoTimer, NoMsg, Protocols

LEMMA Initial == Init => IInv
<1>. SUFFICES ASSUME Init PROVE IInv
  OBVIOUS
<1>1. keys \in Seq(Key)
  BY DEF Init, Environment
<1>2. hist \in HistType
  BY DEF Init, NewHist, HistType
<1>3. TypeOK
  BY <1>1, <1>2, NewType DEF Init, TypeOK
<1>. QED  BY <1>3 DEF IInv, Init, NewTxn, NewHist, ContextsBalance, FinalIsRepeated

-----------------------------------------------------------------------------
(***************************************************************************)
(* What the operations do to the two records.                              *)
(***************************************************************************)
LEMMA StopRemoved ==
    ASSUME NEW t \in TxnType
    PROVE  /\ Removed(t) \in TxnType /\ ~Removed(t).pool
           /\ Stop(t) \in TxnType /\ (Stop(t).pool <=> t.pool)
BY DEF Stop, Removed, TxnType, Timer, TimerTypes, NoTimer

LEMMA LingerType ==
    ASSUME NEW t \in TxnType
    PROVE  Linger(t) \in TxnType /\ (Linger(t).pool <=> t.pool) /\ Linger(t).st = "COMPLETED"
<1>1. [type |-> "J", dur |-> TWait] \in Timer
  BY DEF Timer, TimerTypes
<1>. QED  BY <1>1 DEF Linger, Start, TxnType, States

LEMMA StoredFacts ==
    ASSUME NEW t \in TxnType, NEW m \in Message
    PROVE  /\ Stored(t, m, FirstProto) \in TxnType /\ Stored(t, m, FirstProto).sent = m
           /\ Stored(t, m, FirstProto).st = t.st /\ (Stored(t, m, FirstProto).pool <=> t.pool)
BY DEF Stored, FirstProto, TxnType, Protocols

LEMMA StateFacts ==
    ASSUME NEW t \in TxnType, NEW s \in States
    PROVE  [t EXCEPT !.st = s] \in TxnType /\ ([t EXCEPT !.st = s].pool <=> t.pool)
BY DEF TxnType

Answered(h) == [h EXCEPT !.final = TRUE]
Accepted(h, r) == [TellBorn(h) EXCEPT !.accepted = @ \cup {r}]

LEMMA EndFacts ==
    ASSUME NEW h \in HistType
    PROVE  /\ TellEnd(h) \in HistType /\ TellEnd(h).born = h.born
           /\ TellEnd(h).ended = h.ended + 1 /\ (TellEnd(h).final <=> h.final)
<1>1. h.ended + 1 \in Nat
  BY DEF HistType
<1>. QED  BY <1>1 DEF HistType, TellEnd

LEMMA BornFacts ==
    ASSUME NEW h \in HistType
    PROVE  /\ TellBorn(h) \in HistType /\ TellBorn(h).born = h.born + 1
           /\ TellBorn(h).ended = h.ended /\ ~TellBorn(h).final
<1>. DEFINE n == h.born + 1
<1>1. n \in Nat
  BY DEF HistType
<1>2. TellBorn(h) = [h EXCEPT !.born = n, !.final = FALSE]
  BY DEF TellBorn
<1>. HIDE DEF n
<1>3. /\ TellBorn(h) \in HistType /\ TellBorn(h).born = n
      /\ TellBorn(h).ended = h.ended /\ ~TellBorn(h).final
  BY <1>1, <1>2 DEF HistType
<1>. QED  BY <1>3 DEF n

LEMMA AnsweredFacts ==
    ASSUME NEW h \in HistType
    PROVE  /\ Answered(h) \in HistType /\ Answered(h).final
           /\ Answered(h).born = h.born /\ Answered(h).ended = h.ended
BY DEF HistType, Answered

LEMMA AcceptedFacts ==
    ASSUME NEW h \in HistType, NEW r \in 1..MaxRSeq
    PROVE  /\ Accepted(h, r) \in HistType /\ Accepted(h, r).born = h.born + 1
           /\ Accepted(h, r).ended = h.ended /\ ~Accepted(h, r).final
<1>. DEFINE n == TellBorn(h)
            s == n.accepted \cup {r}
<1>1. n \in HistType /\ n.born = h.born + 1 /\ n.ended = h.ended /\ ~n.final
  BY BornFacts
<1>2. Accepted(h, r) = [n EXCEPT !.accepted = s]
  BY DEF Accepted
<1>. HIDE DEF n
<1>3. s \in SUBSET (1..MaxRSeq)
  BY <1>1 DEF HistType
<1>. HIDE DEF s
<1>. QED  BY <1>1, <1>2, <1>3 DEF HistType

-----------------------------------------------------------------------------
(***************************************************************************)
(* The three kinds of steps: a transaction is made, it goes on, or it ends.    *)
(***************************************************************************)
LEMMA Begins ==
    ASSUME IInv, Created, keys' \in Seq(Key), hist' \in HistType,
           hist'.born = hist.born + 1, hist'.ended = hist.ended, ~hist'.final
    PROVE  IInv'
<1>1. TypeOK'
  BY NewType DEF IInv, TypeOK, Created
<1>2. ~txn.pool /\ txn'.pool
  BY DEF Created, NewTxn
<1>3. hist \in HistType
  BY DEF IInv, TypeOK
<1>. QED  BY <1>1, <1>2, <1>3 DEF IInv, ContextsBalance, FinalIsRepeated, HistType

LEMMA GoesOn ==
    ASSUME IInv, TypeOK', txn.pool, txn'.pool,
           hist'.born = hist.born, hist'.ended = hist.ended,
           hist'.final => txn'.st = "COMPLETED" /\ txn'.sent = Plain("final")
    PROVE  IInv'
BY DEF IInv, ContextsBalance, FinalIsRepeated

LEMMA Ends ==
    ASSUME IInv, TypeOK', txn.pool, ~txn'.pool,
           hist'.born = hist.born, hist'.ended = hist.ended + 1
    PROVE  IInv'
<1>1. hist \in HistType
  BY DEF IInv, TypeOK
<1>. QED  BY <1>1 DEF IInv, ContextsBalance, FinalIsRepeated, HistType

LEMMA AbortEnds ==
    ASSUME IInv, NEW t \in TxnType, txn.pool, txn' = Stop(Removed(t)), hist' = TellEnd(hist),
           UNCHANGED <<env, keys, net>>
    PROVE  IInv'
<1>1. txn' \in TxnType /\ ~txn'.pool
  BY StopRemoved
<1>2. TypeOK'
  BY <1>1, EndFacts DEF IInv, TypeOK
<1>. QED  BY <1>1, <1>2, EndFacts, Ends DEF IInv, TypeOK

-----------------------------------------------------------------------------
LEMMA Inductive == IInv /\ [Next]_vars => IInv'
<1>. SUFFICES ASSUME IInv, [Next]_vars PROVE IInv'
  OBVIOUS
<1>0. /\ env \in Envs /\ txn \in TxnType /\ keys \in Seq(Key) /\ net \subseteq Message
      /\ hist \in HistType
  BY DEF IInv, TypeOK
<1>a. CASE RecvRequest
  BY <1>0, <1>a, BornFacts, Begins DEF RecvRequest
<1>b. ASSUME NEW r \in 1..MaxRSeq, NEW inPool \in BOOLEAN, RecvPrack(r, inPool) PROVE IInv'
  <2>1. Created
    BY <1>b DEF RecvPrack
  <2>2. keys' \in Seq(Key)
    <3>1. << >> \in Seq(Key)
      OBVIOUS
    <3>2. keys' \in {keys, << >>}
      BY <1>b DEF RecvPrack, PrackFound, PrackStray, PrackUnmatched, DeleteTxnKey
    <3>. QED  BY <1>0, <3>1, <3>2
  <2>3. hist' \in {TellBorn(hist), Accepted(hist, r)}
    BY <1>b DEF RecvPrack, PrackFound, PrackStray, PrackUnmatched, Accepted
  <2>4. /\ hist' \in HistType /\ hist'.born = hist.born + 1 /\ hist'.ended = hist.ended
        /\ ~hist'.final
    BY <1>0, <2>3, BornFacts, AcceptedFacts
  <2>. QED  BY <2>1, <2>2, <2>4, Begins
<1>c. CASE RecvRequestAgain
  <2>1. txn' = txn /\ keys' = keys /\ hist' = hist /\ env' = env /\ txn.pool
    BY <1>c DEF RecvRequestAgain, Pooled
  <2>2. net' \subseteq Message
    BY <1>0, <1>c DEF RecvRequestAgain, Resend, TxnType
  <2>3. TypeOK'
    BY <1>0, <2>1, <2>2 DEF TypeOK
  <2>. QED  BY <2>1, <2>3, GoesOn DEF IInv, FinalIsRepeated
<1>d. CASE Send1xx
  <2>. DEFINE t == [txn EXCEPT !.st = "PROCEEDING"]
  <2>1. t \in TxnType /\ t.pool /\ txn.pool /\ ~hist.final
    BY <1>0, <1>d, StateFacts DEF Send1xx, Answerable, Pooled, States, IInv, FinalIsRepeated
  <2>2. env' = env /\ keys' = keys
    BY <1>d DEF Send1xx
  <2>3. CASE Terminated(t)
    BY <2>1, <2>2, <2>3, AbortEnds DEF Terminated
  <2>4. CASE NotSent(t)
    <3>1. TypeOK'
      BY <1>0, <2>1, <2>2, <2>4 DEF NotSent, TypeOK
    <3>. QED  BY <2>1, <2>4, <3>1, GoesOn DEF NotSent
  <2>5. CASE txn' = Stored(t, Plain("1xx"), FirstProto) /\ net' = net \cup {Plain("1xx")} /\ hist' = hist
    <3>1. txn' \in TxnType /\ txn'.pool /\ net' \subseteq Message
      BY <1>0, <2>1, <2>5, PlainType, StoredFacts
    <3>2. TypeOK'
      BY <1>0, <2>2, <2>5, <3>1 DEF TypeOK
    <3>. QED  BY <2>1, <2>5, <3>1, <3>2, GoesOn
  <2>. HIDE DEF t
  <2>. QED  BY <1>d, <2>3, <2>4, <2>5 DEF Send1xx, t
<1>e. CASE SendFinalUdp
  <2>. DEFINE t == Linger(txn)
  <2>1. t \in TxnType /\ t.pool /\ t.st = "COMPLETED" /\ txn.pool /\ ~hist.final
    BY <1>0, <1>e, LingerType DEF SendFinalUdp, Answerable, Pooled, IInv, FinalIsRepeated
  <2>2. env' = env /\ keys' = keys
    BY <1>e DEF SendFinalUdp
  <2>. HIDE DEF t
  <2>3. CASE Terminated(t)
    BY <2>1, <2>2, <2>3, AbortEnds DEF Terminated
  <2>4. CASE NotSent(t)
    <3>1. TypeOK'
      BY <1>0, <2>1, <2>2, <2>4 DEF NotSent, TypeOK
    <3>. QED  BY <2>1, <2>4, <3>1, GoesOn DEF NotSent
  <2>5. CASE /\ txn' = Stored(t, Plain("final"), FirstProto) /\ net' = net \cup {Plain("final")}
             /\ hist' = Answered(hist)
    <3>1. /\ txn' \in TxnType /\ txn'.pool /\ txn'.st = "COMPLETED" /\ txn'.sent = Plain("final")
          /\ net' \subseteq Message
      BY <1>0, <2>1, <2>5, PlainType, StoredFacts
    <3>2. TypeOK'
      BY <1>0, <2>2, <2>5, <3>1, AnsweredFacts DEF TypeOK
    <3>. QED  BY <1>0, <2>1, <2>5, <3>1, <3>2, AnsweredFacts, GoesOn
  <2>. QED  BY <1>e, <2>3, <2>4, <2>5 DEF SendFinalUdp, t, Answered
<1>f. CASE SendFinalTcp
  <2>. DEFINE t == [txn EXCEPT !.st = "TERMINATED"]
  <2>1. t \in TxnType /\ t.pool /\ txn.pool /\ ~hist.final
    BY <1>0, <1>f, StateFacts DEF SendFinalTcp, Answerable, Pooled, States, IInv, FinalIsRepeated
  <2>2. env' = env /\ keys' = keys
    BY <1>f DEF SendFinalTcp
  <2>. HIDE DEF t
  <2>3. CASE Terminated(t)
    BY <2>1, <2>2, <2>3, AbortEnds DEF Terminated
  <2>4. CASE NotSent(t)
    <3>1. TypeOK'
      BY <1>0, <2>1, <2>2, <2>4 DEF NotSent, TypeOK
    <3>. QED  BY <2>1, <2>4, <3>1, GoesOn DEF NotSent
  <2>5. CASE /\ txn' = Removed(t) /\ net' = net \cup {Plain("final")}
             /\ hist' = TellEnd(Answered(hist))
    <3>1. txn' \in TxnType /\ ~txn'.pool /\ net' \subseteq Message
      BY <1>0, <2>1, <2>5, PlainType, StopRemoved
    <3>2. hist' \in HistType /\ hist'.born = hist.born /\ hist'.ended = hist.ended + 1
      BY <1>0, <2>5, EndFacts, AnsweredFacts
    <3>3. TypeOK'
      BY <1>0, <2>2, <3>1, <3>2 DEF TypeOK
    <3>. QED  BY <2>1, <3>1, <3>2, <3>3, Ends
  <2>. QED  BY <1>f, <2>3, <2>4, <2>5 DEF SendFinalTcp, t, Answered
<1>g. CASE TimerJFires
  <2>. DEFINE t == [Stop(txn) EXCEPT !.st = "TERMINATED"]
  <2>1. t \in TxnType /\ txn.pool
    BY <1>0, <1>g, StopRemoved, StateFacts DEF TimerJFires, Pooled, States
  <2>2. txn' = Removed(t) /\ hist' = TellEnd(hist) /\ UNCHANGED <<env, keys, net>>
    BY <1>g DEF TimerJFires
  <2>. HIDE DEF t
  <2>3. txn' \in TxnType /\ ~txn'.pool
    BY <2>1, <2>2, StopRemoved
  <2>4. TypeOK'
    BY <1>0, <2>2, <2>3, EndFacts DEF TypeOK
  <2>. QED  BY <1>0, <2>1, <2>2, <2>3, <2>4, EndFacts, Ends
<1>h. CASE FallBackToUdp
  <2>1. /\ txn' = [txn EXCEPT !.proto = "UDP"] /\ hist' = hist /\ keys' = keys /\ env' = env
        /\ net' = net \cup {txn.sent} /\ txn.pool
    BY <1>h DEF FallBackToUdp
  <2>2. /\ txn' \in TxnType /\ txn'.pool /\ txn'.st = txn.st /\ txn'.sent = txn.sent
        /\ txn.sent \in Message
    BY <1>0, <2>1 DEF TxnType, Protocols
  <2>3. TypeOK'
    BY <1>0, <2>1, <2>2 DEF TypeOK
  <2>. QED  BY <2>1, <2>2, <2>3, GoesOn DEF IInv, FinalIsRepeated
<1>i. CASE TransportError
  <2>. DEFINE s == IF txn.st = "COMPLETED" THEN Stop(txn) ELSE txn
              t == [s EXCEPT !.st = "TERMINATED", !.proto = "UDP"]
  <2>1. s \in TxnType
    BY <1>0, StopRemoved
  <2>. HIDE DEF s
  <2>2. t \in TxnType
    BY <2>1 DEF TxnType, States, Protocols
  <2>3. /\ txn' = Removed(t) /\ hist' = TellEnd(hist) /\ UNCHANGED <<env, keys, net>>
        /\ txn.pool
    BY <1>i DEF TransportError, s
  <2>. HIDE DEF t
  <2>4. txn' \in TxnType /\ ~txn'.pool
    BY <2>2, <2>3, StopRemoved
  <2>5. TypeOK'
    BY <1>0, <2>3, <2>4, EndFacts DEF TypeOK
  <2>. QED  BY <1>0, <2>3, <2>4, <2>5, EndFacts, Ends
<1>j. CASE Abort
  BY <1>0, <1>j, AbortEnds DEF Abort
<1>k. CASE UNCHANGED vars
  BY <1>k DEF vars, IInv, TypeOK, ContextsBalance, FinalIsRepeated
<1>. QED
  BY <1>a, <1>b, <1>c, <1>d, <1>e, <1>f, <1>g, <1>h, <1>i, <1>j, <1>k DEF Next, Other, Respond

-----------------------------------------------------------------------------
\* The three properties hold together after every entry, copies of the request included.
THEOREM Invariance == Spec => []IInv
BY Initial, Inductive, PTL DEF Spec

\* The object, the key list, the network and the history keep their types.
THEOREM TypeCorrect == Spec => []TypeOK
BY Invariance, PTL DEF IInv

\* Each context that a request was given is let go once, when its transaction leaves
\* the pool, for any number of copies (TxnTerminated, HandleServerTxnRecv).
THEOREM ContextsLetGo == Spec => []ContextsBalance
BY Invariance, PTL DEF IInv

\* Once it went out, the final response is what a copy of the request brings back
\* (NonInvSerFsm_CompletedStRecvNonInvReqEvt).
THEOREM FinalRepeated == Spec => []FinalIsRepeated
BY Invariance, PTL DEF IInv

-----------------------------------------------------------------------------
(***************************************************************************)
(* For the composition with an INVITE transaction (SipUas_proofs): after the     *)
(* request has arrived, its transaction leaves the key list and what the user    *)
(* was given alone, and no message of it has an RSeq.                         *)
(***************************************************************************)
NoRSeq == txn.sent.rseq = 0

LEMMA OtherKeeps ==
    ASSUME IInv, Other, NoRSeq
    PROVE  /\ keys' = keys /\ hist'.accepted = hist.accepted /\ NoRSeq'
           /\ \A m \in net' : m \in net \/ m.rseq = 0
<1>0. txn \in TxnType /\ hist \in HistType
  BY DEF IInv, TypeOK
<1>1. keys' = keys
  BY DEF Other, RecvRequestAgain, Respond, Send1xx, SendFinalUdp, SendFinalTcp, TimerJFires,
         FallBackToUdp, TransportError, Abort
<1>2. hist' \in {hist, TellEnd(hist), Answered(hist), TellEnd(Answered(hist))}
  BY DEF Other, RecvRequestAgain, Respond, Send1xx, SendFinalUdp, SendFinalTcp, TimerJFires,
         FallBackToUdp, TransportError, Abort, Terminated, NotSent, Answered
<1>3. hist'.accepted = hist.accepted
  BY <1>0, <1>2 DEF HistType, TellEnd, Answered
<1>4. \E m \in {txn.sent, Plain("1xx"), Plain("final")} : net' \in {net, net \cup {m}}
  BY DEF Other, RecvRequestAgain, Respond, Send1xx, SendFinalUdp, SendFinalTcp, TimerJFires,
         FallBackToUdp, TransportError, Abort, Terminated, NotSent, Resend
<1>5. Plain("1xx").rseq = 0 /\ Plain("final").rseq = 0
  BY DEF Plain, Msg
<1>6. \A u \in TxnType : /\ Removed(u).sent = u.sent /\ Stop(u).sent = u.sent
                         /\ Stop(Removed(u)).sent = u.sent
                         /\ Linger(u).sent = u.sent
                         /\ \A s : [u EXCEPT !.st = s].sent = u.sent
  BY DEF Removed, Stop, Linger, Start, TxnType
<1>7. NoRSeq'
  <2>1. CASE Send1xx
    <3>. DEFINE t == [txn EXCEPT !.st = "PROCEEDING"]
    <3>1. txn' \in {t, Stop(Removed(t)), Stored(t, Plain("1xx"), FirstProto)}
      BY <2>1 DEF Send1xx, Terminated, NotSent
    <3>2. t \in TxnType /\ t.sent = txn.sent
      BY <1>0, <1>6, StateFacts DEF States
    <3>. HIDE DEF t
    <3>. QED  BY <1>5, <1>6, <3>1, <3>2, PlainType, StoredFacts DEF NoRSeq
  <2>2. CASE SendFinalUdp
    <3>. DEFINE t == Linger(txn)
    <3>1. txn' \in {t, Stop(Removed(t)), Stored(t, Plain("final"), FirstProto)}
      BY <2>2 DEF SendFinalUdp, Terminated, NotSent
    <3>2. t \in TxnType /\ t.sent = txn.sent
      BY <1>0, <1>6, LingerType
    <3>. HIDE DEF t
    <3>. QED  BY <1>5, <1>6, <3>1, <3>2, PlainType, StoredFacts DEF NoRSeq
  <2>3. CASE SendFinalTcp
    <3>. DEFINE t == [txn EXCEPT !.st = "TERMINATED"]
    <3>1. txn' \in {t, Stop(Removed(t)), Removed(t)}
      BY <2>3 DEF SendFinalTcp, Terminated, NotSent
    <3>2. t \in TxnType /\ t.sent = txn.sent
      BY <1>0, <1>6, StateFacts DEF States
    <3>. HIDE DEF t
    <3>. QED  BY <1>6, <3>1, <3>2 DEF NoRSeq
  <2>4. CASE RecvRequestAgain
    BY <2>4 DEF RecvRequestAgain, NoRSeq
  <2>5. CASE TimerJFires \/ TransportError \/ Abort \/ FallBackToUdp
    <3>. DEFINE s == IF txn.st = "COMPLETED" THEN Stop(txn) ELSE txn
    <3>1. s \in TxnType /\ s.sent = txn.sent /\ Stop(txn) \in TxnType
      BY <1>0, <1>6, StopRemoved
    <3>2. txn' \in {Removed([Stop(txn) EXCEPT !.st = "TERMINATED"]),
                    Removed([s EXCEPT !.st = "TERMINATED", !.proto = "UDP"]),
                    Stop(Removed(txn)), [txn EXCEPT !.proto = "UDP"]}
      BY <2>5 DEF TimerJFires, TransportError, Abort, FallBackToUdp
    <3>. HIDE DEF s
    <3>3. txn'.sent = txn.sent
      BY <1>0, <1>6, <3>1, <3>2 DEF TxnType, Removed
    <3>. QED  BY <3>3 DEF NoRSeq
  <2>. QED  BY <2>1, <2>2, <2>3, <2>4, <2>5 DEF Other, Respond
<1>. QED  BY <1>1, <1>3, <1>4, <1>5, <1>7 DEF NoRSeq
=============================================================================
