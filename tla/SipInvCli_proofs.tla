-------------------------- MODULE SipInvCli_proofs -------------------------
(***************************************************************************)
(* Safety of the INVITE client transaction, for every timer value, every    *)
(* set of faults and every set of To tags.                                  *)
(*                                                                         *)
(* The invariant has three parts beside the types.  Told: what the user has   *)
(* heard in each state.  Wired: which timer and which protocol each state     *)
(* may have.  Timed: the clock, the armed interval and m_nDurationExpired     *)
(* always add up to the same total.  Tracked, proved on top of it, ties the   *)
(* key list to the reliable provisional responses passed up.  Last, the       *)
(* transaction is shown to implement ClientTxn.                             *)
(***************************************************************************)
EXTENDS SipInvCli, SequenceTheorems, TLAPS

\* The user hears of one outcome at most: one final response or one timeout.
OneOutcome == hist.finals + hist.expired <= 1

\* An armed timer of a pooled transaction has a handler in the present state:
\* A and B in CALLING, D in COMPLETED (gpfSipInvClientTxnFsm).
TimerHasHandler ==
    txn.pool =>
        /\ txn.timer.type \in {"A", "B"} => txn.st = "CALLING"
        /\ txn.timer.type = "D" => txn.st = "COMPLETED"
        /\ txn.timer.type \in {"none", "A", "B", "D"}

Told ==
    /\ txn.pool /\ txn.st \in {"CALLING", "PROCEEDING"} => hist.finals = 0
    /\ txn.pool => hist.expired = 0
    /\ txn.st = "IDLE" => hist.finals = 0 /\ hist.expired = 0 /\ ~txn.pool
    /\ OneOutcome
    /\ EndNotifiedOnce

Wired ==
    /\ TimerHasHandler
    /\ txn.st = "IDLE" => txn.expired = 0 /\ txn.proto = "NONE" /\ hist.clock = 0
    /\ Udp => txn.proto # "TCP"
    /\ txn.pool /\ txn.ctx => txn.proto # "NONE"

\* What a fall-back to UDP adds: timer B has run before the chain of timer A.
Offset == IF Udp THEN 0 ELSE TLimit - T1

Chained ==
    txn.pool /\ txn.timer.type \in {"A", "B"} =>
        IF txn.expired = 0
        THEN hist.clock = 0 /\ txn.timer.dur = (IF Udp THEN T1 ELSE TLimit)
        ELSE /\ hist.clock + txn.timer.dur = txn.expired + Offset
             /\ txn.expired <= TLimit
             /\ txn.proto # "TCP"

Timed == Chained /\ GiveUpAtLimit

IInv == TypeOK /\ Told /\ Wired /\ Timed

USE T1Assumption, T2Assumption, TLimitAssumption, TWaitAssumption, EnvsAssumption,
    MaxRSeqAssumption, TagsAssumption

-----------------------------------------------------------------------------
\* The operations on the key list keep it a list of keys.
LEMMA AddTxnKeyType ==
    ASSUME NEW ks \in Seq(Key), NEW t \in Tags, NEW r \in 0..MaxRSeq
    PROVE  AddTxnKey(ks, t, r) \in Seq(Key)
BY DEF AddTxnKey, Key

LEMMA SetRSeqType ==
    ASSUME NEW ks \in Seq(Key), NEW i, NEW r \in 0..MaxRSeq
    PROVE  SetRSeq(ks, i, r) \in Seq(Key)
<1>1. DOMAIN ks = 1..Len(ks)
  BY LenProperties
<1>2. CASE i \in 1..Len(ks)
  <2>1. ks[i] \in Key
    BY <1>2, ElementOfSeq
  <2>2. [tag |-> ks[i].tag, rseq |-> r] \in Key
    BY <2>1 DEF Key
  <2>. QED  BY <1>2, <2>2, ExceptSeq DEF SetRSeq
<1>3. CASE i \notin 1..Len(ks)
  <2>1. SetRSeq(ks, i, r) = ks
    BY <1>1, <1>3, LenProperties DEF SetRSeq
  <2>. QED  BY <2>1
<1>. QED  BY <1>2, <1>3

-----------------------------------------------------------------------------
LEMMA PlainType == Plain("none") \in Message /\ Plain("INVITE") \in Message /\ Plain("ACK") \in Message
BY DEF Plain, Msg, Message, MsgTypes

LEMMA Initial == Init => IInv
<1>. SUFFICES ASSUME Init PROVE IInv
  OBVIOUS
<1>. USE DEF Init, NewTxn, NewHist
<1>1. txn \in TxnType
  BY PlainType DEF TxnType, States, Timer, TimerTypes, NoTimer, NoMsg, Protocols
<1>2. hist \in HistType
  BY DEF HistType
<1>3. TypeOK
  BY <1>1, <1>2 DEF TypeOK, Environment
<1>4. Told
  BY DEF Told, OneOutcome, EndNotifiedOnce
<1>5. Wired
  BY DEF Wired, TimerHasHandler, NoTimer
<1>6. Timed
  BY DEF Timed, Chained, GiveUpAtLimit, NoTimer
<1>. QED  BY <1>3, <1>4, <1>5, <1>6 DEF IInv

-----------------------------------------------------------------------------
(***************************************************************************)
(* What the operations do to the two records.                              *)
(***************************************************************************)
LEMMA StopFacts ==
    ASSUME NEW t \in TxnType
    PROVE  /\ Stop(t) \in TxnType /\ Stop(t).timer = NoTimer
           /\ Stop(t).st = t.st /\ (Stop(t).pool <=> t.pool) /\ Stop(t).expired = t.expired
           /\ Stop(t).proto = t.proto /\ (Stop(t).ctx <=> t.ctx) /\ Stop(t).retx = t.retx
BY DEF Stop, TxnType, Timer, TimerTypes, NoTimer

LEMMA RemovedFacts ==
    ASSUME NEW t \in TxnType
    PROVE  /\ Removed(t) \in TxnType /\ ~Removed(t).pool /\ Removed(t).timer = t.timer
           /\ Removed(t).st = t.st /\ Removed(t).expired = t.expired /\ Removed(t).proto = t.proto
BY DEF Removed, TxnType

LEMMA StartFacts ==
    ASSUME NEW t \in TxnType, NEW type \in TimerTypes, NEW d \in Nat
    PROVE  /\ Start(t, type, d) \in TxnType
           /\ Start(t, type, d).timer.type = type /\ Start(t, type, d).timer.dur = d
           /\ Start(t, type, d).st = t.st /\ (Start(t, type, d).pool <=> t.pool)
           /\ Start(t, type, d).expired = t.expired /\ Start(t, type, d).proto = t.proto
           /\ (Start(t, type, d).ctx <=> t.ctx) /\ Start(t, type, d).retx = t.retx
BY DEF Start, TxnType, Timer

LEMMA StoredFacts ==
    ASSUME NEW t \in TxnType, NEW m \in Message, NEW proto \in Protocols
    PROVE  /\ Stored(t, m, proto) \in TxnType /\ Stored(t, m, proto).proto = proto
           /\ Stored(t, m, proto).timer = t.timer
           /\ Stored(t, m, proto).st = t.st /\ (Stored(t, m, proto).pool <=> t.pool)
           /\ Stored(t, m, proto).expired = t.expired
BY DEF Stored, TxnType

LEMMA StateFacts ==
    ASSUME NEW t \in TxnType, NEW s \in States
    PROVE  LET u == [t EXCEPT !.st = s]
           IN  /\ u \in TxnType /\ u.st = s /\ u.timer = t.timer /\ (u.pool <=> t.pool)
               /\ u.expired = t.expired /\ u.proto = t.proto /\ (u.ctx <=> t.ctx)
BY DEF TxnType

Counted(t, r, e) == [t EXCEPT !.retx = r, !.expired = e]

LEMMA CountFacts ==
    ASSUME NEW t \in TxnType, NEW r \in Nat, NEW e \in Nat
    PROVE  /\ Counted(t, r, e) \in TxnType /\ Counted(t, r, e).st = t.st
           /\ Counted(t, r, e).timer = t.timer /\ (Counted(t, r, e).pool <=> t.pool)
           /\ Counted(t, r, e).expired = e /\ Counted(t, r, e).proto = t.proto
           /\ (Counted(t, r, e).ctx <=> t.ctx)
BY DEF TxnType, Counted

LEMMA HistFacts ==
    ASSUME NEW h \in HistType
    PROVE  /\ TellFinal(h) \in HistType /\ TellFinal(h).finals = h.finals + 1
           /\ TellFinal(h).expired = h.expired /\ TellFinal(h).ended = h.ended
           /\ TellFinal(h).clock = h.clock
           /\ TellEnd(h) \in HistType /\ TellEnd(h).ended = h.ended + 1
           /\ TellEnd(h).expired = h.expired /\ TellEnd(h).finals = h.finals
           /\ TellEnd(h).clock = h.clock
BY DEF HistType, TellFinal, TellEnd

LEMMA TickFacts ==
    ASSUME NEW h \in HistType, txn.timer.dur \in Nat
    PROVE  /\ Tick(h) \in HistType /\ Tick(h).finals = h.finals /\ Tick(h).ended = h.ended
           /\ Tick(h).expired = h.expired /\ Tick(h).clock = h.clock + txn.timer.dur
<1>1. h.clock + txn.timer.dur \in Nat
  BY DEF HistType
<1>2. Tick(h) = [h EXCEPT !.clock = h.clock + txn.timer.dur]
  BY DEF Tick
<1>. QED  BY <1>1, <1>2 DEF HistType

LEMMA ExpiryFacts ==
    ASSUME NEW h \in HistType
    PROVE  /\ TellExpiry(h) \in HistType /\ TellExpiry(h).finals = h.finals
           /\ TellExpiry(h).expired = h.expired + (IF txn.ctx THEN 1 ELSE 0)
           /\ TellExpiry(h).ended = h.ended + 1 /\ TellExpiry(h).clock = h.clock
<1>. DEFINE e == h.expired + (IF txn.ctx THEN 1 ELSE 0)
            n == h.ended + 1
<1>1. e \in Nat /\ n \in Nat
  BY DEF HistType
<1>2. TellExpiry(h) = [h EXCEPT !.expired = e, !.ended = n]
  BY DEF TellExpiry
<1>. HIDE DEF e, n
<1>3. /\ TellExpiry(h) \in HistType /\ TellExpiry(h).finals = h.finals
      /\ TellExpiry(h).expired = e /\ TellExpiry(h).ended = n /\ TellExpiry(h).clock = h.clock
  BY <1>1, <1>2 DEF HistType
<1>. QED  BY <1>3 DEF e, n

LEMMA ProvFacts ==
    ASSUME NEW h \in HistType, NEW m, m.tag \in Tags, m.rseq \in 0..MaxRSeq
    PROVE  /\ TellProv(h, m) \in HistType /\ TellProv(h, m).finals = h.finals
           /\ TellProv(h, m).expired = h.expired /\ TellProv(h, m).ended = h.ended
           /\ TellProv(h, m).clock = h.clock
<1>1. [h.upto EXCEPT ![m.tag] = m.rseq] \in [Tags -> 0..MaxRSeq]
  BY DEF HistType
<1>. DEFINE u == [h.upto EXCEPT ![m.tag] = m.rseq]
            d == h.disorder \/ h.upto[m.tag] \notin {0, m.rseq - 1}
<1>2. d \in BOOLEAN
  BY DEF HistType
<1>3. TellProv(h, m) = [h EXCEPT !.upto = u, !.disorder = d]
  BY DEF TellProv
<1>. HIDE DEF u, d
<1>. QED  BY <1>1, <1>2, <1>3 DEF HistType, u

-----------------------------------------------------------------------------
(***************************************************************************)
(* A step that ends the transaction, by anything but a timeout report.      *)
(***************************************************************************)
LEMMA Ending ==
    ASSUME TypeOK, Told, Wired, Timed, TypeOK', Udp' <=> Udp,
           ~txn'.pool, txn'.st # "IDLE", Udp => txn'.proto # "TCP",
           txn.pool \/ txn.st = "IDLE",
           hist'.expired = hist.expired, hist'.ended = hist.ended + 1,
           hist'.finals + hist'.expired <= 1
    PROVE  IInv'
<1>1. hist.expired = 0 /\ hist.ended = 0
  BY DEF Told, EndNotifiedOnce
<1>2. Told'
  BY <1>1 DEF Told, EndNotifiedOnce, OneOutcome
<1>3. Wired'
  BY DEF Wired, TimerHasHandler
<1>4. Timed'
  BY <1>1 DEF Timed, Chained, GiveUpAtLimit
<1>. QED  BY <1>2, <1>3, <1>4 DEF IInv

(***************************************************************************)
(* A step after which the transaction stays, out of CALLING or untimed.     *)
(***************************************************************************)
LEMMA Staying ==
    ASSUME TypeOK, Told, Wired, Timed, TypeOK', Udp' <=> Udp, txn.pool, txn'.pool,
           txn'.st # "IDLE", txn'.proto = txn.proto, txn'.ctx = txn.ctx,
           txn'.timer.type \in {"none", "D"}, txn'.timer.type = "D" => txn'.st = "COMPLETED",
           hist'.expired = hist.expired, hist'.ended = hist.ended,
           \/ hist'.finals = hist.finals /\ txn'.st = txn.st
           \/ hist'.finals = hist.finals /\ txn.st \in {"CALLING", "PROCEEDING"}
           \/ /\ hist'.finals = hist.finals + 1
              /\ txn.st \in {"CALLING", "PROCEEDING"} /\ txn'.st \in {"COMPLETED", "TERMINATED"}
    PROVE  IInv'
<1>0. txn \in TxnType /\ hist \in HistType /\ hist' \in HistType
  BY DEF TypeOK
<1>1. hist.expired = 0 /\ hist.ended = 0
  BY <1>0 DEF Told, EndNotifiedOnce
<1>2. Told'
  BY <1>0, <1>1 DEF Told, EndNotifiedOnce, OneOutcome, HistType
<1>3. Wired'
  BY DEF Wired, TimerHasHandler
<1>4. Timed'
  BY <1>1 DEF Timed, Chained, GiveUpAtLimit
<1>. QED  BY <1>2, <1>3, <1>4 DEF IInv

-----------------------------------------------------------------------------
\* The environment is rigid: no operation touches it.
LEMMA EnvKept == [Next]_vars => env' = env
BY DEF Next, Local, TimerFires, Receive, vars, SendInvite, TimerAFires, TimerBFires, TimerDFires,
   Recv1xxCalling, Recv1xxProceeding, Recv2xx, RecvFailureUnhandled, RecvFailureAckLost,
   RecvFailureUdp, RecvFailureTcp, RecvFailureAgain, FallBackToUdp, TransportError, Abort

LEMMA Inductive == IInv /\ [Next]_vars => IInv'
<1>. SUFFICES ASSUME IInv, [Next]_vars PROVE IInv'
  OBVIOUS
<1>0. TypeOK /\ Told /\ Wired /\ Timed
  BY DEF IInv
<1>8. env' = env /\ env \in Envs
  BY <1>0, EnvKept DEF TypeOK
<1>9. (Udp' <=> Udp) /\ Udp \in BOOLEAN
  BY <1>8 DEF Udp, Environment
<1>. USE <1>8, <1>9
<1>1. /\ txn \in TxnType /\ hist \in HistType /\ keys \in Seq(Key) /\ net \subseteq Message
      /\ hist.finals \in Nat /\ hist.expired \in Nat /\ hist.ended \in Nat /\ hist.clock \in Nat
  BY <1>0 DEF TypeOK, HistType
<1>2. /\ txn.st \in States /\ txn.expired \in Nat /\ txn.sent \in Message /\ txn.proto \in Protocols
      /\ txn.timer.dur \in Nat /\ txn.timer.type \in TimerTypes
  BY <1>1 DEF TxnType, Timer
<1>3. Stop(txn) \in TxnType /\ AtFinal \in TxnType /\ NoTimer.type = "none"
  BY <1>1, StopFacts DEF AtFinal, NoTimer
<1>4. /\ AtFinal.st = txn.st /\ (AtFinal.pool <=> txn.pool) /\ AtFinal.proto = txn.proto
      /\ AtFinal.ctx = txn.ctx
  BY <1>1, StopFacts DEF AtFinal, TxnType
<1>5. KeysAfterFinal \in Seq(Key)
  BY <1>1, EmptySeq DEF KeysAfterFinal
<1>6. txn.pool => hist.expired = 0 /\ hist.ended = 0
  BY <1>0 DEF Told, EndNotifiedOnce
<1>7. AwaitsFinal => txn.pool /\ hist.finals = 0 /\ txn.st # "IDLE"
  BY <1>0 DEF AwaitsFinal, Told

<1>a. ASSUME SendInvite PROVE IInv'
  <2>. DEFINE type == IF Udp THEN "A" ELSE "B"
              dur == IF Udp THEN T1 ELSE TLimit
              i == [txn EXCEPT !.st = "CALLING", !.pool = TRUE]
              t == Start(i, type, dur)
  <2>1. /\ txn.st = "IDLE" /\ keys' = keys
        /\ \/ txn' = Stop(Removed(t)) /\ hist' = TellEnd(hist) /\ net' = net
           \/ txn' = [t EXCEPT !.ctx = FALSE] /\ net' = net /\ hist' = hist
           \/ /\ txn' = Stored(t, Plain("INVITE"), FirstProto)
              /\ net' = net \cup {Plain("INVITE")} /\ hist' = hist
    BY <1>a DEF SendInvite
  <2>2. type \in TimerTypes /\ dur \in Nat
    BY DEF TimerTypes
  <2>3. /\ hist.finals = 0 /\ hist.expired = 0 /\ hist.ended = 0 /\ hist.clock = 0
        /\ txn.expired = 0 /\ txn.proto = "NONE"
    BY <1>0, <2>1 DEF Told, Wired, EndNotifiedOnce
  <2>4. /\ i \in TxnType /\ i.st = "CALLING" /\ i.pool /\ i.expired = 0 /\ i.proto = "NONE"
    BY <1>1, <2>3 DEF TxnType, States
  <2>. HIDE DEF i
  <2>5. /\ t \in TxnType /\ t.st = "CALLING" /\ t.pool /\ t.expired = 0 /\ t.proto = "NONE"
        /\ t.timer.type = type /\ t.timer.dur = dur
    BY <2>2, <2>4, StartFacts
  <2>. HIDE DEF t
  <2>6. CASE txn' = Stop(Removed(t)) /\ hist' = TellEnd(hist) /\ net' = net
    <3>1. txn' \in TxnType /\ ~txn'.pool /\ txn'.st = "CALLING" /\ txn'.proto = "NONE"
      BY <2>5, <2>6, RemovedFacts, StopFacts
    <3>2. TypeOK'
      BY <1>1, <2>1, <2>6, <3>1, HistFacts DEF TypeOK
    <3>. QED
      BY <1>0, <1>1, <2>1, <2>3, <2>6, <3>1, <3>2, HistFacts, Ending
  <2>7. CASE \/ txn' = [t EXCEPT !.ctx = FALSE] /\ net' = net /\ hist' = hist
             \/ /\ txn' = Stored(t, Plain("INVITE"), FirstProto)
                /\ net' = net \cup {Plain("INVITE")} /\ hist' = hist
    <3>1. /\ txn' \in TxnType /\ txn'.pool /\ txn'.st = "CALLING" /\ txn'.expired = 0
          /\ txn'.timer.type = type /\ txn'.timer.dur = dur
          /\ txn'.proto \in {"NONE", FirstProto} /\ (txn'.ctx => txn'.proto # "NONE")
      <4>1. CASE txn' = [t EXCEPT !.ctx = FALSE]
        BY <2>5, <4>1 DEF TxnType
      <4>2. CASE txn' = Stored(t, Plain("INVITE"), FirstProto)
        <5>1. FirstProto \in Protocols /\ FirstProto # "NONE"
          BY DEF FirstProto, Protocols
        <5>. HIDE DEF type, dur
        <5>. QED  BY <2>5, <4>2, <5>1, PlainType, StoredFacts
      <4>. QED  BY <2>7, <4>1, <4>2
    <3>2. TypeOK'
      BY <1>1, <2>1, <2>7, <3>1, PlainType DEF TypeOK
    <3>3. Told'
      BY <2>3, <2>7, <3>1 DEF Told, OneOutcome, EndNotifiedOnce
    <3>4. Wired'
      BY <2>7, <3>1 DEF Wired, TimerHasHandler, FirstProto
    <3>5. Timed'
      BY <2>3, <2>7, <3>1 DEF Timed, Chained, GiveUpAtLimit
    <3>. QED  BY <3>2, <3>3, <3>4, <3>5 DEF IInv
  <2>. QED  BY <2>1, <2>6, <2>7
<1>b. ASSUME TimerAFires PROVE IInv'
  <2>. DEFINE dur == NextInterval(txn)
              t == [Stop(txn) EXCEPT !.expired = ExpiredAt(txn)]
              a == [Start(t, "A", dur) EXCEPT !.retx = @ + 1, !.expired = @ + dur]
  <2>1. /\ txn.pool /\ txn.st = "CALLING" /\ txn.timer.type \in {"A", "B"} /\ ~GivesUp(txn)
        /\ dur > 0 /\ hist' = Tick(hist) /\ keys' = keys
        /\ \E started, sent \in BOOLEAN : /\ txn' = IF started THEN a ELSE t
                                          /\ Resend(txn, sent)
    BY <1>b DEF TimerAFires, Outcome
  <2>2. /\ txn.retx \in Nat /\ ExpiredAt(txn) \in Nat \ {0} /\ ExpiredAt(txn) < TLimit
        /\ txn.proto = "UDP"
    BY <1>1, <1>2, <2>1 DEF ExpiredAt, GivesUp, TxnType
  <2>3. dur \in Int /\ dur <= TLimit - ExpiredAt(txn)
    <3>1. 2^(txn.retx + 1) \in Int
      BY <2>2
    <3>2. 2^(txn.retx + 1) * T1 \in Int
      BY <3>1
    <3>. QED  BY <2>2, <3>2 DEF NextInterval, Capped
  <2>. HIDE DEF dur
  <2>4. /\ t \in TxnType /\ t.st = "CALLING" /\ t.pool /\ t.timer.type = "none" /\ t.proto = "UDP"
        /\ t.ctx = txn.ctx /\ t.expired = ExpiredAt(txn)
    BY <1>1, <1>3, <2>1, <2>2, StopFacts DEF TxnType
  <2>. HIDE DEF t
  <2>5. /\ a \in TxnType /\ a.st = "CALLING" /\ a.pool /\ a.timer.type = "A" /\ a.timer.dur = dur
        /\ a.proto = "UDP" /\ a.ctx = txn.ctx /\ a.expired = ExpiredAt(txn) + dur
    <3>. DEFINE s == Start(t, "A", dur)
    <3>1. /\ s \in TxnType /\ s.st = "CALLING" /\ s.pool /\ s.timer.type = "A" /\ s.timer.dur = dur
          /\ s.proto = "UDP" /\ s.ctx = txn.ctx /\ s.expired = ExpiredAt(txn)
      BY <2>1, <2>3, <2>4, StartFacts DEF TimerTypes, TxnType
    <3>. HIDE DEF s
    <3>. DEFINE r == s.retx + 1
                e == s.expired + dur
    <3>2. r \in Nat
      BY <3>1 DEF TxnType
    <3>3. e \in Nat
      BY <2>1, <2>2, <2>3, <3>1
    <3>4. a = Counted(s, r, e)
      BY DEF s, Counted
    <3>. HIDE DEF a, r, e
    <3>5. /\ a \in TxnType /\ a.st = s.st /\ (a.pool <=> s.pool) /\ a.timer = s.timer
          /\ a.proto = s.proto /\ (a.ctx <=> s.ctx) /\ a.expired = e
      BY <3>1, <3>2, <3>3, <3>4, CountFacts
    <3>. QED  BY <3>1, <3>5 DEF TxnType, e
  <2>. HIDE DEF a
  <2>6. /\ hist' \in HistType /\ hist'.finals = hist.finals /\ hist'.expired = hist.expired
        /\ hist'.ended = hist.ended /\ hist'.clock = hist.clock + txn.timer.dur
    BY <1>1, <1>2, <2>1, TickFacts
  <2>7. txn' \in TxnType /\ txn'.st = "CALLING" /\ txn'.pool /\ txn'.proto = "UDP"
        /\ txn'.timer.type \in {"none", "A"}
    BY <2>1, <2>4, <2>5
  <2>8. TypeOK'
    <3>1. net' \subseteq Message
      BY <1>1, <1>2, <2>1 DEF Resend
    <3>. QED  BY <1>1, <2>1, <2>6, <2>7, <3>1 DEF TypeOK
  <2>9. Told' /\ Wired'
    BY <1>0, <1>6, <2>1, <2>6, <2>7 DEF Told, OneOutcome, EndNotifiedOnce, Wired, TimerHasHandler
  <2>10. hist.clock + txn.timer.dur = ExpiredAt(txn) + Offset
    BY <1>0, <1>2, <2>1, <2>2 DEF Timed, Chained, ExpiredAt, Offset, Wired
  <2>11. Chained'
    <3>1. CASE txn' = t
      BY <2>4, <3>1 DEF Chained
    <3>2. CASE txn' = a
      <4>1. hist'.clock + dur = ExpiredAt(txn) + dur + Offset /\ ExpiredAt(txn) + dur <= TLimit
        BY <1>1, <1>2, <2>2, <2>3, <2>6, <2>10 DEF Offset
      <4>2. ExpiredAt(txn) + dur # 0
        BY <2>1, <2>2, <2>3
      <4>3. /\ txn'.expired = ExpiredAt(txn) + dur /\ txn'.timer.dur = dur /\ txn'.proto = "UDP"
            /\ Offset' = Offset
        BY <2>5, <3>2 DEF Offset
      <4>. QED  BY <4>1, <4>2, <4>3 DEF Chained
    <3>. QED  BY <2>1, <3>1, <3>2
  <2>12. GiveUpAtLimit'
    BY <1>6, <2>1, <2>6 DEF GiveUpAtLimit
  <2>. QED  BY <2>8, <2>9, <2>11, <2>12 DEF IInv, Timed
<1>c. ASSUME TimerBFires PROVE IInv'
  <2>. DEFINE t == [Stop(txn) EXCEPT !.st = "TERMINATED", !.expired = ExpiredAt(txn)]
  <2>1. /\ txn.pool /\ txn.st = "CALLING" /\ txn.timer.type \in {"A", "B"} /\ GivesUp(txn)
        /\ txn' = Removed(t) /\ hist' = TellExpiry(Tick(hist)) /\ keys' = keys /\ net' = net
    BY <1>c DEF TimerBFires
  <2>2. t \in TxnType /\ t.st = "TERMINATED" /\ t.proto = txn.proto
    BY <1>2, <1>3, <1>1, StopFacts DEF TxnType, States, ExpiredAt
  <2>. HIDE DEF t
  <2>3. /\ txn' \in TxnType /\ txn'.st = "TERMINATED" /\ txn'.proto = txn.proto /\ ~txn'.pool
    BY <2>1, <2>2, RemovedFacts
  <2>4. /\ hist' \in HistType /\ hist'.finals = hist.finals
        /\ hist'.expired = hist.expired + (IF txn.ctx THEN 1 ELSE 0)
        /\ hist'.ended = hist.ended + 1 /\ hist'.clock = hist.clock + txn.timer.dur
    <3>. DEFINE h == Tick(hist)
    <3>1. /\ h \in HistType /\ h.finals = hist.finals /\ h.expired = hist.expired
          /\ h.ended = hist.ended /\ h.clock = hist.clock + txn.timer.dur
      BY <1>1, <1>2, TickFacts
    <3>2. hist' = TellExpiry(h)
      BY <2>1
    <3>. HIDE DEF h
    <3>. QED  BY <3>1, <3>2, ExpiryFacts
  <2>5. TypeOK'
    BY <1>1, <2>1, <2>3, <2>4 DEF TypeOK
  <2>6. hist.finals = 0 /\ hist.expired = 0 /\ hist.ended = 0
    BY <1>0, <1>6, <2>1 DEF Told
  <2>7. Told' /\ Wired'
    BY <1>0, <2>1, <2>3, <2>4, <2>6 DEF Told, OneOutcome, EndNotifiedOnce, Wired, TimerHasHandler
  <2>8. Chained'
    BY <2>3 DEF Chained
  <2>9. GiveUpAtLimit'
    <3>. SUFFICES ASSUME txn.ctx PROVE hist'.clock = IF FellBack' THEN 2 * TLimit - T1 ELSE TLimit
      BY <2>4, <2>6 DEF GiveUpAtLimit
    <3>1. FellBack' <=> FellBack
      BY <2>3 DEF FellBack
    <3>2. txn.proto \in {"UDP", "TCP"} /\ (Udp => txn.proto = "UDP")
      BY <1>0, <1>2, <2>1 DEF Wired, Protocols
    <3>3. CASE txn.expired = 0
      <4>1. hist.clock = 0 /\ txn.timer.dur = (IF Udp THEN T1 ELSE TLimit)
        BY <1>0, <2>1, <3>3 DEF Timed, Chained
      <4>2. txn.proto = "TCP"
        BY <2>1, <3>2, <3>3 DEF GivesUp, ExpiredAt
      <4>. QED  BY <2>4, <3>1, <3>2, <4>1, <4>2 DEF FellBack
    <3>4. CASE txn.expired # 0
      <4>1. /\ hist.clock + txn.timer.dur = txn.expired + Offset /\ txn.expired <= TLimit
            /\ txn.proto = "UDP"
        BY <1>0, <2>1, <3>2, <3>4 DEF Timed, Chained
      <4>2. txn.expired = TLimit
        BY <1>2, <2>1, <3>4, <4>1 DEF GivesUp, ExpiredAt
      <4>. QED  BY <2>4, <3>1, <4>1, <4>2 DEF FellBack, Offset
    <3>. QED  BY <3>3, <3>4
  <2>. QED  BY <2>5, <2>7, <2>8, <2>9 DEF IInv, Timed
<1>d. ASSUME TimerDFires PROVE IInv'
  <2>. DEFINE t == [Stop(txn) EXCEPT !.st = "TERMINATED"]
  <2>0. Stop(txn) \in TxnType /\ Stop(txn).proto = txn.proto /\ "TERMINATED" \in States
    BY <1>1, StopFacts DEF States
  <2>1. t \in TxnType /\ t.st = "TERMINATED" /\ t.proto = txn.proto
    BY <2>0, StateFacts
  <2>2. txn' = Removed(t) /\ hist' = TellEnd(hist) /\ keys' = keys /\ net' = net /\ txn.pool
    BY <1>d DEF TimerDFires
  <2>. HIDE DEF t
  <2>3. TypeOK'
    BY <1>1, <2>1, <2>2, RemovedFacts, HistFacts DEF TypeOK
  <2>. QED
    BY <1>0, <1>1, <2>1, <2>2, <2>3, RemovedFacts, HistFacts, Ending DEF Told, OneOutcome, Wired
<1>e. ASSUME NEW m \in Provisional, Recv1xxCalling(m) PROVE IInv'
  <2>. DEFINE t == [Stop(txn) EXCEPT !.st = "PROCEEDING"]
  <2>1. /\ t \in TxnType /\ t.st = "PROCEEDING" /\ t.proto = txn.proto /\ t.ctx = txn.ctx
        /\ t.timer.type = "none" /\ (t.pool <=> txn.pool)
    BY <1>1, <1>3, StopFacts, StateFacts DEF States, TxnType
  <2>2. txn' = t /\ net' = net /\ txn.pool /\ txn.st = "CALLING"
    BY <1>e DEF Recv1xxCalling
  <2>. HIDE DEF t
  <2>3. m.rseq # 0 => m.tag \in Tags /\ m.rseq \in 0..MaxRSeq
    BY <1>e DEF Provisional, Reliable, Plain, Msg
  <2>4. keys' \in Seq(Key)
    BY <1>e, <1>1, <2>3, AddTxnKeyType DEF Recv1xxCalling
  <2>5. /\ hist' \in HistType /\ hist'.finals = hist.finals /\ hist'.expired = hist.expired
        /\ hist'.ended = hist.ended
    BY <1>e, <1>1, <2>3, ProvFacts DEF Recv1xxCalling
  <2>6. TypeOK'
    BY <1>1, <2>1, <2>2, <2>4, <2>5 DEF TypeOK
  <2>. QED
    BY <1>0, <2>1, <2>2, <2>5, <2>6, Staying
<1>f. ASSUME NEW m \in Provisional, Recv1xxProceeding(m) PROVE IInv'
  <2>1. txn' = txn /\ net' = net /\ txn.pool /\ txn.st = "PROCEEDING" /\ m.rseq # 0
    BY <1>f DEF Recv1xxProceeding, Rings
  <2>2. m.tag \in Tags /\ m.rseq \in 0..MaxRSeq
    BY <2>1 DEF Provisional, Reliable, Plain, Msg
  <2>3. keys' \in Seq(Key)
    BY <1>f, <1>1, <2>2, AddTxnKeyType, SetRSeqType DEF Recv1xxProceeding
  <2>4. hist' = TellProv(hist, m)
    BY <1>f DEF Recv1xxProceeding
  <2>5. /\ hist' \in HistType /\ hist'.finals = hist.finals /\ hist'.expired = hist.expired
        /\ hist'.ended = hist.ended
    BY <1>1, <2>2, <2>4, ProvFacts
  <2>6. TypeOK'
    BY <1>1, <2>1, <2>3, <2>5 DEF TypeOK
  <2>7. txn.timer.type = "none"
    BY <1>0, <2>1 DEF Wired, TimerHasHandler
  <2>. QED
    BY <1>0, <2>1, <2>5, <2>6, <2>7, Staying
<1>g. ASSUME Recv2xx PROVE IInv'
  <2>. DEFINE t == [AtFinal EXCEPT !.st = "TERMINATED"]
  <2>1. t \in TxnType /\ t.st = "TERMINATED" /\ t.proto = txn.proto
    BY <1>3, <1>4, StateFacts DEF States
  <2>2. /\ txn' = Removed(t) /\ hist' = TellEnd(TellFinal(hist)) /\ keys' = KeysAfterFinal
        /\ net' = net /\ AwaitsFinal
    BY <1>g DEF Recv2xx
  <2>. HIDE DEF t
  <2>3. /\ hist' \in HistType /\ hist'.finals = hist.finals + 1 /\ hist'.expired = hist.expired
        /\ hist'.ended = hist.ended + 1
    BY <1>1, <2>2, HistFacts
  <2>4. TypeOK'
    BY <1>1, <1>5, <2>1, <2>2, <2>3, RemovedFacts DEF TypeOK
  <2>. QED
    BY <1>0, <1>6, <1>7, <2>1, <2>2, <2>3, <2>4, RemovedFacts, Ending DEF Wired
<1>h. ASSUME RecvFailureUnhandled PROVE IInv'
  <2>1. txn' = AtFinal /\ hist' = hist /\ keys' = KeysAfterFinal /\ net' = net /\ AwaitsFinal
    BY <1>h DEF RecvFailureUnhandled
  <2>2. TypeOK'
    BY <1>1, <1>3, <1>5, <2>1 DEF TypeOK
  <2>3. AtFinal.timer.type = "none"
    BY <1>0, <1>1, <1>3, <2>1, StopFacts DEF AtFinal, AwaitsFinal, Wired, TimerHasHandler
  <2>4. /\ txn.pool /\ txn'.pool /\ txn'.st = txn.st /\ txn'.st # "IDLE" /\ txn'.proto = txn.proto
        /\ txn'.ctx = txn.ctx /\ txn'.timer.type = "none"
    BY <1>4, <1>7, <2>1, <2>3
  <2>. QED
    BY <1>0, <2>1, <2>2, <2>4, Staying
<1>i. ASSUME RecvFailureAckLost PROVE IInv'
  <2>. DEFINE s == IF txn.proto = "UDP" THEN "COMPLETED" ELSE "TERMINATED"
              t == [AtFinal EXCEPT !.st = s]
  <2>0. s \in States /\ s # "IDLE"
    BY DEF States
  <2>. HIDE DEF s
  <2>1. t \in TxnType /\ t.st # "IDLE" /\ t.proto = txn.proto
    BY <1>3, <1>4, <2>0, StateFacts
  <2>2. /\ txn' = Removed(t) /\ hist' = TellEnd(TellFinal(hist)) /\ keys' = KeysAfterFinal
        /\ net' = net /\ AwaitsFinal
    BY <1>i DEF RecvFailureAckLost, s
  <2>. HIDE DEF t
  <2>3. /\ hist' \in HistType /\ hist'.finals = hist.finals + 1 /\ hist'.expired = hist.expired
        /\ hist'.ended = hist.ended + 1
    BY <1>1, <2>2, HistFacts
  <2>4. TypeOK'
    BY <1>1, <1>5, <2>1, <2>2, <2>3, RemovedFacts DEF TypeOK
  <2>. QED
    BY <1>0, <1>6, <1>7, <2>1, <2>2, <2>3, <2>4, RemovedFacts, Ending DEF Wired
<1>j. ASSUME RecvFailureUdp PROVE IInv'
  <2>. DEFINE t == Linger(AtFinal)
  <2>1. /\ t \in TxnType /\ t.st = "COMPLETED" /\ t.timer.type = "D" /\ (t.pool <=> txn.pool)
        /\ t.proto = txn.proto /\ t.ctx = txn.ctx
    BY <1>3, <1>4, StateFacts, StartFacts, TWaitAssumption DEF Linger, States, TimerTypes, TxnType
  <2>2. /\ AwaitsFinal /\ hist' = TellFinal(hist) /\ keys' = KeysAfterFinal
        /\ \E sent \in BOOLEAN : /\ txn' = IF sent THEN AckStored(t) ELSE t
                                 /\ net' = IF sent THEN net \cup {Plain("ACK")} ELSE net
    BY <1>j DEF RecvFailureUdp, Outcome
  <2>. HIDE DEF t
  <2>3. /\ AckStored(t) \in TxnType /\ AckStored(t).st = t.st /\ AckStored(t).timer = t.timer
        /\ (AckStored(t).pool <=> t.pool) /\ AckStored(t).proto = t.proto
        /\ AckStored(t).ctx = t.ctx
    BY <1>2, <2>1, PlainType, StoredFacts DEF AckStored, Stored, TxnType
  <2>4. /\ txn' \in TxnType /\ txn'.st = "COMPLETED" /\ txn'.timer.type = "D" /\ txn'.pool
        /\ txn'.proto = txn.proto /\ txn'.ctx = txn.ctx /\ net' \subseteq Message
    BY <1>1, <1>7, <2>1, <2>2, <2>3, PlainType
  <2>5. /\ hist' \in HistType /\ hist'.finals = hist.finals + 1 /\ hist'.expired = hist.expired
        /\ hist'.ended = hist.ended
    BY <1>1, <2>2, HistFacts
  <2>6. TypeOK'
    BY <1>5, <2>2, <2>4, <2>5 DEF TypeOK
  <2>. QED
    BY <1>0, <1>7, <2>2, <2>4, <2>5, <2>6, Staying DEF AwaitsFinal
<1>k. ASSUME RecvFailureTcp PROVE IInv'
  <2>. DEFINE t == [AtFinal EXCEPT !.st = "TERMINATED"]
  <2>1. /\ t \in TxnType /\ t.st = "TERMINATED" /\ t.proto = txn.proto /\ (t.pool <=> txn.pool)
        /\ t.ctx = txn.ctx /\ t.timer = AtFinal.timer
    BY <1>3, <1>4, StateFacts DEF States, TxnType
  <2>2. /\ AwaitsFinal /\ keys' = KeysAfterFinal
        /\ \/ /\ txn' = Removed(AckStored(t))
              /\ net' = net \cup {Plain("ACK")}
              /\ hist' = TellEnd(TellFinal(hist))
           \/ txn' = t /\ net' = net /\ hist' = TellFinal(hist)
    BY <1>k DEF RecvFailureTcp
  <2>. HIDE DEF t
  <2>3. AckStored(t) \in TxnType /\ AckStored(t).st = t.st /\ AckStored(t).proto = t.proto
    BY <1>2, <2>1, PlainType, StoredFacts DEF AckStored
  <2>4. CASE txn' = t /\ net' = net /\ hist' = TellFinal(hist)
    <3>1. TypeOK'
      BY <1>1, <1>5, <2>1, <2>2, <2>4, HistFacts DEF TypeOK
    <3>2. AtFinal.timer.type = "none"
      BY <1>0, <1>1, <1>3, <2>2, StopFacts DEF AtFinal, AwaitsFinal, Wired, TimerHasHandler
    <3>. QED
      BY <1>0, <1>1, <1>7, <2>1, <2>2, <2>4, <3>1, <3>2, HistFacts, Staying DEF AwaitsFinal
  <2>5. CASE /\ txn' = Removed(AckStored(t)) /\ net' = net \cup {Plain("ACK")}
             /\ hist' = TellEnd(TellFinal(hist))
    <3>1. /\ hist' \in HistType /\ hist'.finals = hist.finals + 1 /\ hist'.expired = hist.expired
          /\ hist'.ended = hist.ended + 1
      BY <1>1, <2>5, HistFacts
    <3>2. TypeOK'
      BY <1>1, <1>5, <2>2, <2>3, <2>5, <3>1, RemovedFacts, PlainType DEF TypeOK
    <3>. QED
      BY <1>0, <1>6, <1>7, <2>1, <2>2, <2>3, <2>5, <3>1, <3>2, RemovedFacts, Ending DEF Wired
  <2>. QED  BY <2>2, <2>4, <2>5
<1>l. ASSUME RecvFailureAgain PROVE IInv'
  <2>1. txn' = txn /\ keys' = keys /\ hist' = hist /\ txn.pool /\ txn.st = "COMPLETED"
    BY <1>l DEF RecvFailureAgain
  <2>2. net' \subseteq Message
    BY <1>l, <1>1, <1>2 DEF RecvFailureAgain, Resend
  <2>3. TypeOK'
    BY <1>1, <2>1, <2>2 DEF TypeOK
  <2>4. txn.timer.type \in {"none", "D"}
    BY <1>0, <2>1 DEF Wired, TimerHasHandler
  <2>. QED
    BY <1>0, <2>1, <2>3, <2>4, Staying
<1>m. ASSUME FallBackToUdp PROVE IInv'
  <2>1. /\ txn.pool /\ txn.proto = "TCP" /\ txn' = [txn EXCEPT !.proto = "UDP"]
        /\ net' = net \cup {txn.sent} /\ keys' = keys /\ hist' = hist
    BY <1>m DEF FallBackToUdp
  <2>2. /\ txn' \in TxnType /\ txn'.st = txn.st /\ (txn'.pool <=> txn.pool) /\ txn'.timer = txn.timer
        /\ txn'.expired = txn.expired /\ txn'.proto = "UDP"
    BY <1>1, <2>1 DEF TxnType, Protocols
  <2>3. TypeOK'
    BY <1>1, <1>2, <2>1, <2>2 DEF TypeOK
  <2>4. Told'
    BY <1>0, <2>1, <2>2 DEF Told, OneOutcome, EndNotifiedOnce
  <2>5. Wired'
    BY <1>0, <2>1, <2>2 DEF Wired, TimerHasHandler, Told
  <2>6. Timed'
    BY <1>0, <1>6, <2>1, <2>2 DEF Timed, Chained, GiveUpAtLimit
  <2>. QED  BY <2>3, <2>4, <2>5, <2>6 DEF IInv
<1>n. ASSUME TransportError PROVE IInv'
  <2>. DEFINE s == IF txn.st = "PROCEEDING" THEN txn ELSE Stop(txn)
              t == [s EXCEPT !.st = "TERMINATED", !.proto = "UDP"]
  <2>1. s \in TxnType
    BY <1>1, <1>3
  <2>. HIDE DEF s
  <2>2. t \in TxnType /\ t.st = "TERMINATED" /\ t.proto = "UDP"
    BY <2>1 DEF TxnType, States, Protocols
  <2>3. txn' = Removed(t) /\ hist' = TellEnd(hist) /\ keys' = keys /\ net' = net /\ txn.pool
    BY <1>n DEF TransportError, s
  <2>. HIDE DEF t
  <2>4. TypeOK'
    BY <1>1, <2>2, <2>3, RemovedFacts, HistFacts DEF TypeOK
  <2>. QED
    BY <1>0, <1>1, <2>2, <2>3, <2>4, RemovedFacts, HistFacts, Ending DEF Told, OneOutcome
<1>o. ASSUME Abort PROVE IInv'
  <2>1. txn' = Stop(Removed(txn)) /\ hist' = TellEnd(hist) /\ keys' = keys /\ net' = net /\ txn.pool
    BY <1>o DEF Abort
  <2>2. /\ txn' \in TxnType /\ ~txn'.pool /\ txn'.st = txn.st /\ txn'.proto = txn.proto
    BY <1>1, <2>1, RemovedFacts, StopFacts
  <2>3. TypeOK'
    BY <1>1, <2>1, <2>2, HistFacts DEF TypeOK
  <2>4. txn.st # "IDLE"
    BY <1>0, <2>1 DEF Told
  <2>. QED
    BY <1>0, <1>1, <2>1, <2>2, <2>3, <2>4, HistFacts, Ending DEF Told, OneOutcome, Wired
<1>p. CASE UNCHANGED vars
  BY <1>p, <1>0 DEF vars, IInv, TypeOK, Told, Wired, Timed, Chained, OneOutcome, EndNotifiedOnce,
     TimerHasHandler, GiveUpAtLimit, FellBack, Udp, Offset
<1>. QED
  BY <1>a, <1>b, <1>c, <1>d, <1>e, <1>f, <1>g, <1>h, <1>i, <1>j, <1>k, <1>l, <1>m, <1>n, <1>o, <1>p
  DEF Next, Local, TimerFires, Receive

-----------------------------------------------------------------------------
\* What ties the timer, the state and the protocol of the transaction, the time that
\* has passed and what its user was told together holds after every entry.
THEOREM Invariance == Spec => []IInv
BY Initial, Inductive, PTL DEF Spec

\* The object, the key list, the network and the history keep their types.
THEOREM TypeCorrect == Spec => []TypeOK
BY Invariance, PTL DEF IInv

\* A timeout is reported exactly when timer B is due, whatever the chain of
\* retransmissions (InvCliFsm_CallingStTimerA_B_TimeoutEvt).
THEOREM GiveUpTime == Spec => []GiveUpAtLimit
BY Invariance, PTL DEF IInv, Timed

\* The user hears of one outcome at most (OnRecvMessage, CbkTxnTimeout).
THEOREM SingleOutcome == Spec => []OneOutcome
BY Invariance, PTL DEF IInv, Told

\* The context of the user is freed once, when the transaction leaves the pool.
THEOREM SingleEnd == Spec => []EndNotifiedOnce
BY Invariance, PTL DEF IInv, Told

\* An armed timer always has a handler in the state it fires in.
THEOREM TimersHandled == Spec => []TimerHasHandler
BY Invariance, PTL DEF IInv, Wired

-----------------------------------------------------------------------------
\* Only a provisional response changes what the user has heard of provisionals.
LEMMA ProvisionalsKept ==
    ASSUME NEW h \in HistType
    PROVE  /\ TellFinal(h).upto = h.upto /\ (TellFinal(h).disorder <=> h.disorder)
           /\ TellEnd(h).upto = h.upto /\ (TellEnd(h).disorder <=> h.disorder)
           /\ Tick(h).upto = h.upto /\ (Tick(h).disorder <=> h.disorder)
           /\ TellExpiry(h).upto = h.upto /\ (TellExpiry(h).disorder <=> h.disorder)
BY DEF HistType, TellFinal, TellEnd, Tick, TellExpiry

LEMMA OthersTellNoProvisional ==
    ASSUME IInv, Next, \A m \in Provisional : ~Recv1xxCalling(m) /\ ~Recv1xxProceeding(m)
    PROVE  UNCHANGED <<hist.upto, hist.disorder>>
<1>1. hist \in HistType /\ txn.timer.dur \in Nat
  BY DEF IInv, TypeOK, TxnType, Timer
<1>2. \/ hist' = hist \/ hist' = TellEnd(hist) \/ hist' = Tick(hist)
      \/ hist' = TellExpiry(Tick(hist))
      \/ hist' = TellFinal(hist) \/ hist' = TellEnd(TellFinal(hist))
  BY DEF Next, Local, TimerFires, Receive, SendInvite, TimerAFires, TimerBFires,
     TimerDFires, Recv2xx, RecvFailureUnhandled, RecvFailureAckLost, RecvFailureUdp,
     RecvFailureTcp, RecvFailureAgain, FallBackToUdp, TransportError, Abort
<1>3. TellFinal(hist) \in HistType /\ Tick(hist) \in HistType
  BY <1>1, HistFacts, TickFacts
<1>4. hist' \in HistType
  BY <1>1, <1>2, <1>3, HistFacts, ExpiryFacts
<1>5. hist'.upto = hist.upto /\ (hist'.disorder <=> hist.disorder)
  BY <1>1, <1>2, <1>3, ProvisionalsKept
<1>6. hist.disorder \in BOOLEAN /\ hist'.disorder \in BOOLEAN
  BY <1>1, <1>4 DEF HistType
<1>. QED  BY <1>5, <1>6

\* After a final response no provisional response is passed up any more
\* (gpfSipInvClientTxnFsm has no entry for one in COMPLETED).
THEOREM NoLateProvisional == Spec => NoProvisionalAfterFinal
<1>1. ASSUME IInv, Next, hist.finals > 0
      PROVE  UNCHANGED <<hist.upto, hist.disorder>>
  <2>1. ~(txn.pool /\ txn.st \in {"CALLING", "PROCEEDING"})
    BY <1>1 DEF IInv, Told
  <2>2. \A m \in Provisional : ~Recv1xxCalling(m) /\ ~Recv1xxProceeding(m)
    BY <2>1 DEF Recv1xxCalling, Recv1xxProceeding, Rings
  <2>. QED  BY <1>1, <2>2, OthersTellNoProvisional
<1>2. IInv /\ [Next]_vars =>
        [hist.finals > 0 => UNCHANGED <<hist.upto, hist.disorder>>]_vars
  BY <1>1
<1>. QED  BY <1>2, Invariance, PTL DEF Spec, NoProvisionalAfterFinal

-----------------------------------------------------------------------------
(***************************************************************************)
(* Reliable provisional responses.  While the transaction rings, the key    *)
(* list holds one entry for each To tag that was passed up, with the RSeq      *)
(* passed up last; before, it is empty.                                     *)
(***************************************************************************)
NotAnsweredYet == txn.st = "IDLE" \/ (txn.pool /\ txn.st = "CALLING")

NoKeys(ks, upto) == ks = << >> /\ \A t \in Tags : upto[t] = 0

OneKeyPerTag(ks, upto) ==
    /\ \A i \in DOMAIN ks :
           ks[i].tag \in Tags /\ ks[i].rseq = upto[ks[i].tag] /\ ks[i].rseq # 0
    /\ \A i, j \in DOMAIN ks : ks[i].tag = ks[j].tag => i = j
    /\ \A t \in Tags : (\A i \in DOMAIN ks : ks[i].tag # t) => upto[t] = 0

Orderly == env.left = << >> /\ Faults \cap {"ack", "timer"} = {}

Tracked ==
    Orderly =>
        /\ ~hist.disorder
        /\ NotAnsweredYet => NoKeys(keys, hist.upto)
        /\ Rings => OneKeyPerTag(keys, hist.upto)

\* With one key per tag, the keys that match a To tag are the key of that tag.
LEMMA HitsOfTag ==
    ASSUME NEW ks, NEW upto, NEW tag \in Tags, OneKeyPerTag(ks, upto)
    PROVE  DialogHits(ks, tag) = {i \in DOMAIN ks : ks[i].tag = tag}
BY DEF DialogHits, TagMatch, OneKeyPerTag

\* A first key for a tag, with the RSeq that is passed up.
LEMMA KeyAdded ==
    ASSUME NEW ks \in Seq(Key), NEW upto \in [Tags -> 0..MaxRSeq],
           NEW tag \in Tags, NEW r \in 1..MaxRSeq,
           OneKeyPerTag(ks, upto), \A i \in DOMAIN ks : ks[i].tag # tag
    PROVE  upto[tag] = 0 /\ OneKeyPerTag(AddTxnKey(ks, tag, r), [upto EXCEPT ![tag] = r])
<1>. DEFINE k == [tag |-> tag, rseq |-> r]
            ls == Append(ks, k)
            up == [upto EXCEPT ![tag] = r]
<1>1. k \in Key /\ k.tag = tag /\ k.rseq = r
  BY DEF Key
<1>2. /\ DOMAIN ks = 1..Len(ks) /\ Len(ks) \in Nat
      /\ ls \in Seq(Key) /\ DOMAIN ls = 1..(Len(ks) + 1)
      /\ \A i \in 1..Len(ks) : ls[i] = ks[i]
      /\ ls[Len(ks) + 1] = k
  BY <1>1, AppendProperties, LenProperties
<1>3. up[tag] = r /\ \A t \in Tags : t # tag => up[t] = upto[t]
  OBVIOUS
<1>. HIDE DEF k, ls, up
<1>4. \A i \in DOMAIN ls : i = Len(ks) + 1 \/ i \in DOMAIN ks
  BY <1>2
<1>5. \A i \in DOMAIN ls : ls[i].tag \in Tags /\ ls[i].rseq = up[ls[i].tag] /\ ls[i].rseq # 0
  BY <1>1, <1>2, <1>3, <1>4 DEF OneKeyPerTag
<1>6. \A i, j \in DOMAIN ls : ls[i].tag = ls[j].tag => i = j
  BY <1>1, <1>2, <1>4 DEF OneKeyPerTag
<1>7. \A t \in Tags : (\A i \in DOMAIN ls : ls[i].tag # t) => up[t] = 0
  BY <1>1, <1>2, <1>3 DEF OneKeyPerTag
<1>. QED  BY <1>5, <1>6, <1>7 DEF OneKeyPerTag, AddTxnKey, ls, k, up

\* The key of a tag, moved to the RSeq that follows.
LEMMA KeyMoved ==
    ASSUME NEW ks \in Seq(Key), NEW upto \in [Tags -> 0..MaxRSeq],
           NEW tag \in Tags, NEW r \in 1..MaxRSeq,
           OneKeyPerTag(ks, upto), DialogHits(ks, tag) # {},
           ks[First(DialogHits(ks, tag))].rseq + 1 = r
    PROVE  /\ upto[tag] = r - 1
           /\ OneKeyPerTag(SetRSeq(ks, First(DialogHits(ks, tag)), r), [upto EXCEPT ![tag] = r])
<1>0. PICK i \in DOMAIN ks : ks[i].tag = tag
  BY HitsOfTag
<1>1. DialogHits(ks, tag) = {i}
  BY <1>0, HitsOfTag DEF OneKeyPerTag
<1>2. DOMAIN ks = 1..Len(ks) /\ Len(ks) \in Nat
  BY LenProperties
<1>3. First(DialogHits(ks, tag)) = i
  BY <1>0, <1>1, <1>2 DEF First
<1>. DEFINE k == [tag |-> ks[i].tag, rseq |-> r]
            ls == [ks EXCEPT ![i] = k]
            up == [upto EXCEPT ![tag] = r]
<1>4. upto[tag] \in 0..MaxRSeq /\ upto[tag] = r - 1
  BY <1>0, <1>3 DEF OneKeyPerTag
<1>5. k.tag = tag /\ k.rseq = r
  BY <1>0
<1>6. DOMAIN ls = DOMAIN ks /\ ls[i] = k /\ \A j \in DOMAIN ks : j # i => ls[j] = ks[j]
  BY <1>0
<1>7. up[tag] = r /\ \A t \in Tags : t # tag => up[t] = upto[t]
  OBVIOUS
<1>. HIDE DEF k, ls, up
<1>8. \A j \in DOMAIN ls : ls[j].tag = ks[j].tag
  BY <1>0, <1>5, <1>6
<1>9. \A j \in DOMAIN ls : ls[j].tag \in Tags /\ ls[j].rseq = up[ls[j].tag] /\ ls[j].rseq # 0
  <2>. SUFFICES ASSUME NEW j \in DOMAIN ls
                PROVE  ls[j].tag \in Tags /\ ls[j].rseq = up[ls[j].tag] /\ ls[j].rseq # 0
    OBVIOUS
  <2>1. CASE j = i
    BY <2>1, <1>5, <1>6, <1>7
  <2>2. CASE j # i
    BY <2>2, <1>0, <1>6, <1>7 DEF OneKeyPerTag
  <2>. QED  BY <2>1, <2>2
<1>10. \A j, l \in DOMAIN ls : ls[j].tag = ls[l].tag => j = l
  BY <1>6, <1>8 DEF OneKeyPerTag
<1>11. \A t \in Tags : (\A j \in DOMAIN ls : ls[j].tag # t) => up[t] = 0
  BY <1>0, <1>6, <1>7, <1>8 DEF OneKeyPerTag
<1>12. OneKeyPerTag(ls, up)
  BY <1>9, <1>10, <1>11 DEF OneKeyPerTag
<1>. QED  BY <1>3, <1>4, <1>12 DEF SetRSeq, ls, k, up

-----------------------------------------------------------------------------
LEMMA TrackedInitially == Init => Tracked
BY DEF Init, Tracked, NewTxn, NewHist, NotAnsweredYet, NoKeys, Rings, Orderly

\* What passing up a provisional response does to the history.
LEMMA ProvToldFacts ==
    ASSUME NEW h \in HistType, NEW m, m.tag \in Tags, m.rseq \in 0..MaxRSeq
    PROVE  /\ TellProv(h, m).upto = [h.upto EXCEPT ![m.tag] = m.rseq]
           /\ h.upto[m.tag] \in {0, m.rseq - 1} => (TellProv(h, m).disorder <=> h.disorder)
<1>. DEFINE u == [h.upto EXCEPT ![m.tag] = m.rseq]
            d == h.disorder \/ h.upto[m.tag] \notin {0, m.rseq - 1}
<1>1. TellProv(h, m) = [h EXCEPT !.upto = u, !.disorder = d]
  BY DEF TellProv
<1>2. h.upto[m.tag] \in {0, m.rseq - 1} => (d <=> h.disorder)
  OBVIOUS
<1>. HIDE DEF u, d
<1>3. TellProv(h, m).upto = u /\ (TellProv(h, m).disorder <=> d)
  BY <1>1 DEF HistType
<1>. QED  BY <1>2, <1>3 DEF u

\* The first provisional response.
LEMMA FirstProvisionalTracked ==
    ASSUME IInv, Tracked, NEW m \in Provisional, Recv1xxCalling(m), env' = env
    PROVE  Tracked'
<1>. SUFFICES ASSUME Orderly PROVE Tracked'
  BY DEF Tracked, Orderly, Faults
<1>1. /\ hist \in HistType /\ hist.upto \in [Tags -> 0..MaxRSeq] /\ keys \in Seq(Key)
      /\ txn \in TxnType
  BY DEF IInv, TypeOK, HistType
<1>2. txn.pool /\ txn.st = "CALLING" /\ txn' = [Stop(txn) EXCEPT !.st = "PROCEEDING"]
  BY DEF Recv1xxCalling
<1>3. txn'.pool /\ txn'.st = "PROCEEDING"
  BY <1>1, <1>2, StopFacts, StateFacts DEF States
<1>4. ~hist.disorder /\ keys = << >> /\ \A t \in Tags : hist.upto[t] = 0
  BY <1>2 DEF Tracked, NotAnsweredYet, NoKeys
<1>5. OneKeyPerTag(keys, hist.upto) /\ DOMAIN keys = {}
  BY <1>4 DEF OneKeyPerTag
<1>6. ~hist'.disorder /\ OneKeyPerTag(keys', hist'.upto)
  <2>1. CASE m.rseq = 0
    BY <1>4, <1>5, <2>1 DEF Recv1xxCalling
  <2>2. CASE m.rseq # 0
    <3>1. m.tag \in Tags /\ m.rseq \in 1..MaxRSeq
      BY <2>2 DEF Provisional, Reliable, Plain, Msg
    <3>2. keys' = AddTxnKey(keys, m.tag, m.rseq) /\ hist' = TellProv(hist, m)
      BY <2>2 DEF Recv1xxCalling
    <3>3. hist'.upto = [hist.upto EXCEPT ![m.tag] = m.rseq] /\ ~hist'.disorder
      BY <1>1, <1>4, <3>1, <3>2, ProvToldFacts
    <3>4. \A i \in DOMAIN keys : keys[i].tag # m.tag
      BY <1>5
    <3>5. OneKeyPerTag(keys', [hist.upto EXCEPT ![m.tag] = m.rseq])
      BY <1>1, <1>5, <3>1, <3>2, <3>4, KeyAdded
    <3>. QED  BY <3>3, <3>5
  <2>. QED  BY <2>1, <2>2
<1>. QED  BY <1>3, <1>6 DEF Tracked, NotAnsweredYet

\* A later one, new for its dialog or next in sequence.
LEMMA LaterProvisionalTracked ==
    ASSUME IInv, Tracked, NEW m \in Provisional, Recv1xxProceeding(m), env' = env
    PROVE  Tracked'
<1>. SUFFICES ASSUME Orderly PROVE Tracked'
  BY DEF Tracked, Orderly, Faults
<1>1. hist \in HistType /\ hist.upto \in [Tags -> 0..MaxRSeq] /\ keys \in Seq(Key)
  BY DEF IInv, TypeOK, HistType
<1>2. /\ Rings /\ txn' = txn /\ m.rseq # 0 /\ hist' = TellProv(hist, m)
      /\ ~hist.disorder /\ OneKeyPerTag(keys, hist.upto)
  BY DEF Recv1xxProceeding, Tracked
<1>3. m.tag \in Tags /\ m.rseq \in 1..MaxRSeq
  BY <1>2 DEF Provisional, Reliable, Plain, Msg
<1>4. /\ hist.upto[m.tag] \in {0, m.rseq - 1}
      /\ OneKeyPerTag(keys', [hist.upto EXCEPT ![m.tag] = m.rseq])
  <2>1. CASE NewForDialog(m) /\ keys' = AddTxnKey(keys, m.tag, m.rseq)
    <3>1. \A i \in DOMAIN keys : keys[i].tag # m.tag
      BY <1>2, <1>3, <2>1, HitsOfTag DEF NewForDialog
    <3>. QED  BY <1>1, <1>2, <1>3, <2>1, <3>1, KeyAdded
  <2>2. CASE /\ NextInDialog(m)
             /\ keys' = SetRSeq(keys, First(DialogHits(keys, m.tag)), m.rseq)
    <3>1. /\ DialogHits(keys, m.tag) # {}
          /\ keys[First(DialogHits(keys, m.tag))].rseq + 1 = m.rseq
      BY <2>2 DEF NextInDialog, NewForDialog
    <3>2. /\ hist.upto[m.tag] = m.rseq - 1
          /\ OneKeyPerTag(SetRSeq(keys, First(DialogHits(keys, m.tag)), m.rseq),
                          [hist.upto EXCEPT ![m.tag] = m.rseq])
      BY <1>1, <1>2, <1>3, <3>1, KeyMoved
    <3>. QED  BY <2>2, <3>2
  <2>. QED  BY <2>1, <2>2 DEF Recv1xxProceeding
<1>5. ~hist'.disorder /\ OneKeyPerTag(keys', hist'.upto)
  BY <1>1, <1>2, <1>3, <1>4, ProvToldFacts
<1>. QED  BY <1>2, <1>5 DEF Tracked, NotAnsweredYet, Rings

(***************************************************************************)
(* Any other step leaves the list as it is while the transaction waits for    *)
(* its first response or rings; only a failure response that cannot be        *)
(* handled would empty it and let the transaction ring on.                  *)
(***************************************************************************)
Unmoved == keys' = keys /\ txn'.st = txn.st /\ (txn'.pool <=> txn.pool)
Sent == txn.st = "IDLE" /\ txn'.st = "CALLING" /\ keys' = keys
Done == txn'.st # "IDLE" /\ (txn'.pool => txn'.st \in {"COMPLETED", "TERMINATED"})

LEMMA OtherSteps ==
    ASSUME IInv, Next, Orderly,
           \A m \in Provisional : ~Recv1xxCalling(m) /\ ~Recv1xxProceeding(m)
    PROVE  Unmoved \/ Sent \/ Done
<1>1. /\ txn \in TxnType /\ txn.st \in States /\ txn.proto \in Protocols
      /\ txn.pool => txn.st # "IDLE"
  BY DEF IInv, TypeOK, TxnType, Told
<1>2. /\ Stop(txn) \in TxnType /\ AtFinal \in TxnType /\ "TERMINATED" \in States
      /\ "COMPLETED" \in States
  BY <1>1, StopFacts DEF AtFinal, States
<1>3. ASSUME NEW t \in TxnType, t.st # "IDLE", txn' = Removed(t) PROVE Done
  BY <1>3, RemovedFacts DEF Done
<1>a. ASSUME SendInvite PROVE Sent
  <2>. DEFINE i == [txn EXCEPT !.st = "CALLING", !.pool = TRUE]
              type == IF Udp THEN "A" ELSE "B"
              dur == IF Udp THEN T1 ELSE TLimit
              t == Start(i, type, dur)
  <2>1. /\ txn.st = "IDLE" /\ keys' = keys
        /\ \/ txn' = Stop(Removed(t))
           \/ txn' = [t EXCEPT !.ctx = FALSE]
           \/ txn' = Stored(t, Plain("INVITE"), FirstProto)
    BY <1>a DEF SendInvite
  <2>2. i \in TxnType /\ i.st = "CALLING" /\ type \in TimerTypes /\ dur \in Nat
    BY <1>1 DEF TxnType, States, TimerTypes
  <2>. HIDE DEF i, type, dur
  <2>3. t \in TxnType /\ t.st = "CALLING"
    BY <2>2, StartFacts
  <2>. HIDE DEF t
  <2>4. Stop(Removed(t)).st = "CALLING"
    BY <2>3, RemovedFacts, StopFacts
  <2>5. [t EXCEPT !.ctx = FALSE].st = "CALLING"
    BY <2>3 DEF TxnType
  <2>6. Stored(t, Plain("INVITE"), FirstProto).st = "CALLING"
    BY <2>3, PlainType, StoredFacts DEF FirstProto, Protocols
  <2>. QED  BY <2>1, <2>4, <2>5, <2>6 DEF Sent
<1>b. ASSUME TimerAFires PROVE Unmoved
  <2>. DEFINE dur == NextInterval(txn)
              t == [Stop(txn) EXCEPT !.expired = ExpiredAt(txn)]
              s == Start(t, "A", dur)
  <2>1. keys' = keys /\ (txn' = t \/ txn' = [s EXCEPT !.retx = @ + 1, !.expired = @ + dur])
    BY <1>b DEF TimerAFires
  <2>2. t.st = txn.st /\ (t.pool <=> txn.pool)
    BY <1>1 DEF Stop, TxnType
  <2>. HIDE DEF dur
  <2>3. LET u == [s EXCEPT !.retx = @ + 1, !.expired = @ + dur]
        IN  u.st = txn.st /\ (u.pool <=> txn.pool)
    BY <1>1 DEF Start, Stop, TxnType
  <2>. HIDE DEF t, s
  <2>. QED  BY <2>1, <2>2, <2>3 DEF Unmoved
<1>c. ASSUME TimerBFires PROVE Done
  <2>. DEFINE t == [Stop(txn) EXCEPT !.st = "TERMINATED", !.expired = ExpiredAt(txn)]
  <2>1. t \in TxnType /\ t.st = "TERMINATED"
    <3>1. ExpiredAt(txn) \in Nat
      BY <1>1 DEF TxnType, ExpiredAt
    <3>. QED  BY <1>2, <3>1 DEF TxnType
  <2>2. txn' = Removed(t)
    BY <1>c DEF TimerBFires
  <2>. HIDE DEF t
  <2>. QED  BY <1>3, <2>1, <2>2
<1>d. ASSUME TimerDFires PROVE Done
  <2>. DEFINE t == [Stop(txn) EXCEPT !.st = "TERMINATED"]
  <2>1. t \in TxnType /\ t.st # "IDLE"
    BY <1>2, StateFacts
  <2>2. txn' = Removed(t)
    BY <1>d DEF TimerDFires
  <2>. HIDE DEF t
  <2>. QED  BY <1>3, <2>1, <2>2
<1>e. ASSUME Recv2xx PROVE Done
  <2>. DEFINE t == [AtFinal EXCEPT !.st = "TERMINATED"]
  <2>1. t \in TxnType /\ t.st # "IDLE"
    BY <1>2, StateFacts
  <2>2. txn' = Removed(t)
    BY <1>e DEF Recv2xx
  <2>. HIDE DEF t
  <2>. QED  BY <1>3, <2>1, <2>2
<1>f. ~RecvFailureUnhandled
  BY DEF RecvFailureUnhandled, Orderly
<1>g. ASSUME RecvFailureAckLost PROVE Done
  <2>. DEFINE s == IF txn.proto = "UDP" THEN "COMPLETED" ELSE "TERMINATED"
              t == [AtFinal EXCEPT !.st = s]
  <2>1. s \in States /\ s # "IDLE" /\ txn' = Removed(t)
    BY <1>g DEF RecvFailureAckLost, States
  <2>. HIDE DEF s
  <2>2. t \in TxnType /\ t.st # "IDLE"
    BY <1>2, <2>1, StateFacts
  <2>. HIDE DEF t
  <2>. QED  BY <1>3, <2>1, <2>2
<1>h. ASSUME RecvFailureUdp PROVE Done
  <2>. DEFINE u == [AtFinal EXCEPT !.st = "COMPLETED"]
              t == Start(u, "D", TWait)
  <2>1. txn' = AckStored(t) \/ txn' = t
    BY <1>h DEF RecvFailureUdp, Linger
  <2>2. u \in TxnType /\ u.st = "COMPLETED" /\ "D" \in TimerTypes /\ TWait \in Nat
    BY <1>2, StateFacts DEF TimerTypes
  <2>. HIDE DEF u
  <2>3. t \in TxnType /\ t.st = "COMPLETED"
    BY <2>2, StartFacts
  <2>. HIDE DEF t
  <2>4. AckStored(t).st = "COMPLETED"
    BY <2>3, PlainType, StoredFacts DEF AckStored, TxnType
  <2>. QED  BY <2>1, <2>3, <2>4 DEF Done
<1>i. ASSUME RecvFailureTcp PROVE Done
  <2>. DEFINE t == [AtFinal EXCEPT !.st = "TERMINATED"]
  <2>1. t \in TxnType /\ t.st = "TERMINATED"
    BY <1>2, StateFacts
  <2>2. txn' = Removed(AckStored(t)) \/ txn' = t
    BY <1>i DEF RecvFailureTcp
  <2>. HIDE DEF t
  <2>3. AckStored(t) \in TxnType /\ AckStored(t).st = "TERMINATED"
    BY <2>1, PlainType, StoredFacts DEF AckStored, TxnType
  <2>. QED  BY <2>1, <2>2, <2>3, RemovedFacts DEF Done
<1>j. ASSUME RecvFailureAgain \/ FallBackToUdp PROVE Unmoved
  BY <1>j, <1>1 DEF RecvFailureAgain, FallBackToUdp, Unmoved, TxnType
<1>k. ASSUME TransportError PROVE Done
  <2>. DEFINE s == IF txn.st = "PROCEEDING" THEN txn ELSE Stop(txn)
              t == [s EXCEPT !.st = "TERMINATED", !.proto = "UDP"]
  <2>1. s \in TxnType /\ txn' = Removed(t)
    BY <1>k, <1>1, <1>2 DEF TransportError
  <2>. HIDE DEF s
  <2>2. t \in TxnType /\ t.st # "IDLE"
    BY <2>1 DEF TxnType, States, Protocols
  <2>. HIDE DEF t
  <2>. QED  BY <1>3, <2>1, <2>2
<1>l. ASSUME Abort PROVE Done
  <2>1. txn.pool /\ txn' = Stop(Removed(txn))
    BY <1>l DEF Abort
  <2>. QED  BY <1>1, <2>1, RemovedFacts, StopFacts DEF Done
<1>. QED
  BY <1>a, <1>b, <1>c, <1>d, <1>e, <1>f, <1>g, <1>h, <1>i, <1>j, <1>k, <1>l
  DEF Next, Local, TimerFires, Receive

LEMMA TrackedInductive == IInv /\ Tracked /\ [Next]_vars => Tracked'
<1>. SUFFICES ASSUME IInv, Tracked, [Next]_vars PROVE Tracked'
  OBVIOUS
<1>1. env' = env
  BY EnvKept
<1>2. CASE \E m \in Provisional : Recv1xxCalling(m) \/ Recv1xxProceeding(m)
  BY <1>1, <1>2, FirstProvisionalTracked, LaterProvisionalTracked
<1>3. CASE Next /\ \A m \in Provisional : ~Recv1xxCalling(m) /\ ~Recv1xxProceeding(m)
  <2>. SUFFICES ASSUME Orderly PROVE Tracked'
    BY <1>1 DEF Tracked, Orderly, Faults
  <2>1. hist'.upto = hist.upto /\ hist'.disorder = hist.disorder
    BY <1>3, OthersTellNoProvisional
  <2>2. CASE Unmoved
    BY <2>1, <2>2 DEF Unmoved, Tracked, NotAnsweredYet, Rings
  <2>3. CASE Sent
    BY <2>1, <2>3 DEF Sent, Tracked, NotAnsweredYet, Rings
  <2>4. CASE Done
    BY <2>1, <2>4 DEF Done, Tracked, NotAnsweredYet, Rings
  <2>. QED  BY <1>3, <2>2, <2>3, <2>4, OtherSteps
<1>4. CASE UNCHANGED vars
  BY <1>4 DEF vars, Tracked, NotAnsweredYet, NoKeys, Rings, OneKeyPerTag, Orderly, Faults
<1>. QED  BY <1>2, <1>3, <1>4

\* Reliable provisionals reach the user in RSeq order, without gap or repetition, for
\* each fork by itself, whenever the key list starts empty and every failure response
\* can be handled (InvCliFsm_ProceedingStRecv1xxRespEvt).
THEOREM ProvisionalsInOrder == Spec => []ReliableInOrder
<1>1. Tracked => ReliableInOrder
  BY DEF Tracked, ReliableInOrder, Orderly
<1>. QED  BY <1>1, TrackedInitially, TrackedInductive, Invariance, PTL DEF Spec

-----------------------------------------------------------------------------
(***************************************************************************)
(* The transaction implements ClientTxn.  The abstract phase is read off the *)
(* state, the pool and the number of final responses.  With the invariant each *)
(* step is of one of five kinds, which StepMaps sends to the abstract actions; *)
(* what is left for a concrete action is to say of which kind it is.         *)
(***************************************************************************)

\* What the invariant says of the phase.
PhaseOK ==
    /\ txn.st = "IDLE" => Phase = "idle" /\ hist.finals = 0 /\ hist.expired = 0 /\ ~txn.pool
    /\ txn.st # "IDLE" /\ ~txn.pool => Phase = "over"
    /\ txn.pool /\ hist.finals > 0 => Phase = "answered"
    /\ txn.pool /\ hist.finals = 0 => Phase = "waiting"
    /\ hist.finals \in Nat /\ hist.expired \in Nat

LEMMA PhaseFacts == IInv => PhaseOK
BY DEF IInv, Told, Phase, TypeOK, HistType, PhaseOK

LEMMA PhaseFactsAfter == IInv' => PhaseOK'
BY PhaseFacts, PTL

-----------------------------------------------------------------------------
(***************************************************************************)
(* The kinds of steps.                                                     *)
(***************************************************************************)
SameTold == hist'.finals = hist.finals /\ hist'.expired = hist.expired

Starts == txn.st = "IDLE" /\ txn'.st # "IDLE" /\ SameTold
Stays == txn.pool /\ txn'.pool /\ SameTold
Answers ==
    /\ txn.pool /\ hist.finals = 0 /\ txn'.st # "IDLE"
    /\ hist'.finals = hist.finals + 1 /\ hist'.expired = hist.expired
TimesOut ==
    /\ txn.pool /\ hist.finals = 0 /\ ~txn'.pool /\ txn'.st # "IDLE"
    /\ hist'.finals = hist.finals /\ hist'.expired = hist.expired + 1
Ends == txn.pool /\ ~txn'.pool /\ txn'.st # "IDLE" /\ SameTold

LEMMA StepMaps ==
    ASSUME IInv, IInv', Starts \/ Stays \/ Answers \/ TimesOut \/ Ends
    PROVE  [Abstract!Next]_(Abstract!vars)
<1>1. PhaseOK /\ PhaseOK'
  BY PhaseFacts, PhaseFactsAfter
<1>. USE <1>1 DEF PhaseOK, SameTold, Abstract!Next, Abstract!vars
<1>2. CASE Starts
  BY <1>2 DEF Starts, Abstract!Begin, Abstract!Fail
<1>3. CASE Stays
  BY <1>3 DEF Stays
<1>4. CASE Answers
  BY <1>4 DEF Answers, Abstract!Answer
<1>5. CASE TimesOut
  BY <1>5 DEF TimesOut, Abstract!Timeout
<1>6. CASE Ends
  BY <1>6 DEF Ends, Abstract!End
<1>. QED  BY <1>2, <1>3, <1>4, <1>5, <1>6

-----------------------------------------------------------------------------
LEMMA StepKinds ==
    ASSUME IInv, Next
    PROVE  Starts \/ Stays \/ Answers \/ TimesOut \/ Ends
<1>1. /\ txn \in TxnType /\ hist \in HistType /\ txn.st \in States
      /\ txn.timer.dur \in Nat /\ txn.proto \in Protocols /\ "TERMINATED" \in States
  BY DEF IInv, TypeOK, TxnType, Timer, States
<1>2. Stop(txn) \in TxnType /\ AtFinal \in TxnType
  BY <1>1, StopFacts DEF AtFinal
<1>3. AtFinal.st = txn.st /\ (AtFinal.pool <=> txn.pool) /\ AtFinal.proto = txn.proto
  BY <1>1, StopFacts DEF AtFinal
<1>4. AwaitsFinal => txn.pool /\ hist.finals = 0
  BY DEF AwaitsFinal, IInv, Told
<1>5. txn.pool => txn.st # "IDLE"
  BY DEF IInv, Told
<1>6. ASSUME NEW t \in TxnType, t.st # "IDLE", txn.pool,
             txn' = Removed(t), hist' = TellEnd(hist)
      PROVE  Ends
  BY <1>1, <1>6, RemovedFacts, HistFacts DEF Ends, SameTold
<1>7. ASSUME NEW t \in TxnType, t.st # "IDLE", AwaitsFinal, txn' = t,
             hist' = TellFinal(hist) \/ hist' = TellEnd(TellFinal(hist))
      PROVE  Answers
  BY <1>1, <1>4, <1>7, HistFacts DEF Answers

<1>a. ASSUME SendInvite PROVE Starts
  <2>. DEFINE i == [txn EXCEPT !.st = "CALLING", !.pool = TRUE]
              type == IF Udp THEN "A" ELSE "B"
              dur == IF Udp THEN T1 ELSE TLimit
              t == Start(i, type, dur)
  <2>1. /\ txn.st = "IDLE"
        /\ \/ txn' = Stop(Removed(t)) /\ hist' = TellEnd(hist)
           \/ txn' = [t EXCEPT !.ctx = FALSE] /\ hist' = hist
           \/ txn' = Stored(t, Plain("INVITE"), FirstProto) /\ hist' = hist
    BY <1>a DEF SendInvite
  <2>2. i \in TxnType /\ i.st = "CALLING" /\ type \in TimerTypes /\ dur \in Nat
    BY <1>1 DEF TxnType, States, TimerTypes
  <2>. HIDE DEF i, type, dur
  <2>3. t \in TxnType /\ t.st = "CALLING"
    BY <2>2, StartFacts
  <2>. HIDE DEF t
  <2>4. CASE txn' = Stop(Removed(t)) /\ hist' = TellEnd(hist)
    BY <1>1, <2>1, <2>3, <2>4, RemovedFacts, StopFacts, HistFacts DEF Starts, SameTold
  <2>5. CASE txn' = [t EXCEPT !.ctx = FALSE] /\ hist' = hist
    BY <2>1, <2>3, <2>5 DEF Starts, SameTold, TxnType
  <2>6. CASE txn' = Stored(t, Plain("INVITE"), FirstProto) /\ hist' = hist
    <3>1. FirstProto \in Protocols
      BY DEF FirstProto, Protocols
    <3>. QED  BY <2>1, <2>3, <2>6, <3>1, PlainType, StoredFacts DEF Starts, SameTold
  <2>. QED  BY <2>1, <2>4, <2>5, <2>6
<1>b. ASSUME TimerAFires PROVE Stays
  <2>. DEFINE dur == NextInterval(txn)
              t == [Stop(txn) EXCEPT !.expired = ExpiredAt(txn)]
              s == Start(t, "A", dur)
  <2>1. /\ txn.pool /\ hist' = Tick(hist)
        /\ txn' = t \/ txn' = [s EXCEPT !.retx = @ + 1, !.expired = @ + dur]
    BY <1>b DEF TimerAFires
  <2>2. ASSUME txn' = t PROVE txn'.pool
    BY <1>1, <2>1, <2>2 DEF Stop, TxnType
  <2>3. ASSUME txn' = [s EXCEPT !.retx = @ + 1, !.expired = @ + dur] PROVE txn'.pool
    <3>. HIDE DEF dur
    <3>. QED  BY <1>1, <2>1, <2>3 DEF Start, Stop, TxnType
  <2>4. txn'.pool
    BY <2>1, <2>2, <2>3
  <2>. QED  BY <1>1, <2>1, <2>4, TickFacts DEF Stays, SameTold
<1>c. ASSUME TimerBFires PROVE TimesOut \/ Ends
  <2>. DEFINE t == [Stop(txn) EXCEPT !.st = "TERMINATED", !.expired = ExpiredAt(txn)]
              h == Tick(hist)
  <2>1. txn.pool /\ txn.st = "CALLING" /\ txn' = Removed(t) /\ hist' = TellExpiry(h)
    BY <1>c DEF TimerBFires
  <2>2. txn.expired \in Nat
    BY <1>1 DEF TxnType
  <2>3. t \in TxnType /\ t.st = "TERMINATED"
    BY <1>1, <1>2, <2>2 DEF TxnType, States, ExpiredAt
  <2>4. h \in HistType /\ h.finals = hist.finals /\ h.expired = hist.expired
    BY <1>1, TickFacts
  <2>5. hist.finals = 0 /\ hist.expired \in Nat
    BY <1>1, <2>1 DEF IInv, Told, HistType
  <2>. HIDE DEF t, h
  <2>. QED
    BY <2>1, <2>3, <2>4, <2>5, RemovedFacts, ExpiryFacts DEF TimesOut, Ends, SameTold
<1>d. ASSUME TimerDFires PROVE Ends
  <2>. DEFINE t == [Stop(txn) EXCEPT !.st = "TERMINATED"]
  <2>1. txn.pool /\ txn' = Removed(t) /\ hist' = TellEnd(hist)
    BY <1>d DEF TimerDFires
  <2>2. t \in TxnType /\ t.st # "IDLE"
    BY <1>1, <1>2, StateFacts
  <2>. HIDE DEF t
  <2>. QED  BY <1>6, <2>1, <2>2
<1>e. ASSUME NEW m \in Provisional, Recv1xxCalling(m) \/ Recv1xxProceeding(m) PROVE Stays
  <2>1. /\ txn.pool 
        /\ hist' = hist \/ (m.rseq # 0 /\ hist' = TellProv(hist, m))
        /\ txn' = txn \/ txn' = [Stop(txn) EXCEPT !.st = "PROCEEDING"]
    BY <1>e DEF Recv1xxCalling, Recv1xxProceeding, Rings
  <2>2. m.rseq # 0 => m.tag \in Tags /\ m.rseq \in 0..MaxRSeq
    BY DEF Provisional, Reliable, Plain, Msg
  <2>3. hist'.finals = hist.finals /\ hist'.expired = hist.expired
    BY <1>1, <2>1, <2>2, ProvFacts
  <2>4. txn'.pool
    BY <1>1, <2>1 DEF Stop, TxnType
  <2>. QED  BY <2>1, <2>3, <2>4 DEF Stays, SameTold
<1>f. ASSUME Recv2xx PROVE Answers
  <2>. DEFINE t == [AtFinal EXCEPT !.st = "TERMINATED"]
  <2>1. t \in TxnType /\ t.st # "IDLE"
    BY <1>1, <1>2, StateFacts
  <2>2. AwaitsFinal /\ txn' = Removed(t) /\ hist' = TellEnd(TellFinal(hist))
    BY <1>f DEF Recv2xx
  <2>. HIDE DEF t
  <2>. QED  BY <1>7, <2>1, <2>2, RemovedFacts
<1>g. ASSUME RecvFailureUnhandled PROVE Stays
  BY <1>g, <1>3, <1>4 DEF RecvFailureUnhandled, Stays, SameTold
<1>h. ASSUME RecvFailureAckLost PROVE Answers
  <2>. DEFINE s == IF txn.proto = "UDP" THEN "COMPLETED" ELSE "TERMINATED"
              t == [AtFinal EXCEPT !.st = s]
  <2>1. s \in States /\ s # "IDLE"
    BY DEF States
  <2>2. AwaitsFinal /\ txn' = Removed(t) /\ hist' = TellEnd(TellFinal(hist))
    BY <1>h DEF RecvFailureAckLost
  <2>. HIDE DEF s
  <2>3. t \in TxnType /\ t.st # "IDLE"
    BY <1>2, <2>1, StateFacts
  <2>. HIDE DEF t
  <2>. QED  BY <1>7, <2>2, <2>3, RemovedFacts
<1>i. ASSUME RecvFailureUdp PROVE Answers
  <2>. DEFINE t == Linger(AtFinal)
  <2>1. t \in TxnType /\ t.st = "COMPLETED"
    <3>. DEFINE u == [AtFinal EXCEPT !.st = "COMPLETED"]
    <3>1. u \in TxnType /\ u.st = "COMPLETED"
      BY <1>2, StateFacts DEF States
    <3>2. t = Start(u, "D", TWait)
      BY DEF Linger
    <3>3. "D" \in TimerTypes /\ TWait \in Nat
      BY DEF TimerTypes
    <3>. HIDE DEF u, t
    <3>4. Start(u, "D", TWait) \in TxnType /\ Start(u, "D", TWait).st = "COMPLETED"
      BY <3>1, <3>3, StartFacts
    <3>. QED  BY <3>2, <3>4
  <2>2. AwaitsFinal /\ hist' = TellFinal(hist) /\ (txn' = AckStored(t) \/ txn' = t)
    BY <1>i DEF RecvFailureUdp
  <2>. HIDE DEF t
  <2>3. AckStored(t) \in TxnType /\ AckStored(t).st = "COMPLETED"
    BY <2>1, PlainType, StoredFacts DEF AckStored, TxnType
  <2>. QED  BY <1>7, <2>1, <2>2, <2>3
<1>j. ASSUME RecvFailureTcp PROVE Answers
  <2>. DEFINE t == [AtFinal EXCEPT !.st = "TERMINATED"]
  <2>1. t \in TxnType /\ t.st = "TERMINATED"
    BY <1>1, <1>2, StateFacts
  <2>2. /\ AwaitsFinal
        /\ \/ txn' = Removed(AckStored(t)) /\ hist' = TellEnd(TellFinal(hist))
           \/ txn' = t /\ hist' = TellFinal(hist)
    BY <1>j DEF RecvFailureTcp
  <2>. HIDE DEF t
  <2>3. AckStored(t) \in TxnType /\ AckStored(t).st = "TERMINATED"
    BY <2>1, PlainType, StoredFacts DEF AckStored, TxnType
  <2>. QED  BY <1>7, <2>1, <2>2, <2>3, RemovedFacts
<1>k. ASSUME RecvFailureAgain \/ FallBackToUdp PROVE Stays
  BY <1>k, <1>1 DEF RecvFailureAgain, FallBackToUdp, Stays, SameTold, TxnType
<1>l. ASSUME TransportError PROVE Ends
  <2>. DEFINE s == IF txn.st = "PROCEEDING" THEN txn ELSE Stop(txn)
              t == [s EXCEPT !.st = "TERMINATED", !.proto = "UDP"]
  <2>1. s \in TxnType
    BY <1>1, <1>2
  <2>2. txn.pool /\ txn' = Removed(t) /\ hist' = TellEnd(hist)
    BY <1>l DEF TransportError
  <2>. HIDE DEF s
  <2>3. t \in TxnType /\ t.st # "IDLE"
    BY <2>1 DEF TxnType, States, Protocols
  <2>. HIDE DEF t
  <2>. QED  BY <1>6, <2>2, <2>3
<1>m. ASSUME Abort PROVE Ends
  <2>1. txn.pool /\ txn' = Stop(Removed(txn)) /\ hist' = TellEnd(hist)
    BY <1>m DEF Abort
  <2>. QED
    BY <1>1, <1>5, <2>1, RemovedFacts, StopFacts, HistFacts DEF Ends, SameTold
<1>. QED
  BY <1>a, <1>b, <1>c, <1>d, <1>e, <1>f, <1>g, <1>h, <1>i, <1>j, <1>k, <1>l, <1>m
  DEF Next, Local, TimerFires, Receive

-----------------------------------------------------------------------------
\* The INVITE client transaction keeps the promise of a client transaction: one
\* outcome, heard while it waits, and an end that is final (OnRecvMessage,
\* CbkTxnTimeout, TerminateTxn).
THEOREM Refinement == Spec => KeepsPromise
<1>1. Init => Abstract!Init
  BY DEF Init, NewTxn, NewHist, Phase, Abstract!Init
<1>2. IInv /\ IInv' /\ [Next]_vars => [Abstract!Next]_(Abstract!vars)
  <2>1. CASE Next
    BY <2>1, StepKinds, StepMaps
  <2>2. CASE UNCHANGED vars
    BY <2>2 DEF vars, Phase, Abstract!vars
  <2>. QED  BY <2>1, <2>2
<1>. QED  BY <1>1, <1>2, Invariance, PTL DEF Spec, KeepsPromise, Abstract!Spec
=============================================================================
