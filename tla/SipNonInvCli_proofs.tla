------------------------ MODULE SipNonInvCli_proofs -------------------------
(***************************************************************************)
(* Safety of the non-INVITE client transaction, for every timer value, every  *)
(* set of faults and both transports, and that it implements ClientTxn.       *)
(*                                                                         *)
(* Timer E is armed in PROCEEDING too, with other intervals, so the equation    *)
(* that dates the timeout (Chained) must not mention how long an interval is:    *)
(* only that it has been added to m_nDurationExpired when it was armed, the      *)
(* first one excepted, and that none reaches past the limit.                   *)
(* The number of copies needs the intervals after all (Budget), compared with    *)
(* those of a request that nobody answers.                                   *)
(***************************************************************************)
EXTENDS SipNonInvCli, SequenceTheorems, WellFoundedInduction, TLAPS

\* The user hears of one outcome at most: one final response or one timeout.
OneOutcome == hist.finals + hist.expired <= 1

\* An armed timer of a pooled transaction has a handler in the present state:
\* E and F in TRYING and PROCEEDING, K in COMPLETED (gpfSipNonInvClientTxnFsm).
TimerHasHandler ==
    txn.pool =>
        /\ txn.timer.type \in {"E", "F"} => txn.st \in {"TRYING", "PROCEEDING"}
        /\ txn.timer.type = "K" => txn.st = "COMPLETED"
        /\ txn.timer.type \in {"none", "E", "F", "K"}

Told ==
    /\ Waits => hist.finals = 0
    /\ txn.pool => hist.expired = 0
    /\ txn.st = "IDLE" => hist.finals = 0 /\ hist.expired = 0 /\ ~txn.pool
    /\ OneOutcome
    /\ EndNotifiedOnce

Wired ==
    /\ TimerHasHandler
    /\ txn.st = "IDLE" => txn.expired = 0 /\ txn.proto = "NONE" /\ hist.clock = 0
    /\ Udp => txn.proto # "TCP"
    /\ txn.pool /\ txn.ctx => txn.proto # "NONE"

\* What a fall-back to UDP adds: timer F has run before the chain of timer E.
Offset == IF Udp THEN 0 ELSE TLimit - T1

Chained ==
    txn.pool /\ txn.timer.type \in {"E", "F"} =>
        IF txn.expired = 0
        THEN hist.clock = 0 /\ txn.timer.dur = (IF Udp THEN T1 ELSE TLimit)
        ELSE /\ hist.clock + txn.timer.dur = txn.expired + Offset
             /\ txn.expired <= TLimit
             /\ txn.proto # "TCP"

Timed == Chained /\ GiveUpAtLimit

IInv == TypeOK /\ Told /\ Wired /\ Timed

USE T1Assumption, T2Assumption, TLimitAssumption, TWaitAssumption, EnvsAssumption,
    MaxRSeqAssumption

-----------------------------------------------------------------------------
LEMMA PlainType == Plain("none") \in Message /\ Plain("REQ") \in Message
BY DEF Plain, Msg, Message, MsgTypes

LEMMA Initial == Init => IInv
<1>. SUFFICES ASSUME Init PROVE IInv
  OBVIOUS
<1>. USE DEF Init, NewTxn, NewHist
<1>1. txn \in TxnType
  BY PlainType DEF TxnType, States, Timer, TimerTypes, NoTimer, NoMsg, Protocols
<1>2. hist \in HistType
  BY DEF HistType
<1>3. TypeOK
  BY <1>1, <1>2 DEF TypeOK, Environment
<1>4. Told
  BY DEF Told, OneOutcome, EndNotifiedOnce, Waits, Pooled
<1>5. Wired
  BY DEF Wired, TimerHasHandler, NoTimer
<1>6. Timed
  BY DEF Timed, Chained, GiveUpAtLimit, NoTimer
<1>. QED  BY <1>3, <1>4, <1>5, <1>6 DEF IInv

-----------------------------------------------------------------------------
(***************************************************************************)
(* What the operations do to the two records.                              *)
(***************************************************************************)
LEMMA StopFacts ==
    ASSUME NEW t \in TxnType
    PROVE  /\ Stop(t) \in TxnType /\ Stop(t).timer = NoTimer
           /\ Stop(t).st = t.st /\ (Stop(t).pool <=> t.pool) /\ Stop(t).expired = t.expired
           /\ Stop(t).proto = t.proto /\ (Stop(t).ctx <=> t.ctx) /\ Stop(t).retx = t.retx
           /\ Stop(t).cur = t.cur
BY DEF Stop, TxnType, Timer, TimerTypes, NoTimer

LEMMA RemovedFacts ==
    ASSUME NEW t \in TxnType
    PROVE  /\ Removed(t) \in TxnType /\ ~Removed(t).pool /\ Removed(t).timer = t.timer
           /\ Removed(t).st = t.st /\ Removed(t).expired = t.expired /\ Removed(t).proto = t.proto
BY DEF Removed, TxnType

LEMMA StartFacts ==
    ASSUME NEW t \in TxnType, NEW type \in TimerTypes, NEW d \in Nat
    PROVE  /\ Start(t, type, d) \in TxnType
           /\ Start(t, type, d).timer.type = type /\ Start(t, type, d).timer.dur = d
           /\ Start(t, type, d).st = t.st /\ (Start(t, type, d).pool <=> t.pool)
           /\ Start(t, type, d).expired = t.expired /\ Start(t, type, d).proto = t.proto
           /\ (Start(t, type, d).ctx <=> t.ctx) /\ Start(t, type, d).retx = t.retx
BY DEF Start, TxnType, Timer

LEMMA StoredFacts ==
    ASSUME NEW t \in TxnType, NEW m \in Message, NEW proto \in Protocols
    PROVE  /\ Stored(t, m, proto) \in TxnType /\ Stored(t, m, proto).proto = proto
           /\ Stored(t, m, proto).timer = t.timer
           /\ Stored(t, m, proto).st = t.st /\ (Stored(t, m, proto).pool <=> t.pool)
           /\ Stored(t, m, proto).expired = t.expired
BY DEF Stored, TxnType

LEMMA StateFacts ==
    ASSUME NEW t \in TxnType, NEW s \in States
    PROVE  LET u == [t EXCEPT !.st = s]
           IN  /\ u \in TxnType /\ u.st = s /\ u.timer = t.timer /\ (u.pool <=> t.pool)
               /\ u.expired = t.expired /\ u.proto = t.proto /\ (u.ctx <=> t.ctx)
BY DEF TxnType

Counted(t, r, e) == [t EXCEPT !.retx = r, !.expired = e]

LEMMA CountFacts ==
    ASSUME NEW t \in TxnType, NEW r \in Nat, NEW e \in Nat
    PROVE  /\ Counted(t, r, e) \in TxnType /\ Counted(t, r, e).st = t.st
           /\ Counted(t, r, e).timer = t.timer /\ (Counted(t, r, e).pool <=> t.pool)
           /\ Counted(t, r, e).expired = e /\ Counted(t, r, e).proto = t.proto
           /\ (Counted(t, r, e).ctx <=> t.ctx)
BY DEF TxnType, Counted

LEMMA LingerFacts ==
    ASSUME NEW t \in TxnType
    PROVE  /\ Linger(t) \in TxnType /\ Linger(t).st = "COMPLETED" /\ Linger(t).timer.type = "K"
           /\ (Linger(t).pool <=> t.pool) /\ Linger(t).proto = t.proto /\ (Linger(t).ctx <=> t.ctx)
<1>. DEFINE c == [Stop(t) EXCEPT !.st = "COMPLETED"]
<1>1. /\ c \in TxnType /\ c.st = "COMPLETED" /\ (c.pool <=> t.pool) /\ c.proto = t.proto
      /\ (c.ctx <=> t.ctx)
  <2>. DEFINE s == Stop(t)
  <2>1. /\ s \in TxnType /\ "COMPLETED" \in States /\ (s.pool <=> t.pool) /\ s.proto = t.proto
        /\ (s.ctx <=> t.ctx)
    BY StopFacts DEF States
  <2>. HIDE DEF s
  <2>2. [s EXCEPT !.st = "COMPLETED"] = c
    BY DEF s
  <2>. HIDE DEF c
  <2>. QED  BY <2>1, <2>2, StateFacts
<1>. HIDE DEF c
<1>2. Linger(t) = Start(c, "K", TWait) /\ "K" \in TimerTypes
  BY DEF Linger, c, TimerTypes
<1>. QED  BY <1>1, <1>2, StartFacts

LEMMA HistFacts ==
    ASSUME NEW h \in HistType
    PROVE  /\ TellFinal(h) \in HistType /\ TellFinal(h).finals = h.finals + 1
           /\ TellFinal(h).expired = h.expired /\ TellFinal(h).ended = h.ended
           /\ TellFinal(h).clock = h.clock
           /\ TellEnd(h) \in HistType /\ TellEnd(h).ended = h.ended + 1
           /\ TellEnd(h).expired = h.expired /\ TellEnd(h).finals = h.finals
           /\ TellEnd(h).clock = h.clock
BY DEF HistType, TellFinal, TellEnd

LEMMA TickFacts ==
    ASSUME NEW h \in HistType, txn.timer.dur \in Nat
    PROVE  /\ Tick(h) \in HistType /\ Tick(h).finals = h.finals /\ Tick(h).ended = h.ended
           /\ Tick(h).expired = h.expired /\ Tick(h).clock = h.clock + txn.timer.dur
<1>1. h.clock + txn.timer.dur \in Nat
  BY DEF HistType
<1>2. Tick(h) = [h EXCEPT !.clock = h.clock + txn.timer.dur]
  BY DEF Tick
<1>. QED  BY <1>1, <1>2 DEF HistType

LEMMA CopyFacts ==
    ASSUME NEW h \in HistType, NEW ok \in BOOLEAN
    PROVE  /\ SentAgain(h, ok) \in HistType /\ SentAgain(h, ok).finals = h.finals
           /\ SentAgain(h, ok).ended = h.ended /\ SentAgain(h, ok).expired = h.expired
           /\ SentAgain(h, ok).clock = h.clock
<1>. DEFINE n == h.copies + (IF ok /\ txn.proto # "NONE" THEN 1 ELSE 0)
<1>1. n \in Nat
  BY DEF HistType
<1>2. SentAgain(h, ok) = [h EXCEPT !.copies = n]
  BY DEF SentAgain
<1>. HIDE DEF n
<1>. QED  BY <1>1, <1>2 DEF HistType

LEMMA ExpiryFacts ==
    ASSUME NEW h \in HistType
    PROVE  /\ TellExpiry(h) \in HistType /\ TellExpiry(h).finals = h.finals
           /\ TellExpiry(h).expired = h.expired + (IF txn.ctx THEN 1 ELSE 0)
           /\ TellExpiry(h).ended = h.ended + 1 /\ TellExpiry(h).clock = h.clock
<1>. DEFINE e == h.expired + (IF txn.ctx THEN 1 ELSE 0)
            n == h.ended + 1
<1>1. e \in Nat /\ n \in Nat
  BY DEF HistType
<1>2. TellExpiry(h) = [h EXCEPT !.expired = e, !.ended = n]
  BY DEF TellExpiry
<1>. HIDE DEF e, n
<1>3. /\ TellExpiry(h) \in HistType /\ TellExpiry(h).finals = h.finals
      /\ TellExpiry(h).expired = e /\ TellExpiry(h).ended = n /\ TellExpiry(h).clock = h.clock
  BY <1>1, <1>2 DEF HistType
<1>. QED  BY <1>3 DEF e, n

-----------------------------------------------------------------------------
(***************************************************************************)
(* The kinds of steps, by what the user hears.  Ending: it hears of the end,    *)
(* maybe of the final response.  Keeping: timer and clock go on.  Lingering:     *)
(* the timer chain is over and the transaction stays.                        *)
(***************************************************************************)
LEMMA Ending ==
    ASSUME TypeOK, Told, Wired, Timed, TypeOK', Udp' <=> Udp,
           ~txn'.pool, txn'.st # "IDLE", Udp => txn'.proto # "TCP",
           txn.pool \/ txn.st = "IDLE",
           hist'.expired = hist.expired, hist'.ended = hist.ended + 1,
           hist'.finals + hist'.expired <= 1
    PROVE  IInv'
<1>1. hist.expired = 0 /\ hist.ended = 0
  BY DEF Told, EndNotifiedOnce
<1>2. Told'
  BY <1>1 DEF Told, EndNotifiedOnce, OneOutcome, Waits, Pooled
<1>3. Wired'
  BY DEF Wired, TimerHasHandler
<1>4. Timed'
  BY <1>1 DEF Timed, Chained, GiveUpAtLimit
<1>. QED  BY <1>2, <1>3, <1>4 DEF IInv

LEMMA Keeping ==
    ASSUME TypeOK, Told, Wired, Timed, TypeOK', Udp' <=> Udp, txn.pool, txn'.pool,
           txn'.st # "IDLE", txn'.timer = txn.timer, txn'.expired = txn.expired,
           txn'.proto = txn.proto \/ txn'.proto = "UDP",
           txn'.ctx <=> txn.ctx,
           txn'.st = txn.st \/ (txn.st = "TRYING" /\ txn'.st = "PROCEEDING"),
           hist'.finals = hist.finals, hist'.expired = hist.expired,
           hist'.ended = hist.ended, hist'.clock = hist.clock
    PROVE  IInv'
<1>1. hist.expired = 0 /\ hist.ended = 0
  BY DEF Told, EndNotifiedOnce
<1>2. Told'
  BY <1>1 DEF Told, EndNotifiedOnce, OneOutcome, Waits, Pooled
<1>3. Wired'
  BY DEF Wired, TimerHasHandler
<1>4. Timed'
  BY <1>1 DEF Timed, Chained, GiveUpAtLimit, Offset
<1>. QED  BY <1>2, <1>3, <1>4 DEF IInv

LEMMA Lingering ==
    ASSUME TypeOK, Told, Wired, Timed, TypeOK', Udp' <=> Udp, Waits, txn'.pool,
           txn'.proto = txn.proto, txn'.ctx <=> txn.ctx,
           hist'.expired = hist.expired, hist'.ended = hist.ended,
           \/ txn'.timer.type = "none" /\ txn'.st = txn.st /\ hist'.finals = hist.finals
           \/ txn'.timer.type = "K" /\ txn'.st = "COMPLETED" /\ hist'.finals = hist.finals + 1
    PROVE  IInv'
<1>0. txn.pool /\ txn.st \in {"TRYING", "PROCEEDING"}
  BY DEF Waits, Pooled
<1>1. hist.expired = 0 /\ hist.ended = 0 /\ hist.finals = 0
  BY <1>0 DEF Told, EndNotifiedOnce
<1>2. Told'
  BY <1>0, <1>1 DEF Told, EndNotifiedOnce, OneOutcome, Waits, Pooled
<1>3. Wired'
  BY <1>0 DEF Wired, TimerHasHandler
<1>4. Timed'
  BY <1>1 DEF Timed, Chained, GiveUpAtLimit
<1>. QED  BY <1>2, <1>3, <1>4 DEF IInv
-----------------------------------------------------------------------------
\* The environment is rigid: no operation touches it.
LEMMA EnvKept == [Next]_vars => env' = env
BY DEF Next, TimerFires, Receive, vars, SendRequest, TimerEFRepeats, TimerEFGivesUp, TimerKFires,
   Recv1xx, RecvFinalUdp, RecvFinalUntimed, RecvFinalTcp, FallBackToUdp, TransportError, Abort

LEMMA Inductive == IInv /\ [Next]_vars => IInv'
<1>. SUFFICES ASSUME IInv, [Next]_vars PROVE IInv'
  OBVIOUS
<1>0. TypeOK /\ Told /\ Wired /\ Timed
  BY DEF IInv
<1>8. env' = env /\ env \in Envs
  BY <1>0, EnvKept DEF TypeOK
<1>9. (Udp' <=> Udp) /\ Udp \in BOOLEAN
  BY <1>8 DEF Udp, Environment
<1>. USE <1>8, <1>9
<1>1. /\ txn \in TxnType /\ hist \in HistType /\ keys \in Seq(Key) /\ net \subseteq Message
      /\ hist.finals \in Nat /\ hist.expired \in Nat /\ hist.ended \in Nat /\ hist.clock \in Nat
  BY <1>0 DEF TypeOK, HistType
<1>2. /\ txn.st \in States /\ txn.expired \in Nat /\ txn.sent \in Message /\ txn.proto \in Protocols
      /\ txn.timer.dur \in Nat /\ txn.timer.type \in TimerTypes
  BY <1>1 DEF TxnType, Timer
<1>3. Stop(txn) \in TxnType /\ Stop(txn).timer.type = "none"
  BY <1>1, StopFacts DEF NoTimer
<1>4. /\ Stop(txn).st = txn.st /\ (Stop(txn).pool <=> txn.pool) /\ Stop(txn).proto = txn.proto
      /\ (Stop(txn).ctx <=> txn.ctx)
  BY <1>1, StopFacts
<1>6. txn.pool => hist.expired = 0 /\ hist.ended = 0 /\ txn.st # "IDLE"
  BY <1>0 DEF Told, EndNotifiedOnce
<1>7. Waits => txn.pool /\ hist.finals = 0 /\ txn.st \in {"TRYING", "PROCEEDING"}
  BY <1>0 DEF Waits, Pooled, Told
<1>10. [Stop(txn) EXCEPT !.st = "TERMINATED"] \in TxnType
       /\ [Stop(txn) EXCEPT !.st = "TERMINATED"].st = "TERMINATED"
       /\ [Stop(txn) EXCEPT !.st = "TERMINATED"].proto = txn.proto
  <2>. "TERMINATED" \in States
    BY DEF States
  <2>. QED  BY <1>3, <1>4, StateFacts

<1>a. ASSUME NEW cancel \in BOOLEAN, SendRequest(cancel) PROVE IInv'
  <2>. DEFINE type == IF Udp THEN "E" ELSE "F"
              dur == IF Udp THEN T1 ELSE TLimit
              i == [txn EXCEPT !.st = "TRYING", !.pool = TRUE]
              t == Start(i, type, dur)
  <2>0. FirstTimer(i) = t
    BY DEF FirstTimer
  <2>1. /\ txn.st = "IDLE" /\ keys' \in Seq(Key)
        /\ \/ txn' = Stop(Removed(t)) /\ hist' = TellEnd(hist) /\ net' = net
           \/ txn' = [t EXCEPT !.ctx = FALSE] /\ net' = net /\ hist' = hist
           \/ /\ txn' = Stored(t, Plain("REQ"), FirstProto)
              /\ net' = net \cup {Plain("REQ")} /\ hist' = [hist EXCEPT !.copies = 1]
    BY <1>a, <1>1, <2>0, EmptySeq DEF SendRequest
  <2>2. type \in TimerTypes /\ dur \in Nat
    BY DEF TimerTypes
  <2>3. /\ hist.finals = 0 /\ hist.expired = 0 /\ hist.ended = 0 /\ hist.clock = 0
        /\ txn.expired = 0 /\ txn.proto = "NONE"
    BY <1>0, <2>1 DEF Told, Wired, EndNotifiedOnce
  <2>4. i \in TxnType /\ i.st = "TRYING" /\ i.pool /\ i.expired = 0 /\ i.proto = "NONE"
    BY <1>1, <2>3 DEF TxnType, States
  <2>. HIDE DEF i
  <2>5. /\ t \in TxnType /\ t.st = "TRYING" /\ t.pool /\ t.expired = 0 /\ t.proto = "NONE"
        /\ t.timer.type = type /\ t.timer.dur = dur
    BY <2>2, <2>4, StartFacts
  <2>. HIDE DEF t
  <2>6. CASE txn' = Stop(Removed(t)) /\ hist' = TellEnd(hist) /\ net' = net
    <3>1. txn' \in TxnType /\ ~txn'.pool /\ txn'.st = "TRYING" /\ txn'.proto = "NONE"
      BY <2>5, <2>6, RemovedFacts, StopFacts
    <3>2. TypeOK'
      BY <1>1, <2>1, <2>6, <3>1, HistFacts DEF TypeOK
    <3>. QED
      BY <1>0, <1>1, <2>1, <2>3, <2>6, <3>1, <3>2, HistFacts, Ending
  <2>7. CASE \/ txn' = [t EXCEPT !.ctx = FALSE] /\ net' = net /\ hist' = hist
             \/ /\ txn' = Stored(t, Plain("REQ"), FirstProto)
                /\ net' = net \cup {Plain("REQ")} /\ hist' = [hist EXCEPT !.copies = 1]
    <3>1. /\ txn' \in TxnType /\ txn'.pool /\ txn'.st = "TRYING" /\ txn'.expired = 0
          /\ txn'.timer.type = type /\ txn'.timer.dur = dur
          /\ txn'.proto \in {"NONE", FirstProto} /\ (txn'.ctx => txn'.proto # "NONE")
      <4>1. CASE txn' = [t EXCEPT !.ctx = FALSE]
        BY <2>5, <4>1 DEF TxnType
      <4>2. CASE txn' = Stored(t, Plain("REQ"), FirstProto)
        <5>1. FirstProto \in Protocols /\ FirstProto # "NONE"
          BY DEF FirstProto, Protocols
        <5>. HIDE DEF type, dur
        <5>. QED  BY <2>5, <4>2, <5>1, PlainType, StoredFacts
      <4>. QED  BY <2>7, <4>1, <4>2
    <3>2. /\ hist' \in HistType /\ hist'.finals = 0 /\ hist'.expired = 0 /\ hist'.ended = 0
          /\ hist'.clock = 0
      BY <1>1, <2>3, <2>7 DEF HistType
    <3>3. TypeOK'
      BY <1>1, <2>1, <2>7, <3>1, <3>2, PlainType DEF TypeOK
    <3>4. Told'
      BY <3>1, <3>2 DEF Told, OneOutcome, EndNotifiedOnce
    <3>5. Wired'
      BY <3>1, <3>2 DEF Wired, TimerHasHandler, FirstProto
    <3>6. Timed'
      BY <3>1, <3>2 DEF Timed, Chained, GiveUpAtLimit
    <3>. QED  BY <3>3, <3>4, <3>5, <3>6 DEF IInv
  <2>. QED  BY <2>1, <2>6, <2>7
<1>b. ASSUME TimerEFRepeats PROVE IInv'
  <2>. DEFINE dur == NextInterval(txn)
              t == [Stop(txn) EXCEPT !.expired = ExpiredAt(txn)]
              a == [Start(t, "E", dur) EXCEPT !.retx = @ + 1, !.expired = @ + dur]
  <2>1. /\ Waits /\ txn.timer.type \in {"E", "F"} /\ ~GivesUp(txn)
        /\ dur > 0 /\ keys' = keys
        /\ \E ok \in BOOLEAN : /\ txn' = t \/ txn' = a
                               /\ Resend(txn, ok)
                               /\ hist' = SentAgain(Tick(hist), ok)
    BY <1>b DEF TimerEFRepeats, Outcome
  <2>2. /\ txn.cur \in Nat /\ ExpiredAt(txn) \in Nat \ {0} /\ ExpiredAt(txn) < TLimit
        /\ txn.proto = "UDP"
    BY <1>1, <1>2, <2>1 DEF ExpiredAt, GivesUp, TxnType
  <2>3. dur \in Int /\ dur <= TLimit - ExpiredAt(txn)
    BY <2>2 DEF NextInterval, Capped
  <2>. HIDE DEF dur
  <2>4. /\ t \in TxnType /\ t.st = txn.st /\ t.pool /\ t.timer.type = "none" /\ t.proto = "UDP"
        /\ (t.ctx <=> txn.ctx) /\ t.expired = ExpiredAt(txn)
    BY <1>1, <1>3, <1>4, <1>7, <2>1, <2>2 DEF TxnType
  <2>. HIDE DEF t
  <2>5. /\ a \in TxnType /\ a.st = txn.st /\ a.pool /\ a.timer.type = "E" /\ a.timer.dur = dur
        /\ a.proto = "UDP" /\ (a.ctx <=> txn.ctx) /\ a.expired = ExpiredAt(txn) + dur
    <3>. DEFINE s == Start(t, "E", dur)
    <3>0. "E" \in TimerTypes /\ dur \in Nat
      BY <2>1, <2>3 DEF TimerTypes
    <3>1. /\ s \in TxnType /\ s.st = txn.st /\ s.pool /\ s.timer.type = "E" /\ s.timer.dur = dur
          /\ s.proto = "UDP" /\ (s.ctx <=> txn.ctx) /\ s.expired = ExpiredAt(txn)
      BY <3>0, <2>4, StartFacts
    <3>. HIDE DEF s
    <3>. DEFINE r == s.retx + 1
                e == s.expired + dur
    <3>2. r \in Nat
      BY <3>1 DEF TxnType
    <3>3. e \in Nat
      BY <2>1, <2>2, <2>3, <3>1
    <3>4. a = Counted(s, r, e)
      BY DEF s, Counted
    <3>. HIDE DEF a, r, e
    <3>5. /\ a \in TxnType /\ a.st = s.st /\ (a.pool <=> s.pool) /\ a.timer = s.timer
          /\ a.proto = s.proto /\ (a.ctx <=> s.ctx) /\ a.expired = e
      BY <3>1, <3>2, <3>3, <3>4, CountFacts
    <3>. QED  BY <3>1, <3>5 DEF e
  <2>. HIDE DEF a
  <2>6. /\ hist' \in HistType /\ hist'.finals = hist.finals /\ hist'.expired = hist.expired
        /\ hist'.ended = hist.ended /\ hist'.clock = hist.clock + txn.timer.dur
    <3>. DEFINE h == Tick(hist)
    <3>1. /\ h \in HistType /\ h.finals = hist.finals /\ h.expired = hist.expired
          /\ h.ended = hist.ended /\ h.clock = hist.clock + txn.timer.dur
      BY <1>1, <1>2, TickFacts
    <3>2. PICK ok \in BOOLEAN : hist' = SentAgain(h, ok)
      BY <2>1
    <3>. HIDE DEF h
    <3>. QED  BY <3>1, <3>2, CopyFacts
  <2>7. /\ txn' \in TxnType /\ txn'.st = txn.st /\ txn'.pool /\ txn'.proto = "UDP"
        /\ txn'.timer.type \in {"none", "E"}
    BY <2>1, <2>4, <2>5
  <2>8. TypeOK'
    <3>1. net' \subseteq Message
      BY <1>1, <1>2, <2>1 DEF Resend
    <3>. QED  BY <1>1, <2>1, <2>6, <2>7, <3>1 DEF TypeOK
  <2>9. txn.st \in {"TRYING", "PROCEEDING"} /\ txn.pool /\ hist.finals = 0
    BY <1>7, <2>1
  <2>10. Told' /\ Wired'
    BY <1>6, <2>6, <2>7, <2>9 DEF Told, OneOutcome, EndNotifiedOnce, Wired, TimerHasHandler
  <2>11. hist.clock + txn.timer.dur = ExpiredAt(txn) + Offset
    BY <1>0, <1>2, <2>1, <2>2, <2>9 DEF Timed, Chained, ExpiredAt, Offset
  <2>12. Chained'
    <3>1. CASE txn' = t
      BY <2>4, <3>1 DEF Chained
    <3>2. CASE txn' = a
      <4>1. hist'.clock + dur = ExpiredAt(txn) + dur + Offset /\ ExpiredAt(txn) + dur <= TLimit
        BY <1>1, <1>2, <2>2, <2>3, <2>6, <2>11 DEF Offset
      <4>2. ExpiredAt(txn) + dur # 0
        BY <2>1, <2>2, <2>3
      <4>3. /\ txn'.expired = ExpiredAt(txn) + dur /\ txn'.timer.dur = dur /\ txn'.proto = "UDP"
            /\ Offset' = Offset
        BY <2>5, <3>2 DEF Offset
      <4>. QED  BY <4>1, <4>2, <4>3 DEF Chained
    <3>. QED  BY <2>1, <3>1, <3>2
  <2>13. GiveUpAtLimit'
    BY <1>6, <2>9, <2>6 DEF GiveUpAtLimit
  <2>. QED  BY <2>8, <2>10, <2>12, <2>13 DEF IInv, Timed
<1>c. ASSUME TimerEFGivesUp PROVE IInv'
  <2>. DEFINE t == [Stop(txn) EXCEPT !.st = "TERMINATED", !.expired = ExpiredAt(txn)]
  <2>1. /\ Waits /\ txn.timer.type \in {"E", "F"} /\ GivesUp(txn)
        /\ txn' = Removed(t) /\ hist' = TellExpiry(Tick(hist)) /\ keys' = keys /\ net' = net
    BY <1>c DEF TimerEFGivesUp
  <2>2. t \in TxnType /\ t.st = "TERMINATED" /\ t.proto = txn.proto
    BY <1>1, <1>2, <1>3, <1>4 DEF TxnType, States, ExpiredAt
  <2>. HIDE DEF t
  <2>3. txn' \in TxnType /\ txn'.st = "TERMINATED" /\ txn'.proto = txn.proto /\ ~txn'.pool
    BY <2>1, <2>2, RemovedFacts
  <2>4. /\ hist' \in HistType /\ hist'.finals = hist.finals
        /\ hist'.expired = hist.expired + (IF txn.ctx THEN 1 ELSE 0)
        /\ hist'.ended = hist.ended + 1 /\ hist'.clock = hist.clock + txn.timer.dur
    <3>. DEFINE h == Tick(hist)
    <3>1. /\ h \in HistType /\ h.finals = hist.finals /\ h.expired = hist.expired
          /\ h.ended = hist.ended /\ h.clock = hist.clock + txn.timer.dur
      BY <1>1, <1>2, TickFacts
    <3>2. hist' = TellExpiry(h)
      BY <2>1
    <3>. HIDE DEF h
    <3>. QED  BY <3>1, <3>2, ExpiryFacts
  <2>5. TypeOK'
    BY <1>1, <2>1, <2>3, <2>4 DEF TypeOK
  <2>6. hist.finals = 0 /\ hist.expired = 0 /\ hist.ended = 0 /\ txn.pool
    BY <1>6, <1>7, <2>1
  <2>7. Told' /\ Wired'
    BY <1>0, <2>3, <2>4, <2>6
    DEF Told, OneOutcome, EndNotifiedOnce, Wired, TimerHasHandler, Waits, Pooled
  <2>8. Chained'
    BY <2>3 DEF Chained
  <2>9. GiveUpAtLimit'
    <3>. SUFFICES ASSUME txn.ctx PROVE hist'.clock = IF FellBack' THEN 2 * TLimit - T1 ELSE TLimit
      BY <2>4, <2>6 DEF GiveUpAtLimit
    <3>1. FellBack' <=> FellBack
      BY <2>3 DEF FellBack
    <3>2. txn.proto \in {"UDP", "TCP"} /\ (Udp => txn.proto = "UDP")
      BY <1>0, <1>2, <2>6 DEF Wired, Protocols
    <3>3. CASE txn.expired = 0
      <4>1. hist.clock = 0 /\ txn.timer.dur = (IF Udp THEN T1 ELSE TLimit)
        BY <1>0, <2>1, <2>6, <3>3 DEF Timed, Chained
      <4>2. txn.proto = "TCP"
        BY <2>1, <3>2, <3>3 DEF GivesUp, ExpiredAt
      <4>. QED  BY <2>4, <3>1, <3>2, <4>1, <4>2 DEF FellBack
    <3>4. CASE txn.expired # 0
      <4>1. /\ hist.clock + txn.timer.dur = txn.expired + Offset /\ txn.expired <= TLimit
            /\ txn.proto = "UDP"
        BY <1>0, <2>1, <2>6, <3>2, <3>4 DEF Timed, Chained
      <4>2. txn.expired = TLimit
        BY <1>2, <2>1, <3>4, <4>1 DEF GivesUp, ExpiredAt
      <4>. QED  BY <2>4, <3>1, <4>1, <4>2 DEF FellBack, Offset
    <3>. QED  BY <3>3, <3>4
  <2>. QED  BY <2>5, <2>7, <2>8, <2>9 DEF IInv, Timed
<1>d. ASSUME TimerKFires PROVE IInv'
  <2>. DEFINE t == [Stop(txn) EXCEPT !.st = "TERMINATED"]
  <2>1. txn' = Removed(t) /\ hist' = TellEnd(hist) /\ keys' = keys /\ net' = net /\ txn.pool
    BY <1>d DEF TimerKFires, Pooled
  <2>2. t \in TxnType /\ t.st = "TERMINATED" /\ t.proto = txn.proto
    BY <1>10
  <2>. HIDE DEF t
  <2>3. TypeOK'
    BY <1>1, <2>1, <2>2, RemovedFacts, HistFacts DEF TypeOK
  <2>. QED
    BY <1>0, <1>1, <2>1, <2>2, <2>3, RemovedFacts, HistFacts, Ending DEF Told, OneOutcome, Wired
<1>e. ASSUME Recv1xx PROVE IInv'
  <2>. DEFINE t == [txn EXCEPT !.st = "PROCEEDING"]
  <2>1. txn.pool /\ txn.st = "TRYING" /\ txn' = t /\ keys' = keys /\ net' = net /\ hist' = hist
    BY <1>e DEF Recv1xx, Pooled
  <2>2. /\ t \in TxnType /\ t.st = "PROCEEDING" /\ t.timer = txn.timer /\ (t.pool <=> txn.pool)
        /\ t.expired = txn.expired /\ t.proto = txn.proto /\ (t.ctx <=> txn.ctx)
    <3>. "PROCEEDING" \in States
      BY DEF States
    <3>. QED  BY <1>1, StateFacts
  <2>. HIDE DEF t
  <2>3. TypeOK'
    BY <1>1, <2>1, <2>2 DEF TypeOK
  <2>. QED  BY <1>0, <2>1, <2>2, <2>3, Keeping
<1>f. ASSUME RecvFinalUdp PROVE IInv'
  <2>1. Waits /\ txn' = Linger(txn) /\ hist' = TellFinal(hist) /\ keys' = keys /\ net' = net
    BY <1>f DEF RecvFinalUdp, AwaitsFinal
  <2>2. TypeOK'
    BY <1>1, <2>1, LingerFacts, HistFacts DEF TypeOK
  <2>. QED  BY <1>0, <1>1, <1>7, <2>1, <2>2, LingerFacts, HistFacts, Lingering
<1>g. ASSUME RecvFinalUntimed PROVE IInv'
  <2>1. Waits /\ txn' = Stop(txn) /\ hist' = hist /\ keys' = keys /\ net' = net
    BY <1>g DEF RecvFinalUntimed, AwaitsFinal
  <2>2. TypeOK'
    BY <1>1, <1>3, <2>1 DEF TypeOK
  <2>. QED  BY <1>0, <1>3, <1>4, <1>7, <2>1, <2>2, Lingering
<1>h. ASSUME RecvFinalTcp PROVE IInv'
  <2>. DEFINE t == [Stop(txn) EXCEPT !.st = "TERMINATED"]
  <2>1. /\ Waits /\ txn' = Removed(t) /\ hist' = TellEnd(TellFinal(hist))
        /\ keys' = keys /\ net' = net
    BY <1>h DEF RecvFinalTcp, AwaitsFinal
  <2>2. t \in TxnType /\ t.st = "TERMINATED" /\ t.proto = txn.proto
    BY <1>10
  <2>. HIDE DEF t
  <2>3. /\ hist' \in HistType /\ hist'.finals = hist.finals + 1 /\ hist'.expired = hist.expired
        /\ hist'.ended = hist.ended + 1
    BY <1>1, <2>1, HistFacts
  <2>4. TypeOK'
    BY <1>1, <2>1, <2>2, <2>3, RemovedFacts DEF TypeOK
  <2>. QED
    BY <1>0, <1>6, <1>7, <2>1, <2>2, <2>3, <2>4, RemovedFacts, Ending DEF Wired
<1>i. ASSUME FallBackToUdp PROVE IInv'
  <2>. DEFINE t == [txn EXCEPT !.proto = "UDP"]
  <2>1. /\ txn.pool /\ txn' = t /\ keys' = keys /\ net' = net \cup {txn.sent}
        /\ hist' = SentAgain(hist, TRUE)
    BY <1>i DEF FallBackToUdp
  <2>2. /\ t \in TxnType /\ t.st = txn.st /\ t.timer = txn.timer /\ (t.pool <=> txn.pool)
        /\ t.expired = txn.expired /\ t.proto = "UDP" /\ (t.ctx <=> txn.ctx)
    BY <1>1 DEF TxnType, Protocols
  <2>. HIDE DEF t
  <2>3. TypeOK'
    BY <1>1, <1>2, <2>1, <2>2, CopyFacts DEF TypeOK
  <2>. QED  BY <1>0, <1>1, <1>6, <2>1, <2>2, <2>3, CopyFacts, Keeping
<1>j. ASSUME TransportError PROVE IInv'
  <2>. DEFINE s == Stop(txn)
              t == [s EXCEPT !.st = "TERMINATED", !.proto = "UDP"]
  <2>1. txn' = Removed(t) /\ hist' = TellEnd(hist) /\ keys' = keys /\ net' = net /\ txn.pool
    BY <1>j DEF TransportError
  <2>. HIDE DEF s
  <2>2. t \in TxnType /\ t.st = "TERMINATED" /\ t.proto = "UDP"
    BY <1>3 DEF s, TxnType, States, Protocols
  <2>. HIDE DEF t
  <2>3. TypeOK'
    BY <1>1, <2>1, <2>2, RemovedFacts, HistFacts DEF TypeOK
  <2>. QED
    BY <1>0, <1>1, <2>1, <2>2, <2>3, RemovedFacts, HistFacts, Ending DEF Told, OneOutcome
<1>k. ASSUME Abort PROVE IInv'
  <2>. DEFINE t == Removed(txn)
  <2>1. txn' = Stop(t) /\ hist' = TellEnd(hist) /\ keys' = keys /\ net' = net /\ txn.pool
    BY <1>k DEF Abort
  <2>2. t \in TxnType /\ ~t.pool /\ t.st = txn.st /\ t.proto = txn.proto
    BY <1>1, RemovedFacts
  <2>. HIDE DEF t
  <2>3. txn' \in TxnType /\ ~txn'.pool /\ txn'.st = txn.st /\ txn'.proto = txn.proto
    BY <2>1, <2>2, StopFacts
  <2>4. TypeOK'
    BY <1>1, <2>1, <2>3, HistFacts DEF TypeOK
  <2>. QED
    BY <1>0, <1>1, <1>6, <2>1, <2>3, <2>4, HistFacts, Ending DEF Told, OneOutcome, Wired
<1>l. ASSUME UNCHANGED vars PROVE IInv'
  BY <1>l DEF vars, IInv, TypeOK, Told, OneOutcome, EndNotifiedOnce, Waits, Pooled, Wired,
     TimerHasHandler, Timed, Chained, Offset, GiveUpAtLimit, FellBack, Udp
<1>. QED
  BY <1>a, <1>b, <1>c, <1>d, <1>e, <1>f, <1>g, <1>h, <1>i, <1>j, <1>k, <1>l
  DEF Next, TimerFires, Receive
-----------------------------------------------------------------------------
\* What ties the timer, the state and the protocol of the transaction, the time that
\* has passed and what its user was told together holds after every entry.
THEOREM Invariance == Spec => []IInv
BY Initial, Inductive, PTL DEF Spec

\* The object, the key list, the network and the history keep their types.
THEOREM TypeCorrect == Spec => []TypeOK
BY Invariance, PTL DEF IInv

\* A timeout is reported exactly when timer F is due, whatever state the intervals
\* of timer E were chosen in (NonInvClient_TimeoutHandling).
THEOREM GiveUpTime == Spec => []GiveUpAtLimit
BY Invariance, PTL DEF IInv, Timed

\* The user hears of one outcome at most (OnRecvMessage, CbkTxnTimeout).
THEOREM SingleOutcome == Spec => []OneOutcome
BY Invariance, PTL DEF IInv, Told

\* The context of the user is freed once, when the transaction leaves the pool.
THEOREM SingleEnd == Spec => []EndNotifiedOnce
BY Invariance, PTL DEF IInv, Told

\* An armed timer always has a handler in the state it fires in.
THEOREM TimersHandled == Spec => []TimerHasHandler
BY Invariance, PTL DEF IInv, Wired

-----------------------------------------------------------------------------
(***************************************************************************)
(* The budget.  First, that Unanswered is what its definition says: a function  *)
(* on the numbers exists that starts with a and goes on with h from each value.   *)
(***************************************************************************)
\* Every set of numbers that is not empty has a least one.
LEMMA Least ==
    ASSUME NEW T \in SUBSET Nat, T # {}
    PROVE  \E n \in T : \A m \in T : n <= m
<1>1. PICK x \in T : \A y \in T : ~ (<<y, x>> \in OpToRel(<, Nat))
  BY WFMin, NatLessThanWellFounded
<1>2. \A y \in T : <<y, x>> \in Nat \X Nat
  OBVIOUS
<1>3. \A y \in T : ~(y < x)
  BY <1>1, <1>2 DEF OpToRel
<1>. QED  BY <1>3

\* Induction for a set: the rule for operators cannot be instantiated.
LEMMA InductionOnNumbers ==
    ASSUME NEW T \in SUBSET Nat, 0 \in T, \A n \in Nat \ {0} : n - 1 \in T => n \in T
    PROVE  T = Nat
<1>1. CASE Nat \ T # {}
  <2>1. PICK n \in Nat \ T : \A m \in Nat \ T : n <= m
    BY <1>1, Least
  <2>2. n # 0 /\ n - 1 \in Nat /\ n - 1 < n
    BY <2>1
  <2>3. n - 1 \in T
    BY <2>1, <2>2
  <2>. QED  BY <2>1, <2>2, <2>3
<1>. QED  BY <1>1

\* Primitive recursion over an arbitrary set of values.
LEMMA PrimitiveRecursion ==
    ASSUME NEW V, NEW a \in V, NEW h \in [V -> V]
    PROVE  \E f \in [Nat -> V] : \A n \in Nat : f[n] = IF n = 0 THEN a ELSE h[f[n - 1]]
<1>. DEFINE Upto(n, g) == \A m \in Nat : m <= n => g[m] = IF m = 0 THEN a ELSE h[g[m - 1]]
            K == {n \in Nat : \E g \in [Nat -> V] : Upto(n, g)}
            L == {n \in Nat : \A g1, g2 \in [Nat -> V] :
                                 Upto(n, g1) /\ Upto(n, g2) => g1[n] = g2[n]}
<1>1. K = Nat
  <2>1. 0 \in K
    <3>. DEFINE g == [m \in Nat |-> a]
    <3>1. g \in [Nat -> V] /\ Upto(0, g)
      OBVIOUS
    <3>. QED  BY <3>1
  <2>2. ASSUME NEW n \in Nat \ {0}, n - 1 \in K
        PROVE  n \in K
    <3>1. PICK g \in [Nat -> V] : Upto(n - 1, g)
      BY <2>2
    <3>. DEFINE e == [m \in Nat |-> IF m = n THEN h[g[n - 1]] ELSE g[m]]
    <3>2. n - 1 \in Nat /\ n - 1 # n
      OBVIOUS
    <3>3. e \in [Nat -> V]
      BY <3>2
    <3>4. ASSUME NEW m \in Nat, m <= n
          PROVE  e[m] = IF m = 0 THEN a ELSE h[e[m - 1]]
      <4>1. CASE m = n
        BY <3>2, <4>1
      <4>2. CASE m # n
        <5>1. m <= n - 1 /\ (m # 0 => m - 1 \in Nat /\ m - 1 # n)
          BY <3>4, <4>2
        <5>. QED  BY <3>1, <4>2, <5>1
      <4>. QED  BY <4>1, <4>2
    <3>. QED  BY <3>3, <3>4
  <2>3. K \in SUBSET Nat
    OBVIOUS
  <2>. HIDE DEF K
  <2>. QED  BY <2>1, <2>2, <2>3, InductionOnNumbers
<1>2. L = Nat
  <2>1. 0 \in L
    OBVIOUS
  <2>2. ASSUME NEW n \in Nat \ {0}, n - 1 \in L
        PROVE  n \in L
    <3>1. n - 1 \in Nat
      OBVIOUS
    <3>2. ASSUME NEW g \in [Nat -> V], Upto(n, g)
          PROVE  Upto(n - 1, g) /\ g[n] = h[g[n - 1]]
      BY <3>1, <3>2
    <3>. QED  BY <2>2, <3>1, <3>2
  <2>3. L \in SUBSET Nat
    OBVIOUS
  <2>. HIDE DEF L
  <2>. QED  BY <2>1, <2>2, <2>3, InductionOnNumbers
<1>. DEFINE G(n) == CHOOSE g \in [Nat -> V] : Upto(n, g)
            f == [n \in Nat |-> G(n)[n]]
<1>3. \A n \in Nat : G(n) \in [Nat -> V] /\ Upto(n, G(n))
  BY <1>1
<1>4. \A n \in Nat : \A g1, g2 \in [Nat -> V] : Upto(n, g1) /\ Upto(n, g2) => g1[n] = g2[n]
  BY <1>2
<1>. HIDE DEF G
<1>5. f \in [Nat -> V]
  BY <1>3
<1>6. ASSUME NEW n \in Nat
      PROVE  f[n] = IF n = 0 THEN a ELSE h[f[n - 1]]
  <2>1. CASE n = 0
    BY <1>3, <2>1
  <2>2. CASE n # 0
    <3>1. n - 1 \in Nat /\ n - 1 <= n
      BY <2>2
    <3>2. Upto(n - 1, G(n))
      BY <1>3, <3>1
    <3>3. G(n)[n - 1] = G(n - 1)[n - 1]
      <4>. HIDE DEF Upto
      <4>. QED  BY <1>3, <1>4, <3>1, <3>2
    <3>4. G(n)[n] = h[G(n)[n - 1]]
      BY <1>3, <2>2
    <3>. QED  BY <2>2, <3>1, <3>3, <3>4
  <2>. QED  BY <2>1, <2>2
<1>. QED  BY <1>5, <1>6

\* An interval of timer E after d while nobody answers, and one element of Unanswered.
Doubled(d) == IF 2 * d > T2 THEN T2 ELSE 2 * d
Firing == [at : Nat, next : Nat]

\* Unanswered has the values that its definition says.
LEMMA UnansweredUnfolds ==
    /\ Unanswered \in [Nat -> Firing]
    /\ Unanswered[0].at = T1 /\ Unanswered[0].next = Doubled(T1)
    /\ \A n \in Nat : /\ Unanswered[n + 1].at = Unanswered[n].at + Unanswered[n].next
                      /\ Unanswered[n + 1].next = Doubled(Unanswered[n].next)
    /\ \A n \in Nat : Unanswered[n].next <= T2
<1>. DEFINE a == [at |-> T1, next |-> Doubled(T1)]
            h == [c \in Firing |-> [at |-> c.at + c.next, next |-> Doubled(c.next)]]
            Def(f) == f = [n \in Nat |-> IF n = 0 THEN a
                                         ELSE [at |-> f[n - 1].at + f[n - 1].next,
                                               next |-> Doubled(f[n - 1].next)]]
<1>1. a \in Firing /\ h \in [Firing -> Firing]
  BY DEF Firing, Doubled
<1>2. PICK f \in [Nat -> Firing] : \A n \in Nat : f[n] = IF n = 0 THEN a ELSE h[f[n - 1]]
  <2>. HIDE DEF a, h
  <2>. QED  BY <1>1, PrimitiveRecursion
<1>3. Def(f)
  <2>1. \A n \in Nat : n # 0 => n - 1 \in Nat /\ f[n - 1] \in Firing
    OBVIOUS
  <2>2. \A n \in Nat : f[n] = IF n = 0 THEN a ELSE [at |-> f[n - 1].at + f[n - 1].next,
                                                  next |-> Doubled(f[n - 1].next)]
    <3>. HIDE DEF a
    <3>. QED  BY <1>2, <2>1
  <2>. HIDE DEF a
  <2>. QED  BY <2>2
<1>4. Unanswered = CHOOSE g : Def(g)
  BY Zenon DEF Unanswered, Doubled
<1>. HIDE DEF Def
<1>5. Def(Unanswered)
  BY <1>3, <1>4
<1>. USE DEF Def
<1>6. \A n \in Nat : Unanswered[n] = IF n = 0 THEN a
                                     ELSE [at |-> Unanswered[n - 1].at + Unanswered[n - 1].next,
                                           next |-> Doubled(Unanswered[n - 1].next)]
  <2>. HIDE DEF a
  <2>. QED  BY <1>5
<1>7. Unanswered[0].at = T1 /\ Unanswered[0].next = Doubled(T1)
  <2>1. Unanswered[0] = a
    <3>. HIDE DEF a
    <3>. QED  BY <1>6
  <2>. QED  BY <2>1
<1>8. ASSUME NEW n \in Nat
      PROVE  /\ Unanswered[n + 1].at = Unanswered[n].at + Unanswered[n].next
             /\ Unanswered[n + 1].next = Doubled(Unanswered[n].next)
             /\ Unanswered[n + 1] = [at |-> Unanswered[n + 1].at, next |-> Unanswered[n + 1].next]
  <2>1. n + 1 \in Nat /\ n + 1 # 0 /\ (n + 1) - 1 = n
    OBVIOUS
  <2>2. Unanswered[n + 1] = [at |-> Unanswered[n].at + Unanswered[n].next,
                             next |-> Doubled(Unanswered[n].next)]
    <3>. HIDE DEF a
    <3>. QED  BY <1>6, <2>1
  <2>. DEFINE p == Unanswered[n].at + Unanswered[n].next
              q == Doubled(Unanswered[n].next)
              u == Unanswered[n + 1]
  <2>3. u = [at |-> p, next |-> q]
    BY <2>2
  <2>. HIDE DEF p, q, u
  <2>4. u.at = p /\ u.next = q /\ u = [at |-> u.at, next |-> u.next]
    BY <2>3
  <2>. QED  BY <2>4 DEF p, q, u
<1>9. \A n \in Nat : Unanswered[n] \in Firing /\ Unanswered[n].next <= T2
  <2>. DEFINE K == {n \in Nat : Unanswered[n] \in Firing /\ Unanswered[n].next <= T2}
  <2>1. 0 \in K
    <3>1. Unanswered[0] = a
      <4>. HIDE DEF a
      <4>. QED  BY <1>6
    <3>2. Unanswered[0].next <= T2
      BY <1>7 DEF Doubled
    <3>. HIDE DEF a
    <3>. QED  BY <1>1, <3>1, <3>2
  <2>2. ASSUME NEW n \in Nat \ {0}, n - 1 \in K
        PROVE  n \in K
    <3>. DEFINE m == n - 1
                p == Unanswered[m].at
                d == Unanswered[m].next
    <3>1. m \in Nat /\ m + 1 = n /\ p \in Nat /\ d \in Nat
      BY <2>2 DEF Firing
    <3>. HIDE DEF m
    <3>2. /\ Unanswered[n].at = p + d /\ Unanswered[n].next = Doubled(d)
          /\ Unanswered[n] = [at |-> Unanswered[n].at, next |-> Unanswered[n].next]
      BY <1>8, <3>1
    <3>. HIDE DEF p, d
    <3>3. p + d \in Nat /\ Doubled(d) \in Nat /\ Doubled(d) <= T2
      BY <3>1 DEF Doubled
    <3>4. Unanswered[n] \in Firing
      BY <3>2, <3>3 DEF Firing
    <3>. QED  BY <3>2, <3>3, <3>4
  <2>3. K \in SUBSET Nat
    OBVIOUS
  <2>4. K = Nat
    <3>. HIDE DEF K
    <3>. QED  BY <2>1, <2>2, <2>3, InductionOnNumbers
  <2>. QED  BY <2>4
<1>10. Unanswered \in [Nat -> Firing]
  <2>1. Unanswered = [n \in Nat |-> Unanswered[n]]
    <3>. HIDE DEF a
    <3>. QED  BY <1>5
  <2>. QED  BY <1>9, <2>1
<1>. QED  BY <1>7, <1>8, <1>9, <1>10

-----------------------------------------------------------------------------
(***************************************************************************)
(* The budget, continued.  A transaction lags behind the unanswered request    *)
(* with as many copies: its timer E is due no earlier and its intervals are no   *)
(* shorter, or it is due at the limit and is the last one.  A send that fails     *)
(* lets time pass without a copy, a provisional lengthens the interval: both     *)
(* only make it lag more.                                                   *)
(***************************************************************************)
Lags(due, cur, c) == due = TLimit \/ (due >= c.at /\ Doubled(cur) >= c.next)

Budget ==
    /\ RetransmissionBudget
    /\ ~Udp /\ txn.proto # "UDP" => hist.copies <= 1
    /\ Udp /\ txn.proto = "UDP" => hist.copies >= 1
    /\ Udp /\ Waits /\ txn.proto = "UDP" /\ txn.timer.type \in {"E", "F"} =>
           Lags(hist.clock + txn.timer.dur, txn.cur, Unanswered[hist.copies - 1])

\* One firing before the limit: the copy it sends is in the budget, and the next one
\* lags behind the next firing of the unanswered request, and behind this one.
LEMMA LagKept ==
    ASSUME NEW due \in Nat, NEW cur \in Nat, NEW c \in Firing, NEW x \in {T2, Doubled(cur)},
           NEW d \in Firing, c.next <= T2, Lags(due, cur, c), due < TLimit,
           d.at = c.at + c.next, d.next = Doubled(c.next)
    PROVE  /\ c.at < TLimit
           /\ Lags(due + Capped(due, x), Capped(due, x), d)
           /\ Lags(due + Capped(due, x), Capped(due, x), c)
<1>. DEFINE at == c.at
            next == c.next
<1>1. at \in Nat /\ next \in Nat
  BY DEF Firing
<1>2. due >= at /\ Doubled(cur) >= next
  BY DEF Lags
<1>3. x \in Nat /\ x >= next
  BY <1>1, <1>2 DEF Doubled
<1>4. CASE due + x >= TLimit
  <2>1. Capped(due, x) = TLimit - due
    BY <1>4 DEF Capped
  <2>2. due + Capped(due, x) = TLimit
    BY <2>1
  <2>. QED  BY <1>1, <1>2, <2>2 DEF Lags
<1>5. CASE ~(due + x >= TLimit)
  <2>1. Capped(due, x) = x
    BY <1>5 DEF Capped
  <2>2. due + x >= at + next /\ due + x >= at
    BY <1>1, <1>2, <1>3
  <2>3. Doubled(x) >= Doubled(next) /\ Doubled(x) >= next
    BY <1>1, <1>3 DEF Doubled
  <2>. QED  BY <1>1, <1>2, <2>1, <2>2, <2>3 DEF Lags
<1>. QED  BY <1>4, <1>5

\* A step that sends nothing and starts no timer of its own chain.
LEMMA BudgetKept ==
    ASSUME Budget, Udp' <=> Udp, hist'.copies = hist.copies,
           txn'.proto = txn.proto,
           \/ ~txn'.pool
           \/ txn'.timer.type \notin {"E", "F"}
           \/ txn'.proto # "UDP"
           \/ /\ Waits /\ txn'.timer = txn.timer /\ txn'.cur = txn.cur
              /\ hist'.clock = hist.clock
    PROVE  Budget'
<1>1. RetransmissionBudget'
  BY DEF Budget, RetransmissionBudget, FellBack
<1>. QED  BY <1>1 DEF Budget, Waits, Pooled

\* A fall-back leaves no budget to keep.
LEMMA BudgetOver ==
    ASSUME ~Udp', txn'.proto = "UDP"
    PROVE  Budget'
BY DEF Budget, RetransmissionBudget, FellBack

\* Only a copy of the request counts.
LEMMA CopiesKept ==
    ASSUME NEW h \in HistType, txn.timer.dur \in Nat
    PROVE  /\ TellFinal(h).copies = h.copies /\ TellEnd(h).copies = h.copies
           /\ TellEnd(TellFinal(h)).copies = h.copies
           /\ TellExpiry(Tick(h)).copies = h.copies /\ Tick(h).copies = h.copies
BY DEF HistType, TellFinal, TellEnd, TellExpiry, Tick

LEMMA BudgetInitial == Init => Budget
BY DEF Init, NewTxn, NewHist, NoTimer, Budget, RetransmissionBudget, Waits, Pooled

LEMMA BudgetInductive == IInv /\ Budget /\ [Next]_vars => Budget'
<1>. SUFFICES ASSUME IInv, Budget, [Next]_vars PROVE Budget'
  OBVIOUS
<1>0. TypeOK /\ Told /\ Wired /\ Timed
  BY DEF IInv
<1>1. env' = env /\ (Udp' <=> Udp) /\ Udp \in BOOLEAN
  BY <1>0, EnvKept DEF TypeOK, Udp, Environment
<1>2. /\ txn \in TxnType /\ hist \in HistType /\ txn.timer.dur \in Nat /\ txn.cur \in Nat
      /\ txn.expired \in Nat /\ hist.clock \in Nat /\ hist.copies \in Nat
      /\ txn.proto \in Protocols
  BY <1>0 DEF TypeOK, TxnType, Timer, HistType
<1>3. /\ Stop(txn) \in TxnType /\ Stop(txn).timer.type = "none" /\ Stop(txn).proto = txn.proto
      /\ (Stop(txn).pool <=> txn.pool)
  BY <1>2, StopFacts DEF NoTimer
<1>4. [Stop(txn) EXCEPT !.st = "TERMINATED"] \in TxnType
      /\ [Stop(txn) EXCEPT !.st = "TERMINATED"].proto = txn.proto
  <2>. "TERMINATED" \in States
    BY DEF States
  <2>. QED  BY <1>3, StateFacts
<1>5. ASSUME NEW t \in TxnType, t.proto = txn.proto, txn' = Removed(t),
             hist'.copies = hist.copies
      PROVE  Budget'
  BY <1>1, <1>5, RemovedFacts, BudgetKept

<1>a. ASSUME NEW cancel \in BOOLEAN, SendRequest(cancel) PROVE Budget'
  <2>. DEFINE type == IF Udp THEN "E" ELSE "F"
              dur == IF Udp THEN T1 ELSE TLimit
              i == [txn EXCEPT !.st = "TRYING", !.pool = TRUE]
              t == Start(i, type, dur)
  <2>0. FirstTimer(i) = t
    BY DEF FirstTimer
  <2>1. /\ txn.st = "IDLE"
        /\ \/ txn' = Stop(Removed(t)) /\ hist' = TellEnd(hist)
           \/ txn' = [t EXCEPT !.ctx = FALSE] /\ hist' = hist
           \/ /\ txn' = Stored(t, Plain("REQ"), FirstProto)
              /\ hist' = [hist EXCEPT !.copies = 1]
    BY <1>a, <2>0 DEF SendRequest
  <2>2. txn.proto = "NONE" /\ hist.clock = 0
    BY <1>0, <2>1 DEF Wired
  <2>3. i \in TxnType /\ i.proto = "NONE" /\ type \in TimerTypes /\ dur \in Nat
    BY <1>2, <2>2 DEF TxnType, States, TimerTypes
  <2>. HIDE DEF i
  <2>4. /\ t \in TxnType /\ t.proto = "NONE" /\ t.timer.type = type /\ t.timer.dur = dur
        /\ t.cur = dur
    <3>. HIDE DEF type, dur
    <3>1. t.cur = dur
      BY <2>3 DEF Start, TxnType
    <3>. QED  BY <2>3, <3>1, StartFacts
  <2>. HIDE DEF t
  <2>5. CASE txn' = Stop(Removed(t)) /\ hist' = TellEnd(hist)
    <3>1. txn'.proto = "NONE" /\ txn'.timer.type = "none"
      BY <2>4, <2>5, RemovedFacts, StopFacts DEF NoTimer
    <3>2. hist'.copies = hist.copies
      BY <1>2, <2>5, CopiesKept
    <3>. QED  BY <1>1, <2>2, <3>1, <3>2, BudgetKept
  <2>6. CASE txn' = [t EXCEPT !.ctx = FALSE] /\ hist' = hist
    <3>1. txn'.proto = "NONE"
      BY <2>4, <2>6 DEF TxnType
    <3>. QED  BY <1>1, <2>2, <2>6, <3>1, BudgetKept
  <2>7. CASE txn' = Stored(t, Plain("REQ"), FirstProto) /\ hist' = [hist EXCEPT !.copies = 1]
    <3>1. /\ txn'.proto = FirstProto /\ txn'.timer.dur = dur /\ txn'.cur = dur
      BY <2>4, <2>7 DEF Stored, TxnType
    <3>2. hist'.copies = 1 /\ hist'.clock = 0
      BY <1>2, <2>2, <2>7 DEF HistType
    <3>3. Udp => Lags(hist'.clock + txn'.timer.dur, txn'.cur, Unanswered[hist'.copies - 1])
      <4>1. hist'.copies - 1 = 0
        BY <3>2
      <4>2. Udp => hist'.clock + txn'.timer.dur = T1 /\ txn'.cur = T1
        BY <3>1, <3>2
      <4>3. T1 >= T1 /\ Doubled(T1) >= Doubled(T1)
        BY DEF Doubled
      <4>. QED  BY <4>1, <4>2, <4>3, UnansweredUnfolds DEF Lags
    <3>4. RetransmissionBudget'
      BY <3>2 DEF RetransmissionBudget
    <3>. QED  BY <1>1, <3>1, <3>2, <3>3, <3>4 DEF Budget, FirstProto
  <2>. QED  BY <2>1, <2>5, <2>6, <2>7
<1>b. ASSUME TimerEFRepeats PROVE Budget'
  <2>. DEFINE dur == NextInterval(txn)
              t == [Stop(txn) EXCEPT !.expired = ExpiredAt(txn)]
              a == [Start(t, "E", dur) EXCEPT !.retx = @ + 1, !.expired = @ + dur]
              due == hist.clock + txn.timer.dur
              x == IF txn.st = "PROCEEDING" \/ 2 * txn.cur > T2 THEN T2 ELSE 2 * txn.cur
  <2>1. /\ Waits /\ txn.timer.type \in {"E", "F"} /\ ~GivesUp(txn) /\ dur > 0
        /\ \E started, sent \in BOOLEAN :
              /\ txn' = IF started THEN a ELSE t
              /\ hist' = SentAgain(Tick(hist), started /\ sent)
    BY <1>b DEF TimerEFRepeats, Outcome
  <2>2. txn.proto = "UDP" /\ ExpiredAt(txn) \in Nat /\ ExpiredAt(txn) < TLimit
    BY <1>2, <2>1 DEF GivesUp, ExpiredAt
  <2>3. x \in {T2, Doubled(txn.cur)} /\ dur = Capped(ExpiredAt(txn), x)
    BY DEF Doubled, NextInterval
  <2>4. dur \in Nat
    <3>1. x \in Nat
      BY <1>2
    <3>. HIDE DEF x
    <3>. QED  BY <2>2, <2>3, <3>1 DEF Capped
  <2>. HIDE DEF dur, x
  <2>5. /\ t \in TxnType /\ t.proto = "UDP" /\ t.timer.type = "none"
    BY <1>2, <1>3, <2>2 DEF TxnType
  <2>. HIDE DEF t
  <2>6. a.proto = "UDP" /\ a.timer.type = "E" /\ a.timer.dur = dur /\ a.cur = dur
    BY <2>4, <2>5 DEF Start, TxnType
  <2>. HIDE DEF a
  <2>7. PICK started \in BOOLEAN, sent \in BOOLEAN :
              /\ txn' = IF started THEN a ELSE t
              /\ hist' = SentAgain(Tick(hist), started /\ sent)
    BY <2>1
  <2>8. txn'.proto = "UDP" /\ txn'.timer.type = IF started THEN "E" ELSE "none"
    BY <2>5, <2>6, <2>7
  <2>9. CASE ~Udp
    BY <1>1, <2>8, <2>9, BudgetOver
  <2>10. CASE Udp
    <3>. DEFINE n == hist.copies - 1
                c == Unanswered[n]
                d == Unanswered[n + 1]
                more == IF started /\ sent THEN 1 ELSE 0
    <3>1. n \in Nat /\ hist.copies = n + 1
      BY <1>2, <2>2, <2>10 DEF Budget
    <3>2. /\ c \in Firing /\ d \in Firing /\ c.next <= T2
          /\ d.at = c.at + c.next /\ d.next = Doubled(c.next)
      BY <3>1, UnansweredUnfolds
    <3>3. due = ExpiredAt(txn)
      <4>1. txn.pool
        BY <2>1 DEF Waits, Pooled
      <4>. QED
        BY <1>0, <1>2, <2>1, <2>2, <2>10, <4>1 DEF Timed, Chained, ExpiredAt, Offset
    <3>4. Lags(due, txn.cur, c)
      BY <2>1, <2>2, <2>10, <3>3 DEF Budget
    <3>5. hist'.clock = due /\ hist'.copies = hist.copies + more
      <4>1. /\ Tick(hist) \in HistType /\ Tick(hist).clock = due
            /\ Tick(hist).copies = hist.copies
        BY <1>2, TickFacts, CopiesKept
      <4>. DEFINE h == Tick(hist)
      <4>2. hist' = [h EXCEPT !.copies = h.copies + more]
        BY <2>2, <2>7 DEF SentAgain
      <4>. HIDE DEF h, more
      <4>. QED  BY <4>1, <4>2 DEF HistType, h
    <3>. HIDE DEF due, c, d
    <3>6. /\ c.at < TLimit
          /\ Lags(due + dur, dur, d)
          /\ Lags(due + dur, dur, c)
      BY <1>2, <2>2, <2>3, <3>2, <3>3, <3>4, LagKept
    <3>7. RetransmissionBudget'
      <4>1. CASE started /\ sent
        <5>1. hist'.copies - 2 = n
          BY <3>1, <3>5, <4>1
        <5>. QED  BY <3>6, <5>1 DEF RetransmissionBudget, c
      <4>2. CASE ~(started /\ sent)
        <5>1. hist'.copies = hist.copies
          BY <1>2, <3>5, <4>2
        <5>. QED  BY <1>1, <2>10, <5>1 DEF Budget, RetransmissionBudget, FellBack
      <4>. QED  BY <4>1, <4>2
    <3>8. started => Lags(hist'.clock + txn'.timer.dur, txn'.cur, Unanswered[hist'.copies - 1])
      <4>. SUFFICES ASSUME started
                    PROVE  Lags(hist'.clock + txn'.timer.dur, txn'.cur,
                                Unanswered[hist'.copies - 1])
        OBVIOUS
      <4>1. hist'.clock + txn'.timer.dur = due + dur /\ txn'.cur = dur
        BY <2>6, <2>7, <3>5
      <4>2. Unanswered[hist'.copies - 1] \in {c, d}
        <5>1. hist'.copies - 1 = n \/ hist'.copies - 1 = n + 1
          BY <3>1, <3>5
        <5>. QED  BY <5>1 DEF c, d
      <4>. QED  BY <3>6, <4>1, <4>2
    <3>9. hist'.copies >= 1
      BY <3>1, <3>5
    <3>. QED  BY <1>1, <2>8, <2>10, <3>7, <3>8, <3>9 DEF Budget
  <2>. QED  BY <2>9, <2>10
<1>c. ASSUME TimerEFGivesUp PROVE Budget'
  <2>. DEFINE t == [Stop(txn) EXCEPT !.st = "TERMINATED", !.expired = ExpiredAt(txn)]
  <2>1. txn' = Removed(t) /\ hist' = TellExpiry(Tick(hist))
    BY <1>c DEF TimerEFGivesUp
  <2>2. t \in TxnType /\ t.proto = txn.proto
    BY <1>2, <1>3 DEF TxnType, States, ExpiredAt
  <2>. HIDE DEF t
  <2>. QED  BY <1>2, <1>5, <2>1, <2>2, CopiesKept
<1>d. ASSUME TimerKFires PROVE Budget'
  <2>. DEFINE t == [Stop(txn) EXCEPT !.st = "TERMINATED"]
  <2>1. txn' = Removed(t) /\ hist' = TellEnd(hist)
    BY <1>d DEF TimerKFires
  <2>. HIDE DEF t
  <2>2. t \in TxnType /\ t.proto = txn.proto
    BY <1>4 DEF t
  <2>. QED  BY <1>2, <1>5, <2>1, <2>2, CopiesKept
<1>e. ASSUME Recv1xx PROVE Budget'
  <2>1. Waits /\ hist' = hist
    BY <1>e DEF Recv1xx, Waits
  <2>2. txn'.proto = txn.proto /\ txn'.timer = txn.timer /\ txn'.cur = txn.cur
    BY <1>2, <1>e DEF Recv1xx, TxnType
  <2>. QED  BY <1>1, <2>1, <2>2, BudgetKept
<1>f. ASSUME RecvFinalUdp PROVE Budget'
  <2>1. txn' = Linger(txn) /\ hist' = TellFinal(hist)
    BY <1>f DEF RecvFinalUdp
  <2>. QED  BY <1>1, <1>2, <2>1, LingerFacts, CopiesKept, BudgetKept
<1>g. ASSUME RecvFinalUntimed PROVE Budget'
  BY <1>g, <1>1, <1>3, BudgetKept DEF RecvFinalUntimed
<1>h. ASSUME RecvFinalTcp PROVE Budget'
  <2>. DEFINE t == [Stop(txn) EXCEPT !.st = "TERMINATED"]
  <2>1. txn' = Removed(t) /\ hist' = TellEnd(TellFinal(hist))
    BY <1>h DEF RecvFinalTcp
  <2>. HIDE DEF t
  <2>2. t \in TxnType /\ t.proto = txn.proto
    BY <1>4 DEF t
  <2>. QED  BY <1>2, <1>5, <2>1, <2>2, CopiesKept
<1>i. ASSUME FallBackToUdp PROVE Budget'
  <2>1. ~Udp /\ txn'.proto = "UDP"
    BY <1>0, <1>2, <1>i DEF FallBackToUdp, Wired, TxnType
  <2>. QED  BY <1>1, <2>1, BudgetOver
<1>j. ASSUME TransportError PROVE Budget'
  <2>. DEFINE s == Stop(txn)
              t == [s EXCEPT !.st = "TERMINATED", !.proto = "UDP"]
  <2>1. txn' = Removed(t) /\ hist' = TellEnd(hist) /\ txn.proto \in {"UDP", "TCP"}
    BY <1>j DEF TransportError
  <2>. HIDE DEF s
  <2>2. t \in TxnType /\ t.proto = "UDP"
    BY <1>3 DEF s, TxnType, States, Protocols
  <2>. HIDE DEF t
  <2>3. CASE txn.proto = "UDP"
    BY <1>2, <1>5, <2>1, <2>2, <2>3, CopiesKept
  <2>4. CASE txn.proto = "TCP"
    <3>1. ~Udp /\ txn'.proto = "UDP"
      BY <1>0, <2>1, <2>2, <2>4, RemovedFacts DEF Wired
    <3>. QED  BY <1>1, <3>1, BudgetOver
  <2>. QED  BY <2>1, <2>3, <2>4
<1>k. ASSUME Abort PROVE Budget'
  <2>. DEFINE t == Removed(txn)
  <2>1. txn' = Stop(t) /\ hist' = TellEnd(hist)
    BY <1>k DEF Abort
  <2>2. t \in TxnType /\ t.proto = txn.proto
    BY <1>2, RemovedFacts
  <2>. HIDE DEF t
  <2>3. txn'.proto = txn.proto /\ txn'.timer.type = "none"
    BY <2>1, <2>2, StopFacts DEF NoTimer
  <2>. QED  BY <1>1, <1>2, <2>1, <2>3, CopiesKept, BudgetKept
<1>l. ASSUME UNCHANGED vars PROVE Budget'
  BY <1>l DEF vars, Budget, RetransmissionBudget, FellBack, Udp, Waits, Pooled
<1>. QED
  BY <1>a, <1>b, <1>c, <1>d, <1>e, <1>f, <1>g, <1>h, <1>i, <1>j, <1>k, <1>l
  DEF Next, TimerFires, Receive

\* No more copies of the request go out than timer E would send if nobody answered,
\* whatever provisionals, failed sends and failed timers come (NonInvClient_TimeoutHandling,
\* SendRequest).
THEOREM CopiesBounded == Spec => []RetransmissionBudget
<1>1. Budget => RetransmissionBudget
  BY DEF Budget
<1>. QED  BY <1>1, Invariance, BudgetInitial, BudgetInductive, PTL DEF Spec

-----------------------------------------------------------------------------
(***************************************************************************)
(* The refinement.  The phase of ClientTxn is read off the state, the pool and  *)
(* the number of final responses; with the invariant each step is of one of    *)
(* five kinds, which StepMaps sends to the abstract actions.                  *)
(***************************************************************************)
PhaseOK ==
    /\ txn.st = "IDLE" => Phase = "idle" /\ hist.finals = 0 /\ hist.expired = 0 /\ ~txn.pool
    /\ txn.st # "IDLE" /\ ~txn.pool => Phase = "over"
    /\ txn.pool /\ hist.finals > 0 => Phase = "answered"
    /\ txn.pool /\ hist.finals = 0 => Phase = "waiting"
    /\ hist.finals \in Nat /\ hist.expired \in Nat

LEMMA PhaseFacts == IInv => PhaseOK
BY DEF IInv, Told, Phase, TypeOK, HistType, PhaseOK

LEMMA PhaseFactsAfter == IInv' => PhaseOK'
BY PhaseFacts, PTL

SameTold == hist'.finals = hist.finals /\ hist'.expired = hist.expired

Starts == txn.st = "IDLE" /\ txn'.st # "IDLE" /\ SameTold
Stays == txn.pool /\ txn'.pool /\ SameTold
Answers ==
    /\ Waits /\ txn'.st # "IDLE"
    /\ hist'.finals = hist.finals + 1 /\ hist'.expired = hist.expired
TimesOut ==
    /\ Waits /\ ~txn'.pool /\ txn'.st # "IDLE"
    /\ hist'.finals = hist.finals /\ hist'.expired = hist.expired + 1
Ends == txn.pool /\ ~txn'.pool /\ txn'.st # "IDLE" /\ SameTold

LEMMA StepMaps ==
    ASSUME IInv, IInv', Starts \/ Stays \/ Answers \/ TimesOut \/ Ends
    PROVE  [Abstract!Next]_(Abstract!vars)
<1>1. PhaseOK /\ PhaseOK'
  BY PhaseFacts, PhaseFactsAfter
<1>2. Waits => txn.pool /\ hist.finals = 0
  BY DEF IInv, Told, Waits, Pooled
<1>. USE <1>1 DEF PhaseOK, SameTold, Abstract!Next, Abstract!vars
<1>3. CASE Starts
  BY <1>3 DEF Starts, Abstract!Begin, Abstract!Fail
<1>4. CASE Stays
  BY <1>4 DEF Stays
<1>5. CASE Answers
  BY <1>2, <1>5 DEF Answers, Abstract!Answer
<1>6. CASE TimesOut
  BY <1>2, <1>6 DEF TimesOut, Abstract!Timeout
<1>7. CASE Ends
  BY <1>7 DEF Ends, Abstract!End
<1>. QED  BY <1>3, <1>4, <1>5, <1>6, <1>7

LEMMA StepKinds ==
    ASSUME IInv, Next
    PROVE  Starts \/ Stays \/ Answers \/ TimesOut \/ Ends
<1>1. /\ txn \in TxnType /\ hist \in HistType /\ txn.timer.dur \in Nat /\ txn.expired \in Nat
      /\ hist.expired \in Nat
  BY DEF IInv, TypeOK, TxnType, Timer, HistType
<1>2. /\ Stop(txn) \in TxnType /\ Stop(txn).st = txn.st /\ (Stop(txn).pool <=> txn.pool)
  BY <1>1, StopFacts
<1>3. txn.pool => txn.st # "IDLE"
  BY DEF IInv, Told
<1>4. Waits => txn.pool
  BY DEF Waits, Pooled
<1>5. /\ [Stop(txn) EXCEPT !.st = "TERMINATED"] \in TxnType
      /\ [Stop(txn) EXCEPT !.st = "TERMINATED"].st = "TERMINATED"
  <2>. "TERMINATED" \in States
    BY DEF States
  <2>. QED  BY <1>2, StateFacts
<1>6. ASSUME NEW t \in TxnType, t.st # "IDLE", txn.pool,
             txn' = Removed(t), hist' = TellEnd(hist)
      PROVE  Ends
  BY <1>1, <1>6, RemovedFacts, HistFacts DEF Ends, SameTold

<1>a. ASSUME NEW cancel \in BOOLEAN, SendRequest(cancel) PROVE Starts
  <2>. DEFINE i == [txn EXCEPT !.st = "TRYING", !.pool = TRUE]
              type == IF Udp THEN "E" ELSE "F"
              dur == IF Udp THEN T1 ELSE TLimit
              t == Start(i, type, dur)
  <2>0. FirstTimer(i) = t
    BY DEF FirstTimer
  <2>1. /\ txn.st = "IDLE"
        /\ \/ txn' = Stop(Removed(t)) /\ hist' = TellEnd(hist)
           \/ txn' = [t EXCEPT !.ctx = FALSE] /\ hist' = hist
           \/ /\ txn' = Stored(t, Plain("REQ"), FirstProto)
              /\ hist' = [hist EXCEPT !.copies = 1]
    BY <1>a, <2>0 DEF SendRequest
  <2>2. i \in TxnType /\ i.st = "TRYING" /\ type \in TimerTypes /\ dur \in Nat
    BY <1>1 DEF TxnType, States, TimerTypes
  <2>. HIDE DEF i, type, dur
  <2>3. t \in TxnType /\ t.st = "TRYING"
    BY <2>2, StartFacts
  <2>. HIDE DEF t
  <2>4. CASE txn' = Stop(Removed(t)) /\ hist' = TellEnd(hist)
    BY <1>1, <2>1, <2>3, <2>4, RemovedFacts, StopFacts, HistFacts DEF Starts, SameTold
  <2>5. CASE txn' = [t EXCEPT !.ctx = FALSE] /\ hist' = hist
    BY <2>1, <2>3, <2>5 DEF Starts, SameTold, TxnType
  <2>6. CASE txn' = Stored(t, Plain("REQ"), FirstProto) /\ hist' = [hist EXCEPT !.copies = 1]
    <3>1. FirstProto \in Protocols
      BY DEF FirstProto, Protocols
    <3>2. hist'.finals = hist.finals /\ hist'.expired = hist.expired
      BY <1>1, <2>6 DEF HistType
    <3>. QED  BY <2>1, <2>3, <2>6, <3>1, <3>2, PlainType, StoredFacts DEF Starts, SameTold
  <2>. QED  BY <2>1, <2>4, <2>5, <2>6
<1>b. ASSUME TimerEFRepeats PROVE Stays
  <2>. DEFINE dur == NextInterval(txn)
              t == [Stop(txn) EXCEPT !.expired = ExpiredAt(txn)]
              h == Tick(hist)
  <2>1. /\ txn.pool /\ \E ok \in BOOLEAN : hist' = SentAgain(h, ok)
        /\ txn' = t \/ txn' = [Start(t, "E", dur) EXCEPT !.retx = @ + 1, !.expired = @ + dur]
    BY <1>b, <1>4 DEF TimerEFRepeats, Outcome
  <2>2. t.pool
    BY <1>2, <2>1 DEF TxnType
  <2>. HIDE DEF dur
  <2>3. txn'.pool
    BY <1>1, <2>1, <2>2 DEF Start, Stop, TxnType
  <2>4. h \in HistType /\ h.finals = hist.finals /\ h.expired = hist.expired
    BY <1>1, TickFacts
  <2>. HIDE DEF h
  <2>5. SameTold
    BY <2>1, <2>4, CopyFacts DEF SameTold
  <2>. QED  BY <2>1, <2>3, <2>5 DEF Stays
<1>c. ASSUME TimerEFGivesUp PROVE TimesOut \/ Ends
  <2>. DEFINE t == [Stop(txn) EXCEPT !.st = "TERMINATED", !.expired = ExpiredAt(txn)]
              h == Tick(hist)
  <2>1. Waits /\ txn' = Removed(t) /\ hist' = TellExpiry(h)
    BY <1>c DEF TimerEFGivesUp
  <2>2. t \in TxnType /\ t.st = "TERMINATED"
    BY <1>1, <1>2 DEF TxnType, States, ExpiredAt
  <2>3. h \in HistType /\ h.finals = hist.finals /\ h.expired = hist.expired
    BY <1>1, TickFacts
  <2>. HIDE DEF t, h
  <2>. QED
    BY <1>1, <1>4, <2>1, <2>2, <2>3, RemovedFacts, ExpiryFacts DEF TimesOut, Ends, SameTold
<1>d. ASSUME TimerKFires PROVE Ends
  <2>. DEFINE t == [Stop(txn) EXCEPT !.st = "TERMINATED"]
  <2>1. txn.pool /\ txn' = Removed(t) /\ hist' = TellEnd(hist)
    BY <1>d DEF TimerKFires, Pooled
  <2>2. t \in TxnType /\ t.st # "IDLE"
    BY <1>5
  <2>. HIDE DEF t
  <2>. QED  BY <1>6, <2>1, <2>2
<1>e. ASSUME Recv1xx \/ FallBackToUdp PROVE Stays
  <2>1. txn.pool /\ txn'.pool
    BY <1>e, <1>1 DEF Recv1xx, FallBackToUdp, Pooled, TxnType
  <2>2. hist' = hist \/ hist' = SentAgain(hist, TRUE)
    BY <1>e DEF Recv1xx, FallBackToUdp
  <2>. QED  BY <1>1, <2>1, <2>2, CopyFacts DEF Stays, SameTold
<1>f. ASSUME RecvFinalUdp PROVE Answers
  BY <1>f, <1>1, LingerFacts, HistFacts DEF RecvFinalUdp, AwaitsFinal, Answers
<1>g. ASSUME RecvFinalUntimed PROVE Stays
  BY <1>g, <1>2, <1>4 DEF RecvFinalUntimed, AwaitsFinal, Stays, SameTold
<1>h. ASSUME RecvFinalTcp PROVE Answers
  <2>. DEFINE t == [Stop(txn) EXCEPT !.st = "TERMINATED"]
  <2>1. Waits /\ txn' = Removed(t) /\ hist' = TellEnd(TellFinal(hist))
    BY <1>h DEF RecvFinalTcp, AwaitsFinal
  <2>2. t \in TxnType /\ t.st # "IDLE"
    BY <1>5
  <2>. HIDE DEF t
  <2>. QED  BY <1>1, <2>1, <2>2, RemovedFacts, HistFacts DEF Answers
<1>i. ASSUME TransportError PROVE Ends
  <2>. DEFINE s == Stop(txn)
              t == [s EXCEPT !.st = "TERMINATED", !.proto = "UDP"]
  <2>1. txn.pool /\ txn' = Removed(t) /\ hist' = TellEnd(hist)
    BY <1>i DEF TransportError
  <2>2. s \in TxnType
    BY <1>2
  <2>. HIDE DEF s
  <2>3. t \in TxnType /\ t.st # "IDLE"
    BY <2>2 DEF TxnType, States, Protocols
  <2>. HIDE DEF t
  <2>. QED  BY <1>6, <2>1, <2>3
<1>j. ASSUME Abort PROVE Ends
  <2>1. txn.pool /\ txn' = Stop(Removed(txn)) /\ hist' = TellEnd(hist)
    BY <1>j DEF Abort
  <2>. QED
    BY <1>1, <1>3, <2>1, RemovedFacts, StopFacts, HistFacts DEF Ends, SameTold
<1>. QED
  BY <1>a, <1>b, <1>c, <1>d, <1>e, <1>f, <1>g, <1>h, <1>i, <1>j DEF Next, TimerFires, Receive

\* The non-INVITE client transaction keeps the promise of a client transaction: one
\* outcome, heard while it waits, and an end that is final (OnRecvMessage,
\* CbkTxnTimeout, TerminateTxn).
THEOREM Refinement == Spec => KeepsPromise
<1>1. Init => Abstract!Init
  BY DEF Init, NewTxn, NewHist, Phase, Abstract!Init
<1>2. IInv /\ IInv' /\ [Next]_vars => [Abstract!Next]_(Abstract!vars)
  <2>1. CASE Next
    BY <2>1, StepKinds, StepMaps
  <2>2. CASE UNCHANGED vars
    BY <2>2 DEF vars, Phase, Abstract!vars
  <2>. QED  BY <2>1, <2>2
<1>. QED  BY <1>1, <1>2, Invariance, PTL DEF Spec, KeepsPromise, Abstract!Spec
=============================================================================
