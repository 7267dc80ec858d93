-------------------------- MODULE SipInvSer_proofs --------------------------
(***************************************************************************)
(* Safety of the INVITE server transactions, for every timer value, every set  *)
(* of faults, every key list, any number of reliable provisionals and of        *)
(* copies of the INVITE.                                                    *)
(*                                                                         *)
(* What the properties need of a transaction in the pool is stated of the       *)
(* records themselves (Handled, Dated, Keyed, Sure), so that SendMsg can be      *)
(* followed from the object that a handler prepares to the one that remains     *)
(* when the transport has done its part.  Sure is what holds when timers can be   *)
(* started and messages sent: without the key of the provisional it repeats,     *)
(* a PRACK could stop the timer of another one.                              *)
(***************************************************************************)
EXTENDS SipInvSer, TLAPS

\* An armed timer has a handler in the state of the object: G in PROCEEDING, G and H
\* in COMPLETED, I in CONFIRMED (gpfSipInvSerTxnFsm).
Handled(t) ==
    /\ t.st = "PROCEEDING" => t.timer.type \in {"none", "G"}
    /\ t.st = "COMPLETED" => t.timer.type \in {"none", "G", "H"}
    /\ t.st = "CONFIRMED" => t.timer.type \in {"none", "I"}
    /\ t.st = "TERMINATED" => t.timer.type = "none"
    /\ t.st # "IDLE"

\* An interval is added to m_nDurationExpired when it is armed (the first one when
\* it fires), and none reaches past the limit.
Dated(t, h) ==
    t.timer.type \in {"G", "H"} =>
        h.clock + t.timer.dur = ExpiredAt(t) /\ ExpiredAt(t) <= TLimit

Keyed(t, h, k) ==
    t.st = "PROCEEDING" /\ t.timer.type = "G" => k = <<[tag |-> NoTag, rseq |-> h.rseq]>>

Sure(t, h, r) ==
    /\ t.st = "PROCEEDING" =>
          /\ t.timer.type = "G" <=> t.sent.rseq # 0 /\ t.sent.rseq \notin h.pracked
          /\ t.timer.type = "G" => t.sent.rseq = h.rseq
    /\ t.st \in {"COMPLETED", "CONFIRMED"} => r \in {"2xx", "fail"} /\ t.sent = Plain(r)
    /\ t.st = "COMPLETED" /\ t.proto # "UDP" /\ t.timer.type # "none" => t.expired = TLimit

\* Timers can be started, and what is handed to the transport is sent.
Steadily == Faults \cap {"timer", "send"} = {}

Standing ==
    /\ hist.expired = 0
    /\ Handled(txn)
    /\ Dated(txn, hist)
    /\ Keyed(txn, hist, keys)
    /\ Steadily => Sure(txn, hist, resp)

TimerHasHandler == txn.pool => Handled(txn)

IInv == TypeOK /\ ContextsBalance /\ GiveUpAtLimit /\ (txn.pool => Standing)

USE T1Assumption, T2Assumption, TLimitAssumption, TWaitAssumption, EnvsAssumption,
    MaxRSeqAssumption

-----------------------------------------------------------------------------
LEMMA PlainType ==
    \A type \in {"none", "100", "1xx", "2xx", "fail"} :
        Plain(type) \in Message /\ Plain(type).rseq = 0
BY DEF Plain, Msg, Message, MsgTypes

Born == [NewTxn EXCEPT !.st = "PROCEEDING", !.pool = TRUE]

LEMMA NewType ==
    /\ NewTxn \in TxnType /\ ~NewTxn.pool
    /\ Born \in TxnType /\ Born.pool /\ Born.st = "PROCEEDING" /\ Born.timer.type = "none"
    /\ Born.sent.rseq = 0
BY PlainType DEF Born, NewTxn, TxnType, States, Timer, TimerTypes, NoTimer, NoMsg, Protocols

LEMMA Initial == Init => IInv
<1>. SUFFICES ASSUME Init PROVE IInv
  OBVIOUS
<1>1. keys \in Seq(Key)
  BY DEF Init, Environment
<1>2. hist \in HistType
  BY DEF Init, NewHist, HistType
<1>3. TypeOK
  BY <1>1, <1>2, NewType DEF Init, TypeOK, Responses
<1>. QED  BY <1>3, NewType DEF IInv, Init, NewHist, ContextsBalance, GiveUpAtLimit

-----------------------------------------------------------------------------
(***************************************************************************)
(* What the operations do to the object.                                   *)
(***************************************************************************)
SameButTimer(u, t) ==
    /\ u \in TxnType /\ u.sent = t.sent /\ u.proto = t.proto /\ (u.pool <=> t.pool)

LEMMA StopFacts ==
    ASSUME NEW t \in TxnType
    PROVE  /\ SameButTimer(Stop(t), t) /\ Stop(t).timer.type = "none"
           /\ Stop(t).st = t.st /\ Stop(t).expired = t.expired
BY DEF SameButTimer, Stop, TxnType, Timer, TimerTypes, NoTimer

LEMMA RemovedFacts ==
    ASSUME NEW t \in TxnType
    PROVE  Removed(t) \in TxnType /\ ~Removed(t).pool
BY DEF Removed, TxnType

LEMMA StateFacts ==
    ASSUME NEW t \in TxnType, NEW s \in States
    PROVE  LET u == [t EXCEPT !.st = s]
           IN  SameButTimer(u, t) /\ u.st = s /\ u.timer = t.timer /\ u.expired = t.expired
BY DEF SameButTimer, TxnType

LEMMA StartFacts ==
    ASSUME NEW t \in TxnType, NEW type \in TimerTypes, NEW d \in Nat
    PROVE  LET u == Start(t, type, d)
           IN  /\ SameButTimer(u, t) /\ u.st = t.st /\ u.expired = t.expired
               /\ u.timer.type = type /\ u.timer.dur = d /\ u.retx = t.retx
BY DEF SameButTimer, Start, TxnType, Timer

LEMMA RestartedFacts ==
    ASSUME NEW t \in TxnType
    PROVE  /\ SameButTimer(Restarted(t), t) /\ Restarted(t).st = t.st
           /\ Restarted(t).timer.type = "none" /\ Restarted(t).expired = 0
<1>1. Stop(t) \in TxnType
  BY StopFacts DEF SameButTimer
<1>. QED  BY <1>1 DEF SameButTimer, Restarted, Stop, TxnType, NoTimer

Counted(t, r, e) == [t EXCEPT !.retx = r, !.expired = e]

LEMMA CountFacts ==
    ASSUME NEW t \in TxnType, NEW r \in Nat, NEW e \in Nat
    PROVE  LET u == Counted(t, r, e)
           IN  SameButTimer(u, t) /\ u.st = t.st /\ u.timer = t.timer /\ u.expired = e
BY DEF SameButTimer, TxnType, Counted

LEMMA StoredFacts ==
    ASSUME NEW t \in TxnType, NEW m \in Message
    PROVE  LET u == Stored(t, m, FirstProto)
           IN  /\ u \in TxnType /\ u.sent = m /\ u.proto = FirstProto /\ (u.pool <=> t.pool)
               /\ u.st = t.st /\ u.timer = t.timer /\ u.expired = t.expired
BY DEF Stored, FirstProto, TxnType, Protocols

LEMMA WaitingFacts ==
    ASSUME NEW t \in TxnType
    PROVE  /\ SameButTimer(Waiting(t), t) /\ Waiting(t).st = "COMPLETED"
           /\ Waiting(t).timer = [type |-> "H", dur |-> TLimit] /\ Waiting(t).expired = TLimit
<1>1. [type |-> "H", dur |-> TLimit] \in Timer /\ "COMPLETED" \in States
  BY DEF Timer, TimerTypes, States
<1>. QED  BY <1>1 DEF SameButTimer, Waiting, Start, TxnType

LEMMA RepeatingFacts ==
    ASSUME NEW t \in TxnType
    PROVE  /\ SameButTimer(Repeating(t), t) /\ Repeating(t).st = "COMPLETED"
           /\ Repeating(t).timer = [type |-> "G", dur |-> T1] /\ Repeating(t).expired = t.expired
<1>1. [type |-> "G", dur |-> T1] \in Timer /\ "COMPLETED" \in States
  BY DEF Timer, TimerTypes, States
<1>. QED  BY <1>1 DEF SameButTimer, Repeating, Start, TxnType

-----------------------------------------------------------------------------
(***************************************************************************)
(* What the announcements do to the history.                               *)
(***************************************************************************)
SameTold(g, h) ==
    g \in HistType /\ g.born = h.born /\ g.ended = h.ended /\ g.expired = h.expired

LEMMA EndFacts ==
    ASSUME NEW h \in HistType
    PROVE  /\ TellEnd(h) \in HistType /\ TellEnd(h).born = h.born
           /\ TellEnd(h).ended = h.ended + 1 /\ TellEnd(h).expired = h.expired
           /\ TellEnd(h).clock = h.clock
BY DEF HistType, TellEnd

LEMMA NewFacts ==
    ASSUME NEW h \in HistType
    PROVE  /\ TellNew(h) \in HistType /\ TellNew(h).born = h.born + 1
           /\ TellNew(h).ended = h.ended /\ TellNew(h).expired = 0
<1>. DEFINE b == h.born + 1
<1>1. b \in Nat /\ h.ended \in Nat /\ NewHist \in HistType /\ NewHist.expired = 0
  BY DEF HistType, NewHist
<1>2. TellNew(h) = [NewHist EXCEPT !.born = b, !.ended = h.ended]
  BY DEF TellNew
<1>. HIDE DEF b
<1>3. /\ TellNew(h) \in HistType /\ TellNew(h).born = b /\ TellNew(h).ended = h.ended
      /\ TellNew(h).expired = 0
  BY <1>1, <1>2 DEF HistType
<1>. QED  BY <1>3 DEF b

LEMMA ExpiryFacts ==
    ASSUME NEW h \in HistType
    PROVE  /\ TellExpiry(h) \in HistType /\ TellExpiry(h).born = h.born
           /\ TellExpiry(h).ended = h.ended + 1 /\ TellExpiry(h).clock = h.clock
<1>. DEFINE e == h.expired + 1
            n == h.ended + 1
<1>1. e \in Nat /\ n \in Nat
  BY DEF HistType
<1>2. TellExpiry(h) = [h EXCEPT !.expired = e, !.ended = n]
  BY DEF TellExpiry
<1>. HIDE DEF e, n
<1>3. /\ TellExpiry(h) \in HistType /\ TellExpiry(h).born = h.born
      /\ TellExpiry(h).ended = n /\ TellExpiry(h).clock = h.clock
  BY <1>1, <1>2 DEF HistType
<1>. QED  BY <1>3 DEF n

LEMMA TickFacts ==
    ASSUME NEW h \in HistType, txn.timer.dur \in Nat
    PROVE  /\ SameTold(Tick(h), h) /\ Tick(h).clock = h.clock + txn.timer.dur
           /\ Tick(h).rseq = h.rseq /\ Tick(h).pracked = h.pracked
<1>. DEFINE c == h.clock + txn.timer.dur
<1>1. c \in Nat
  BY DEF HistType
<1>2. Tick(h) = [h EXCEPT !.clock = c]
  BY DEF Tick
<1>. HIDE DEF c
<1>3. /\ SameTold(Tick(h), h) /\ Tick(h).clock = c
      /\ Tick(h).rseq = h.rseq /\ Tick(h).pracked = h.pracked
  BY <1>1, <1>2 DEF HistType, SameTold
<1>. QED  BY <1>3 DEF c

LEMMA RewoundFacts ==
    ASSUME NEW h \in HistType
    PROVE  /\ SameTold(Rewound(h), h) /\ Rewound(h).clock = 0 /\ Rewound(h).next = h.next
           /\ Rewound(h).rseq = h.rseq /\ Rewound(h).pracked = h.pracked
BY DEF HistType, Rewound, SameTold

LEMMA NumberedFacts ==
    ASSUME NEW h \in HistType, NEW m \in Message
    PROVE  /\ SameTold(Numbered(h, m), h) /\ Numbered(h, m).clock = h.clock
           /\ Numbered(h, m).rseq = h.rseq /\ Numbered(h, m).pracked = h.pracked
<1>. DEFINE n == IF m.rseq # 0 THEN m.rseq + 1 ELSE h.next
<1>1. n \in 1..(MaxRSeq + 1)
  BY DEF HistType, Message
<1>2. Numbered(h, m) = [h EXCEPT !.next = n]
  BY DEF Numbered
<1>. HIDE DEF n
<1>. QED  BY <1>1, <1>2 DEF HistType, SameTold

Promised(h, r) == [h EXCEPT !.rseq = r, !.pracked = @ \ {r}]

LEMMA PromisedFacts ==
    ASSUME NEW h \in HistType, NEW r \in 1..MaxRSeq
    PROVE  /\ SameTold(Promised(h, r), h) /\ Promised(h, r).clock = h.clock
           /\ Promised(h, r).rseq = r /\ r \notin Promised(h, r).pracked
<1>. DEFINE p == h.pracked \ {r}
<1>1. p \in SUBSET (1..MaxRSeq) /\ r \notin p /\ r \in 0..MaxRSeq
  BY DEF HistType
<1>2. Promised(h, r) = [h EXCEPT !.rseq = r, !.pracked = p]
  BY DEF Promised
<1>. HIDE DEF p
<1>. QED  BY <1>1, <1>2 DEF HistType, SameTold

Acknowledged(h, r) == [h EXCEPT !.pracked = @ \cup {r}]

LEMMA AcknowledgedFacts ==
    ASSUME NEW h \in HistType, NEW r \in 1..MaxRSeq
    PROVE  /\ SameTold(Acknowledged(h, r), h) /\ Acknowledged(h, r).clock = h.clock
           /\ Acknowledged(h, r).pracked = h.pracked \cup {r}
<1>. DEFINE p == h.pracked \cup {r}
<1>1. p \in SUBSET (1..MaxRSeq)
  BY DEF HistType
<1>2. Acknowledged(h, r) = [h EXCEPT !.pracked = p]
  BY DEF Acknowledged
<1>. HIDE DEF p
<1>3. /\ SameTold(Acknowledged(h, r), h) /\ Acknowledged(h, r).clock = h.clock
      /\ Acknowledged(h, r).pracked = p
  BY <1>1, <1>2 DEF HistType, SameTold
<1>. QED  BY <1>3 DEF p
-----------------------------------------------------------------------------
(***************************************************************************)
(* The kinds of steps: a transaction is made, goes on, or ends.  The user       *)
(* hears of the end either way; of a timeout only in TimerGHGivesUp.           *)
(***************************************************************************)
LEMMA GoesOn ==
    ASSUME IInv, TypeOK', env' = env, txn.pool, txn'.pool, SameTold(hist', hist),
           Handled(txn'), Dated(txn', hist'), Keyed(txn', hist', keys'),
           Steadily => Sure(txn', hist', resp')
    PROVE  IInv'
<1>1. hist.expired = 0 /\ hist'.expired = 0
  BY DEF IInv, Standing, SameTold
<1>2. Steadily' <=> Steadily
  BY DEF Steadily, Faults
<1>3. ContextsBalance'
  BY DEF IInv, ContextsBalance, SameTold
<1>4. GiveUpAtLimit'
  BY <1>1 DEF GiveUpAtLimit
<1>5. Standing'
  BY <1>1, <1>2 DEF Standing
<1>. QED  BY <1>3, <1>4, <1>5 DEF IInv

LEMMA Ends ==
    ASSUME IInv, TypeOK', txn.pool, ~txn'.pool, hist'.born = hist.born,
           hist'.ended = hist.ended + 1, hist'.expired = hist.expired
    PROVE  IInv'
<1>1. hist \in HistType /\ hist.expired = 0
  BY DEF IInv, TypeOK, Standing
<1>2. ContextsBalance'
  BY <1>1 DEF IInv, ContextsBalance, HistType
<1>. QED  BY <1>1, <1>2 DEF IInv, GiveUpAtLimit

LEMMA EndsOf ==
    ASSUME IInv, env' = env, keys' \in Seq(Key), net' \subseteq Message, resp' \in Responses,
           txn.pool, txn' \in TxnType, ~txn'.pool, NEW h, SameTold(h, hist), hist' = TellEnd(h)
    PROVE  IInv'
<1>1. env \in Envs
  BY DEF IInv, TypeOK
<1>2. /\ hist' \in HistType /\ hist'.born = hist.born /\ hist'.ended = hist.ended + 1
      /\ hist'.expired = hist.expired
  BY EndFacts DEF SameTold
<1>3. TypeOK'
  BY <1>1, <1>2 DEF TypeOK
<1>. QED  BY <1>2, <1>3, Ends

\* What a handler prepares stands when the transport has done its part.
LEMMA HandedOver ==
    ASSUME IInv, env' = env, txn.pool, NEW t \in TxnType, t.pool, NEW m \in Message,
           NEW h, SameTold(h, hist), keys' \in Seq(Key), resp' \in Responses,
           Handled(t), Dated(t, h), Keyed(t, h, keys'),
           Steadily => Sure(Stored(t, m, FirstProto), h, resp'),
           HandOver(t, m, h)
    PROVE  IInv'
<1>0. env \in Envs /\ net \subseteq Message /\ h \in HistType
  BY DEF IInv, TypeOK, SameTold
<1>1. CASE txn' = Stop(Removed(t)) /\ hist' = TellEnd(h) /\ net' = net
  <2>. DEFINE u == Removed(t)
  <2>1. u \in TxnType /\ ~u.pool
    BY RemovedFacts
  <2>. HIDE DEF u
  <2>2. Stop(u) \in TxnType /\ ~Stop(u).pool
    BY <2>1, StopFacts DEF SameButTimer
  <2>. QED  BY <1>0, <1>1, <2>2, EndsOf DEF u
<1>2. CASE "send" \in Faults /\ txn' = t /\ hist' = h /\ net' = net
  <2>1. TypeOK'
    BY <1>0, <1>2 DEF TypeOK
  <2>2. ~Steadily
    BY <1>2 DEF Steadily
  <2>. QED  BY <1>2, <2>1, <2>2, GoesOn
<1>3. CASE txn' = Stored(t, m, FirstProto) /\ net' = net \cup {m} /\ hist' = Numbered(h, m)
  <2>. DEFINE u == Stored(t, m, FirstProto)
              g == Numbered(h, m)
  <2>1. u \in TxnType /\ (u.pool <=> t.pool) /\ u.st = t.st /\ u.timer = t.timer
        /\ u.expired = t.expired
    BY StoredFacts
  <2>2. SameTold(g, h) /\ g.clock = h.clock /\ g.rseq = h.rseq /\ g.pracked = h.pracked
    BY <1>0, NumberedFacts
  <2>3. Steadily => Sure(u, h, resp')
    OBVIOUS
  <2>. HIDE DEF u, g
  <2>4. Handled(u) /\ Dated(u, g) /\ Keyed(u, g, keys') /\ (Steadily => Sure(u, g, resp'))
    BY <2>1, <2>2, <2>3 DEF Handled, Dated, ExpiredAt, Keyed, Sure
  <2>5. txn' = u /\ hist' = g /\ net' \subseteq Message
    BY <1>0, <1>3 DEF u, g
  <2>6. SameTold(g, hist) /\ g \in HistType
    BY <2>2 DEF SameTold
  <2>7. TypeOK'
    BY <1>0, <2>1, <2>5, <2>6 DEF TypeOK
  <2>. QED  BY <2>1, <2>4, <2>5, <2>6, <2>7, GoesOn
<1>. QED  BY <1>1, <1>2, <1>3 DEF HandOver

-----------------------------------------------------------------------------
\* The environment is rigid: no operation touches it.
LEMMA EnvKept == [Next]_vars => env' = env
BY DEF Next, Other, Respond, Receive, TimerFires, vars, RecvInvite, RecvInviteAgain, SendProvisional,
   SendReliable, SendFailure, Send2xx, Send2xxUntimed, TimerGHRepeats, TimerGHGivesUp, TimerIFires,
   RecvAckUdp, RecvAckTcp, RecvPrack, FallBackToUdp, TransportError, Abort

LEMMA NoKeys == << >> \in Seq(Key)
OBVIOUS

LEMMA OneKey == \A r \in 1..MaxRSeq :
    OnlyKey(r) = <<[tag |-> NoTag, rseq |-> r]>> /\ OnlyKey(r) \in Seq(Key)
<1>. TAKE r \in 1..MaxRSeq
<1>1. [tag |-> NoTag, rseq |-> r] \in Key
  BY DEF Key
<1>2. OnlyKey(r) = <<[tag |-> NoTag, rseq |-> r]>>
  BY DEF OnlyKey, AddTxnKey
<1>. QED  BY <1>1, <1>2

\* A PRACK stops the timer of the provisional whose key it found.
LEMMA PrackFits ==
    ASSUME NEW k, NEW r \in 1..MaxRSeq, k = <<[tag |-> NoTag, rseq |-> hist.rseq]>>,
           ExactHits(k, NoTag, r) # {}
    PROVE  hist.rseq \in {0, r}
<1>1. PICK i \in DOMAIN k : r = 0 \/ k[i].rseq \in {0, r}
  BY DEF ExactHits, DialogHits
<1>2. i = 1
  BY <1>1
<1>. QED  BY <1>1, <1>2
-----------------------------------------------------------------------------
LEMMA Inductive == IInv /\ [Next]_vars => IInv'
<1>. SUFFICES ASSUME IInv, [Next]_vars PROVE IInv'
  OBVIOUS
<1>0. /\ env' = env /\ env \in Envs /\ txn \in TxnType /\ keys \in Seq(Key) /\ net \subseteq Message
      /\ resp \in Responses /\ hist \in HistType
  BY EnvKept DEF IInv, TypeOK
<1>1. /\ txn.st \in States /\ txn.expired \in Nat /\ txn.sent \in Message /\ txn.proto \in Protocols
      /\ txn.timer.dur \in Nat /\ txn.timer.type \in TimerTypes /\ txn.retx \in Nat /\ txn.cur \in Nat
      /\ hist.clock \in Nat /\ hist.pracked \subseteq 1..MaxRSeq /\ hist.rseq \in 0..MaxRSeq
  BY <1>0 DEF TxnType, Timer, HistType
<1>2. txn.pool => Standing
  BY DEF IInv
<1>3. SameTold(hist, hist)
  BY <1>0 DEF SameTold
<1>4. SameTold(Rewound(hist), hist) /\ Rewound(hist) \in HistType /\ Rewound(hist).clock = 0
      /\ Rewound(hist).next = hist.next
  BY <1>0, RewoundFacts DEF SameTold
<1>5. /\ Restarted(txn) \in TxnType /\ (Restarted(txn).pool <=> txn.pool)
      /\ Restarted(txn).st = txn.st /\ Restarted(txn).timer.type = "none"
      /\ Restarted(txn).expired = 0 /\ Restarted(txn).sent = txn.sent
  BY <1>0, RestartedFacts DEF SameButTimer
<1>6. /\ Stop(txn) \in TxnType /\ (Stop(txn).pool <=> txn.pool) /\ Stop(txn).st = txn.st
      /\ Stop(txn).timer.type = "none" /\ Stop(txn).sent = txn.sent /\ Stop(txn).proto = txn.proto
  BY <1>0, StopFacts DEF SameButTimer
<1>7. [Stop(txn) EXCEPT !.st = "TERMINATED"] \in TxnType
      /\ ([Stop(txn) EXCEPT !.st = "TERMINATED"].pool <=> txn.pool)
      /\ [Stop(txn) EXCEPT !.st = "TERMINATED"].st = "TERMINATED"
      /\ [Stop(txn) EXCEPT !.st = "TERMINATED"].timer.type = "none"
  <2>. "TERMINATED" \in States
    BY DEF States
  <2>. QED  BY <1>6, StateFacts DEF SameButTimer
<1>8. {"none", "100", "1xx", "2xx", "fail"} \subseteq Responses
  BY DEF Responses
<1>. USE <1>0
<1>9. ASSUME NEW h, txn.pool, Refused(h), SameTold(h, hist), keys' \in Seq(Key), resp' \in Responses,
             txn.st = "PROCEEDING"
      PROVE  IInv'
  <2>1. txn' = Restarted(txn) /\ hist' = h /\ net' = net /\ "timer" \in Faults
    BY <1>9 DEF Refused
  <2>2. ~Steadily
    BY <2>1 DEF Steadily
  <2>3. TypeOK'
    BY <1>5, <1>9, <2>1 DEF TypeOK, SameTold
  <2>. QED  BY <1>5, <1>9, <2>1, <2>2, <2>3, GoesOn DEF Handled, Dated, Keyed

<1>a. CASE RecvInvite
  <2>1. txn' = Born /\ resp' = "none" /\ hist' = TellNew(hist) /\ keys' = keys /\ net' = net /\ ~txn.pool
    BY <1>a DEF RecvInvite, Born
  <2>2. /\ hist' \in HistType /\ hist'.born = hist.born + 1 /\ hist'.ended = hist.ended
        /\ hist'.expired = 0
    BY <2>1, NewFacts
  <2>3. TypeOK'
    BY <1>8, <2>1, <2>2, NewType DEF TypeOK
  <2>4. ContextsBalance'
    BY <2>1, <2>2, NewType DEF IInv, ContextsBalance, HistType
  <2>5. Handled(Born) /\ Dated(Born, hist') /\ Keyed(Born, hist', keys') /\ Sure(Born, hist', resp')
    BY NewType DEF Handled, Dated, Keyed, Sure
  <2>6. Standing'
    BY <2>1, <2>2, <2>5 DEF Standing
  <2>. QED  BY <2>2, <2>3, <2>4, <2>6 DEF IInv, GiveUpAtLimit
<1>b. CASE RecvInviteAgain
  <2>1. txn' = txn /\ keys' = keys /\ hist' = hist /\ resp' = resp /\ txn.pool
    BY <1>b DEF RecvInviteAgain, Pooled
  <2>2. net' \subseteq Message
    BY <1>b, <1>1 DEF RecvInviteAgain, Resend
  <2>3. TypeOK'
    BY <2>1, <2>2 DEF TypeOK
  <2>. QED  BY <1>2, <1>3, <2>1, <2>3, GoesOn DEF Standing
<1>c. ASSUME NEW type \in {"100", "1xx"}, SendProvisional(type) PROVE IInv'
  <2>. DEFINE t == Restarted(txn)
              h == Rewound(hist)
              m == Plain(type)
  <2>1. /\ txn.pool /\ txn.st = "PROCEEDING" /\ resp' = type /\ keys' = << >> /\ HandOver(t, m, h)
    BY <1>c DEF SendProvisional, Pooled
  <2>2. m \in Message /\ m.rseq = 0
    BY PlainType
  <2>. HIDE DEF t, h, m
  <2>3. /\ t \in TxnType /\ t.pool /\ t.st = "PROCEEDING" /\ t.timer.type = "none"
        /\ SameTold(h, hist)
    BY <1>4, <1>5, <2>1 DEF t, h
  <2>4. Handled(t) /\ Dated(t, h) /\ Keyed(t, h, keys')
    BY <2>3 DEF Handled, Dated, Keyed
  <2>5. Sure(Stored(t, m, FirstProto), h, resp')
    BY <2>2, <2>3, StoredFacts DEF Sure
  <2>6. keys' \in Seq(Key) /\ resp' \in Responses
    BY <1>8, <2>1, NoKeys
  <2>. QED  BY <2>1, <2>2, <2>3, <2>4, <2>5, <2>6, HandedOver
<1>d. CASE SendReliable
  <2>. DEFINE r == hist.next
              m == Msg("1xx", NoTag, r)
              h == Promised(Rewound(hist), r)
              s == Restarted(txn)
              t == Start(s, "G", T1)
  <2>1. /\ txn.pool /\ txn.st = "PROCEEDING" /\ r \in 1..MaxRSeq
        /\ resp' = "1xx" /\ keys' = OnlyKey(r)
        /\ Refused(h) \/ HandOver(t, m, h)
    BY <1>d DEF SendReliable, Pooled, Msg, Promised, HistType
  <2>. HIDE DEF r
  <2>2. m \in Message /\ m.rseq = r
    BY <2>1 DEF Message, MsgTypes, Msg
  <2>3. SameTold(h, hist) /\ h.clock = 0 /\ h.rseq = r /\ r \notin h.pracked
    BY <1>4, <2>1, PromisedFacts DEF SameTold
  <2>. HIDE DEF h, m
  <2>4. /\ t \in TxnType /\ t.pool /\ t.st = "PROCEEDING" /\ t.timer.type = "G" /\ t.timer.dur = T1
        /\ t.expired = 0
    <3>. "G" \in TimerTypes /\ T1 \in Nat
      BY DEF TimerTypes
    <3>. HIDE DEF s
    <3>1. s \in TxnType /\ s.pool /\ s.st = "PROCEEDING" /\ s.expired = 0
      BY <1>5, <2>1 DEF s
    <3>. QED  BY <3>1, StartFacts DEF SameButTimer
  <2>. HIDE DEF t
  <2>5. keys' = <<[tag |-> NoTag, rseq |-> r]>> /\ keys' \in Seq(Key) /\ resp' \in Responses
    BY <1>8, <2>1, OneKey
  <2>6. Handled(t) /\ Dated(t, h) /\ Keyed(t, h, keys')
    BY <2>3, <2>4, <2>5 DEF Handled, Dated, ExpiredAt, Keyed
  <2>7. Sure(Stored(t, m, FirstProto), h, resp')
    BY <2>1, <2>2, <2>3, <2>4, StoredFacts DEF Sure
  <2>8. CASE Refused(h)
    BY <1>9, <2>1, <2>3, <2>5, <2>8
  <2>9. CASE HandOver(t, m, h)
    BY <2>1, <2>2, <2>3, <2>4, <2>5, <2>6, <2>7, <2>9, HandedOver
  <2>. QED  BY <2>1, <2>8, <2>9
<1>e. CASE SendFailure
  <2>. DEFINE m == Plain("fail")
              h == Rewound(hist)
              s == Restarted(txn)
              t == IF Udp THEN Repeating(s) ELSE Waiting(s)
  <2>1. /\ txn.pool /\ txn.st = "PROCEEDING" /\ resp' = "fail" /\ keys' = << >>
        /\ Refused(h) \/ HandOver(t, m, h)
    BY <1>e DEF SendFailure, Pooled
  <2>2. m \in Message /\ m = Plain(resp')
    BY <2>1, PlainType
  <2>3. SameTold(h, hist) /\ h.clock = 0
    BY <1>4
  <2>. HIDE DEF h, m
  <2>4. /\ t \in TxnType /\ t.pool /\ t.st = "COMPLETED"
        /\ \/ Udp /\ t.timer = [type |-> "G", dur |-> T1] /\ t.expired = 0
           \/ ~Udp /\ t.timer = [type |-> "H", dur |-> TLimit] /\ t.expired = TLimit
    <3>. HIDE DEF s
    <3>1. s \in TxnType /\ s.pool /\ s.expired = 0
      BY <1>5, <2>1 DEF s
    <3>. QED  BY <3>1, RepeatingFacts, WaitingFacts DEF SameButTimer
  <2>. HIDE DEF t
  <2>5. keys' \in Seq(Key) /\ resp' \in Responses
    BY <1>8, <2>1, NoKeys
  <2>6. Handled(t) /\ Dated(t, h) /\ Keyed(t, h, keys')
    BY <2>3, <2>4 DEF Handled, Dated, ExpiredAt, Keyed
  <2>7. Sure(Stored(t, m, FirstProto), h, resp')
    BY <2>1, <2>2, <2>4, StoredFacts DEF Sure, FirstProto
  <2>8. CASE Refused(h)
    BY <1>9, <2>1, <2>3, <2>5, <2>8
  <2>9. CASE HandOver(t, m, h)
    BY <2>1, <2>2, <2>3, <2>4, <2>5, <2>6, <2>7, <2>9, HandedOver
  <2>. QED  BY <2>1, <2>8, <2>9
<1>f. CASE Send2xx
  <2>. DEFINE m == Plain("2xx")
              h == Rewound(hist)
              s == Restarted(txn)
              t == Waiting(s)
  <2>1. /\ txn.pool /\ txn.st = "PROCEEDING" /\ resp' = "2xx" /\ keys' = << >>
        /\ HandOver(t, m, h)
    BY <1>f DEF Send2xx, Pooled
  <2>2. m \in Message /\ m = Plain(resp')
    BY <2>1, PlainType
  <2>3. SameTold(h, hist) /\ h.clock = 0
    BY <1>4
  <2>. HIDE DEF h, m
  <2>4. /\ t \in TxnType /\ t.pool /\ t.st = "COMPLETED"
        /\ t.timer = [type |-> "H", dur |-> TLimit] /\ t.expired = TLimit
    <3>. HIDE DEF s
    <3>1. s \in TxnType /\ s.pool
      BY <1>5, <2>1 DEF s
    <3>. QED  BY <3>1, WaitingFacts DEF SameButTimer
  <2>. HIDE DEF t
  <2>5. keys' \in Seq(Key) /\ resp' \in Responses
    BY <1>8, <2>1, NoKeys
  <2>6. Handled(t) /\ Dated(t, h) /\ Keyed(t, h, keys')
    BY <2>3, <2>4 DEF Handled, Dated, ExpiredAt, Keyed
  <2>7. Sure(Stored(t, m, FirstProto), h, resp')
    BY <2>1, <2>2, <2>4, StoredFacts DEF Sure
  <2>. QED  BY <2>1, <2>2, <2>3, <2>4, <2>5, <2>6, <2>7, HandedOver
<1>g. CASE Send2xxUntimed
  <2>. DEFINE h == Rewound(hist)
              s == Restarted(txn)
              t == [s EXCEPT !.st = "TERMINATED"]
  <2>1. /\ txn.pool /\ txn.st = "PROCEEDING" /\ resp' = "2xx" /\ keys' = << >> /\ "timer" \in Faults
        /\ \/ txn' = Removed(t) /\ hist' = TellEnd(h)
           \/ txn' = t /\ hist' = h
        /\ net' = net \/ net' = net \cup {Plain("2xx")}
    BY <1>g DEF Send2xxUntimed, Pooled
  <2>2. SameTold(h, hist)
    BY <1>4
  <2>. HIDE DEF h
  <2>3. /\ t \in TxnType /\ t.pool /\ t.st = "TERMINATED" /\ t.timer.type = "none"
    <3>. HIDE DEF s
    <3>1. s \in TxnType /\ s.pool /\ s.timer.type = "none" /\ "TERMINATED" \in States
      BY <1>5, <2>1 DEF s, States
    <3>. QED  BY <3>1, StateFacts DEF SameButTimer
  <2>. HIDE DEF t
  <2>4. keys' \in Seq(Key) /\ resp' \in Responses /\ net' \subseteq Message
    BY <1>8, <2>1, NoKeys, PlainType
  <2>5. CASE txn' = Removed(t) /\ hist' = TellEnd(h)
    BY <2>1, <2>2, <2>3, <2>4, <2>5, RemovedFacts, EndsOf
  <2>6. CASE txn' = t /\ hist' = h
    <3>1. TypeOK' /\ ~Steadily
      BY <2>1, <2>2, <2>3, <2>4, <2>6 DEF TypeOK, SameTold, Steadily
    <3>. QED  BY <2>1, <2>2, <2>3, <2>6, <3>1, GoesOn DEF Handled, Dated, Keyed
  <2>. QED  BY <2>1, <2>5, <2>6
<1>h. CASE TimerGHRepeats
  <2>. DEFINE dur == Doubled(txn)
              t == [Stop(txn) EXCEPT !.expired = ExpiredAt(txn)]
              a == [Start(t, "G", dur) EXCEPT !.retx = @ + 1, !.expired = @ + dur]
  <2>1. /\ txn.pool /\ txn.st \in {"PROCEEDING", "COMPLETED"} /\ txn.timer.type \in {"G", "H"}
        /\ ~GivesUp(txn) /\ dur > 0 /\ keys' = keys /\ resp' = resp /\ hist' = Tick(hist)
        /\ (txn' = t /\ "timer" \in Faults) \/ txn' = a
        /\ \E ok \in BOOLEAN : Resend(txn, ok)
    BY <1>h DEF TimerGHRepeats, TimerGHDue, Pooled, Outcome
  <2>2. /\ ExpiredAt(txn) \in Nat \ {0} /\ ExpiredAt(txn) < TLimit
        /\ txn.st = "COMPLETED" => txn.proto = "UDP"
    BY <1>1, <2>1 DEF ExpiredAt, GivesUp
  <2>3. dur \in Nat \ {0} /\ dur <= TLimit - ExpiredAt(txn)
    <3>. DEFINE x == ExpiredAt(txn)
                n == IF txn.st = "COMPLETED" /\ 2 * txn.cur > T2 THEN T2 ELSE 2 * txn.cur
    <3>1. n \in Nat /\ dur = Capped(x, n)
      BY <1>1 DEF Doubled
    <3>2. x \in Nat /\ x < TLimit /\ dur > 0
      BY <2>1, <2>2
    <3>. HIDE DEF n, x, dur
    <3>3. dur \in Nat \ {0} /\ dur <= TLimit - x
      BY <3>1, <3>2 DEF Capped
    <3>. QED  BY <3>3 DEF x
  <2>. HIDE DEF dur
  <2>4. /\ t \in TxnType /\ t.st = txn.st /\ t.pool /\ t.timer.type = "none"
        /\ t.proto = txn.proto /\ t.sent = txn.sent /\ t.expired = ExpiredAt(txn)
    BY <1>6, <2>1, <2>2 DEF TxnType
  <2>. HIDE DEF t
  <2>5. /\ a \in TxnType /\ a.st = txn.st /\ a.pool /\ a.timer.type = "G" /\ a.timer.dur = dur
        /\ a.proto = txn.proto /\ a.sent = txn.sent /\ a.expired = ExpiredAt(txn) + dur
    <3>. DEFINE s == Start(t, "G", dur)
    <3>0. "G" \in TimerTypes /\ dur \in Nat
      BY <2>3 DEF TimerTypes
    <3>1. /\ s \in TxnType /\ s.st = txn.st /\ s.pool /\ s.timer.type = "G" /\ s.timer.dur = dur
          /\ s.proto = txn.proto /\ s.sent = txn.sent /\ s.expired = ExpiredAt(txn)
      BY <3>0, <2>4, StartFacts DEF SameButTimer
    <3>. HIDE DEF s
    <3>. DEFINE r == s.retx + 1
                e == s.expired + dur
    <3>2. r \in Nat
      BY <3>1 DEF TxnType
    <3>3. e \in Nat
      BY <2>2, <2>3, <3>1
    <3>4. a = Counted(s, r, e)
      BY DEF s, Counted
    <3>. HIDE DEF a, r, e
    <3>5. SameButTimer(a, s) /\ a.st = s.st /\ a.timer = s.timer /\ a.expired = e
      BY <3>1, <3>2, <3>3, <3>4, CountFacts
    <3>. QED  BY <3>1, <3>5 DEF e, SameButTimer
  <2>. HIDE DEF a
  <2>6. /\ SameTold(hist', hist) /\ hist'.clock = hist.clock + txn.timer.dur
        /\ hist'.rseq = hist.rseq /\ hist'.pracked = hist.pracked
    BY <1>1, <2>1, TickFacts
  <2>7. net' \subseteq Message
    BY <1>1, <2>1 DEF Resend
  <2>8. TypeOK' /\ txn'.pool
    BY <2>1, <2>4, <2>5, <2>6, <2>7 DEF TypeOK, SameTold
  <2>9. /\ Handled(txn) /\ Dated(txn, hist) /\ Keyed(txn, hist, keys)
        /\ Steadily => Sure(txn, hist, resp)
    BY <1>2, <2>1 DEF Standing
  <2>10. CASE txn' = a
    <3>1. Handled(a) /\ Keyed(a, hist', keys)
      BY <2>1, <2>5, <2>6, <2>9 DEF Handled, Keyed
    <3>2. hist.clock + txn.timer.dur = ExpiredAt(txn)
      BY <2>1, <2>9 DEF Dated
    <3>3. Dated(a, hist')
      BY <1>1, <2>2, <2>3, <2>5, <2>6, <3>2 DEF Dated, ExpiredAt
    <3>4. Steadily => Sure(a, hist', resp)
      BY <2>1, <2>2, <2>5, <2>6, <2>9 DEF Sure, Handled
    <3>. QED  BY <2>1, <2>6, <2>8, <2>10, <3>1, <3>3, <3>4, GoesOn
  <2>11. CASE txn' = t /\ "timer" \in Faults
    <3>1. ~Steadily
      BY <2>11 DEF Steadily
    <3>2. Handled(t) /\ Keyed(t, hist', keys) /\ Dated(t, hist')
      BY <2>1, <2>4 DEF Handled, Keyed, Dated
    <3>. QED  BY <2>1, <2>6, <2>8, <2>11, <3>1, <3>2, GoesOn
  <2>. QED  BY <2>1, <2>10, <2>11
<1>i. CASE TimerGHGivesUp
  <2>. DEFINE t == [Stop(txn) EXCEPT !.st = "TERMINATED", !.expired = ExpiredAt(txn)]
              h == Tick(hist)
  <2>1. /\ txn.pool /\ txn.st \in {"PROCEEDING", "COMPLETED"} /\ txn.timer.type \in {"G", "H"}
        /\ GivesUp(txn) /\ keys' = keys /\ resp' = resp /\ net' = net
        /\ txn' = Removed(t) /\ hist' = TellExpiry(h)
    BY <1>i DEF TimerGHGivesUp, TimerGHDue, Pooled
  <2>2. t \in TxnType
    BY <1>1, <1>6 DEF TxnType, States, ExpiredAt
  <2>3. SameTold(h, hist) /\ h.clock = hist.clock + txn.timer.dur
    BY <1>1, TickFacts
  <2>. HIDE DEF t, h
  <2>4. /\ txn' \in TxnType /\ ~txn'.pool /\ hist' \in HistType /\ hist'.born = hist.born
        /\ hist'.ended = hist.ended + 1 /\ hist'.clock = hist.clock + txn.timer.dur
    BY <2>1, <2>2, <2>3, RemovedFacts, ExpiryFacts DEF SameTold
  <2>5. TypeOK'
    BY <2>1, <2>4 DEF TypeOK
  <2>6. ContextsBalance'
    BY <2>1, <2>4 DEF IInv, ContextsBalance, HistType
  <2>7. ASSUME Reliably PROVE hist'.clock = TLimit
    <3>1. /\ hist.clock + txn.timer.dur = ExpiredAt(txn) /\ ExpiredAt(txn) <= TLimit
          /\ Sure(txn, hist, resp)
      BY <1>2, <2>1, <2>7 DEF Standing, Dated, Reliably, Steadily
    <3>2. ExpiredAt(txn) = TLimit
      <4>1. CASE ExpiredAt(txn) >= TLimit
        BY <1>1, <3>1, <4>1 DEF ExpiredAt
      <4>2. CASE txn.st = "COMPLETED" /\ txn.proto # "UDP"
        BY <2>1, <3>1, <4>2 DEF Sure, ExpiredAt
      <4>. QED  BY <2>1, <4>1, <4>2 DEF GivesUp
    <3>. QED  BY <2>4, <3>1, <3>2
  <2>8. Reliably' <=> Reliably
    BY DEF Reliably, Faults
  <2>9. GiveUpAtLimit'
    BY <2>7, <2>8 DEF GiveUpAtLimit
  <2>. QED  BY <2>4, <2>5, <2>6, <2>9 DEF IInv
<1>j. CASE TimerIFires
  <2>. DEFINE t == [Stop(txn) EXCEPT !.st = "TERMINATED"]
  <2>1. /\ txn.pool /\ txn' = Removed(t) /\ hist' = TellEnd(hist) /\ keys' = keys /\ net' = net
        /\ resp' = resp
    BY <1>j DEF TimerIFires, Pooled
  <2>2. t \in TxnType
    BY <1>7
  <2>. HIDE DEF t
  <2>. QED  BY <1>3, <2>1, <2>2, RemovedFacts, EndsOf
<1>k. CASE RecvAckUdp
  <2>. DEFINE s == Start(Stop(txn), "I", TWait)
              t == [s EXCEPT !.st = "CONFIRMED"]
  <2>0. txn' = t \/ (txn' = Stop(txn) /\ "timer" \in Faults)
    BY <1>k, Zenon DEF RecvAckUdp
  <2>. HIDE DEF t
  <2>1. /\ txn.pool /\ txn.st = "COMPLETED" /\ keys' = keys /\ net' = net /\ resp' = resp
        /\ hist' = hist
        /\ \/ txn' = t
           \/ txn' = Stop(txn) /\ "timer" \in Faults
    BY <1>k, <2>0 DEF RecvAckUdp, Pooled
  <2>. USE DEF t
  <2>2. "I" \in TimerTypes /\ TWait \in Nat /\ "CONFIRMED" \in States
    BY DEF TimerTypes, States
  <2>3. s \in TxnType /\ s.pool /\ s.sent = txn.sent /\ s.timer.type = "I"
    BY <1>6, <2>1, <2>2, StartFacts DEF SameButTimer
  <2>. HIDE DEF s
  <2>4. /\ t \in TxnType /\ t.pool /\ t.sent = txn.sent /\ t.timer.type = "I"
        /\ t.st = "CONFIRMED"
    BY <2>2, <2>3, StateFacts DEF SameButTimer
  <2>. HIDE DEF t
  <2>5. TypeOK' /\ txn'.pool
    BY <1>6, <2>1, <2>4 DEF TypeOK
  <2>6. Steadily => Sure(txn, hist, resp)
    BY <1>2, <2>1 DEF Standing
  <2>7. CASE txn' = t
    <3>1. Steadily => Sure(t, hist, resp)
      BY <2>1, <2>4, <2>6 DEF Sure
    <3>2. Handled(t) /\ Dated(t, hist) /\ Keyed(t, hist, keys)
      BY <2>4 DEF Handled, Dated, Keyed
    <3>. QED  BY <1>3, <2>1, <2>5, <2>7, <3>1, <3>2, GoesOn
  <2>8. CASE txn' = Stop(txn) /\ "timer" \in Faults
    <3>1. ~Steadily
      BY <2>8 DEF Steadily
    <3>2. Handled(txn') /\ Dated(txn', hist) /\ Keyed(txn', hist, keys)
      BY <1>6, <2>1, <2>8 DEF Handled, Dated, Keyed
    <3>. QED  BY <1>3, <2>1, <2>5, <3>1, <3>2, GoesOn
  <2>. QED  BY <2>1, <2>7, <2>8
<1>l. CASE RecvAckTcp
  <2>. DEFINE t == [Stop(txn) EXCEPT !.st = "TERMINATED"]
  <2>1. txn.pool /\ txn' = t /\ keys' = keys /\ net' = net /\ resp' = resp /\ hist' = hist
    BY <1>l DEF RecvAckTcp, Pooled
  <2>2. t \in TxnType /\ t.pool /\ t.st = "TERMINATED" /\ t.timer.type = "none"
    BY <1>7, <2>1
  <2>. HIDE DEF t
  <2>3. TypeOK'
    BY <2>1, <2>2 DEF TypeOK
  <2>. QED  BY <1>3, <2>1, <2>2, <2>3, GoesOn DEF Handled, Dated, Keyed, Sure
<1>m. ASSUME NEW r \in 1..MaxRSeq, RecvPrack(r) PROVE IInv'
  <2>1. /\ txn.pool /\ txn' = Stop(txn) /\ keys' = << >> /\ hist' = Acknowledged(hist, r)
        /\ net' = net /\ resp' = resp /\ ExactHits(keys, NoTag, r) # {}
    BY <1>m DEF RecvPrack, PrackMatches, Acknowledged
  <2>2. /\ SameTold(hist', hist) /\ hist'.pracked = hist.pracked \cup {r}
    BY <2>1, AcknowledgedFacts
  <2>3. TypeOK' /\ txn'.pool
    BY <1>6, <2>1, <2>2, NoKeys DEF TypeOK, SameTold
  <2>4. /\ Handled(txn) /\ Keyed(txn, hist, keys) /\ (Steadily => Sure(txn, hist, resp))
    BY <1>2, <2>1 DEF Standing
  <2>5. Handled(txn') /\ Dated(txn', hist') /\ Keyed(txn', hist', keys')
    BY <1>6, <2>1, <2>4 DEF Handled, Dated, Keyed
  <2>6. ASSUME txn.st = "PROCEEDING", txn.timer.type = "G" PROVE hist.rseq \in {0, r}
    BY <2>1, <2>4, <2>6, PrackFits DEF Keyed
  <2>7. Steadily => Sure(txn', hist', resp')
    <3>. SUFFICES ASSUME Steadily PROVE Sure(txn', hist', resp')
      OBVIOUS
    <3>1. Sure(txn, hist, resp) /\ txn'.timer.type = "none"
      BY <1>6, <2>1, <2>4
    <3>2. txn.st = "PROCEEDING" => ~(txn.sent.rseq # 0 /\ txn.sent.rseq \notin hist'.pracked)
      BY <1>1, <2>2, <2>6, <3>1 DEF Sure
    <3>. QED  BY <1>6, <2>1, <3>1, <3>2 DEF Sure
  <2>. QED  BY <2>1, <2>2, <2>3, <2>5, <2>7, GoesOn
<1>n. CASE FallBackToUdp
  <2>. DEFINE t == [txn EXCEPT !.proto = "UDP"]
  <2>1. /\ txn.pool /\ txn' = t /\ net' = net \cup {txn.sent} /\ keys' = keys /\ resp' = resp
        /\ hist' = hist
    BY <1>n DEF FallBackToUdp
  <2>2. /\ t \in TxnType /\ t.pool /\ t.st = txn.st /\ t.timer = txn.timer /\ t.sent = txn.sent
        /\ t.expired = txn.expired /\ t.proto = "UDP"
    BY <2>1 DEF TxnType, Protocols
  <2>. HIDE DEF t
  <2>3. TypeOK'
    BY <1>1, <2>1, <2>2 DEF TypeOK
  <2>4. /\ Handled(txn) /\ Dated(txn, hist) /\ Keyed(txn, hist, keys)
        /\ Steadily => Sure(txn, hist, resp)
    BY <1>2, <2>1 DEF Standing
  <2>5. /\ Handled(t) /\ Dated(t, hist) /\ Keyed(t, hist, keys)
        /\ Steadily => Sure(t, hist, resp)
    BY <2>2, <2>4 DEF Handled, Dated, ExpiredAt, Keyed, Sure
  <2>. QED  BY <1>3, <2>1, <2>2, <2>3, <2>5, GoesOn
<1>o. CASE TransportError
  <2>. DEFINE s == IF txn.st = "PROCEEDING" THEN txn ELSE Stop(txn)
              t == [s EXCEPT !.st = "TERMINATED", !.proto = "UDP"]
  <2>1. /\ txn.pool /\ txn' = Removed(t) /\ hist' = TellEnd(hist) /\ keys' = keys /\ net' = net
        /\ resp' = resp
    BY <1>o DEF TransportError, Pooled
  <2>2. s \in TxnType
    BY <1>6
  <2>. HIDE DEF s
  <2>3. t \in TxnType
    BY <2>2 DEF TxnType, States, Protocols
  <2>. HIDE DEF t
  <2>. QED  BY <1>3, <2>1, <2>3, RemovedFacts, EndsOf
<1>p. CASE Abort
  <2>. DEFINE t == Removed(txn)
  <2>1. /\ txn.pool /\ txn' = Stop(t) /\ hist' = TellEnd(hist) /\ keys' = keys /\ net' = net
        /\ resp' = resp
    BY <1>p DEF Abort
  <2>2. t \in TxnType /\ ~t.pool
    BY RemovedFacts
  <2>. HIDE DEF t
  <2>3. txn' \in TxnType /\ ~txn'.pool
    BY <2>1, <2>2, StopFacts DEF SameButTimer
  <2>. QED  BY <1>3, <2>1, <2>3, EndsOf
<1>q. CASE UNCHANGED vars
  BY <1>q DEF vars, IInv, TypeOK, ContextsBalance, GiveUpAtLimit, Reliably, Steadily, Faults, Standing
<1>. QED
  BY <1>a, <1>b, <1>c, <1>d, <1>e, <1>f, <1>g, <1>h, <1>i, <1>j, <1>k, <1>l, <1>m, <1>n, <1>o,
     <1>p, <1>q
  DEF Next, Other, Respond, Receive, TimerFires

-----------------------------------------------------------------------------
\* What is said of the object of a transaction in the pool, its key and its last
\* response holds after every entry, copies of the INVITE and PRACKs included.
THEOREM Invariance == Spec => []IInv
BY Initial, Inductive, PTL DEF Spec

\* The object, the key list, the network, the response code and the history keep
\* their types.
THEOREM TypeCorrect == Spec => []TypeOK
BY Invariance, PTL DEF IInv

\* Each context an INVITE was given is let go once, when its transaction leaves the
\* pool, whatever copies of the INVITE make more of them (TxnTerminated, TxnTimeout).
THEOREM ContextsLetGo == Spec => []ContextsBalance
BY Invariance, PTL DEF IInv

\* The user is told of a timeout only when timer H is due
\* (InvSerFsm_ProceedingStTimerG_H_TimeoutEvt, InvSerFsm_CompletedStTimerG_H_TimeoutEvt).
THEOREM GiveUpTime == Spec => []GiveUpAtLimit
BY Invariance, PTL DEF IInv

\* The key list holds the RSeq of the provisional that is being repeated, alone
\* (InvSerFsm_ProceedingStSendNon100ProvRespEvt, AddTxnKey, RemoveTxnKey).
THEOREM CanBePracked == Spec => []RepeatedCanBePracked
<1>1. IInv => RepeatedCanBePracked
  BY DEF IInv, Standing, Keyed, RepeatedCanBePracked, Pooled
<1>. QED  BY <1>1, Invariance, PTL

\* A reliable provisional is repeated until its own PRACK arrives and no longer
\* (NonInvSerFsm_IdleStRecvNonInvReqEvt).
THEOREM UntilPracked == Spec => []RepeatedUntilPracked
<1>1. IInv => RepeatedUntilPracked
  BY DEF IInv, Standing, Sure, RepeatedUntilPracked, Unpracked, Pooled, Reliably, Steadily
<1>. QED  BY <1>1, Invariance, PTL

\* Once answered, a copy of the INVITE brings back the final response and no other
\* (InvSerFsm_CompletedStRecvInvReqEvt).
THEOREM FinalRepeated == Spec => []CompletedRepeatsFinal
<1>1. IInv => CompletedRepeatsFinal
  BY DEF IInv, Standing, Sure, CompletedRepeatsFinal, Pooled, Reliably, Steadily
<1>. QED  BY <1>1, Invariance, PTL

\* An armed timer always has a handler in the state it fires in.
THEOREM TimersHandled == Spec => []TimerHasHandler
<1>1. IInv => TimerHasHandler
  BY DEF IInv, Standing, TimerHasHandler
<1>. QED  BY <1>1, Invariance, PTL
-----------------------------------------------------------------------------
(***************************************************************************)
(* What a step hands to the network, for the transaction of the PRACKs: it      *)
(* repeats what is stored, sends a message without RSeq, or one with the next    *)
(* number; a new transaction starts its numbers over.                         *)
(***************************************************************************)
Anew ==
    /\ hist'.born = hist.born + 1 /\ hist'.next = 1 /\ hist'.pracked = {}
    /\ txn'.sent.rseq = 0 /\ net' = net

Repeats ==
    txn'.sent = txn.sent /\ hist'.next = hist.next /\ net' \subseteq net \cup {txn.sent, Plain("2xx")}
SendsPlain ==
    txn'.sent.rseq = 0 /\ hist'.next = hist.next /\ net' \subseteq net \cup {txn'.sent}
SendsNumbered ==
    /\ txn'.sent.rseq = hist.next /\ hist'.next = hist.next + 1
    /\ net' \subseteq net \cup {txn'.sent}

SamePracked(h) == h.pracked \in {hist.pracked, hist.pracked \ {hist.next}}

Proceeds == hist'.born = hist.born /\ SamePracked(hist') /\ (Repeats \/ SendsPlain \/ SendsNumbered)

LEMMA NextFacts ==
    ASSUME NEW h \in HistType
    PROVE  \A g \in {TellEnd(h), TellExpiry(h), Tick(h), TellExpiry(Tick(h)), Rewound(h)} :
               g.born = h.born /\ g.next = h.next /\ g.pracked = h.pracked
<1>1. TellEnd(h).born = h.born /\ TellEnd(h).next = h.next /\ TellEnd(h).pracked = h.pracked
  BY DEF HistType, TellEnd
<1>2. /\ TellExpiry(h).born = h.born /\ TellExpiry(h).next = h.next
      /\ TellExpiry(h).pracked = h.pracked
  BY DEF HistType, TellExpiry
<1>3. Tick(h).born = h.born /\ Tick(h).next = h.next /\ Tick(h).pracked = h.pracked
  BY DEF HistType, Tick
<1>4. /\ TellExpiry(Tick(h)).born = h.born /\ TellExpiry(Tick(h)).next = h.next
      /\ TellExpiry(Tick(h)).pracked = h.pracked
  BY DEF HistType, TellExpiry, Tick
<1>5. Rewound(h).born = h.born /\ Rewound(h).next = h.next /\ Rewound(h).pracked = h.pracked
  BY DEF HistType, Rewound
<1>. QED  BY <1>1, <1>2, <1>3, <1>4, <1>5

LEMMA NumberedNext ==
    ASSUME NEW h \in HistType, NEW m \in Message
    PROVE  Numbered(h, m).next = IF m.rseq # 0 THEN m.rseq + 1 ELSE h.next
<1>. DEFINE n == IF m.rseq # 0 THEN m.rseq + 1 ELSE h.next
<1>1. Numbered(h, m) = [h EXCEPT !.next = n]
  BY DEF Numbered
<1>. HIDE DEF n
<1>2. Numbered(h, m).next = n
  BY <1>1 DEF HistType
<1>. QED  BY <1>2 DEF n

LEMMA HandedSends ==
    ASSUME NEW t \in TxnType, t.sent = txn.sent, NEW m \in Message, m.rseq \in {0, hist.next},
           NEW h \in HistType, h.born = hist.born, h.next = hist.next, SamePracked(h),
           HandOver(t, m, h), hist.next \in Nat
    PROVE  Proceeds
<1>1. CASE txn' = Stop(Removed(t)) /\ hist' = TellEnd(h) /\ net' = net
  <2>1. txn'.sent = txn.sent
    BY <1>1 DEF Stop, Removed, TxnType
  <2>. QED  BY <1>1, <2>1, NextFacts DEF Proceeds, Repeats, SamePracked
<1>2. CASE txn' = t /\ hist' = h /\ net' = net
  BY <1>2 DEF Proceeds, Repeats
<1>3. CASE txn' = Stored(t, m, FirstProto) /\ net' = net \cup {m} /\ hist' = Numbered(h, m)
  <2>1. txn'.sent = m
    BY <1>3, StoredFacts
  <2>2. /\ hist'.born = hist.born /\ SamePracked(hist')
        /\ hist'.next = IF m.rseq # 0 THEN m.rseq + 1 ELSE hist.next
    BY <1>3, NumberedFacts, NumberedNext DEF SameTold, SamePracked
  <2>. QED  BY <1>3, <2>1, <2>2 DEF Proceeds, SendsPlain, SendsNumbered
<1>. QED  BY <1>1, <1>2, <1>3 DEF HandOver

LEMMA StepSends == ASSUME IInv, Other PROVE IF RecvInvite THEN Anew ELSE Proceeds
<1>0. /\ txn \in TxnType /\ net \subseteq Message /\ hist \in HistType /\ hist.next \in 1..(MaxRSeq + 1)
  BY DEF IInv, TypeOK, HistType
<1>1. /\ SamePracked(hist)
      /\ \A h \in HistType : h.pracked = hist.pracked => SamePracked(h)
  BY DEF SamePracked
<1>2. /\ Rewound(hist) \in HistType /\ Rewound(hist).born = hist.born
      /\ Rewound(hist).next = hist.next /\ Rewound(hist).pracked = hist.pracked
      /\ SamePracked(Rewound(hist))
  BY <1>0, <1>1, RewoundFacts DEF SameTold
<1>3. Restarted(txn) \in TxnType /\ Restarted(txn).sent = txn.sent
  BY <1>0, RestartedFacts DEF SameButTimer
<1>4. Stop(txn) \in TxnType /\ Stop(txn).sent = txn.sent
  BY <1>0, StopFacts DEF SameButTimer
<1>5. \A u \in TxnType : /\ Removed(u) \in TxnType /\ Removed(u).sent = u.sent
                         /\ Stop(u).sent = u.sent
                         /\ \A s : [u EXCEPT !.st = s].sent = u.sent
  BY RemovedFacts DEF Removed, Stop, TxnType
<1>6. ASSUME txn'.sent = txn.sent, net' \subseteq net \cup {txn.sent, Plain("2xx")},
             hist' \in {hist, TellEnd(hist), TellEnd(Rewound(hist)), Rewound(hist), Tick(hist),
                        TellExpiry(Tick(hist))}
      PROVE  Proceeds
  BY <1>0, <1>2, <1>6, NextFacts DEF Proceeds, Repeats, SamePracked
<1>7. ASSUME NEW h \in HistType, h.next = hist.next, h.born = hist.born, SamePracked(h), Refused(h)
      PROVE  Proceeds
  BY <1>3, <1>7 DEF Refused, Proceeds, Repeats

<1>a. CASE RecvInvite
  <2>1. txn' = Born /\ hist' = TellNew(hist) /\ net' = net
    BY <1>a DEF RecvInvite, Born
  <2>2. hist'.born = hist.born + 1
    BY <1>0, <2>1, NewFacts
  <2>3. hist'.next = 1 /\ hist'.pracked = {}
    BY <2>1 DEF TellNew, NewHist
  <2>. QED  BY <1>a, <2>1, <2>2, <2>3, NewType DEF Anew
<1>. SUFFICES ASSUME ~RecvInvite PROVE Proceeds
  BY <1>a
<1>b. CASE RecvInviteAgain
  BY <1>6, <1>b DEF RecvInviteAgain, Resend
<1>c. ASSUME NEW type \in {"100", "1xx"}, SendProvisional(type) PROVE Proceeds
  <2>. DEFINE t == Restarted(txn)
              m == Plain(type)
              h == Rewound(hist)
  <2>1. HandOver(t, m, h)
    BY <1>c DEF SendProvisional
  <2>2. m \in Message /\ m.rseq = 0
    BY PlainType
  <2>. HIDE DEF m
  <2>. QED  BY <1>0, <1>2, <1>3, <2>1, <2>2, HandedSends
<1>d. CASE SendReliable
  <2>. DEFINE m == Msg("1xx", NoTag, hist.next)
              h == Promised(Rewound(hist), hist.next)
              s == Restarted(txn)
              t == Start(s, "G", T1)
  <2>1. hist.next \in 1..MaxRSeq /\ (Refused(h) \/ HandOver(t, m, h))
    BY <1>0, <1>d DEF SendReliable, Msg, Promised
  <2>2. m \in Message /\ m.rseq = hist.next
    BY <2>1 DEF Message, MsgTypes, Msg
  <2>3. /\ h \in HistType /\ h.born = hist.born /\ h.next = hist.next
        /\ h.pracked = hist.pracked \ {hist.next}
    <3>1. h \in HistType /\ h.born = hist.born
      BY <1>2, <2>1, PromisedFacts DEF SameTold
    <3>2. h.next = hist.next /\ h.pracked = hist.pracked \ {hist.next}
      BY <1>2 DEF Promised, HistType
    <3>. QED  BY <3>1, <3>2
  <2>4. SamePracked(h)
    BY <2>3 DEF SamePracked
  <2>5. t \in TxnType /\ t.sent = txn.sent
    <3>. "G" \in TimerTypes /\ T1 \in Nat
      BY DEF TimerTypes
    <3>. HIDE DEF s
    <3>1. s \in TxnType /\ s.sent = txn.sent
      BY <1>3 DEF s
    <3>. QED  BY <3>1, StartFacts DEF SameButTimer
  <2>. HIDE DEF m, h, t
  <2>. QED  BY <1>0, <1>7, <2>1, <2>2, <2>3, <2>4, <2>5, HandedSends
<1>e. CASE SendFailure \/ Send2xx
  <2>. DEFINE s == Restarted(txn)
              h == Rewound(hist)
  <2>1. \/ Refused(h)
        \/ \E t \in {Repeating(s), Waiting(s)}, m \in {Plain("fail"), Plain("2xx")} : HandOver(t, m, h)
    BY <1>e DEF SendFailure, Send2xx
  <2>. HIDE DEF h, s
  <2>2. \A t \in {Repeating(s), Waiting(s)} : t \in TxnType /\ t.sent = txn.sent
    BY <1>3, RepeatingFacts, WaitingFacts DEF SameButTimer, s
  <2>3. \A m \in {Plain("fail"), Plain("2xx")} : m \in Message /\ m.rseq = 0
    BY PlainType
  <2>4. h \in HistType /\ h.born = hist.born /\ h.next = hist.next /\ SamePracked(h)
    BY <1>2 DEF h
  <2>5. CASE Refused(h)
    BY <1>7, <2>4, <2>5
  <2>6. ASSUME NEW t \in {Repeating(s), Waiting(s)}, NEW m \in {Plain("fail"), Plain("2xx")},
               HandOver(t, m, h)
        PROVE  Proceeds
    BY <1>0, <2>2, <2>3, <2>4, <2>6, HandedSends
  <2>. QED  BY <2>1, <2>5, <2>6
<1>f. CASE Send2xxUntimed
  <2>. DEFINE s == Restarted(txn)
              t == [s EXCEPT !.st = "TERMINATED"]
  <2>1. /\ txn' \in {t, Removed(t)} /\ hist' \in {Rewound(hist), TellEnd(Rewound(hist))}
        /\ net' = net \/ net' = net \cup {Plain("2xx")}
    BY <1>f DEF Send2xxUntimed
  <2>2. t \in TxnType /\ t.sent = txn.sent
    <3>. HIDE DEF s
    <3>1. s \in TxnType /\ s.sent = txn.sent /\ "TERMINATED" \in States
      BY <1>3 DEF s, States
    <3>. QED  BY <3>1, StateFacts DEF SameButTimer
  <2>. HIDE DEF t
  <2>. QED  BY <1>5, <1>6, <2>1, <2>2
<1>g. CASE TimerGHRepeats
  <2>. DEFINE dur == Doubled(txn)
              s == Stop(txn)
              x == ExpiredAt(txn)
              t == [s EXCEPT !.expired = x]
              a == [Start(t, "G", dur) EXCEPT !.retx = @ + 1, !.expired = @ + dur]
  <2>1. /\ txn' \in {t, a} /\ hist' = Tick(hist) /\ \E ok \in BOOLEAN : Resend(txn, ok)
    BY <1>g DEF TimerGHRepeats, Outcome
  <2>. HIDE DEF dur, x
  <2>2. s \in TxnType /\ s.sent = txn.sent
    BY <1>4
  <2>. HIDE DEF s
  <2>3. t.sent = txn.sent /\ a.sent = txn.sent
    BY <2>2 DEF TxnType, Start
  <2>. HIDE DEF t, a
  <2>. QED  BY <1>6, <2>1, <2>3 DEF Resend
<1>h. CASE TimerGHGivesUp
  <2>. DEFINE s == Stop(txn)
              x == ExpiredAt(txn)
              t == [s EXCEPT !.st = "TERMINATED", !.expired = x]
  <2>1. txn' = Removed(t) /\ hist' = TellExpiry(Tick(hist)) /\ net' = net
    BY <1>h DEF TimerGHGivesUp
  <2>. HIDE DEF s, x
  <2>2. txn'.sent = txn.sent
    BY <1>4, <2>1 DEF TxnType, Removed, s
  <2>. QED  BY <1>6, <2>1, <2>2
<1>i. CASE TimerIFires \/ RecvAckUdp \/ RecvAckTcp
  <2>. DEFINE s == Stop(txn)
              t == [s EXCEPT !.st = "TERMINATED"]
              c == [Start(s, "I", TWait) EXCEPT !.st = "CONFIRMED"]
  <2>1. txn' \in {s, t, c, Removed(t)} /\ hist' \in {hist, TellEnd(hist)} /\ net' = net
    BY <1>i DEF TimerIFires, RecvAckUdp, RecvAckTcp
  <2>. HIDE DEF s
  <2>2. txn'.sent = txn.sent
    BY <1>4, <2>1 DEF TxnType, Start, Removed, s
  <2>. QED  BY <1>6, <2>1, <2>2
<1>j. CASE FallBackToUdp \/ TransportError \/ Abort
  <2>. DEFINE s == IF txn.st = "PROCEEDING" THEN txn ELSE Stop(txn)
              t == [s EXCEPT !.st = "TERMINATED", !.proto = "UDP"]
              f == [txn EXCEPT !.proto = "UDP"]
  <2>1. /\ txn' \in {f, Removed(t), Stop(Removed(txn))} /\ hist' \in {hist, TellEnd(hist)}
        /\ net' \in {net, net \cup {txn.sent}}
    BY <1>j DEF FallBackToUdp, TransportError, Abort
  <2>2. s \in TxnType /\ s.sent = txn.sent
    BY <1>0, <1>4
  <2>. HIDE DEF s
  <2>3. f.sent = txn.sent /\ Removed(t).sent = txn.sent /\ Stop(Removed(txn)).sent = txn.sent
    BY <1>0, <2>2 DEF TxnType, Removed, Stop
  <2>. HIDE DEF f, t
  <2>. QED  BY <1>6, <2>1, <2>3
<1>. QED
  BY <1>b, <1>c, <1>d, <1>e, <1>f, <1>g, <1>h, <1>i, <1>j
  DEF Other, Respond, Receive, TimerFires

\* None but a new transaction enters PROCEEDING.
LEMMA StaysProceeding ==
    ASSUME IInv, Other, ~RecvInvite, Pooled("PROCEEDING")'
    PROVE  Pooled("PROCEEDING")
<1>0. txn \in TxnType
  BY DEF IInv, TypeOK
<1>1. CASE Respond
  BY <1>1 DEF Respond, SendProvisional, SendReliable, SendFailure, Send2xx, Send2xxUntimed
<1>2. CASE RecvInviteAgain
  BY <1>2 DEF RecvInviteAgain, Pooled
<1>3. CASE RecvAckUdp \/ RecvAckTcp \/ TimerIFires
  BY <1>0, <1>3 DEF RecvAckUdp, RecvAckTcp, TimerIFires, Pooled, Start, Stop, Removed, TxnType
<1>4. CASE TimerGHRepeats
  <2>. DEFINE dur == Doubled(txn)
              s == Stop(txn)
              x == ExpiredAt(txn)
              t == [s EXCEPT !.expired = x]
              a == [Start(t, "G", dur) EXCEPT !.retx = @ + 1, !.expired = @ + dur]
  <2>1. txn' \in {t, a}
    BY <1>4 DEF TimerGHRepeats, Outcome
  <2>. HIDE DEF dur, x
  <2>2. txn'.st = txn.st /\ (txn'.pool <=> txn.pool)
    BY <1>0, <2>1 DEF TxnType, Start, Stop
  <2>. QED  BY <2>2 DEF Pooled
<1>5. CASE TimerGHGivesUp \/ TransportError \/ Abort
  <2>. DEFINE s == Stop(txn)
              u == IF txn.st = "PROCEEDING" THEN txn ELSE s
              x == ExpiredAt(txn)
  <2>1. txn' \in {Removed([s EXCEPT !.st = "TERMINATED", !.expired = x]),
                  Removed([u EXCEPT !.st = "TERMINATED", !.proto = "UDP"]), Stop(Removed(txn))}
    BY <1>5 DEF TimerGHGivesUp, TransportError, Abort
  <2>2. s \in TxnType /\ u \in TxnType
    BY <1>0, StopFacts DEF SameButTimer
  <2>. HIDE DEF s, u, x
  <2>3. ~txn'.pool
    BY <1>0, <2>1, <2>2 DEF Removed, Stop, TxnType
  <2>. QED  BY <2>3 DEF Pooled
<1>6. CASE FallBackToUdp
  BY <1>0, <1>6 DEF FallBackToUdp, Pooled, TxnType
<1>. QED  BY <1>1, <1>2, <1>3, <1>4, <1>5, <1>6 DEF Other, Receive, TimerFires
=============================================================================
