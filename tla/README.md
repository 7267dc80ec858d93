# TLA+ models of ImsStack

ImsStack is the native IMS stack of an Android phone: it registers the device
with the operator's IMS core, makes and receives calls, sends messages and
subscribes to events, all over SIP. This directory holds TLA+ specifications of
its core, configurations that model-check them with TLC, and proofs checked by
TLAPS. Paths below are relative to `src/native/libimsstack/` unless they start
with `src/`.

## 1. Inventory

### 1.1 Layers

| Layer | Where | State it keeps | Operations |
|---|---|---|---|
| SIP transactions | `protocol/sip/txn`, `protocol/sip/SipStackManager.cpp`, `protocol/sip/transport` | transaction objects in a pool, one timer each, the message to retransmit, the list of RSeq keys of outstanding reliable provisionals | send a message, receive one, timer expiry, transport error, terminate |
| SIP and SDP messages, XML | `protocol/sip/msg`, `protocol/sdp`, `protocol/xml` | none beyond the message | parse, build, encode |
| SIP engine | `engine/sipcore` | dialogs, client and server connections, contexts attached to transactions, timer values | requests and responses of a connection, notices from the transaction layer |
| Sessions | `engine/core` | session state, offer/answer state (`SdpOaState`), session refresh, reliable provisional helper (RSeq), subscriptions, publications, references, page messages | start, accept, reject, update, terminate; PRACK; refresh; subscribe, notify, publish |
| Registration | `engine/registration` | registration state, contacts and bindings, refresh timers, reg-event subscription | register, refresh, deregister, notify |
| Services and connections | `engine/service`, `engine/connection`, `engine/base` | tables of services, connectors, configuration | open and close |
| Always-on service (AoS) | `enabler/aos` | application and registration state, conditions (network, subscriber, block reasons), retry counters and timers | connect, disconnect, conditions met or lost, retry |
| Telephony (MTC) | `enabler/mtc` | call state objects, preconditions, conference operations, silent redial | start, accept, hold, merge, terminate |
| Messaging, capabilities, media | `enabler/mts`, `enabler/uce`, `enabler/media`, `enabler/sipcontroller` | short-message transfers, capability exchange, media sessions | send, deliver, publish, negotiate |
| Loader, JNI, Java | `enabler/loader`, `jni`, `src/java` | wiring, carrier configuration, Android services | start and stop, marshalling |
| Platform | `platform` | threads, timers, sockets | external to the models |

### 1.2 How the layers interact

A message goes down by calls (enabler -> session -> connection -> transaction
-> network) and comes up by callbacks (`OnRecvMessage` -> `SipTxnHandler` -> the
state machine of the transaction -> `SipStackTxnLayer` listener -> connection ->
session -> enabler). The stack runs on one thread: each entry (a call of the
user, a message of the network, a timer callback) runs to its end. There is no
data race to model; what is hard is that the entries come in any order, that
almost every platform call in the middle of one may fail, and that several
objects share state: the transaction pool, the process-wide key list
`s_txnKeyList`, the context that the engine attaches to a transaction.

### 1.3 What is hard, and what makes each part correct

* **Transactions.** Messages are lost, duplicated, late; timers race with
  answers; a send fails after the state machine has moved on. Correct means: the
  user hears of one outcome and of one end; every context is let go once; a
  timeout comes after exactly the time configured; nothing waits for ever
  without a timer; what is repeated is the right message and is repeated exactly
  as long as it should be.
* **Reliable provisionals.** The INVITE and its PRACKs are different
  transactions that meet in the key list. Correct means: a PRACK stops the
  provisional it acknowledges and no other; the client passes provisionals up in
  RSeq order for each fork.
* **Timer values.** Two modules share a bit mask. Correct means: a value the
  application sets reaches the transaction, one it does not set is left alone.
* **Sessions.** Offers and answers in INVITE, 1xx, PRACK, UPDATE and ACK
  alternate and roll back; re-INVITE, UPDATE, BYE and CANCEL of both ends cross;
  an end waits for an ACK that may be late or lost. Correct means: when all is
  quiet both ends have the same session description in force and can make the
  next offer; an end is final and reported once; nothing waits for ever.
* **Registration and AoS.** Refresh, failure, loss of network and
  deregistration meet in any order; retries back off and never stop for good.
* **Calls.** Preconditions, conference operations and call termination are
  chains of asynchronous operations that may be interrupted at each link. For a
  conference, correct means: the queue of operations never waits for something
  that was not started, or that nothing can bring, unless it was lost in a way that
  is known; a command of the UI has one result; the call with a member is ended
  because this member is in the conference (or not to be had), not because of
  somebody else's answer; the controller is closed after the conference.

`PROJECT.json` lists every component with its status and every hazard at its
line of the source.

## 2. Plan

Order: the transaction layer first, since everything else stands on it.

1. (done) `SipTxn`, `SipInvCli`, `SipInvSer`, `SipNonInvCli`, `SipNonInvSer`,
   the abstract `ClientTxn`, the composition `SipUas`, `SipTimerOptions`, and
   proofs about each of them.
2. (done) `SdpOaState`, `Session` with both ends of a dialog, and proofs about
   it; the merged conference call, `Conference`, and proofs about it.
3. The INVITE that makes a session, with the reliable provisional helper
   (`SessionEx`, `ReliableProvResponseHelper`) over `SipUas`: the engine may
   refuse a PRACK whose RSeq the transaction layer has already taken, and then
   waits in `RPR_SENT` with nothing repeated.
4. `SessionRefreshHelper` (glare and refresh timers), `SubState` and `PubState`,
   `Registration` with `RegBinding`.
5. AoS (`AosApplication`, `AosRegistration`, retry counters), MTC
   (preconditions, call states).
6. Proofs of the modules of stages 3 to 5, as each is written.

Each stage composes with the one below it through its promise: a session is
modelled over what transactions promise (a response or a timeout for each
request, once), not over the four machines.

## 3. Modules

| Module | Models |
|---|---|
| `SipTxn` | what the four machines share: the transaction object (class `SipTxn`), `StartTxnTimer`/`StopTxnTimer`, the stored message (`UpdateTxnDetails`), the pool, the key list (`SipTxnUtil`, `SipTxnKey`) |
| `SipInvCli` | INVITE client transaction (`SipTxnInvCliFsm.cpp`) |
| `SipInvSer` | INVITE server transaction (`SipTxnInvSerFsm.cpp`) and the effect of PRACKs on it |
| `SipNonInvCli` | non-INVITE client transaction (`SipTxnNonInvCliFsm.cpp`) |
| `SipNonInvSer` | non-INVITE server transaction (`SipTxnNonInvSerFsm.cpp`), PRACK included |
| `SipUas` | `SipInvSer` and `SipNonInvSer` composed: an INVITE and its PRACKs |
| `ClientTxn` | abstract: what a client transaction promises its user |
| `SipTimerOptions` | how timer values travel from a connection to a transaction |
| `SipInvCli_proofs` | theorems about `SipInvCli`, that it implements `ClientTxn` among them |
| `SipInvSer_proofs`, `SipNonInvCli_proofs`, `SipNonInvSer_proofs` | theorems about the other three transactions |
| `SipUas_proofs` | the theorem about an INVITE and its PRACKs, from those of both |
| `SipTimerOptions_proofs` | theorems about `SipTimerOptions` |
| `SdpOaState` | the offer/answer machine (`SdpOaState.cpp`): its two transition tables and the views |
| `Session` | two ends of an established dialog (`Session.cpp`, `SessionEx.cpp`, `CallState.cpp`), each with its `SdpOaState` |
| `Session_proofs` | theorems about `Session` |
| `Conference` | the controller of a merged conference call (`enabler/mtc/conferencecall`) |
| `Conference_proofs` | theorems about `Conference` |
| `MC...` | environments and bounds for TLC |

### 3.1 State

`txn` is the object: `st` (`m_nState`), `pool` (it is in the transaction table),
`timer` (`m_pTimerId` with type and duration), `expired`
(`m_nDurationExpired`), `retx` (`m_nReTxCount`), `cur` (`m_nCurrentDuration`),
`sent` and `proto` (message and protocol of `m_pTranspInfo`), `ctx` (the user's
context is still attached). `keys` is `s_txnKeyList` restricted to one Call-ID
and From tag. `net` is the set of messages that ever reached the network: a
member may arrive any number of times, late, or never, which covers loss,
duplication and reordering. `resp` is `m_nRespCode`. `hist` records what the
user has been told and how much timer time has passed; the properties are
stated on it. `env` is chosen once in `Init` and never changes: the transport of
the first message, the platform calls that may fail, and the keys an earlier
INVITE of the dialog left in the list.

In `Session`, `ep[e]` is the session of end `e`: `st` (`m_nState`), `call`
(`CallState`), `oa` (`SdpOaState`), `upd` (the request and connection of
SESSION_UPDATE), the flags `m_bUpdateRequestor`, `m_bTerminatePending`,
`m_bAckWithSdpInProgress`, the posted messages that lead to more than a callback,
and the last CSeq sent and received. A session description is the number of the
offer it belongs to; 0 is none. `net` holds each message once: copies, and their
loss, are the business of the transactions below, so a message lost here is lost
for good. `broken` becomes TRUE when an exchange is given up by one end alone
(a refusal, a timeout, an offer answered without SDP): the properties about
agreement are stated for exchanges that run to their end.

In `Conference`, `ctl` is the controller with all that belongs to it: state,
queue, timers, participants, references and the subscription; `conf` and `call`
are the calls it drives. The subscription has two states, as in the code: `sub` is
`ConferenceSubscription::m_nState`, `eng` what the engine's subscription makes of it
(released, inactive, an operation pending, active), and they disagree where the
code lets them: after a refused `Unsubscribe`, a failure that
`SubscriptionStartFailed` ignores, a C-NOTIFY of a wrong version. `open`, `twice`,
`stale` and `lost` are history: `lost` says that the subscription ended, or was not
ended, against the controller's will.

### 3.2 Actions

One action is one entry into the stack: the handler of the state machine and
everything `SipTxnHandler`, `SipStackManager` and `CbkTxnTimeout` do around it,
up to the notice to the user. A handler whose platform calls can fail has one
disjunct for each different outcome. An event with no entry in the table of the
machine, or whose handler answers only with a status, is a stuttering step and
has no action; each module says which.

In `SipInvCli` the peer is arbitrary: after the INVITE is sent any response may
come at any time, which includes all forks and all retransmissions. In the
server machines the user is arbitrary within what `SipServerConnection::Send`
lets through (no response after a final one).

In `Session` the application of each end is arbitrary within what the state of
the session lets through; each handler of a request, a response or a timeout is
an action, with every alternative the code decides by data (whether an offer can
be answered) left open. A handler is a relation between the session before and
after, so that a request dispatched later (`DispatchDelayed`) uses the same
definition as one that comes from the network. In `Conference` an event takes
the controller through everything it starts, one operation after another until
one lasts (`DoNextOperation`), before the next event comes; servers and members
are arbitrary.

Definitions marked `wrong:` are not part of a specification. They are plausible
mistakes in the definition below them, put in its place to confirm that a
property notices.

### 3.3 Timers and time

Time is the sum of the durations of the timers that fired. Timers are only
compared with each other through the durations the code computes, so no clock
is needed; that a timer fires late, or after a racing message, is an
interleaving. In `Session` the exception is one-sided: its timers (32 s and
more) fire when nothing is in flight and nothing is posted, since a message
arrives, or is lost with all its copies, long before. The platform's handling of
timer ids (a callback that finds no transaction, or another timer, is dropped) is
why an action of a timer requires that the timer is the one armed.

## 4. Runs

Timers are scaled: T1 = 1, T2 = 8, limit 64 = 64*T1, as in the default values
(500 ms, 4 s, 32 s), so every doubling and every cut of the code happens with
its real number of retransmissions. `SipUas` uses a limit of 32 to keep the
product small: the chain has fewer intervals of T2, and every doubling still
happens.

| Run | Question |
|---|---|
| `InvCli` | one outcome, one end, exact timeout, order of provisionals for two forks, `ClientTxn` implemented; where timers start and ACKs can be built, neither CALLING nor COMPLETED lasts for ever (PROCEEDING may) |
| `InvSer` | contexts balance over copies of an INVITE, PRACK and repetition agree, exact timeout, the final response is what is repeated; where timers start and messages are sent, a transaction with a final response leaves the pool, unless an ACK over TCP leaves it there terminated (`InvSerAckTcp`), and no reliable provisional is repeated for ever |
| `NonInvCli` | as `InvCli`, with the number of copies bounded; where timers start, the transaction ends |
| `NonInvSer` | contexts balance, the final response is repeated, a transaction that sent it leaves the pool |
| `Uas` | repetition of a provisional stops exactly when the user is given its PRACK |
| `TimerOptions` | unset values are left alone, a full set reaches the client timers |
| `Session` | both ends agree when all is quiet, an offerer takes up only what the answerer has in force, an end is final and reported once, no wait for an ACK or the answer to a BYE is for ever |
| `Conference` | the queue waits only for what can still come, or has been lost in a named way; one result per command; a member's call ends on this member's answer; an UNSUBSCRIBE after the conference closes the controller, unless the subscription is lost |
| `InvCliAckLost` | (violated) COMPLETED keeps the ACK |
| `InvSerAckTcp` | (violated) a terminated transaction leaves the pool |
| `TimerOptionsSet` | (violated) every value set reaches the transaction |
| `SessionReject` | (violated) a refused update is discarded |

Bounds: two To tags, since forks do not interact beyond pairs; RSeq up to 3 in
`InvCli` and `Uas` (new, next, skipped) and 2 in the others (an earlier one and
the present one); two transactions made by copies of one request, so that what
the first leaves behind meets the second; three PRACK transactions in `Uas`.
Environments: each run has both transports, with every platform call failing at
will, and with the ones failing that do not break a promise; properties that
need a platform call to succeed name it in their premise (`Faults`), so that
one run shows what holds always and what holds only then. `CHECK_DEADLOCK` is
off everywhere since a transaction ends and stays ended, and so do a session
and a conference.

`Session`: three requests of the applications (an update from each end that
cross, and an end or a third update on top of them; or three updates in a row)
and one lost message, since a second loss meets the same handlers again; 578,000
states. The invariant of the proofs has been checked with four requests too
(11 million states). `Conference`: all three orders of REFER and SUBSCRIBE; two
members are merged by the first command, and the second drops one of them or, where
REFER comes first, merges or adds a third (`MaxAsked`, given for each order in
`MCConference`); 877,000 states. The orders that subscribe first have the
subscription's events between all the others, so that a third member would take
them out of reach; their own cases (CHECK_CONNECTED, a C-NOTIFY that completes
SUBSCRIBE) need two.

### 4.1 Fairness

`WF_vars(TimerFires)`: an armed timer fires. The platform's timer queue is the
only part of the system the code relies on for progress. The peer, the network
and the user promise nothing, so PROCEEDING of a client transaction, where only
they can act, has no liveness property.

`Session`: `WF_vars(Network)`, a message arrives or is lost; `WF_vars(Dispatch(e))`,
the message loop handles what is posted; `WF_vars(Timeout(e))`, a transaction
ends with a response or a timeout, which is what the runs above show of it. The
application promises nothing: `WaitEnds` concerns REESTABLISHING (an ACK) and
TERMINATING (an answer), not RENEGOTIATING, where the application has to act.

`Conference`: `WF_vars(DelayedOperationTimer)` and `WF_vars(FinalSipfragWaitTimer)`,
an armed timer fires; `WF_vars(SubscriptionStarted \/ SubscriptionStartFailed)`, a
SUBSCRIBE under way is answered or times out, which its client transaction
guarantees (`NonInvCli`). A timeout is the first disjunct of
`SubscriptionStartFailed`, in which the code does nothing but leave the
subscription inactive: fairness brings an outcome, not one that completes the
operation that waits for it. Answers to REFERs, R-NOTIFYs and C-NOTIFYs are never
promised.

The liveness properties are thus promises with premises, each of them in the
formula: that timers can be started and messages sent (`Faults`), and in
`Conference` that the subscription is not lost. Behind `lost` are: no answer to a
SUBSCRIBE; a subscription that the network ends, or that fails on a C-NOTIFY of a
wrong version; an UNSUBSCRIBE that the engine cannot send. In each of them the code
may leave the controller open for good.

### 4.2 What the violated runs show

* `InvCliAckLost`: over UDP, when the ACK of a failure response cannot be sent,
  `OnRecvMessage` returns before `UpdateTxnDetails`; the stored message is still
  the INVITE and the next copy of the failure response sends the INVITE again.
* `InvSerAckTcp`: over TCP the ACK of a failure response terminates the server
  transaction, but its handler leaves `eTxnStatus` at `STATUS_INVALID_MESSAGE`,
  so `OnRecvMessage` returns before it deletes the transaction. It stays in the
  pool without a timer, and its user is never told.
* `TimerOptionsSet`: `SipStack::SetTimerValues` uses the engine's bits,
  `UpdateSipTimers` reads the transaction layer's. Values the application sets
  for timers H, I and J never arrive.

* `SessionReject`: an end that has made a proposal for the offer of an update and
  then rejects it takes the proposal up: the failure response moves
  `SdpOaState` from OFFER_CHANGE_RECEIVED to ESTABLISHED, `UpdateMedia` takes that
  for a completed exchange. `ISession.h` says that the update is discarded.

Further behaviours met while modelling, which the premises of properties name:
over TCP a failed send of the ACK (client) or of a final response (server)
leaves the terminated transaction in the pool; over UDP a failed send of a final
response makes COMPLETED repeat the provisional stored before; PROCEEDING
empties the key list before it handles a failure response, so that an unhandled
one lets a repeated reliable provisional be passed up twice; after a fall-back
from TCP to UDP a whole chain of timer A (or E) follows the long timer, and the
timeout comes after nearly twice the limit; a duplicated ACK in CONFIRMED is
passed up again, which `SipTxn.h` says is ignored.

In a session: an UPDATE with an offer that crosses this end's re-INVITE is
answered 200 without SDP, and the peer stays in OFFER_CHANGE_SENT; a re-INVITE
that overtakes the ACK of the last one puts off a pending end until some later
ACK; `m_bUpdateRequestor` is never reset by the end of an update; when a CANCEL
times out after the 487 the session ends without a BYE, and only because no
message is left then can a late ACK not end it again. `CheckNSetListenerCall`
would hide a second report, but the application has deleted the session on the
first.

An ACK of a failure response over TCP leaves its transaction in the pool (above);
`CompletedEnds` of `SipInvSer` excepts this case (`AckedOverTcp`) and no other: a late
ACK of such a response must not find a later transaction that has sent a 2xx.

In a conference: a late R-NOTIFY whose user is unlinked completes the operation
of another member (`stale`); the failure of a REFER for BYE after its R-NOTIFY
tells a second result and clears what is pending; when the conference ends
behind an operation that `Recover` does not know, or after its subscription has
gone, the controller may never be closed; a C-NOTIFY of a wrong version makes the
controller subscribe again or, when this fails, delete its subscription, with an
UNSUBSCRIBE or CHECK_CONNECTED waiting or to come; a refused UNSUBSCRIBE is not
noticed; a timed-out SUBSCRIBE leaves its operation in front; an added member leaves JOINING only by
failure where REFERs have subscriptions; the end of any member's call may start
the sipfrag timer of another; `NotifyUsersInfo` deletes the user of an operation
that is still queued. `AnsweredOnce` and `OwnAnswer` except `stale`.
`FrontUnderWay` excepts what `Lost` names, for the operation in front: a
subscription that is lost, for the operations that need one (SUBSCRIBE, as long as
`FAILED` has not deleted it, for `FAILED` completes SUBSCRIBE); an R-NOTIFY that
ends without a code, for REFER_INVITE; a REFER that could not be sent, for
REFER_BYE. `EndedCloses` excepts `lost`, and a REFER for BYE without its answer.

## 5. Proofs

Each of the four machines, their composition `SipUas`, `SipTimerOptions`,
`Session` and `Conference` has proofs of its safety for all values of its
constants: every safety property of the passing runs is proved; the one of
`SipUas` under the premises that its run has by configuration. Each of the eight
proof modules has an inductive invariant, and its theorems follow from it;
`Session_proofs` and `Conference_proofs` have a lemma for each action.

### 5.1 INVITE client transaction

`SipInvCli_proofs` proves, for every timer value, every set of To tags, every
bound on RSeq and every set of environments, that `IInv` is an invariant of
`SipInvCli!Spec`. It assumes only that T1, T2, TWait are positive, that T1 is
below the limit (a limit of T1 or less would leave no retransmission), that an
environment is one, and that the absence of a To tag (`NoTag`) is not a tag.

None of the properties is inductive. `GiveUpAtLimit` speaks of the moment the
timeout is reported; that the clock is right then follows from an equation that
holds all along the chain of timer A: clock + armed interval = `expired` +
offset, where `expired` is ahead of the clock by the armed interval except
before the first firing, and the offset is `TLimit - T1` for a transaction that
started over TCP (`Chained`). That equation needs to know that timers A and B
are armed only in CALLING (`TimerHasHandler`), and that only UDP transactions
continue the chain (`Wired`). `EndNotifiedOnce` needs the history's counters to
be zero while the transaction is pooled (`Told`). So
`IInv == TypeOK /\ Told /\ Wired /\ Timed`.

The proof has one step per action. Most actions either end the transaction or
keep it in a state without timers A and B; the lemmas `Ending` and `Staying`
settle these once, and what is left for an action is to show that it is of one
of the two kinds. Timers A and B and the first send are done by hand.

`ReliableInOrder` needs one invariant more, `Tracked`, which is proved on top of
`IInv`: while no provisional has been answered there is no key and nothing was
passed up; in PROCEEDING the key list has at most one key for each To tag, with the
RSeq that was passed up last for this tag, and a tag without a key has passed up
none. `KeyAdded` and `KeyMoved` show that this survives the two ways the
code changes the list: `AddTxnKey` for the first reliable provisional of a fork,
`SetRSeq` for the next one of a known fork, which searches the list and would
change the wrong key if a tag had two. As in the run, the key list starts empty
and no failure response stays unhandled: such a response deletes the keys of a
transaction that goes on in PROCEEDING, and its RSeqs are then new again.

The module also proves that `SipInvCli` implements `ClientTxn`
(`KeepsPromise`): with the invariant, every step either begins, answers, times
out or ends the abstract transaction, or leaves it unchanged.

| Theorem | States |
|---|---|
| `Invariance` | `Spec => []IInv` |
| `TypeCorrect` | `Spec => []TypeOK` |
| `GiveUpTime` | `Spec => []GiveUpAtLimit` |
| `SingleOutcome` | at most one final response or timeout |
| `SingleEnd` | `Spec => []EndNotifiedOnce` |
| `TimersHandled` | an armed timer has a handler in its state |
| `ProvisionalsInOrder` | `Spec => []ReliableInOrder` |
| `NoLateProvisional` | `Spec => NoProvisionalAfterFinal` |
| `Refinement` | `Spec => KeepsPromise` |

### 5.2 Non-INVITE client transaction

`SipNonInvCli_proofs` follows the same argument with another equation: timer E
runs in PROCEEDING too, with T2 for the doubled interval, so `Chained` must hold
whatever an interval is. It says only that an interval is added to
`m_nDurationExpired` when it is armed (the first one when it fires) and that none
reaches past the limit. That `SipNonInvCli` implements the same `ClientTxn` is
proved from its invariant.

`RetransmissionBudget` compares the number of copies with a request that no
provisional answers: `Unanswered[n]` is when its timer E fires for the (n + 1)-th
time, and the interval after that. The invariant `Budget`, proved on top of `IInv`,
says that a transaction lags behind the unanswered request with as many copies: its
timer E is due no earlier and its interval is no shorter, or it is due at the limit
and is the last one (`Lags`). One firing keeps it so (`LagKept`), whether the copy
goes out or the send fails, and whether the interval is doubled or is T2. The
provers cannot use a recursive function until it is shown to exist, and the
library's rules for that take operators; so the module derives induction and
primitive recursion for sets of numbers from the order of the numbers being
well-founded (`Least`, `InductionOnNumbers`, `PrimitiveRecursion`) and with them
that `Unanswered` has the values of its definition (`UnansweredUnfolds`). A
transaction that fell back to UDP is left out: its chain of timer E comes after
timer F.

| Theorem | States |
|---|---|
| `TypeCorrect` | `Spec => []TypeOK` |
| `GiveUpTime` | `Spec => []GiveUpAtLimit` |
| `SingleOutcome` | at most one final response or timeout |
| `SingleEnd` | `Spec => []EndNotifiedOnce` |
| `TimersHandled` | an armed timer has a handler in its state |
| `CopiesBounded` | `Spec => []RetransmissionBudget` |
| `Refinement` | `Spec => KeepsPromise` |

### 5.3 Server transactions

`SipInvSer_proofs`: the invariant is
`IInv == TypeOK /\ ContextsBalance /\ GiveUpAtLimit /\ (txn.pool => Standing)`.
`Standing` is what has to be known of a transaction in the pool: its timer has a
handler (`Handled`), the clock and `m_nDurationExpired` agree (`Dated`), the key
list holds exactly the provisional that timer G repeats (`Keyed`), and, when
timers start and messages are sent, the timer runs exactly while the stored
provisional has no PRACK, and the stored message of a finished transaction is its
final response (`Sure`). `RepeatedUntilPracked` needs `Keyed`: a PRACK stops the
timer whatever RSeq it found, and only the key list makes it the right one. The
four parts are predicates of an object, a history and a key list, because
`SendMsg` ends in one of three ways (sent, not sent, given up by the transport)
from an object that the handler has prepared: the lemma `HandedOver` follows it
once for all responses.

| Theorem | States |
|---|---|
| `TypeCorrect` | `Spec => []TypeOK` |
| `ContextsLetGo` | `Spec => []ContextsBalance` |
| `GiveUpTime` | `Spec => []GiveUpAtLimit` |
| `CanBePracked` | `Spec => []RepeatedCanBePracked` |
| `UntilPracked` | `Spec => []RepeatedUntilPracked` |
| `FinalRepeated` | `Spec => []CompletedRepeatsFinal` |
| `TimersHandled` | an armed timer has a handler in its state |

`SipNonInvSer_proofs` proves `TypeCorrect`, `ContextsLetGo` (`ContextsBalance`)
and `FinalRepeated` (`FinalIsRepeated`); the three are inductive together, since a
repeated final response keeps the transaction where it cannot be answered again.

### 5.4 An INVITE and its PRACKs

`SipUas_proofs` puts the two server transactions together. It takes both proof
modules as instances (`I` and `P`) with their theorems, shows that each action of
`SipUas` is one of theirs, and adds what neither module can say: no RSeq is used
twice (`Fresh`), and for the provisional being repeated the user of the PRACK and
the INVITE agree (`Bond`). `Fresh` is needed because a PRACK may arrive at any
later time, for any provisional sent before; `Bond` because a PRACK is passed up
not only when its key is found but also when the list holds no key of the
dialog, which must then mean that nothing is repeated (`Keyed`).

| Theorem | States |
|---|---|
| `Invariance` | `Spec => []IInv` |
| `UntilAccepted` | `Spec => [](OneInvite /\ Steadily => RepeatedUntilAccepted)` |

`OneInvite` leaves out copies of the INVITE that arrive after its transaction is
gone: the engine numbers their provisionals from 1 again. `Steadily`: timers start
and messages are sent; a send that fails leaves a timer for a provisional that is
not stored. The run `Uas` is the case of one INVITE over UDP; the theorem holds
for both transports, any bound on RSeq, any number of PRACK transactions and any
keys left by an earlier INVITE. Its invariant has also been checked by TLC for
two INVITE transactions over both transports, with sends and timers failing (11
million states).

### 5.5 Timer values

`SipTimerOptions_proofs`: the values of a transaction are updated once, so they
are a function of those given (`UpdatedOnce`); that function copies from nowhere
but the two sources (`UpdateFacts`), and with a full set the timers of a client
are covered in spite of the different bits (`AllSet`).

| Theorem | States |
|---|---|
| `TypeCorrect` | `Spec => []TypeOK` |
| `UnsetKept` | `Spec => []UnsetKeepsConfig` |
| `ClientTimers` | `Spec => []ClientTimersApply` |

### 5.6 Session

`Session_proofs` proves all safety properties of `Session` for any number of requests
and losses, assuming only that there are two ends and that the bounds are numbers.
`ToldOnce` is not inductive:
an ACK turns an end that waits for it (`pend`) into a BYE whose answer posts the
end, so it matters that no ACK reaches a session that has already ended. The
invariant is `IInv == TypeOK /\ \A e : Sound(ep[e]) /\ Silent(e)`. `Sound` is
about one session: the end is posted or told in TERMINATED only, and once
(`Reported`); a pending end excludes a BYE in flight, a BYE excludes a re-INVITE
without answer, and an ACK that the application owes is announced by a post
(`Waiting`). `Silent` is about both: if a session ended while its own end was
pending, which only the timeout of its CANCEL brings about, then no ACK to it is
in flight, no 2xx of an INVITE is on its way to the peer, and the peer owes no
ACK; this holds at that moment since timers fire when nothing is in flight, and
an ended session sends no 2xx after it. One lemma per action, and `StepKeeps`
combines them.

`Settled` and `AnswerAdopted` relate the two ends, and need to know of every message
between them. Their invariant is `Agreement == IInv /\ Coherent`, where `Coherent`
says of each end and its peer, unless an exchange was broken off, that they are a
`Pair`. An end is the client of its own update and the server of its peer's, so most
of `Pair` is stated once for a client and a server and holds both ways:

* `Steady` and `Numbers`, of one session: how update, call state and offer/answer
  state go together while it waits for an answer (`Asking`), owes one (`Serving`),
  waits for an ACK (`Confirming`) or has no exchange (`Resting`); and no request is
  put off twice.
* `Common`, whether an end has ended or not: the numbers on requests, answers and
  ACKs are the client's (`Issued`) and belong to one method (`Kindred`); at most one
  request is on its way, newer than any the server has had (`OneRequest`); what was
  answered is no longer with the server (`Dealt`); a re-INVITE is acknowledged once
  (`OneAck`), and the SDP of the ACK is what the server has in force (`Echoes`); an
  end that has ended keeps in force what it had accepted (`InForce`).
* `Between`, while none has ended: a request on its way, put off or served is the
  one its sender waits for, and gets one answer (`Meant`); a 2xx brings what the
  server has in force (`Accepted`); the server of a re-INVITE waits for the ACK as
  long as the client has yet to send it (`Owed`).
* `Together`: while no update has been granted, both have the same view, and no two
  2xx cross.

`InForce` and the parts of `Common` that outlive the end are there because an end that
goes on still takes up the answers of one that has ended: `AnswerAdopted` holds then
too. The proof has two halves. Every step of an end that breaks nothing off is of one
of fifteen kinds, which say of it only what the other end and the messages can notice
(`Requests`, `TurnsDown`, `Grants`, `Gains`, `Acknowledges`, ...): this is
`NextAdvances`, with one lemma for each action. And each kind keeps a pair: the lemmas
`RequestsCommon`, `RequestsBetween` and so on, one for each kind, with a step for each
part of the invariant in each direction. TLC has checked, for four requests and one
loss (5.5 million states), that `Coherent` is an invariant and that every step is of
one of the kinds. What an exchange that was broken off leaves behind is not in
`Coherent`; the two properties leave it out as well (`broken`).

| Theorem | States |
|---|---|
| `TypeCorrect` | `Spec => []TypeOK` |
| `EndToldOnce` | `Spec => []ToldOnce` |
| `EndIsFinal` | `Spec => NoWayBack` |
| `Agree` | `Spec => []Agreement` |
| `BothSettle` | `Spec => []Settled` |
| `OfferersAdopt` | `Spec => AnswerAdopted` |

### 5.7 Conference

`Conference_proofs` proves all safety properties of `Conference`, for any number of
users and commands and every set of flows, assuming only that the bounds are
numbers and the flows are those of the code. The invariant is
`IInv == TypeOK /\ Fitting(World(ctl)) /\ Waits(World(ctl)) /\ Unasked(ctl, asked)`.

`Waits` is what `FrontUnderWay` says, field by field: a delayed operation has its
timer, any other its call, REFER, answer or subscription in a state from which its
completion can come, or lost as above. It is not inductive: when an
event completes the operation in front, the next ones start in the same step, and
whether they can depends on what the queue holds. That is `Fitting`. Its
`QueueFits` says of the queue:

* It is well made: operations for a user have one, only UNSUBSCRIBE is delayed,
  CREATE_CONFERENCE_CALL comes first, and a TERMINATE_1TO1_CALL that is not in front
  follows a REFER_INVITE of the same user. The last part is why only this user's
  REFER can bring about the end of the call (`OwnAnswer`).
* It is in turn: nothing that the UI asks for comes after NOTIFY_RESULT_TO_UI, and
  nothing is delayed after DESTROY_CONTROLLER.
* It agrees with the rest: while it holds anything the UI asked for, the command is
  open, hence no result is told twice (`AnsweredOnce`); UNSUBSCRIBE stands there
  only after a subscription began, what closes the controller only after the
  conference ended; a SUBSCRIBE behind the front means that there is no
  subscription yet; the state (CREATED, IDLE, JOINING) limits what it may hold.

Beside it, `Fitting` says that an operation will find what it needs:

* The subscription agrees with what the engine makes of it, as long as it is not
  lost: an answer is pending in SUBSCRIBING, it is active in ACTIVE, and it is given
  up only after the conference has ended and with no CHECK_CONNECTED to come
  (`SubFits`). Where SUBSCRIBE comes before REFER, nothing has been asked of anybody
  before there is a subscription (`Untried`). Without this a CHECK_CONNECTED might
  start when there is nothing to notify.
* An UNSUBSCRIBE in the queue has a subscription to end, or it is lost; and a
  REFER_INVITE in the queue is the first for its user (`Coming`), since a user who has
  not been asked in has no reference at all (`Unasked`). So a REFER that has been
  started is the one that completes it, whatever became of others.

An event works off any number of operations in one step, by the recursive function
`DoNextOperation`, and the end of the conference adds operations meanwhile. The
prover cannot use the library's induction rules, whose parameter is an operator, so
the module proves the induction it needs for sets: `Least` (from the
well-foundedness of `<`), `InductionOnRank`, and `TailRecursion`, which says that a
function that ends by calling itself on an argument of smaller rank exists. The
rank of a queue is the number of operations in front that are over at once;
`RankFalls` shows that each of them lowers it, since what is added lasts or is
delayed, and `DoNextOperationUnfolds` follows: the recursion is well-founded and
`DoNextOperation` does what its definition says. `OperationsWorkedOff` then is an
induction on the rank: from a world that is `Ready` it ends in one that is
`Settled`, that is, fitting, and closed or waiting for something under way.

Over it stand `CompleteWorks`, `PutWorks` and `RecoverWorks`, for the three
operators every action is made of. Each also says which call may have ended, and
that is `OwnAnswer`. What an event notes of participants and references beside
them is `Akin`, which changes nothing the queue depends on. There is one lemma for
each action (`MergeKeeps`, `UpdatedKeeps`, ...), and `NextKeeps` combines them.

| Theorem | States |
|---|---|
| `Invariance` | `Spec => []IInv` |
| `TypeCorrect` | `Spec => []TypeOK` |
| `QueueNeverStalls` | `Spec => []FrontUnderWay` |
| `OneResult` | `Spec => []AnsweredOnce` |
| `OnlyOwnAnswer` | `Spec => OwnAnswer` |
| `DoNextOperationUnfolds` | `DoNextOperation[x]` is its defining expression, for every world x |

### 5.8 Only model-checked

Everything about liveness (`WaitingEnds`, `TransactionEnds`, `CompletedEnds`,
`ReliableEnds`, `WaitEnds`, `EndedCloses`), which is beyond the prover.

## 6. Not modelled

Message text, Via and branch handling, header comparison beyond its verdict,
PROTOCOL_TLS, ACK and CANCEL sent outside a transaction, `RetransmitMessage`,
two INVITE server transactions of one dialog at once, and the layers marked as
planned in section 2. Of a session: its first INVITE, session refresh, SDP in
reliable provisionals, early UPDATE, challenges, failures to send. Of a
conference: COPYCONTROL, one REFER for several users, REFER without
subscription, and the controllers of expanded and group calls. Of failures to send
there are those of a REFER on an ended call, of UNSUBSCRIBE, and of a SUBSCRIBE that
repeats another; not that of the first SUBSCRIBE. What the engine posts about the
subscription is handled in the order of its posting, before anything else of the
subscription comes, and a server sends neither C-NOTIFY nor 403 and 423 for a
subscription it has ended. C-NOTIFYs carry a version that the controller checks (a
carrier setting may turn the check off, which leaves out `ReSubscribe`). How often
SUBSCRIBE has been repeated (`MAX_RESUBS_COUNT`) is not counted: any repetition may be
the one too many, so every count is covered. The contents of a C-NOTIFY are the status
of one participant, or nothing new; `on_hold` counts as connected but where
`RecoverOnReferring` tells them apart. Of the rest of the engine and the enablers (AoS,
registration, messaging, media) nothing yet; they are larger than what is
modelled here by an order of magnitude. Durations stay far below 2^32 (at most 128 s), so their
width is not modelled.
