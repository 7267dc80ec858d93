------------------------------- MODULE Session ------------------------------
(***************************************************************************)
(* Two ends of an established dialog that change and end the session: Session  *)
(* and SessionEx of the engine (Session.cpp, SessionEx.cpp), their CallState   *)
(* and SdpOaState, each end driven by its application through Update, Accept,   *)
(* Reject, a provisional response, TerminateEx and the ACK of SessionUpdated.  *)
(*                                                                         *)
(* Requests and responses are a set: they arrive in any order, once, or not at *)
(* all.  Repetition belongs to the transactions: a message that gets lost here *)
(* has been lost with every copy of it.  Before a message reaches the session, *)
(* the stack refuses a request older than the last one, drops a response       *)
(* nobody waits for, and lets an ACK through while the INVITE's server          *)
(* transaction lives.                                                       *)
(*                                                                         *)
(* Left out: the INVITE that makes the dialog, session refresh, SDP in          *)
(* provisional responses, early UPDATE, challenges, and failures to send.      *)
(***************************************************************************)
EXTENDS Sequences, FiniteSets, SdpOaState

CONSTANTS Ends,         \* the two ends of the dialog
          MaxAsked,     \* bound: updates and terminations that the applications ask for
          MaxLost       \* bound: messages lost

ASSUME EndsAssumption == \E e, f \in Ends : e # f /\ Ends = {e, f}
ASSUME BoundAssumption == MaxAsked \in Nat /\ MaxLost \in Nat

VARIABLES ep,           \* per end: its session
          net,          \* the messages on their way
          asked,        \* how often an application has asked for an update or the end
          lost,         \* how many messages have been lost
          broken        \* an update was given up by one end alone, or refused

vars == <<ep, net, asked, lost, broken>>

Peer(e) == CHOOSE p \in Ends : p # e

-----------------------------------------------------------------------------
(***************************************************************************)
(* SESSION_UPDATE, the last request that changes the session and its            *)
(* connection: role "client" when this end sent it, final the class of its       *)
(* final response, open until CloseConnection.                                *)
(***************************************************************************)
SessionStates == {"ESTABLISHED", "RENEGOTIATING", "REESTABLISHING",
                  "TERMINATING", "TERMINATED"}
CallStates == {"ESTABLISHED", "REINVITE_SENT", "REINVITE_1XX_RECEIVED",
               "REINVITE_2XX_RECEIVED", "REINVITE_RECEIVED", "REINVITE_1XX_SENT",
               "REINVITE_2XX_SENT", "BYE_SENT", "BYE_RECEIVED", "TERMINATED"}
Methods == {"INVITE", "UPDATE", "ACK", "BYE", "CANCEL"}
Classes == {"REQUEST", "1XX", "2XX", "FAIL"}

NoRequest == [role |-> "none", method |-> "INVITE", sdp |-> None, cseq |-> 0,
              final |-> "REQUEST", open |-> FALSE, cancelled |-> FALSE]
RequestOf(role, method, sdp, cseq) ==
    [role |-> role, method |-> method, sdp |-> sdp, cseq |-> cseq,
     final |-> "REQUEST", open |-> TRUE, cancelled |-> FALSE]

Message == [to : Ends, method : Methods, class : Classes, sdp : Nat, cseq : Nat]
NoMessage == [to |-> "none", method |-> "ACK", class |-> "REQUEST", sdp |-> None, cseq |-> 0]
RequestType == [role : {"none", "client", "server"}, method : {"INVITE", "UPDATE"},
                sdp : Nat, cseq : Nat, final : Classes, open : BOOLEAN,
                cancelled : BOOLEAN]

(***************************************************************************)
(* requestor, pend and ackSdp are m_bUpdateRequestor, m_bTerminatePending and  *)
(* m_bAckWithSdpInProgress; bye, cancel: a BYE or CANCEL of this end waits for  *)
(* its answer; post: the posted AMSG_SESSION messages that lead to more than a  *)
(* callback; told: LISTENER_CALL_TERMINATED; leaving: the application has   *)
(* asked for the end and touches the session no more.                        *)
(***************************************************************************)
NewSession ==
    [st |-> "ESTABLISHED", call |-> "ESTABLISHED", oa |-> Agreed(1), upd |-> NoRequest,
     requestor |-> FALSE, pend |-> FALSE, ackSdp |-> FALSE, bye |-> FALSE, cancel |-> FALSE,
     post |-> << >>, told |-> FALSE, leaving |-> FALSE, cseq |-> 0, rseq |-> 0]

SessionType ==
    [st : SessionStates, call : CallStates, oa : OaType, upd : RequestType,
     requestor : BOOLEAN, pend : BOOLEAN, ackSdp : BOOLEAN, bye : BOOLEAN, cancel : BOOLEAN,
     post : Seq([what : {"UPDATED", "TERMINATED", "DELAYED"}, msg : Message \cup {NoMessage}]),
     told : BOOLEAN, leaving : BOOLEAN, cseq : Nat, rseq : Nat]

Init ==
    /\ ep = [e \in Ends |-> NewSession]
    /\ net = {}
    /\ asked = 0
    /\ lost = 0
    /\ broken = FALSE

-----------------------------------------------------------------------------
(***************************************************************************)
(* CallState, as far as it changes in a dialog: a request, or the class of a    *)
(* response to an INVITE or a BYE.  What a table leaves invalid changes nothing, *)
(* and the ACK of a failure follows at once.                                  *)
(***************************************************************************)
Ringing == {"REINVITE_RECEIVED", "REINVITE_1XX_SENT"}
Awaiting == {"REINVITE_SENT", "REINVITE_1XX_RECEIVED"}

CallSent(call, x) ==
    CASE call = "ESTABLISHED" /\ x = "INVITE" -> "REINVITE_SENT"
      [] call \in Awaiting \cup {"ESTABLISHED"} /\ x = "BYE" -> "BYE_SENT"
      [] call = "REINVITE_2XX_RECEIVED" /\ x = "ACK" -> "ESTABLISHED"
      [] call \in Ringing /\ x = "1XX" -> "REINVITE_1XX_SENT"
      [] call \in Ringing /\ x = "2XX" -> "REINVITE_2XX_SENT"
      [] call \in Ringing \cup {"BYE_RECEIVED"} /\ x = "FAIL" -> "ESTABLISHED"
      [] call = "BYE_RECEIVED" /\ x = "2XX" -> "TERMINATED"
      [] OTHER -> call

CallReceived(call, x) ==
    CASE call \in Awaiting /\ x = "1XX" -> "REINVITE_1XX_RECEIVED"
      [] call \in Awaiting /\ x = "2XX" -> "REINVITE_2XX_RECEIVED"
      [] call \in Awaiting \cup {"BYE_SENT"} /\ x = "FAIL" -> "ESTABLISHED"
      [] call = "BYE_SENT" /\ x = "2XX" -> "TERMINATED"
      [] call = "REINVITE_2XX_SENT" /\ x = "ACK" -> "ESTABLISHED"
      [] call = "ESTABLISHED" /\ x = "INVITE" -> "REINVITE_RECEIVED"
      [] call \notin {"REINVITE_2XX_SENT", "TERMINATED"} /\ x = "BYE" -> "BYE_RECEIVED"
      [] OTHER -> call

-----------------------------------------------------------------------------
(***************************************************************************)
(* Steps of a session, from record to record.  UpdateMedia completes the        *)
(* exchange when the last message has changed the offer/answer state to a       *)
(* stable one.                                                              *)
(***************************************************************************)
UpdateMedia(s) ==
    IF s.oa.changed /\ Stable(s.oa.st) THEN [s EXCEPT !.oa = CompleteExchange(@)] ELSE s

Restored(s) == [s EXCEPT !.oa = RestoreState(@)]
OaSent(s, tr, sdp) == [s EXCEPT !.oa = Sent(@, tr, sdp)]
OaReceived(s, method, tr, sdp) ==
    [s EXCEPT !.oa = HandleOfferAnswer(Received(@, method, tr, sdp), sdp)]
Called(s, x) == [s EXCEPT !.call = CallSent(@, x)]
Closed(s) == [s EXCEPT !.upd.open = FALSE]
Answered(s, class) == [s EXCEPT !.upd.final = class]
Moved(s, st) == [s EXCEPT !.st = st]
Posted(s, what) == [s EXCEPT !.post = Append(@, [what |-> what, msg |-> NoMessage])]

ServerOpen(s) == s.upd.role = "server" /\ s.upd.open
ClientOpen(s) == s.upd.role = "client" /\ s.upd.open
ServerInvite(s) == s.upd.role = "server" /\ s.upd.method = "INVITE"

Msg(e, method, class, sdp, cseq) ==
    [to |-> Peer(e), method |-> method, class |-> class, sdp |-> sdp, cseq |-> cseq]
Reply(e, m, class) == Msg(e, m.method, class, None, m.cseq)
AnswerOf(e, s, class, sdp) == Msg(e, s.upd.method, class, sdp, s.upd.cseq)

(* SendRequestToBye, and the message it sends                               *)
ByeSent(s) == [Called(s, "BYE") EXCEPT !.st = "TERMINATING", !.bye = TRUE, !.cseq = @ + 1]
Bye(e, s) == {Msg(e, "BYE", "REQUEST", None, s.cseq + 1)}

(* e goes on as s, after the messages gone have left the network and out entered *)
Goes(e, s, gone, out) ==
    /\ ep' = [ep EXCEPT ![e] = s]
    /\ net' = (net \ gone) \cup out
    /\ UNCHANGED lost
Whole == UNCHANGED <<asked, broken>>
Breaks == broken' = TRUE /\ UNCHANGED asked
Asks == asked < MaxAsked /\ asked' = asked + 1

-----------------------------------------------------------------------------
(***************************************************************************)
(* The application.  Update: with a new proposal, or, by re-INVITE, leaving the *)
(* offer to the peer.  It waits until the 2xx of its last re-INVITE is          *)
(* acknowledged.                                                            *)
(***************************************************************************)
Update(e, method, offer) ==
    LET s == [ep[e] EXCEPT !.oa = IF offer THEN CreateProposal(@, asked + 2) ELSE @]
        sdp == GetSdp(s.oa)
        cseq == s.cseq + 1
        sent == UpdateMedia(OaSent(s, method, sdp))
    IN
    /\ s.st = "ESTABLISHED" /\ ~s.leaving /\ s.call # "REINVITE_2XX_RECEIVED"
    /\ Asks
    /\ ep' = [ep EXCEPT ![e] = [Called(sent, method) EXCEPT
                 !.upd = RequestOf("client", method, sdp, cseq), !.requestor = TRUE,
                 !.st = "RENEGOTIATING", !.cseq = cseq]]
    /\ net' = net \cup {Msg(e, method, "REQUEST", sdp, cseq)}
    /\ UNCHANGED <<lost, broken>>

(***************************************************************************)
(* Accept.  The 200 to a re-INVITE without SDP offers the current view.        *)
(***************************************************************************)
AnswerSdp(s) ==
    IF s.upd.method = "INVITE" /\ s.oa.st = "ESTABLISHED" /\ ~s.oa.progress /\ s.upd.sdp = None
    THEN s.oa.cur ELSE GetSdp(s.oa)

Accept(e) ==
    LET s == ep[e]
        sdp == AnswerSdp(s)
        sent == UpdateMedia(OaSent(Answered(s, "2XX"), "SUCCESS", sdp))
        answered == IF s.upd.method = "INVITE" THEN Moved(Called(sent, "2XX"), "REESTABLISHING")
                    ELSE Moved(sent, "ESTABLISHED")
    IN
    /\ s.st = "RENEGOTIATING" /\ ServerOpen(s) /\ ~s.leaving
    /\ Goes(e, answered, {}, {AnswerOf(e, s, "2XX", sdp)}) /\ Whole

(***************************************************************************)
(* Reject and RejectEx: the failure is a message of the exchange too.           *)
(***************************************************************************)
CallFails(s) == IF s.upd.method = "INVITE" THEN Called(s, "FAIL") ELSE s

Reject(e) ==
    LET s == ep[e]
        refused == UpdateMedia(OaSent(CallFails(Answered(s, "FAIL")), "FAILURE", None))
    IN
    /\ s.st = "RENEGOTIATING" /\ ServerOpen(s) /\ ~s.leaving
    /\ Goes(e, Moved(Closed(refused), "ESTABLISHED"), {}, {AnswerOf(e, s, "FAIL", None)})
    /\ Breaks

(* SendProvisionalResponse; bound: one for each re-INVITE                     *)
Ring(e) ==
    LET s == ep[e] IN
    /\ s.st = "RENEGOTIATING" /\ ~s.requestor /\ ServerOpen(s) /\ ServerInvite(s)
    /\ s.call = "REINVITE_RECEIVED" /\ ~s.leaving
    /\ Goes(e, Called(s, "1XX"), {}, {AnswerOf(e, s, "1XX", None)}) /\ Whole

(***************************************************************************)
(* TerminateEx.  Without a BYE, an end that has updated the session gives the   *)
(* update up: a re-INVITE that nobody answered is dropped, one that rings is    *)
(* cancelled.  In REESTABLISHING the end has to wait for the ACK.              *)
(***************************************************************************)
Leaving(s) == [s EXCEPT !.leaving = TRUE]
GivesUp(s) == s.requestor /\ s.call \in Awaiting

TerminateEstablished(e) ==
    LET s == Leaving(ep[e]) IN
    /\ s.st = "ESTABLISHED"
    /\ Goes(e, ByeSent(s), {}, Bye(e, s)) /\ UNCHANGED broken

TerminateReEstablishing(e) ==
    /\ ep[e].st = "REESTABLISHING"
    /\ Goes(e, [Leaving(ep[e]) EXCEPT !.pend = TRUE], {}, {}) /\ UNCHANGED broken

TerminateOnReNegotiating(e) ==
    LET s == Leaving(ep[e]) IN
    IF s.requestor THEN Goes(e, ByeSent(Closed(s)), {}, Bye(e, s))
    ELSE IF ServerOpen(s)
    THEN Goes(e, ByeSent(CallFails(Answered(s, "FAIL"))), {},
              {AnswerOf(e, s, "FAIL", None)} \cup Bye(e, s))
    ELSE Goes(e, Posted(Moved(s, "TERMINATED"), "TERMINATED"), {}, {})

TerminateReNegotiating(e, bye) ==
    /\ ep[e].st = "RENEGOTIATING"
    /\ bye \/ ~GivesUp(ep[e])
    /\ TerminateOnReNegotiating(e) /\ UNCHANGED broken

CancelUnanswered(e) ==
    LET s == ep[e] IN
    /\ s.st = "RENEGOTIATING" /\ GivesUp(s) /\ s.call = "REINVITE_SENT"
    /\ Goes(e, Restored(Moved(Closed(s), "ESTABLISHED")), {}, {})
    /\ broken' = TRUE

CancelRinging(e) ==
    LET s == ep[e] IN
    /\ s.st = "RENEGOTIATING" /\ GivesUp(s) /\ s.call = "REINVITE_1XX_RECEIVED"
    /\ ~s.cancel /\ ~s.upd.cancelled
    /\ IF ClientOpen(s)
       THEN Goes(e, [s EXCEPT !.cancel = TRUE, !.upd.cancelled = TRUE], {},
                 {Msg(e, "CANCEL", "REQUEST", None, s.upd.cseq)})
       ELSE Goes(e, Posted(Moved(s, "TERMINATED"), "TERMINATED"), {}, {})
    /\ UNCHANGED broken

TerminateEx(e) ==
    /\ ~ep[e].leaving /\ Asks
    /\ \/ TerminateEstablished(e)
       \/ TerminateReEstablishing(e)
       \/ \E bye \in BOOLEAN : TerminateReNegotiating(e, bye)
       \/ CancelUnanswered(e)
       \/ CancelRinging(e)

-----------------------------------------------------------------------------
(***************************************************************************)
(* Requests.  Each handler is a relation between the session s that gets m and  *)
(* what becomes of it; gone is m on its way, or empty for a delayed request.     *)
(***************************************************************************)
Refuse(e, s, m, gone) == Goes(e, s, gone, {Reply(e, m, "FAIL")})

(* HandleRequestToInviteWithinDialog.  acceptable: whether the media of an       *)
(* offer can be answered at all.                                             *)
InviteOutOfTurn(s, m) ==
    \/ s.st = "RENEGOTIATING" \/ s.oa.progress
    \/ s.st = "REESTABLISHING" /\ s.oa.st = "OFFER_CHANGE_SENT" /\ m.sdp # None

Renegotiates(s, m) ==
    Moved(UpdateMedia([s EXCEPT !.upd = RequestOf("server", m.method, m.sdp, m.cseq)]),
          "RENEGOTIATING")
Ended(s) == s.st \in {"TERMINATING", "TERMINATED"}

HandleInvite(e, s0, m, gone) ==
    LET s == [s0 EXCEPT !.call = CallReceived(@, "INVITE")]
        failed == Called(s, "FAIL")
        offered == OaReceived(s, "INVITE", "INVITE", m.sdp)
    IN
    \/ Ended(s) /\ Refuse(e, s, m, gone) /\ Whole
    \/ ~Ended(s) /\ InviteOutOfTurn(s, m) /\ Refuse(e, failed, m, gone) /\ Whole
    \/ /\ ~Ended(s) /\ ~InviteOutOfTurn(s, m)
       /\ IF Stable(s.oa.st) THEN Whole ELSE Breaks
       /\ \/ Goes(e, Renegotiates(offered, m), gone, {})
          \/ /\ offered.oa.changed
             /\ Refuse(e, Restored(OaSent(failed, "FAILURE", None)), m, gone)

(* SessionEx::HandleRequestToUpdate, then Session::HandleRequestToUpdate; an      *)
(* early UPDATE, while a re-INVITE rings, stays out of the model.               *)
UpdateOutOfTurnUnlessOffered(s, m) ==  \* wrong: an offer of its own does not count
    s.st = "RENEGOTIATING" /\ s.upd.method = "UPDATE" /\ s.upd.role = "server"
UpdateOutOfTurn(s, m) ==
    \/ ~Stable(s.oa.st) /\ m.sdp # None
    \/ /\ Stable(s.oa.st)
       /\ \/ s.st = "RENEGOTIATING" /\ s.upd.method = "UPDATE" /\ s.upd.role = "server"
          \/ s.st = "REESTABLISHING" /\ m.sdp # None
Early(s) == s.call \in {"REINVITE_1XX_RECEIVED", "REINVITE_1XX_SENT"}
InviteUnanswered(s) ==
    /\ s.upd.role # "none" /\ s.upd.method = "INVITE"
    /\ s.upd.final = "REQUEST" \/ s.st = "REESTABLISHING"
Implicit(s, m) == IF Early(s) THEN m.sdp = None ELSE InviteUnanswered(s)

HandleUpdate(e, s, m, gone) ==
    LET offered == OaReceived(s, "UPDATE", "UPDATE", m.sdp)
        refuses == Ended(s) \/ UpdateOutOfTurn(s, m)
    IN
    \/ refuses /\ Refuse(e, s, m, gone) /\ Whole
    \/ /\ ~refuses /\ Implicit(s, m)
       /\ Goes(e, s, gone, {Reply(e, m, "2XX")})
       /\ IF m.sdp = None THEN Whole ELSE Breaks
    \/ ~refuses /\ ~Implicit(s, m) /\ Early(s) /\ Goes(e, s, gone, {}) /\ Breaks
    \/ /\ ~refuses /\ ~Implicit(s, m) /\ ~Early(s) /\ Whole
       /\ \/ Goes(e, Renegotiates(offered, m), gone, {})
          \/ /\ offered.oa.changed
             /\ Refuse(e, Restored(OaSent(s, "FAILURE", None)), m, gone)

HandleChange(e, s, m, gone) ==
    IF m.method = "INVITE" THEN HandleInvite(e, s, m, gone) ELSE HandleUpdate(e, s, m, gone)

(* Dialog_NotifyRequest: an offer that comes while the SDP of an ACK waits for    *)
(* the application is put off.                                                *)
Newer(s, m) == m.cseq > s.rseq
Arrives(s, m) == [s EXCEPT !.rseq = m.cseq]

RecvChange(e, m) ==
    LET s == Arrives(ep[e], m) IN
    /\ m.method \in {"INVITE", "UPDATE"} /\ m.class = "REQUEST"
    /\ \/ ~Newer(ep[e], m) /\ Refuse(e, ep[e], m, {m}) /\ Whole
       \/ /\ Newer(ep[e], m) /\ s.ackSdp /\ m.sdp # None /\ Whole
          /\ Goes(e, [s EXCEPT !.post = Append(@, [what |-> "DELAYED", msg |-> m])], {m}, {})
       \/ /\ Newer(ep[e], m) /\ ~(s.ackSdp /\ m.sdp # None)
          /\ HandleChange(e, s, m, {m})

(***************************************************************************)
(* HandleRequestToAck.  The stack lets an ACK through while the INVITE's server *)
(* transaction lives; it is stray when the session has another re-INVITE.       *)
(***************************************************************************)
Acknowledged(s, m) ==
    LET done == UpdateMedia(s) IN
    CASE s.st = "REESTABLISHING" ->
             [Posted(Moved(Closed(done), "ESTABLISHED"), "UPDATED") EXCEPT
                 !.ackSdp = @ \/ m.sdp # None]
      [] s.st = "RENEGOTIATING" -> Posted(Closed(done), "UPDATED")
      [] s.st = "TERMINATING" -> Posted(Moved(done, "TERMINATED"), "TERMINATED")
      [] OTHER -> done

RecvAck(e, m) ==
    LET s0 == [ep[e] EXCEPT !.call = CallReceived(@, "ACK")]
        s == OaReceived(s0, "ACK", "ACK", m.sdp)
        alive == ServerOpen(s0) /\ s0.upd.method = "INVITE" /\ s0.upd.final # "FAIL"
        stray == ep[e].st \in {"RENEGOTIATING", "REESTABLISHING"} /\ m.cseq # s0.upd.cseq
    IN
    /\ m.method = "ACK"
    /\ \/ ~alive /\ Goes(e, ep[e], {m}, {})
       \/ alive /\ stray /\ Goes(e, s0, {m}, {})
       \/ alive /\ ~stray /\ s.pend /\ Goes(e, ByeSent([s EXCEPT !.pend = FALSE]), {m}, Bye(e, s))
       \/ alive /\ ~stray /\ ~s.pend /\ Goes(e, Acknowledged(s, m), {m}, {})
    /\ Whole

(* HandleRequestToBye: an end whose own BYE is on its way only answers          *)
RecvBye(e, m) ==
    LET s == [Arrives(ep[e], m) EXCEPT !.call = CallReceived(@, "BYE")]
        ended == [Called(s, "2XX") EXCEPT !.st = "TERMINATED", !.pend = FALSE]
        told == IF s.st = "TERMINATED" THEN ended ELSE Posted(ended, "TERMINATED")
    IN
    /\ m.method = "BYE" /\ m.class = "REQUEST"
    /\ Goes(e, IF s.bye THEN s ELSE told, {m}, {Reply(e, m, "2XX")}) /\ Whole

(* Cancellable_CompareTo and HandleRequestToCancel: 487 to the re-INVITE        *)
RecvCancel(e, m) ==
    LET s == ep[e]
        mine == /\ s.st = "RENEGOTIATING" /\ ~s.requestor /\ ServerOpen(s) /\ ServerInvite(s)
                /\ s.upd.cseq = m.cseq
        cancelled == Restored(Called(Answered([s EXCEPT !.pend = FALSE], "FAIL"), "FAIL"))
    IN
    /\ m.method = "CANCEL" /\ m.class = "REQUEST"
    /\ \/ mine /\ s.call \in Ringing
          /\ Goes(e, Moved(cancelled, "ESTABLISHED"), {m},
                  {Reply(e, m, "2XX"), AnswerOf(e, s, "FAIL", None)})
       \/ mine /\ s.call \notin Ringing /\ Goes(e, s, {m}, {Reply(e, m, "2XX")})
       \/ ~mine /\ Refuse(e, s, m, {m})
    /\ Whole

-----------------------------------------------------------------------------
(***************************************************************************)
(* Responses: NotifySipResponse.  A final response of an INVITE reaches an       *)
(* ended session too, which acknowledges it; any other response finds nothing.   *)
(***************************************************************************)
AwaitedBy(s, m) == ClientOpen(s) /\ s.upd.final = "REQUEST" /\ s.upd.cseq = m.cseq

RecvUnawaited(e, m) ==
    /\ m.class # "REQUEST"
    /\ CASE m.method \in {"INVITE", "UPDATE"} -> ~AwaitedBy(ep[e], m)
         [] m.method = "BYE" -> ~ep[e].bye
         [] m.method = "CANCEL" -> ~ep[e].cancel
         [] OTHER -> FALSE
    /\ Goes(e, ep[e], {m}, {}) /\ Whole

RecvRinging(e, m) ==
    /\ m.method = "INVITE" /\ m.class = "1XX" /\ AwaitedBy(ep[e], m)
    /\ Goes(e, IF ep[e].st = "TERMINATED" THEN ep[e]
               ELSE [ep[e] EXCEPT !.call = CallReceived(@, "1XX")], {m}, {})
    /\ Whole

RecvAfterEnd(e, m) ==
    LET s == Answered(ep[e], m.class) IN
    /\ m.class \in {"2XX", "FAIL"} /\ AwaitedBy(ep[e], m) /\ ep[e].st = "TERMINATED"
    /\ IF m.method = "INVITE"
       THEN Goes(e, Restored(s), {m},
                 IF m.class = "2XX" THEN {Msg(e, "ACK", "REQUEST", None, m.cseq)} ELSE {})
       ELSE Goes(e, s, {m}, {})
    /\ Whole

(* HandleResponseToInvite: the ACK of a 2xx is the application's                 *)
InviteSucceeds(e, m) ==
    LET s == [Answered(ep[e], "2XX") EXCEPT !.call = CallReceived(@, "2XX"),
                                            !.requestor = FALSE]
        done == UpdateMedia(OaReceived(s, "INVITE", "SUCCESS", m.sdp))
    IN
    /\ m.method = "INVITE" /\ m.class = "2XX" /\ AwaitedBy(ep[e], m)
    /\ s.st = "RENEGOTIATING"
    /\ Goes(e, Posted(Moved(done, "ESTABLISHED"), "UPDATED"), {m}, {}) /\ Whole

(* HandleResponseToUpdate                                                    *)
UpdateSucceeds(e, m) ==
    LET s == [Answered(ep[e], "2XX") EXCEPT !.requestor = FALSE]
        done == UpdateMedia(OaReceived(s, "UPDATE", "SUCCESS", m.sdp))
    IN
    /\ m.method = "UPDATE" /\ m.class = "2XX" /\ AwaitedBy(ep[e], m)
    /\ s.st = "RENEGOTIATING"
    /\ Goes(e, Posted(Closed(Moved(done, "ESTABLISHED")), "UPDATED"), {m}, {}) /\ Whole

ChangeFails(e, m) ==
    LET s == [Answered(ep[e], "FAIL") EXCEPT
                 !.call = IF m.method = "INVITE" THEN CallReceived(@, "FAIL") ELSE @,
                 !.requestor = FALSE]
        failed == UpdateMedia(OaReceived(s, m.method, "FAILURE", m.sdp))
    IN
    /\ m.method \in {"INVITE", "UPDATE"} /\ m.class = "FAIL" /\ AwaitedBy(ep[e], m)
    /\ s.st = "RENEGOTIATING"
    /\ Goes(e, Closed(Moved(Restored(failed), "ESTABLISHED")), {m}, {}) /\ Whole

(* HandleResponseToBye; a session that has ended leaves the answer alone        *)
EndsNowAgain(s) == Posted(Moved(s, "TERMINATED"), "TERMINATED")  \* wrong: whatever it has posted
EndsNow(s) ==
    IF s.st = "TERMINATED" THEN s ELSE Posted(Moved(s, "TERMINATED"), "TERMINATED")

RecvByeAnswer(e, m) ==
    /\ m.method = "BYE" /\ m.class # "REQUEST" /\ ep[e].bye
    /\ LET s == [ep[e] EXCEPT !.call = CallReceived(@, m.class), !.bye = FALSE]
       IN  Goes(e, IF ep[e].st = "TERMINATED" THEN ep[e] ELSE EndsNow(s), {m}, {})
    /\ Whole

RecvCancelAnswer(e, m) ==
    /\ m.method = "CANCEL" /\ m.class # "REQUEST" /\ ep[e].cancel
    /\ Goes(e, [ep[e] EXCEPT !.cancel = FALSE], {m}, {}) /\ Whole

-----------------------------------------------------------------------------
(***************************************************************************)
(* Timeouts: NotifySipError.  A re-INVITE times out until it rings; waiting for  *)
(* the ACK, the session gives its change up, or ends if that was asked for.      *)
(* An offer given up this way may be in force at the other end.                *)
(***************************************************************************)
GivenUp(s) == Restored(Moved(Closed(s), "ESTABLISHED"))

InviteTimeout(e) ==
    LET s == ep[e] IN
    /\ s.st = "RENEGOTIATING" /\ ClientOpen(s) /\ s.upd.method = "INVITE"
    /\ s.upd.final = "REQUEST" /\ s.call = "REINVITE_SENT"
    /\ Goes(e, GivenUp(s), {}, {}) /\ Breaks

AckTimeoutForgetting(e) ==  \* wrong: the end asked for is forgotten
    /\ ep[e].st = "REESTABLISHING" /\ ServerOpen(ep[e])
    /\ Goes(e, GivenUp(ep[e]), {}, {}) /\ Breaks
AckTimeout(e) ==
    LET s == ep[e]
        ending == Restored(Closed([s EXCEPT !.pend = FALSE]))
    IN
    /\ s.st = "REESTABLISHING" /\ ServerOpen(s)
    /\ IF s.pend THEN Goes(e, ByeSent(ending), {}, Bye(e, ending))
       ELSE Goes(e, GivenUp(s), {}, {})
    /\ Breaks

UpdateTimeout(e) ==
    LET s == ep[e] IN
    /\ s.st = "RENEGOTIATING" /\ ClientOpen(s) /\ s.upd.method = "UPDATE"
    /\ Goes(e, GivenUp(s), {}, {}) /\ Breaks

ByeTimeoutSilent(e) ==  \* wrong: the session goes on waiting
    /\ ep[e].bye
    /\ Goes(e, [ep[e] EXCEPT !.bye = FALSE], {}, {}) /\ Whole
ByeTimeout(e) ==
    /\ ep[e].bye
    /\ Goes(e, EndsNow([ep[e] EXCEPT !.bye = FALSE]), {}, {}) /\ Whole

CancelTimeout(e) ==
    LET s == [ep[e] EXCEPT !.cancel = FALSE] IN
    /\ ep[e].cancel
    /\ Goes(e, IF s.st = "RENEGOTIATING" THEN s ELSE EndsNow(s), {}, {}) /\ Breaks

-----------------------------------------------------------------------------
(***************************************************************************)
(* DispatchMessage.  On SessionUpdated the application acknowledges the 2xx of   *)
(* its re-INVITE (SendAck), with the answer if the 2xx brought an offer.        *)
(***************************************************************************)
Posts(s, what) == s.post # << >> /\ Head(s.post).what = what
Taken(s) == [s EXCEPT !.post = Tail(@)]

CanAck(s) == s.call = "REINVITE_2XX_RECEIVED" /\ ClientOpen(s)
AckSent(s) == Closed(UpdateMedia(Called(OaSent(s, "ACK", GetSdp(s.oa)), "ACK")))

DispatchUpdated(e) ==
    LET s == [Taken(ep[e]) EXCEPT !.ackSdp = FALSE] IN
    /\ Posts(ep[e], "UPDATED")
    /\ IF CanAck(s)
       THEN Goes(e, AckSent(s), {}, {Msg(e, "ACK", "REQUEST", GetSdp(s.oa), s.upd.cseq)})
       ELSE Goes(e, s, {}, {})
    /\ Whole

DispatchDelayed(e) ==
    LET s == [Taken(ep[e]) EXCEPT !.ackSdp = FALSE] IN
    /\ Posts(ep[e], "DELAYED")
    /\ HandleChange(e, s, Head(ep[e].post).msg, {})

DispatchTerminated(e) ==
    /\ Posts(ep[e], "TERMINATED")
    /\ Goes(e, [Taken(ep[e]) EXCEPT !.told = TRUE], {}, {}) /\ Whole

-----------------------------------------------------------------------------
Lose(m) ==
    /\ lost < MaxLost
    /\ net' = net \ {m}
    /\ lost' = lost + 1
    /\ UNCHANGED <<ep, asked, broken>>

Application(e) ==
    \/ \E method \in {"INVITE", "UPDATE"}, offer \in BOOLEAN :
           (method = "UPDATE" => offer) /\ Update(e, method, offer)
    \/ Accept(e) \/ Reject(e) \/ Ring(e) \/ TerminateEx(e)

Receive(e, m) ==
    \/ RecvChange(e, m) \/ RecvAck(e, m) \/ RecvBye(e, m) \/ RecvCancel(e, m)
    \/ RecvUnawaited(e, m) \/ RecvRinging(e, m) \/ RecvAfterEnd(e, m)
    \/ InviteSucceeds(e, m) \/ UpdateSucceeds(e, m) \/ ChangeFails(e, m)
    \/ RecvByeAnswer(e, m) \/ RecvCancelAnswer(e, m)

Dispatch(e) == DispatchUpdated(e) \/ DispatchDelayed(e) \/ DispatchTerminated(e)

Timeout(e) ==
    /\ net = {} /\ \A f \in Ends : ep[f].post = << >>
    /\ \/ InviteTimeout(e) \/ AckTimeout(e) \/ UpdateTimeout(e)
       \/ ByeTimeout(e) \/ CancelTimeout(e)

Network == \E m \in net : Receive(m.to, m) \/ Lose(m)

Next ==
    \/ \E e \in Ends : Application(e) \/ Dispatch(e) \/ Timeout(e)
    \/ Network

(***************************************************************************)
(* A message arrives or is lost, the engine handles what is posted, its timers  *)
(* fire.  Nothing is assumed of the application.                              *)
(***************************************************************************)
Fairness ==
    /\ WF_vars(Network)
    /\ \A e \in Ends : WF_vars(Dispatch(e)) /\ WF_vars(Timeout(e))

Spec == Init /\ [][Next]_vars /\ Fairness

-----------------------------------------------------------------------------
TypeOK ==
    /\ ep \in [Ends -> SessionType]
    /\ net \subseteq Message
    /\ asked \in 0..MaxAsked
    /\ lost \in 0..MaxLost
    /\ broken \in BOOLEAN

(***************************************************************************)
(* When nothing is under way and every exchange has run to its end, both ends   *)
(* have the same view in force and are ready for the next offer: no end keeps a *)
(* proposal, an offer without answer, or a re-INVITE that nobody acknowledges,   *)
(* however updates crossed, were refused as out of turn or failed.              *)
(***************************************************************************)
Quiet ==
    /\ net = {} /\ ~broken
    /\ \A e \in Ends : ep[e].st = "ESTABLISHED" /\ ep[e].post = << >>

Settled ==
    Quiet => \A e, f \in Ends : ep[e].oa = Agreed(ep[f].oa.cur) /\ ep[e].call = "ESTABLISHED"

(***************************************************************************)
(* The end is posted once and not again after the report (AMSG_SESSION_TERMINATED), *)
(* whichever of a BYE, its answer, its timeout, a CANCEL that fails or a late ACK  *)
(* comes first.  The application deletes the session on the report; that the       *)
(* listener is called once in a session's life would not stop a second post.       *)
(***************************************************************************)
EndPosts(s) == {i \in DOMAIN s.post : s.post[i].what = "TERMINATED"}

ToldOnce ==
    \A e \in Ends : Cardinality(EndPosts(ep[e])) <= (IF ep[e].told THEN 0 ELSE 1)

(***************************************************************************)
(* As long as no exchange is broken off, an end that has offered takes up nothing *)
(* but what the other end has in force: a late answer or a failure never         *)
(* completes an exchange that the answerer does not know of.                    *)
(***************************************************************************)
AnswerAdopted ==
    [][\A e \in Ends :
           ~broken' /\ ep'[e].oa.cur # ep[e].oa.cur /\ ep[e].oa.mode = "OFFERER"
               => ep'[e].oa.cur = ep[Peer(e)].oa.cur]_vars

(***************************************************************************)
(* A session that ends, or was asked to while it waits for an ACK, does not go    *)
(* back to ESTABLISHED: no late ACK, CANCEL, answer or timeout revives it or      *)
(* makes it forget the request.                                              *)
(***************************************************************************)
Ending(s) == Ended(s) \/ (s.pend /\ s.st = "REESTABLISHING")

NoWayBack == [][\A e \in Ends : Ending(ep[e]) => ep'[e].st # "ESTABLISHED"]_vars

(***************************************************************************)
(* A session does not wait for ever for an ACK or an answer to its BYE: it can be  *)
(* used again, or SessionTerminated is reported.                              *)
(***************************************************************************)
WaitEnds ==
    \A e \in Ends : (ep[e].st = "REESTABLISHING" \/ Ended(ep[e]))
                    ~> (ep[e].st \in {"ESTABLISHED", "RENEGOTIATING"} \/ ep[e].told)

-----------------------------------------------------------------------------
(***************************************************************************)
(* ISession.h:170-172, of Reject: "the ISession will transit to STATE_ESTABLISHED *)
(* and the update is discarded".                                             *)
(***************************************************************************)
RefusedUpdateDiscarded ==
    [][\A e \in Ends : Reject(e) => ep'[e].oa.cur = ep[e].oa.cur]_vars
=============================================================================
