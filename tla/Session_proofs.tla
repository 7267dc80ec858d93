--------------------------- MODULE Session_proofs ---------------------------
(***************************************************************************)
(* Safety of two sessions for any bound on requests and losses: the types, that  *)
(* an end is posted and reported once, that a session which ends stays so, and     *)
(* that the two ends agree on the session, whatever messages cross (the last part). *)
(*                                                                         *)
(* The danger is a late ACK: it turns an end that waits for it                   *)
(* (m_bTerminatePending) into a BYE, and would do so in a session that has ended. *)
(* The inductive invariant says why it cannot.  Reported: the end is posted or    *)
(* told in TERMINATED only, and once.  Waiting: what waits for the end excludes   *)
(* one another, and an ACK that the application owes is announced by a post.       *)
(* Silent: if a session ended while its own end was pending, which only the        *)
(* timeout of its CANCEL brings about, then no ACK is left that could reach it.    *)
(***************************************************************************)
EXTENDS Session, FiniteSetTheorems, SequenceTheorems, TLAPS

-----------------------------------------------------------------------------
NoEnd(post) == \A i \in DOMAIN post : post[i].what # "TERMINATED"
OneEnd(post) == \A i, j \in DOMAIN post :
                    post[i].what = "TERMINATED" /\ post[j].what = "TERMINATED" => i = j
DelayedChange(post) ==
    \A i \in DOMAIN post :
        post[i].what = "DELAYED" => /\ post[i].msg \in Message
                                    /\ post[i].msg.method \in {"INVITE", "UPDATE"}
UpdatePosted(post) == \E i \in DOMAIN post : post[i].what = "UPDATED"

\* What is posted and told of the end.
Reported(s) ==
    /\ s.st # "TERMINATED" => ~s.told
    /\ s.st # "TERMINATED" \/ s.told => NoEnd(s.post)
    /\ OneEnd(s.post)

\* What waits for the end, and for the ACK of the application.
Waiting(s) ==
    /\ s.pend => s.leaving /\ ~s.bye
    /\ s.bye => s.leaving /\ s.call \notin Awaiting
    /\ CanAck(s) => UpdatePosted(s.post)

Sound(s) == Reported(s) /\ Waiting(s) /\ DelayedChange(s.post)

\* A session that ended while an end was pending hears of no ACK any more.
IsAck(m) == m.method = "ACK"
IsAccept(m) == m.method = "INVITE" /\ m.class = "2XX"
Forgotten(s) == s.pend /\ Ended(s)

Silent(e) ==
    Forgotten(ep[e]) =>
        /\ \A m \in net : ~(m.to = e /\ IsAck(m)) /\ ~(m.to = Peer(e) /\ IsAccept(m))
        /\ ~CanAck(ep[Peer(e)])

IInv == TypeOK /\ \A e \in Ends : Sound(ep[e]) /\ Silent(e)

-----------------------------------------------------------------------------
(***************************************************************************)
(* The offer/answer state: every method keeps its type.                        *)
(***************************************************************************)
LEMMA SentType ==
    ASSUME NEW oa \in OaType, NEW tr \in Triggers, NEW sdp \in Nat
    PROVE  Sent(oa, tr, sdp) \in OaType
<1>1. OnSent(oa.st, tr) \in States \cup {"INVALID"}
  BY DEF OnSent, OaType, States
<1>2. QED  BY <1>1 DEF Sent, OaType, Modes, States

LEMMA ReceivedType ==
    ASSUME NEW oa \in OaType, NEW method, NEW tr \in Triggers, NEW sdp \in Nat
    PROVE  Received(oa, method, tr, sdp) \in OaType
<1>1. OnReceived(oa.st, tr) \in States \cup {"INVALID"}
  BY DEF OnReceived, OaType, States, OfferReceived
<1>2. QED  BY <1>1 DEF Received, OaType, Modes, States

LEMMA ExchangeTypes ==
    ASSUME NEW oa \in OaType, NEW sdp \in Nat
    PROVE  /\ HandleOfferAnswer(oa, sdp) \in OaType
           /\ CompleteExchange(oa) \in OaType
           /\ CreateProposal(oa, sdp) \in OaType
           /\ RestoreState(oa) \in OaType
           /\ GetSdp(oa) \in Nat
<1>1. HandleOfferAnswer(oa, sdp) \in OaType  BY DEF HandleOfferAnswer, OaType
<1>2. CompleteExchange(oa) \in OaType  BY DEF CompleteExchange, OaType, Modes, None
<1>3. CreateProposal(oa, sdp) \in OaType  BY DEF CreateProposal, OaType, Modes
<1>4. RestoreState(oa) \in OaType  BY DEF RestoreState, OaType, States, Modes, None
<1>5. GetSdp(oa) \in Nat  BY DEF GetSdp, OaType, None
<1>6. QED  BY <1>1, <1>2, <1>3, <1>4, <1>5

-----------------------------------------------------------------------------
(***************************************************************************)
(* What the operators do to a session.                                        *)
(***************************************************************************)
Post == [what : {"UPDATED", "TERMINATED", "DELAYED"}, msg : Message \cup {NoMessage}]

\* All that the invariant speaks of, but the call, the update and the posts.
Alike(s, t) ==
    /\ t \in SessionType
    /\ t.st = s.st /\ t.told = s.told /\ t.pend = s.pend
    /\ t.leaving = s.leaving /\ t.bye = s.bye

Same(s, t) == Alike(s, t) /\ t.post = s.post /\ t.call = s.call /\ t.upd = s.upd

LEMMA CallTypes ==
    ASSUME NEW call \in CallStates, NEW x
    PROVE  CallSent(call, x) \in CallStates /\ CallReceived(call, x) \in CallStates
BY DEF CallSent, CallReceived, CallStates, Ringing, Awaiting

\* Only a 2xx makes a call wait for the ACK of the application.
LEMMA CallWaits ==
    ASSUME NEW call \in CallStates, NEW x
    PROVE  /\ CallSent(call, x) = "REINVITE_2XX_RECEIVED" => call = "REINVITE_2XX_RECEIVED"
           /\ CallReceived(call, x) = "REINVITE_2XX_RECEIVED" =>
                  call = "REINVITE_2XX_RECEIVED" \/ (call \in Awaiting /\ x = "2XX")
           /\ CallSent(call, x) \in Awaiting => call \in Awaiting \/ x = "INVITE"
           /\ CallReceived(call, x) \in Awaiting => call \in Awaiting
           /\ CallSent(call, "BYE") \notin Awaiting
BY DEF CallSent, CallReceived, CallStates, Ringing, Awaiting

LEMMA OaSame ==
    ASSUME NEW s \in SessionType, NEW oa \in OaType
    PROVE  Same(s, [s EXCEPT !.oa = oa])
BY DEF Same, Alike, SessionType

LEMMA Exchanges ==
    ASSUME NEW s \in SessionType, NEW tr \in Triggers, NEW sdp \in Nat, NEW method
    PROVE  /\ Same(s, UpdateMedia(s)) /\ Same(s, Restored(s))
           /\ Same(s, OaSent(s, tr, sdp)) /\ Same(s, OaReceived(s, method, tr, sdp))
           /\ GetSdp(s.oa) \in Nat
<1>1. s.oa \in OaType
  BY DEF SessionType
<1>2. Same(s, s)
  BY DEF Same, Alike
<1>3. Same(s, UpdateMedia(s))
  BY <1>1, <1>2, ExchangeTypes, OaSame DEF UpdateMedia, None
<1>4. Same(s, Restored(s))
  BY <1>1, ExchangeTypes, OaSame DEF Restored
<1>5. Same(s, OaSent(s, tr, sdp))
  BY <1>1, SentType, OaSame DEF OaSent
<1>6. Same(s, OaReceived(s, method, tr, sdp))
  <2>1. HandleOfferAnswer(Received(s.oa, method, tr, sdp), sdp) \in OaType
    BY <1>1, ReceivedType, ExchangeTypes
  <2>. QED  BY <2>1, OaSame DEF OaReceived
<1>7. GetSdp(s.oa) \in Nat
  BY <1>1, ExchangeTypes
<1>. QED  BY <1>3, <1>4, <1>5, <1>6, <1>7

LEMMA Calls ==
    ASSUME NEW s \in SessionType, NEW x, NEW call \in CallStates
    PROVE  /\ LET t == Called(s, x)
              IN  Alike(s, t) /\ t.post = s.post /\ t.upd = s.upd /\ t.call = CallSent(s.call, x)
           /\ LET t == [s EXCEPT !.call = call]
              IN  Alike(s, t) /\ t.post = s.post /\ t.upd = s.upd /\ t.call = call
<1>1. s.call \in CallStates
  BY DEF SessionType
<1>2. CallSent(s.call, x) \in CallStates
  BY <1>1, CallTypes
<1>. QED  BY <1>1, <1>2 DEF Called, Alike, SessionType

LEMMA Updates ==
    ASSUME NEW s \in SessionType, NEW class \in Classes
    PROVE  /\ LET t == Closed(s)
              IN  /\ Alike(s, t) /\ t.post = s.post /\ t.call = s.call
                  /\ ~ClientOpen(t) /\ t.upd.method = s.upd.method
           /\ LET t == Answered(s, class)
              IN  /\ Alike(s, t) /\ t.post = s.post /\ t.call = s.call
                  /\ ClientOpen(t) = ClientOpen(s) /\ t.upd.method = s.upd.method
<1>1. s.upd \in RequestType
  BY DEF SessionType
<1>2. [s.upd EXCEPT !.open = FALSE] \in RequestType
  BY <1>1 DEF RequestType
<1>3. [s.upd EXCEPT !.final = class] \in RequestType
  BY <1>1 DEF RequestType
<1>4. ASSUME NEW upd \in RequestType
      PROVE  LET t == [s EXCEPT !.upd = upd]
             IN  Alike(s, t) /\ t.post = s.post /\ t.call = s.call /\ t.upd = upd
  BY <1>4 DEF Alike, SessionType
<1>5. Closed(s) = [s EXCEPT !.upd = [s.upd EXCEPT !.open = FALSE]]
  BY DEF Closed
<1>6. Answered(s, class) = [s EXCEPT !.upd = [s.upd EXCEPT !.final = class]]
  BY DEF Answered
<1>7. ~[s.upd EXCEPT !.open = FALSE].open /\ [s.upd EXCEPT !.open = FALSE].method = s.upd.method
  BY <1>1 DEF RequestType
<1>8. LET u == [s.upd EXCEPT !.final = class]
      IN  u.role = s.upd.role /\ u.open = s.upd.open /\ u.method = s.upd.method
  BY <1>1 DEF RequestType
<1>. QED  BY <1>1, <1>2, <1>3, <1>4, <1>5, <1>6, <1>7, <1>8 DEF ClientOpen

LEMMA Fields ==
    ASSUME NEW s \in SessionType
    PROVE  /\ \A st \in SessionStates :
                  LET t == Moved(s, st)
                  IN  /\ t \in SessionType /\ t.st = st /\ t.told = s.told /\ t.pend = s.pend
                      /\ t.leaving = s.leaving /\ t.bye = s.bye /\ t.post = s.post
                      /\ t.call = s.call /\ t.upd = s.upd
           /\ \A x \in {"UPDATED", "TERMINATED"} :
                  LET t == Posted(s, x)
                  IN  /\ Alike(s, t) /\ t.call = s.call /\ t.upd = s.upd
                      /\ t.post = Append(s.post, [what |-> x, msg |-> NoMessage])
           /\ LET t == ByeSent(s)
              IN  /\ t \in SessionType /\ t.st = "TERMINATING" /\ t.bye /\ t.told = s.told
                  /\ t.pend = s.pend /\ t.leaving = s.leaving /\ t.post = s.post
                  /\ t.call = CallSent(s.call, "BYE") /\ t.upd = s.upd
<1>1. ASSUME NEW st \in SessionStates
      PROVE  LET t == Moved(s, st)
             IN  /\ t \in SessionType /\ t.st = st /\ t.told = s.told /\ t.pend = s.pend
                 /\ t.leaving = s.leaving /\ t.bye = s.bye /\ t.post = s.post
                 /\ t.call = s.call /\ t.upd = s.upd
  BY DEF Moved, SessionType
<1>2. ASSUME NEW x \in {"UPDATED", "TERMINATED"}
      PROVE  LET t == Posted(s, x)
             IN  /\ Alike(s, t) /\ t.call = s.call /\ t.upd = s.upd
                 /\ t.post = Append(s.post, [what |-> x, msg |-> NoMessage])
  <2>. DEFINE q == Append(s.post, [what |-> x, msg |-> NoMessage])
  <2>1. s.post \in Seq(Post)
    BY DEF SessionType, Post
  <2>2. [what |-> x, msg |-> NoMessage] \in Post
    BY DEF Post
  <2>3. q \in Seq(Post)
    BY <2>1, <2>2, AppendProperties
  <2>. HIDE DEF q
  <2>4. [s EXCEPT !.post = q] \in SessionType
    BY <2>3 DEF SessionType, Post
  <2>5. Posted(s, x) = [s EXCEPT !.post = q]
    BY DEF Posted, q
  <2>. QED  BY <2>4, <2>5 DEF Alike, SessionType, q
<1>3. LET t == ByeSent(s)
      IN  /\ t \in SessionType /\ t.st = "TERMINATING" /\ t.bye /\ t.told = s.told
          /\ t.pend = s.pend /\ t.leaving = s.leaving /\ t.post = s.post
          /\ t.call = CallSent(s.call, "BYE") /\ t.upd = s.upd
  <2>. DEFINE u == Called(s, "BYE")
  <2>1. Alike(s, u) /\ u.post = s.post /\ u.upd = s.upd /\ u.call = CallSent(s.call, "BYE")
    <3>1. s.call \in CallStates
      BY DEF SessionType
    <3>. QED  BY <3>1, Calls
  <2>2. ByeSent(s) = [u EXCEPT !.st = "TERMINATING", !.bye = TRUE, !.cseq = u.cseq + 1]
    BY DEF ByeSent
  <2>. HIDE DEF u
  <2>3. u \in SessionType /\ u.cseq + 1 \in Nat
    BY <2>1 DEF Alike, SessionType
  <2>4. ASSUME NEW n \in Nat
        PROVE  LET t == [u EXCEPT !.st = "TERMINATING", !.bye = TRUE, !.cseq = n]
               IN  /\ t \in SessionType /\ t.st = "TERMINATING" /\ t.bye = TRUE
                   /\ t.told = u.told /\ t.pend = u.pend /\ t.leaving = u.leaving
                   /\ t.post = u.post /\ t.call = u.call /\ t.upd = u.upd
    BY <2>3 DEF SessionType, SessionStates
  <2>. QED  BY <2>1, <2>2, <2>3, <2>4 DEF Alike
<1>. QED  BY <1>1, <1>2, <1>3

-----------------------------------------------------------------------------
(***************************************************************************)
(* What is posted.                                                          *)
(***************************************************************************)
LEMMA AppendPost ==
    ASSUME NEW q \in Seq(Post), NEW x \in Post
    PROVE  LET r == Append(q, x)
           IN  /\ NoEnd(q) /\ x.what # "TERMINATED" => NoEnd(r)
               /\ NoEnd(q) => OneEnd(r)
               /\ OneEnd(q) /\ x.what # "TERMINATED" => OneEnd(r)
               /\ UpdatePosted(q) \/ x.what = "UPDATED" => UpdatePosted(r)
               /\ DelayedChange(q) /\ (x.what = "DELAYED" =>
                      x.msg \in Message /\ x.msg.method \in {"INVITE", "UPDATE"})
                      => DelayedChange(r)
<1>. DEFINE r == Append(q, x)
<1>1. /\ Len(q) \in Nat /\ Len(r) = Len(q) + 1
      /\ DOMAIN q = 1..Len(q) /\ DOMAIN r = 1..Len(r)
      /\ \A i \in 1..Len(q) : r[i] = q[i]
      /\ r[Len(q) + 1] = x
  BY AppendProperties, LenProperties
<1>. HIDE DEF r
<1>2. NoEnd(q) /\ x.what # "TERMINATED" => NoEnd(r)
  BY <1>1 DEF NoEnd
<1>3. NoEnd(q) => OneEnd(r)
  BY <1>1 DEF NoEnd, OneEnd
<1>4. OneEnd(q) /\ x.what # "TERMINATED" => OneEnd(r)
  BY <1>1 DEF OneEnd
<1>5. UpdatePosted(q) \/ x.what = "UPDATED" => UpdatePosted(r)
  BY <1>1 DEF UpdatePosted
<1>6. DelayedChange(q) /\ (x.what = "DELAYED" =>
         x.msg \in Message /\ x.msg.method \in {"INVITE", "UPDATE"}) => DelayedChange(r)
  BY <1>1 DEF DelayedChange
<1>. QED  BY <1>2, <1>3, <1>4, <1>5, <1>6 DEF r

LEMMA TailPost ==
    ASSUME NEW q \in Seq(Post), q # << >>
    PROVE  /\ Tail(q) \in Seq(Post) /\ Head(q) \in Post
           /\ NoEnd(q) => NoEnd(Tail(q)) /\ Head(q).what # "TERMINATED"
           /\ OneEnd(q) => OneEnd(Tail(q))
           /\ OneEnd(q) /\ Head(q).what = "TERMINATED" => NoEnd(Tail(q))
           /\ UpdatePosted(q) /\ Head(q).what # "UPDATED" => UpdatePosted(Tail(q))
           /\ DelayedChange(q) => DelayedChange(Tail(q))
           /\ DelayedChange(q) /\ Head(q).what = "DELAYED" =>
                  Head(q).msg \in Message /\ Head(q).msg.method \in {"INVITE", "UPDATE"}
<1>1. /\ Len(q) \in Nat \ {0} /\ Len(Tail(q)) = Len(q) - 1
      /\ DOMAIN q = 1..Len(q) /\ DOMAIN Tail(q) = 1..(Len(q) - 1)
      /\ \A i \in 1..(Len(q) - 1) : Tail(q)[i] = q[i + 1]
      /\ Tail(q) \in Seq(Post) /\ Head(q) = q[1] /\ Head(q) \in Post
  BY HeadTailProperties, LenProperties, EmptySeq
<1>2. NoEnd(q) => NoEnd(Tail(q)) /\ Head(q).what # "TERMINATED"
  BY <1>1 DEF NoEnd
<1>3. OneEnd(q) => OneEnd(Tail(q))
  BY <1>1 DEF OneEnd
<1>4. OneEnd(q) /\ Head(q).what = "TERMINATED" => NoEnd(Tail(q))
  BY <1>1 DEF OneEnd, NoEnd
<1>5. UpdatePosted(q) /\ Head(q).what # "UPDATED" => UpdatePosted(Tail(q))
  <2>. SUFFICES ASSUME UpdatePosted(q), Head(q).what # "UPDATED" PROVE UpdatePosted(Tail(q))
    OBVIOUS
  <2>1. PICK i \in DOMAIN q : q[i].what = "UPDATED"
    BY DEF UpdatePosted
  <2>2. i - 1 \in 1..(Len(q) - 1) /\ Tail(q)[i - 1] = q[i]
    BY <1>1, <2>1
  <2>. QED  BY <1>1, <2>1, <2>2 DEF UpdatePosted
<1>6. DelayedChange(q) => DelayedChange(Tail(q))
  BY <1>1 DEF DelayedChange
<1>7. DelayedChange(q) /\ Head(q).what = "DELAYED" =>
          Head(q).msg \in Message /\ Head(q).msg.method \in {"INVITE", "UPDATE"}
  BY <1>1 DEF DelayedChange
<1>. QED  BY <1>1, <1>2, <1>3, <1>4, <1>5, <1>6, <1>7

-----------------------------------------------------------------------------
(***************************************************************************)
(* The other end, and the messages sent to it.                                *)
(***************************************************************************)
LEMMA Peers ==
    \A e \in Ends : /\ Peer(e) \in Ends /\ Peer(e) # e
                    /\ \A f \in Ends : f # e => f = Peer(e) /\ e = Peer(f)
<1>. SUFFICES ASSUME NEW e \in Ends
     PROVE  /\ Peer(e) \in Ends /\ Peer(e) # e
            /\ \A f \in Ends : f # e => f = Peer(e) /\ e = Peer(f)
  OBVIOUS
<1>1. PICK x, y \in Ends : x # y /\ Ends = {x, y}
  BY EndsAssumption
<1>2. ASSUME NEW f \in Ends PROVE Peer(f) \in Ends /\ Peer(f) # f
  BY <1>1 DEF Peer
<1>. QED  BY <1>1, <1>2

LEMMA Messages ==
    ASSUME NEW e \in Ends, NEW method \in Methods, NEW class \in Classes,
           NEW sdp \in Nat, NEW cseq \in Nat
    PROVE  LET x == Msg(e, method, class, sdp, cseq)
           IN  x \in Message /\ x.to = Peer(e) /\ x.method = method /\ x.class = class
BY Peers DEF Msg, Message

LEMMA Replies ==
    ASSUME NEW e \in Ends, NEW m \in Message, NEW class \in Classes
    PROVE  LET x == Reply(e, m, class)
           IN  x \in Message /\ x.to = Peer(e) /\ x.method = m.method /\ x.class = class
<1>1. m.method \in Methods /\ m.cseq \in Nat /\ None \in Nat
  BY DEF Message, None
<1>. QED  BY <1>1, Messages DEF Reply

LEMMA Answers ==
    ASSUME NEW e \in Ends, NEW s \in SessionType, NEW class \in Classes, NEW sdp \in Nat
    PROVE  LET x == AnswerOf(e, s, class, sdp)
           IN  x \in Message /\ x.to = Peer(e) /\ x.class = class /\ ~IsAck(x)
<1>1. s.upd.method \in {"INVITE", "UPDATE"} /\ s.upd.cseq \in Nat
  BY DEF SessionType, RequestType
<1>2. s.upd.method \in Methods /\ s.upd.method # "ACK"
  BY <1>1 DEF Methods
<1>. QED  BY <1>1, <1>2, Messages DEF AnswerOf, IsAck

LEMMA Byes ==
    ASSUME NEW e \in Ends, NEW s \in SessionType, NEW m \in Bye(e, s)
    PROVE  m \in Message /\ m.to = Peer(e) /\ ~IsAck(m) /\ ~IsAccept(m)
<1>1. "BYE" \in Methods /\ "REQUEST" \in Classes /\ None \in Nat /\ s.cseq + 1 \in Nat
  BY DEF Methods, Classes, None, SessionType
<1>2. LET x == Msg(e, "BYE", "REQUEST", None, s.cseq + 1)
      IN  x \in Message /\ x.to = Peer(e) /\ x.method = "BYE"
  BY <1>1, Messages
<1>. QED  BY <1>2 DEF Bye, IsAck, IsAccept

-----------------------------------------------------------------------------
(***************************************************************************)
(* A step of the session of one end.  Fine says what its outcome has to be for   *)
(* the invariant, and for NoWayBack, to survive it.                            *)
(***************************************************************************)
NoWay == \A e \in Ends : Ending(ep[e]) => ep'[e].st # "ESTABLISHED"
Kept == IInv' /\ NoWay

AcceptedTo(e) == \E m \in net : m.to = e /\ IsAccept(m)

Fine(e, t, out) ==
    /\ t \in SessionType /\ Sound(t)
    /\ Ending(ep[e]) => t.st # "ESTABLISHED"
    /\ out \subseteq Message /\ \A m \in out : m.to = Peer(e)
    /\ Forgotten(t) => \/ Forgotten(ep[e]) /\ \A m \in out : ~IsAccept(m)
                       \/ net = {} /\ out = {} /\ ~CanAck(ep[Peer(e)])
    /\ CanAck(t) \/ (\E m \in out : IsAck(m)) => CanAck(ep[e]) \/ AcceptedTo(e)

LEMMA GoesKeeps ==
    ASSUME IInv, NEW e \in Ends, NEW t, NEW gone, NEW out,
           ep' = [ep EXCEPT ![e] = t], net' = (net \ gone) \cup out, Fine(e, t, out),
           asked' \in 0..MaxAsked, lost' \in 0..MaxLost, broken' \in BOOLEAN
    PROVE  Kept
<1>1. ep' \in [Ends -> SessionType] /\ ep'[e] = t /\ \A f \in Ends \ {e} : ep'[f] = ep[f]
  BY DEF IInv, TypeOK, Fine
<1>2. TypeOK'
  BY <1>1 DEF IInv, TypeOK, Fine
<1>3. \A f \in Ends : Sound(ep'[f])
  BY <1>1 DEF IInv, Fine
<1>4. Silent(e)'
  <2>. SUFFICES ASSUME Forgotten(t)
       PROVE  /\ \A m \in net' : ~(m.to = e /\ IsAck(m)) /\ ~(m.to = Peer(e) /\ IsAccept(m))
              /\ ~CanAck(ep[Peer(e)])
    BY <1>1, Peers DEF Silent
  <2>1. CASE Forgotten(ep[e]) /\ \A m \in out : ~IsAccept(m)
    BY <2>1, Peers DEF Fine, IInv, Silent
  <2>2. CASE net = {} /\ out = {} /\ ~CanAck(ep[Peer(e)])
    BY <2>2
  <2>. QED  BY <2>1, <2>2 DEF Fine
<1>5. ASSUME NEW f \in Ends, f # e PROVE Silent(f)'
  <2>. SUFFICES ASSUME Forgotten(ep[f])
       PROVE  /\ \A m \in net' : ~(m.to = f /\ IsAck(m)) /\ ~(m.to = Peer(f) /\ IsAccept(m))
              /\ ~CanAck(t)
    BY <1>1, <1>5, Peers DEF Silent
  <2>1. f = Peer(e) /\ e = Peer(f)
    BY <1>5, Peers
  <2>2. /\ \A m \in net : ~(m.to = f /\ IsAck(m)) /\ ~(m.to = e /\ IsAccept(m))
        /\ ~CanAck(ep[e])
    BY <2>1 DEF IInv, Silent
  <2>3. ~CanAck(t) /\ \A m \in out : ~IsAck(m)
    BY <2>2 DEF Fine, AcceptedTo
  <2>. QED  BY <1>5, <2>1, <2>2, <2>3 DEF Fine
<1>6. NoWay
  <2>1. ASSUME NEW f \in Ends, Ending(ep[f]) PROVE ep[f].st # "ESTABLISHED"
    BY <2>1 DEF Ending, Ended
  <2>. QED  BY <1>1, <2>1 DEF NoWay, Fine
<1>. QED  BY <1>2, <1>3, <1>4, <1>5, <1>6 DEF Kept, IInv

\* Beside the session nothing but a counter moves.
Aside == asked' \in 0..MaxAsked /\ broken' \in BOOLEAN

LEMMA Counted ==
    ASSUME TypeOK
    PROVE  (Whole \/ Breaks \/ (Asks /\ (UNCHANGED broken \/ broken' = TRUE))) => Aside
<1>1. Whole \/ Breaks => Aside
  BY DEF TypeOK, Whole, Breaks, Aside
<1>2. Asks => asked' \in 0..MaxAsked
  BY BoundAssumption DEF TypeOK, Asks
<1>3. UNCHANGED broken \/ broken' = TRUE => broken' \in BOOLEAN
  BY Zenon DEF TypeOK
<1>. QED  BY <1>1, <1>2, <1>3 DEF Aside

LEMMA GoesFine ==
    ASSUME IInv, NEW e \in Ends, NEW t, NEW gone, NEW out, Goes(e, t, gone, out),
           Fine(e, t, out), Aside
    PROVE  Kept
BY GoesKeeps DEF Goes, Aside, IInv, TypeOK

(***************************************************************************)
(* Sound after a step that posts nothing, posts the end, or posts an update.       *)
(***************************************************************************)
LEMMA SilentStep ==
    ASSUME NEW s \in SessionType, NEW t \in SessionType, Sound(s),
           t.post = s.post, t.told = s.told, t.st = "TERMINATED" <=> s.st = "TERMINATED",
           t.pend => t.leaving /\ ~t.bye, t.bye => t.leaving /\ t.call \notin Awaiting,
           CanAck(t) => CanAck(s)
    PROVE  Sound(t)
BY DEF Sound, Reported, Waiting

LEMMA EndStep ==
    ASSUME NEW s \in SessionType, NEW t \in SessionType, Sound(s), s.st # "TERMINATED",
           t.post = Append(s.post, [what |-> "TERMINATED", msg |-> NoMessage]),
           t.told = s.told, t.st = "TERMINATED",
           t.pend => t.leaving /\ ~t.bye, t.bye => t.leaving /\ t.call \notin Awaiting,
           CanAck(t) => CanAck(s)
    PROVE  Sound(t)
<1>1. s.post \in Seq(Post) /\ [what |-> "TERMINATED", msg |-> NoMessage] \in Post
  BY DEF SessionType, Post
<1>. QED  BY <1>1, AppendPost DEF Sound, Reported, Waiting

LEMMA UpdateStep ==
    ASSUME NEW s \in SessionType, NEW t \in SessionType, Sound(s),
           s.st # "TERMINATED", t.st # "TERMINATED",
           t.post = Append(s.post, [what |-> "UPDATED", msg |-> NoMessage]), t.told = s.told,
           t.pend => t.leaving /\ ~t.bye, t.bye => t.leaving /\ t.call \notin Awaiting
    PROVE  Sound(t)
<1>1. s.post \in Seq(Post) /\ [what |-> "UPDATED", msg |-> NoMessage] \in Post
  BY DEF SessionType, Post
<1>. QED  BY <1>1, AppendPost DEF Sound, Reported, Waiting

LEMMA Has ==
    ASSUME IInv, NEW e \in Ends
    PROVE  /\ ep[e] \in SessionType /\ Sound(ep[e]) /\ ep[e].call \in CallStates
           /\ ep[e].oa \in OaType /\ ep[e].upd \in RequestType
           /\ ep[e].cseq \in Nat /\ ep[e].rseq \in Nat /\ ep[e].post \in Seq(Post)
BY DEF IInv, TypeOK, SessionType, Post

-----------------------------------------------------------------------------
(***************************************************************************)
(* The application.                                                         *)
(***************************************************************************)
LEMMA UpdateKeeps ==
    ASSUME IInv, NEW e \in Ends, NEW method \in {"INVITE", "UPDATE"}, NEW offer \in BOOLEAN,
           Update(e, method, offer)
    PROVE  Kept
<1>. DEFINE s == [ep[e] EXCEPT !.oa = IF offer THEN CreateProposal(@, asked + 2) ELSE @]
            sdp == GetSdp(s.oa)
            sent == UpdateMedia(OaSent(s, method, sdp))
            c == Called(sent, method)
            n == ep[e].cseq + 1
            t == [c EXCEPT !.upd = RequestOf("client", method, sdp, n), !.requestor = TRUE,
                           !.st = "RENEGOTIATING", !.cseq = n]
            out == {Msg(e, method, "REQUEST", sdp, n)}
<1>1. Same(ep[e], s)
  <2>1. asked + 2 \in Nat
    BY BoundAssumption DEF IInv, TypeOK
  <2>. QED  BY <2>1, Has, ExchangeTypes, OaSame
<1>2. s.cseq = ep[e].cseq
  BY Has DEF SessionType
<1>3. /\ ep' = [ep EXCEPT ![e] = t] /\ net' = (net \ {}) \cup out /\ Asks
      /\ s.st = "ESTABLISHED" /\ ~s.leaving /\ s.call # "REINVITE_2XX_RECEIVED"
      /\ UNCHANGED <<lost, broken>>
  BY <1>2 DEF Update
<1>. HIDE DEF s
<1>4. method \in Triggers /\ s \in SessionType
  BY <1>1 DEF Triggers, Same, Alike
<1>5. sdp \in Nat /\ Same(s, OaSent(s, method, sdp))
  BY <1>4, Exchanges, Has, ExchangeTypes DEF SessionType
<1>6. Same(OaSent(s, method, sdp), sent)
  BY <1>4, <1>5, Exchanges DEF Same, Alike
<1>. HIDE DEF sdp, sent
<1>7. sent \in SessionType /\ sent.call \in CallStates /\ Same(s, sent)
  BY <1>5, <1>6 DEF Same, Alike, SessionType
<1>8. Alike(sent, c) /\ c.post = sent.post /\ c.call = CallSent(sent.call, method)
  BY <1>7, Calls
<1>. HIDE DEF c
<1>9. n \in Nat /\ RequestOf("client", method, sdp, n) \in RequestType
  BY <1>5, Has DEF RequestOf, RequestType, Classes
<1>. HIDE DEF n
<1>10. /\ t \in SessionType /\ t.st = "RENEGOTIATING" /\ t.told = c.told /\ t.pend = c.pend
       /\ t.leaving = c.leaving /\ t.bye = c.bye /\ t.post = c.post /\ t.call = c.call
  BY <1>8, <1>9 DEF Alike, SessionType, SessionStates
<1>. HIDE DEF t
<1>11. t.call # "REINVITE_2XX_RECEIVED"
  BY <1>3, <1>7, <1>8, <1>10, CallWaits DEF Same
<1>12. ~CanAck(t)
  BY <1>11 DEF CanAck
<1>13. ~t.leaving /\ ~t.pend /\ ~t.bye
  BY <1>1, <1>3, <1>7, <1>8, <1>10, Has DEF Same, Alike, Sound, Waiting
<1>14. Sound(t)
  BY <1>1, <1>3, <1>7, <1>8, <1>10, <1>12, <1>13, Has, SilentStep DEF Same, Alike
<1>15. \A m \in out : m \in Message /\ m.to = Peer(e) /\ ~IsAck(m)
  <2>1. method \in Methods /\ "REQUEST" \in Classes
    BY DEF Methods, Classes
  <2>. QED  BY <2>1, <1>5, <1>9, Peers DEF Msg, Message, IsAck
<1>16. Fine(e, t, out)
  BY <1>10, <1>12, <1>13, <1>14, <1>15 DEF Fine, Forgotten
<1>. HIDE DEF out
<1>17. asked' \in 0..MaxAsked
  BY <1>3, BoundAssumption DEF Asks, IInv, TypeOK
<1>18. lost' \in 0..MaxLost /\ broken' \in BOOLEAN
  BY <1>3, Zenon DEF IInv, TypeOK
<1>. QED  BY <1>3, <1>16, <1>17, <1>18, GoesKeeps

\* A session that answers for itself owes nobody an ACK, and waits for no end.
LEMMA Active ==
    ASSUME IInv, NEW e \in Ends, ~ep[e].leaving
    PROVE  ~ep[e].pend /\ ~ep[e].bye
BY Has DEF Sound, Waiting

\* What a handler starts from: the session, perhaps with a post less.
Prior(e, s) ==
    /\ s \in SessionType /\ Sound(s) /\ s.st = ep[e].st /\ s.pend = ep[e].pend
    /\ CanAck(s) => CanAck(ep[e])

LEMMA PlainFrom ==
    ASSUME IInv, NEW e \in Ends, NEW s, Prior(e, s), NEW t \in SessionType, NEW out,
           t.st = "TERMINATED" <=> s.st = "TERMINATED", t.post = s.post, t.told = s.told,
           t.pend => t.leaving /\ ~t.bye, t.bye => t.leaving /\ t.call \notin Awaiting,
           CanAck(t) => CanAck(s), Ending(s) => t.st # "ESTABLISHED",
           Forgotten(t) => Forgotten(s) /\ \A m \in out : ~IsAccept(m),
           \A m \in out : m \in Message /\ m.to = Peer(e) /\ ~IsAck(m)
    PROVE  Fine(e, t, out)
<1>1. Sound(t)
  BY SilentStep DEF Prior
<1>. QED  BY <1>1 DEF Fine, Prior, Ending, Ended, Forgotten

LEMMA Itself ==
    ASSUME IInv, NEW e \in Ends
    PROVE  Prior(e, ep[e])
BY Has DEF Prior

LEMMA Plain ==
    ASSUME IInv, NEW e \in Ends, NEW t \in SessionType, NEW out,
           t.st = "TERMINATED" <=> ep[e].st = "TERMINATED",
           t.post = ep[e].post, t.told = ep[e].told,
           t.pend => t.leaving /\ ~t.bye, t.bye => t.leaving /\ t.call \notin Awaiting,
           CanAck(t) => CanAck(ep[e]), Ending(ep[e]) => t.st # "ESTABLISHED",
           Forgotten(t) => Forgotten(ep[e]) /\ \A m \in out : ~IsAccept(m),
           \A m \in out : m \in Message /\ m.to = Peer(e) /\ ~IsAck(m)
    PROVE  Fine(e, t, out)
BY Itself, PlainFrom

LEMMA AcceptKeeps ==
    ASSUME IInv, NEW e \in Ends, Accept(e)
    PROVE  Kept
<1>. DEFINE s == ep[e]
            a == Answered(s, "2XX")
            sdp == AnswerSdp(s)
            o == OaSent(a, "SUCCESS", sdp)
            sent == UpdateMedia(o)
            t == IF s.upd.method = "INVITE" THEN Moved(Called(sent, "2XX"), "REESTABLISHING")
                 ELSE Moved(sent, "ESTABLISHED")
            out == {AnswerOf(e, s, "2XX", sdp)}
<1>1. Goes(e, t, {}, out) /\ Whole /\ s.st = "RENEGOTIATING" /\ ServerOpen(s) /\ ~s.leaving
  BY DEF Accept
<1>2. "SUCCESS" \in Triggers /\ "2XX" \in Classes
  BY DEF Triggers, Classes
<1>3. sdp \in Nat
  BY Has, ExchangeTypes DEF AnswerSdp, OaType
<1>. HIDE DEF sdp
<1>4. /\ Alike(s, a) /\ a.post = s.post /\ a.call = s.call /\ ClientOpen(a) = ClientOpen(s)
  BY <1>2, Has, Updates
<1>. HIDE DEF a
<1>5. Same(a, o)
  BY <1>2, <1>3, <1>4, Exchanges DEF Alike
<1>. HIDE DEF o
<1>6. Same(o, sent)
  BY <1>2, <1>3, <1>5, Exchanges DEF Same, Alike
<1>. HIDE DEF sent
<1>7. Same(a, sent) /\ sent \in SessionType /\ sent.call \in CallStates
  BY <1>5, <1>6 DEF Same, Alike, SessionType
<1>8. ~ClientOpen(sent)
  BY <1>1, <1>4, <1>7 DEF Same, ClientOpen, ServerOpen
<1>9. LET c == Called(sent, "2XX")
      IN  Alike(sent, c) /\ c.post = sent.post /\ c.upd = sent.upd
  BY <1>7, Calls
<1>10. /\ t \in SessionType /\ t.st \in {"REESTABLISHING", "ESTABLISHED"} /\ t.told = sent.told
       /\ t.pend = sent.pend /\ t.leaving = sent.leaving /\ t.bye = sent.bye
       /\ t.post = sent.post /\ t.upd = sent.upd
  <2>1. {"REESTABLISHING", "ESTABLISHED"} \subseteq SessionStates
    BY DEF SessionStates
  <2>2. CASE s.upd.method = "INVITE"
    <3>. DEFINE c == Called(sent, "2XX")
    <3>1. c \in SessionType /\ t = Moved(c, "REESTABLISHING")
      BY <1>9, <2>2 DEF Alike
    <3>. HIDE DEF t, c
    <3>2. c \in SessionType /\ Alike(sent, c) /\ c.post = sent.post /\ c.upd = sent.upd
      BY <1>9, <3>1 DEF c
    <3>. QED  BY <2>1, <3>1, <3>2, Fields DEF Alike
  <2>3. CASE s.upd.method # "INVITE"
    <3>1. t = Moved(sent, "ESTABLISHED")
      BY <2>3
    <3>. HIDE DEF t
    <3>. QED  BY <1>7, <2>1, <3>1, Fields
  <2>. QED  BY <2>2, <2>3
<1>. HIDE DEF t
<1>11. ~CanAck(t)
  BY <1>8, <1>10 DEF CanAck, ClientOpen
<1>12. ~t.pend /\ ~t.bye
  BY <1>1, <1>4, <1>7, <1>10, Active DEF Same, Alike
<1>13. \A m \in out : m \in Message /\ m.to = Peer(e) /\ ~IsAck(m)
  BY <1>2, <1>3, Has, Answers
<1>14. Fine(e, t, out)
  BY <1>1, <1>4, <1>7, <1>10, <1>11, <1>12, <1>13, Plain
     DEF Same, Alike, Ending, Ended, Forgotten
<1>. QED  BY <1>1, <1>14, Counted, GoesFine DEF IInv

LEMMA Fails ==
    ASSUME NEW s \in SessionType
    PROVE  LET t == CallFails(s)
           IN  /\ Alike(s, t) /\ t.post = s.post /\ t.upd = s.upd
               /\ t.call \in Awaiting => s.call \in Awaiting
               /\ t.call = "REINVITE_2XX_RECEIVED" => s.call = "REINVITE_2XX_RECEIVED"
<1>1. s.call \in CallStates
  BY DEF SessionType
<1>. DEFINE t == Called(s, "FAIL")
<1>2. Alike(s, t) /\ t.post = s.post /\ t.upd = s.upd /\ t.call = CallSent(s.call, "FAIL")
  BY <1>1, Calls
<1>. HIDE DEF t
<1>3. CallFails(s) \in {s, t}
  BY DEF CallFails, t
<1>4. Alike(s, s)
  BY DEF Alike
<1>. QED  BY <1>1, <1>2, <1>3, <1>4, CallWaits

LEMMA RejectKeeps ==
    ASSUME IInv, NEW e \in Ends, Reject(e)
    PROVE  Kept
<1>. DEFINE s == ep[e]
            a == Answered(s, "FAIL")
            f == CallFails(a)
            o == OaSent(f, "FAILURE", None)
            u == UpdateMedia(o)
            c == Closed(u)
            t == Moved(c, "ESTABLISHED")
            out == {AnswerOf(e, s, "FAIL", None)}
<1>1. Goes(e, t, {}, out) /\ Breaks /\ s.st = "RENEGOTIATING" /\ ~s.leaving
  BY DEF Reject
<1>2. "FAILURE" \in Triggers /\ "FAIL" \in Classes /\ None \in Nat
  BY DEF Triggers, Classes, None
<1>3. Alike(s, a) /\ a.post = s.post
  BY <1>2, Has, Updates
<1>. HIDE DEF a
<1>4. Alike(a, f) /\ f.post = a.post
  BY <1>3, Fails DEF Alike
<1>. HIDE DEF f
<1>5. Same(f, o)
  BY <1>2, <1>4, Exchanges DEF Alike
<1>. HIDE DEF o
<1>6. Same(o, u)
  BY <1>2, <1>5, Exchanges DEF Same, Alike
<1>. HIDE DEF u
<1>7. Alike(u, c) /\ c.post = u.post /\ ~ClientOpen(c)
  BY <1>2, <1>6, Updates DEF Same, Alike
<1>. HIDE DEF c
<1>8. /\ t \in SessionType /\ t.st = "ESTABLISHED" /\ t.told = c.told /\ t.pend = c.pend
      /\ t.leaving = c.leaving /\ t.bye = c.bye /\ t.post = c.post /\ t.upd = c.upd
  <2>1. "ESTABLISHED" \in SessionStates
    BY DEF SessionStates
  <2>. QED  BY <1>7, <2>1, Fields DEF Alike
<1>. HIDE DEF t
<1>9. /\ t.told = s.told /\ t.pend = s.pend /\ t.bye = s.bye /\ t.post = s.post
      /\ ~t.pend /\ ~t.bye /\ ~CanAck(t)
  BY <1>1, <1>3, <1>4, <1>5, <1>6, <1>7, <1>8, Active DEF Same, Alike, CanAck, ClientOpen
<1>10. \A m \in out : m \in Message /\ m.to = Peer(e) /\ ~IsAck(m)
  BY <1>2, Has, Answers
<1>11. Fine(e, t, out)
  BY <1>1, <1>8, <1>9, <1>10, Plain DEF Ending, Ended, Forgotten
<1>. QED  BY <1>1, <1>11, Counted, GoesFine DEF IInv

LEMMA RingKeeps ==
    ASSUME IInv, NEW e \in Ends, Ring(e)
    PROVE  Kept
<1>. DEFINE s == ep[e]
            t == Called(s, "1XX")
            out == {AnswerOf(e, s, "1XX", None)}
<1>1. Goes(e, t, {}, out) /\ Whole /\ s.st = "RENEGOTIATING" /\ ~s.leaving
  BY DEF Ring
<1>2. "1XX" \in Classes /\ None \in Nat
  BY DEF Classes, None
<1>3. Alike(s, t) /\ t.post = s.post /\ t.upd = s.upd /\ t.call = CallSent(s.call, "1XX")
  BY Has, Calls
<1>. HIDE DEF t
<1>4. ~t.pend /\ ~t.bye /\ (CanAck(t) => CanAck(s))
  BY <1>1, <1>3, Active, Has, CallWaits DEF Alike, CanAck, ClientOpen
<1>5. \A m \in out : m \in Message /\ m.to = Peer(e) /\ ~IsAck(m)
  BY <1>2, Has, Answers
<1>6. Fine(e, t, out)
  BY <1>1, <1>3, <1>4, <1>5, Plain DEF Alike, Ending, Ended, Forgotten
<1>. QED  BY <1>1, <1>6, Counted, GoesFine DEF IInv

LEMMA Leaves ==
    ASSUME NEW s \in SessionType
    PROVE  LET t == Leaving(s)
           IN  /\ t \in SessionType /\ t.leaving = TRUE /\ t.st = s.st /\ t.told = s.told
               /\ t.pend = s.pend /\ t.bye = s.bye /\ t.post = s.post
               /\ t.call = s.call /\ t.upd = s.upd
BY DEF Leaving, SessionType

\* An end that has left and sends its BYE, from a session u.
LEMMA ByeFine ==
    ASSUME IInv, NEW e \in Ends, NEW u \in SessionType, NEW out,
           ep[e].st # "TERMINATED", u.post = ep[e].post, u.told = ep[e].told,
           ~u.pend, u.leaving,
           u.call = "REINVITE_2XX_RECEIVED" /\ ClientOpen(u) => CanAck(ep[e]),
           \A m \in out : m \in Message /\ m.to = Peer(e) /\ ~IsAck(m)
    PROVE  Fine(e, ByeSent(u), out)
<1>. DEFINE t == ByeSent(u)
<1>1. /\ t \in SessionType /\ t.st = "TERMINATING" /\ t.bye /\ t.told = u.told
      /\ t.pend = u.pend /\ t.leaving = u.leaving /\ t.post = u.post
      /\ t.call = CallSent(u.call, "BYE") /\ t.upd = u.upd
  BY Fields
<1>. HIDE DEF t
<1>2. u.call \in CallStates
  BY DEF SessionType
<1>3. t.call \notin Awaiting /\ (CanAck(t) => CanAck(ep[e]))
  BY <1>1, <1>2, CallWaits DEF CanAck, ClientOpen
<1>4. Fine(e, t, out)
  BY <1>1, <1>3, Plain DEF Forgotten
<1>. QED  BY <1>4 DEF t

\* An update without outcome, from a session u with no request open.
LEMMA BackFine ==
    ASSUME IInv, NEW e \in Ends, NEW u \in SessionType, ~Ended(ep[e]), ~Ending(ep[e]),
           u.st = "ESTABLISHED", u.told = ep[e].told, u.pend = ep[e].pend,
           u.leaving = ep[e].leaving, u.bye = ep[e].bye, u.post = ep[e].post,
           u.call \in Awaiting => ep[e].call \in Awaiting, ~ClientOpen(u)
    PROVE  Fine(e, u, {})
<1>1. u.pend => u.leaving /\ ~u.bye
  BY Has DEF Sound, Waiting
<1>2. u.bye => u.leaving /\ u.call \notin Awaiting
  BY Has DEF Sound, Waiting
<1>. QED  BY <1>1, <1>2, Plain DEF CanAck, Forgotten, Ended

LEMMA GivenUpFine ==
    ASSUME IInv, NEW e \in Ends, ~Ended(ep[e]), ~Ending(ep[e])
    PROVE  Fine(e, GivenUp(ep[e]), {})
<1>. DEFINE c == Closed(ep[e])
            v == Moved(c, "ESTABLISHED")
            u == Restored(v)
<1>1. "FAIL" \in Classes /\ "FAILURE" \in Triggers /\ None \in Nat
      /\ "ESTABLISHED" \in SessionStates
  BY DEF Classes, Triggers, None, SessionStates
<1>2. Alike(ep[e], c) /\ c.post = ep[e].post /\ c.call = ep[e].call /\ ~ClientOpen(c)
  BY <1>1, Has, Updates
<1>3. GivenUp(ep[e]) = u
  BY DEF GivenUp
<1>. HIDE DEF c
<1>4. /\ v \in SessionType /\ v.st = "ESTABLISHED" /\ v.told = c.told /\ v.pend = c.pend
      /\ v.leaving = c.leaving /\ v.bye = c.bye /\ v.post = c.post
      /\ v.call = c.call /\ v.upd = c.upd
  BY <1>1, <1>2, Fields DEF Alike
<1>. HIDE DEF v
<1>5. Same(v, u)
  BY <1>1, <1>4, Exchanges
<1>. HIDE DEF u
<1>6. /\ u \in SessionType /\ u.st = "ESTABLISHED" /\ u.told = ep[e].told
      /\ u.pend = ep[e].pend /\ u.leaving = ep[e].leaving /\ u.bye = ep[e].bye
      /\ u.post = ep[e].post /\ u.call = ep[e].call /\ ~ClientOpen(u)
  BY <1>2, <1>4, <1>5 DEF Same, Alike, ClientOpen
<1>. QED  BY <1>3, <1>6, BackFine

MovesFine(e) == \E t, gone, out : Goes(e, t, gone, out) /\ Fine(e, t, out)

LEMMA TerminateReNegotiatingFine ==
    ASSUME IInv, NEW e \in Ends, ~ep[e].leaving, ep[e].st = "RENEGOTIATING",
           TerminateOnReNegotiating(e)
    PROVE  MovesFine(e)
<1>. DEFINE s == Leaving(ep[e])
<1>1. /\ s \in SessionType /\ s.leaving = TRUE /\ s.st = ep[e].st /\ s.told = ep[e].told
      /\ s.pend = ep[e].pend /\ s.bye = ep[e].bye /\ s.post = ep[e].post
      /\ s.call = ep[e].call /\ s.upd = ep[e].upd
  BY Has, Leaves
<1>2. ~s.pend /\ ~s.bye
  BY <1>1, Active
<1>3. CASE s.requestor
  <2>. DEFINE u == Closed(s)
  <2>1. Goes(e, ByeSent(u), {}, Bye(e, s))
    BY <1>3 DEF TerminateOnReNegotiating
  <2>. HIDE DEF s
  <2>2. Alike(s, u) /\ u.post = s.post /\ ~ClientOpen(u)
    <3>1. "FAIL" \in Classes
      BY DEF Classes
    <3>. QED  BY <1>1, <3>1, Updates
  <2>. HIDE DEF u
  <2>3. \A m \in Bye(e, s) : m \in Message /\ m.to = Peer(e) /\ ~IsAck(m)
    BY <1>1, Byes
  <2>4. Fine(e, ByeSent(u), Bye(e, s))
    BY <1>1, <1>2, <2>2, <2>3, ByeFine DEF Alike
  <2>. QED  BY <2>1, <2>4 DEF MovesFine
<1>4. CASE ~s.requestor /\ ServerOpen(s)
  <2>. DEFINE a == Answered(s, "FAIL")
              u == CallFails(a)
              out == {AnswerOf(e, s, "FAIL", None)} \cup Bye(e, s)
  <2>1. Goes(e, ByeSent(u), {}, out)
    BY <1>4 DEF TerminateOnReNegotiating
  <2>. HIDE DEF s
  <2>2. "FAIL" \in Classes /\ None \in Nat
    BY DEF Classes, None
  <2>3. Alike(s, a) /\ a.post = s.post /\ ClientOpen(a) = ClientOpen(s)
    BY <1>1, <2>2, Updates
  <2>. HIDE DEF a
  <2>4. Alike(a, u) /\ u.post = a.post /\ u.upd = a.upd
    BY <2>3, Fails DEF Alike
  <2>. HIDE DEF u
  <2>5. ~ClientOpen(u)
    BY <1>4, <2>3, <2>4 DEF ClientOpen, ServerOpen
  <2>6. \A m \in out : m \in Message /\ m.to = Peer(e) /\ ~IsAck(m)
    BY <1>1, <2>2, Answers, Byes
  <2>7. Fine(e, ByeSent(u), out)
    BY <1>1, <1>2, <2>3, <2>4, <2>5, <2>6, ByeFine DEF Alike
  <2>. QED  BY <2>1, <2>7 DEF MovesFine
<1>5. CASE ~s.requestor /\ ~ServerOpen(s)
  <2>. DEFINE u == Moved(s, "TERMINATED")
              t == Posted(u, "TERMINATED")
  <2>1. Goes(e, t, {}, {})
    BY <1>5 DEF TerminateOnReNegotiating
  <2>. HIDE DEF s
  <2>2. /\ u \in SessionType /\ u.st = "TERMINATED" /\ u.told = s.told /\ u.pend = s.pend
        /\ u.leaving = s.leaving /\ u.bye = s.bye /\ u.post = s.post
        /\ u.call = s.call /\ u.upd = s.upd
    <3>1. "TERMINATED" \in SessionStates
      BY DEF SessionStates
    <3>. QED  BY <1>1, <3>1, Fields
  <2>. HIDE DEF u
  <2>3. /\ Alike(u, t) /\ t.call = u.call /\ t.upd = u.upd
        /\ t.post = Append(u.post, [what |-> "TERMINATED", msg |-> NoMessage])
    BY <2>2, Fields
  <2>. HIDE DEF t
  <2>4. Sound(t)
    BY <1>1, <1>2, <2>2, <2>3, Has, EndStep DEF Alike, CanAck, ClientOpen
  <2>5. Fine(e, t, {})
    BY <1>1, <1>2, <2>2, <2>3, <2>4 DEF Fine, Alike, Ending, Forgotten, CanAck, ClientOpen
  <2>. QED  BY <2>1, <2>5 DEF MovesFine
<1>. QED  BY <1>3, <1>4, <1>5

LEMMA TerminateExKeeps ==
    ASSUME IInv, NEW e \in Ends, TerminateEx(e)
    PROVE  Kept
<1>1. ~ep[e].leaving /\ Asks
  BY DEF TerminateEx
<1>2. ~ep[e].pend /\ ~ep[e].bye
  BY <1>1, Active
<1>. SUFFICES MovesFine(e) /\ Aside
  BY GoesFine DEF MovesFine
<1>3. CASE TerminateEstablished(e)
  <2>. DEFINE s == Leaving(ep[e])
  <2>1. Goes(e, ByeSent(s), {}, Bye(e, s)) /\ UNCHANGED broken /\ s.st = "ESTABLISHED"
    BY <1>3 DEF TerminateEstablished
  <2>2. /\ s \in SessionType /\ s.leaving = TRUE /\ s.st = ep[e].st /\ s.told = ep[e].told
        /\ s.pend = ep[e].pend /\ s.bye = ep[e].bye /\ s.post = ep[e].post
        /\ s.call = ep[e].call /\ s.upd = ep[e].upd
    BY Has, Leaves
  <2>. HIDE DEF s
  <2>3. \A m \in Bye(e, s) : m \in Message /\ m.to = Peer(e) /\ ~IsAck(m)
    BY <2>2, Byes
  <2>4. Fine(e, ByeSent(s), Bye(e, s))
    BY <1>2, <2>1, <2>2, <2>3, ByeFine DEF CanAck, ClientOpen
  <2>. QED  BY <1>1, <2>1, <2>4, Counted DEF MovesFine, IInv
<1>4. CASE TerminateReEstablishing(e)
  <2>. DEFINE s == Leaving(ep[e])
              t == [s EXCEPT !.pend = TRUE]
  <2>1. Goes(e, t, {}, {}) /\ UNCHANGED broken /\ ep[e].st = "REESTABLISHING"
    BY <1>4 DEF TerminateReEstablishing
  <2>2. /\ s \in SessionType /\ s.leaving = TRUE /\ s.st = ep[e].st /\ s.told = ep[e].told
        /\ s.bye = ep[e].bye /\ s.post = ep[e].post /\ s.call = ep[e].call /\ s.upd = ep[e].upd
    BY Has, Leaves
  <2>. HIDE DEF s
  <2>3. /\ t \in SessionType /\ t.leaving = s.leaving /\ t.st = s.st /\ t.told = s.told
        /\ t.bye = s.bye /\ t.post = s.post /\ t.call = s.call /\ t.upd = s.upd
    BY <2>2 DEF SessionType
  <2>. HIDE DEF t
  <2>4. Fine(e, t, {})
    BY <1>2, <2>1, <2>2, <2>3, Plain DEF CanAck, ClientOpen, Forgotten, Ended
  <2>. QED  BY <1>1, <2>1, <2>4, Counted DEF MovesFine, IInv
<1>5. CASE \E bye \in BOOLEAN : TerminateReNegotiating(e, bye)
  <2>1. /\ ep[e].st = "RENEGOTIATING" /\ TerminateOnReNegotiating(e) /\ UNCHANGED broken
    BY <1>5 DEF TerminateReNegotiating
  <2>. QED  BY <1>1, <2>1, TerminateReNegotiatingFine, Counted DEF IInv
<1>6. CASE CancelUnanswered(e)
  <2>1. Goes(e, GivenUp(ep[e]), {}, {}) /\ broken' = TRUE /\ ep[e].st = "RENEGOTIATING"
    BY <1>6 DEF CancelUnanswered, GivenUp
  <2>2. Fine(e, GivenUp(ep[e]), {})
    BY <2>1, GivenUpFine DEF Ending, Ended
  <2>. QED  BY <1>1, <2>1, <2>2, Counted DEF MovesFine, IInv
<1>7. CASE CancelRinging(e)
  <2>. DEFINE s == ep[e]
  <2>1. s.st = "RENEGOTIATING" /\ UNCHANGED broken
    BY <1>7 DEF CancelRinging
  <2>a. Aside
    BY <1>1, <2>1, Counted DEF IInv
  <2>2. CASE ClientOpen(s)
    <3>. DEFINE v == [s.upd EXCEPT !.cancelled = TRUE]
                t == [s EXCEPT !.cancel = TRUE, !.upd = v]
                out == {Msg(e, "CANCEL", "REQUEST", None, s.upd.cseq)}
    <3>1. Goes(e, t, {}, out)
      BY <1>7, <2>2 DEF CancelRinging
    <3>2. /\ v \in RequestType /\ v.role = s.upd.role /\ v.open = s.upd.open
          /\ s.upd.cseq \in Nat
      BY Has DEF RequestType
    <3>. HIDE DEF v
    <3>3. Alike(s, t) /\ t.post = s.post /\ t.call = s.call /\ t.upd = v
      BY <3>2, Has DEF Alike, SessionType
    <3>. HIDE DEF t
    <3>4. "CANCEL" \in Methods /\ "REQUEST" \in Classes /\ None \in Nat
      BY DEF Methods, Classes, None
    <3>5. \A m \in out : m \in Message /\ m.to = Peer(e) /\ ~IsAck(m)
      BY <3>2, <3>4, Messages DEF IsAck
    <3>6. Fine(e, t, out)
      BY <1>2, <2>1, <3>2, <3>3, <3>5, Plain
         DEF Alike, CanAck, ClientOpen, Forgotten, Ending, Ended
    <3>. QED  BY <2>a, <3>1, <3>6 DEF MovesFine
  <2>3. CASE ~ClientOpen(s)
    <3>. DEFINE u == Moved(s, "TERMINATED")
                t == Posted(u, "TERMINATED")
    <3>1. Goes(e, t, {}, {})
      BY <1>7, <2>3 DEF CancelRinging
    <3>2. /\ u \in SessionType /\ u.st = "TERMINATED" /\ u.told = s.told /\ u.pend = s.pend
          /\ u.leaving = s.leaving /\ u.bye = s.bye /\ u.post = s.post
          /\ u.call = s.call /\ u.upd = s.upd
      <4>1. "TERMINATED" \in SessionStates
        BY DEF SessionStates
      <4>. QED  BY <4>1, Has, Fields
    <3>. HIDE DEF u
    <3>3. /\ Alike(u, t) /\ t.call = u.call /\ t.upd = u.upd
          /\ t.post = Append(u.post, [what |-> "TERMINATED", msg |-> NoMessage])
      BY <3>2, Fields
    <3>. HIDE DEF t
    <3>4. Sound(t)
      BY <1>2, <2>1, <3>2, <3>3, Has, EndStep DEF Alike, CanAck, ClientOpen
    <3>5. Fine(e, t, {})
      BY <1>2, <3>2, <3>3, <3>4 DEF Fine, Alike, Forgotten, CanAck, ClientOpen
    <3>. QED  BY <2>a, <3>1, <3>5 DEF MovesFine
  <2>. QED  BY <2>2, <2>3
<1>. QED  BY <1>3, <1>4, <1>5, <1>6, <1>7 DEF TerminateEx

-----------------------------------------------------------------------------
(***************************************************************************)
(* Requests.                                                                *)
(***************************************************************************)
LEMMA RefuseFine ==
    ASSUME IInv, NEW e \in Ends, NEW s, Prior(e, s), NEW t, NEW m \in Message, NEW gone,
           m.method # "ACK", Alike(s, t), t.post = s.post, t.upd = s.upd,
           t.call \in Awaiting => s.call \in Awaiting,
           t.call = "REINVITE_2XX_RECEIVED" => s.call = "REINVITE_2XX_RECEIVED",
           Refuse(e, t, m, gone)
    PROVE  MovesFine(e)
<1>. DEFINE x == Reply(e, m, "FAIL")
<1>1. "FAIL" \in Classes
  BY DEF Classes
<1>2. x \in Message /\ x.to = Peer(e) /\ x.method = m.method /\ x.class = "FAIL"
  BY <1>1, Replies
<1>3. Goes(e, t, gone, {x})
  BY DEF Refuse
<1>. HIDE DEF x
<1>4. ~IsAck(x) /\ ~IsAccept(x)
  BY <1>2 DEF IsAck, IsAccept
<1>5. Fine(e, t, {x})
  BY <1>2, <1>4, PlainFrom
     DEF Prior, Alike, Sound, Waiting, CanAck, ClientOpen, Ending, Ended, Forgotten
<1>. QED  BY <1>3, <1>5 DEF MovesFine

LEMMA RenegotiateFine ==
    ASSUME IInv, NEW e \in Ends, NEW s, Prior(e, s), NEW u, NEW m \in Message, NEW gone,
           m.method \in {"INVITE", "UPDATE"}, ~Ended(s), Alike(s, u), u.post = s.post,
           u.call \in Awaiting => s.call \in Awaiting,
           Goes(e, Renegotiates(u, m), gone, {})
    PROVE  MovesFine(e)
<1>. DEFINE r == RequestOf("server", m.method, m.sdp, m.cseq)
            v == [u EXCEPT !.upd = r]
            w == UpdateMedia(v)
            t == Moved(w, "RENEGOTIATING")
<1>1. r \in RequestType /\ r.role = "server"
  BY DEF RequestOf, RequestType, Message, Classes
<1>. HIDE DEF r
<1>2. Alike(u, v) /\ v.post = u.post /\ v.upd = r /\ v.call = u.call
  BY <1>1 DEF Alike, SessionType
<1>3. Renegotiates(u, m) = t
  BY DEF Renegotiates, r
<1>. HIDE DEF v
<1>4. Same(v, w)
  <2>1. "ACK" \in Triggers /\ None \in Nat
    BY DEF Triggers, None
  <2>. QED  BY <1>2, <2>1, Exchanges DEF Alike
<1>. HIDE DEF w
<1>5. /\ t \in SessionType /\ t.st = "RENEGOTIATING" /\ t.told = w.told /\ t.pend = w.pend
      /\ t.leaving = w.leaving /\ t.bye = w.bye /\ t.post = w.post
      /\ t.call = w.call /\ t.upd = w.upd
  <2>1. "RENEGOTIATING" \in SessionStates
    BY DEF SessionStates
  <2>. QED  BY <1>4, <2>1, Fields DEF Same, Alike
<1>. HIDE DEF t
<1>6. ~CanAck(t)
  BY <1>1, <1>2, <1>4, <1>5 DEF Same, CanAck, ClientOpen
<1>7. Fine(e, t, {})
  BY <1>2, <1>4, <1>5, <1>6, PlainFrom
     DEF Prior, Same, Alike, Sound, Waiting, Ending, Ended, Forgotten
<1>. QED  BY <1>3, <1>7 DEF MovesFine

LEMMA HandleInviteFine ==
    ASSUME IInv, NEW e \in Ends, NEW s0, Prior(e, s0), NEW m \in Message, NEW gone,
           m.method = "INVITE", HandleInvite(e, s0, m, gone)
    PROVE  MovesFine(e) /\ Aside
<1>. DEFINE s == [s0 EXCEPT !.call = CallReceived(s0.call, "INVITE")]
            failed == Called(s, "FAIL")
            offered == OaReceived(s, "INVITE", "INVITE", m.sdp)
            o == OaSent(failed, "FAILURE", None)
            r == Restored(o)
<1>1. \/ Refuse(e, s, m, gone) /\ Whole
      \/ Refuse(e, failed, m, gone) /\ Whole
      \/ /\ ~Ended(s) /\ (Whole \/ Breaks)
         /\ Goes(e, Renegotiates(offered, m), gone, {}) \/ Refuse(e, r, m, gone)
  BY DEF HandleInvite
<1>2. s0 \in SessionType /\ s0.call \in CallStates /\ m.sdp \in Nat
  BY DEF Prior, SessionType, Message
<1>3. /\ Alike(s0, s) /\ s.post = s0.post /\ s.upd = s0.upd
      /\ s.call = CallReceived(s0.call, "INVITE")
  BY <1>2, CallTypes, Calls
<1>. HIDE DEF s
<1>4. /\ Alike(s, failed) /\ failed.post = s.post /\ failed.upd = s.upd
      /\ failed.call = CallSent(s.call, "FAIL") /\ s.call \in CallStates
  <2>1. s \in SessionType
    BY <1>3 DEF Alike
  <2>2. s.call \in CallStates
    BY <2>1 DEF SessionType
  <2>. QED  BY <2>1, <2>2, Calls
<1>. HIDE DEF failed
<1>5. "INVITE" \in Triggers /\ "FAILURE" \in Triggers /\ None \in Nat
  BY DEF Triggers, None
<1>6. Same(s, offered)
  BY <1>2, <1>3, <1>5, Exchanges DEF Alike
<1>7. Same(failed, o)
  BY <1>4, <1>5, Exchanges DEF Alike
<1>. HIDE DEF offered, o
<1>8. Same(o, r)
  BY <1>5, <1>7, Exchanges DEF Same, Alike
<1>. HIDE DEF r
<1>9. /\ s.call \in Awaiting => s0.call \in Awaiting
      /\ failed.call \in Awaiting => s0.call \in Awaiting
      /\ s.call = "REINVITE_2XX_RECEIVED" => s0.call = "REINVITE_2XX_RECEIVED"
      /\ failed.call = "REINVITE_2XX_RECEIVED" => s0.call = "REINVITE_2XX_RECEIVED"
  BY <1>2, <1>3, <1>4, CallWaits
<1>10. Aside
  BY <1>1, Counted DEF IInv
<1>11. CASE Refuse(e, s, m, gone)
  BY <1>3, <1>9, <1>10, <1>11, RefuseFine
<1>12. CASE Refuse(e, failed, m, gone)
  <2>1. Alike(s0, failed) /\ failed.post = s0.post /\ failed.upd = s0.upd
    BY <1>3, <1>4 DEF Alike
  <2>. QED  BY <1>9, <1>10, <1>12, <2>1, RefuseFine
<1>13. CASE Refuse(e, r, m, gone)
  <2>1. Alike(s0, r) /\ r.post = s0.post /\ r.upd = s0.upd /\ r.call = failed.call
    BY <1>3, <1>4, <1>7, <1>8 DEF Same, Alike
  <2>. QED  BY <1>9, <1>10, <1>13, <2>1, RefuseFine
<1>14. CASE ~Ended(s) /\ Goes(e, Renegotiates(offered, m), gone, {})
  <2>1. Alike(s0, offered) /\ offered.post = s0.post /\ offered.call = s.call /\ ~Ended(s0)
    BY <1>3, <1>6, <1>14 DEF Same, Alike, Ended
  <2>. QED  BY <1>9, <1>10, <1>14, <2>1, RenegotiateFine
<1>. QED  BY <1>1, <1>11, <1>12, <1>13, <1>14

LEMMA HandleUpdateFine ==
    ASSUME IInv, NEW e \in Ends, NEW s, Prior(e, s), NEW m \in Message, NEW gone,
           m.method = "UPDATE", HandleUpdate(e, s, m, gone)
    PROVE  MovesFine(e) /\ Aside
<1>. DEFINE offered == OaReceived(s, "UPDATE", "UPDATE", m.sdp)
            o == OaSent(s, "FAILURE", None)
            r == Restored(o)
            x == Reply(e, m, "2XX")
<1>1. \/ Refuse(e, s, m, gone) /\ Whole
      \/ Goes(e, s, gone, {x}) /\ (Whole \/ Breaks)
      \/ Goes(e, s, gone, {}) /\ Breaks
      \/ /\ ~Ended(s) /\ Whole
         /\ Goes(e, Renegotiates(offered, m), gone, {}) \/ Refuse(e, r, m, gone)
  BY DEF HandleUpdate
<1>2. s \in SessionType /\ m.sdp \in Nat /\ Alike(s, s)
  BY DEF Prior, Alike, Message
<1>3. "UPDATE" \in Triggers /\ "FAILURE" \in Triggers /\ None \in Nat /\ "2XX" \in Classes
  BY DEF Triggers, None, Classes
<1>4. Same(s, offered) /\ Same(s, o)
  BY <1>2, <1>3, Exchanges
<1>. HIDE DEF offered, o
<1>5. Same(o, r)
  BY <1>3, <1>4, Exchanges DEF Same, Alike
<1>. HIDE DEF r
<1>6. x \in Message /\ x.to = Peer(e) /\ ~IsAck(x) /\ ~IsAccept(x)
  BY <1>3, Replies DEF IsAck, IsAccept
<1>. HIDE DEF x
<1>7. Aside
  BY <1>1, Counted DEF IInv
<1>8. CASE Refuse(e, s, m, gone)
  BY <1>2, <1>7, <1>8, RefuseFine
<1>9. ASSUME NEW out \in {{x}, {}}, Goes(e, s, gone, out) PROVE MovesFine(e)
  <2>1. \A y \in out : y \in Message /\ y.to = Peer(e) /\ ~IsAck(y) /\ ~IsAccept(y)
    BY <1>6
  <2>2. Fine(e, s, out)
    BY <1>2, <2>1, PlainFrom DEF Prior, Sound, Waiting, Ending, Ended
  <2>. QED  BY <1>9, <2>2 DEF MovesFine
<1>10. CASE Refuse(e, r, m, gone)
  <2>1. Alike(s, r) /\ r.post = s.post /\ r.upd = s.upd /\ r.call = s.call
    BY <1>4, <1>5 DEF Same, Alike
  <2>. QED  BY <1>7, <1>10, <2>1, RefuseFine
<1>11. CASE ~Ended(s) /\ Goes(e, Renegotiates(offered, m), gone, {})
  BY <1>4, <1>7, <1>11, RenegotiateFine DEF Same
<1>. QED  BY <1>1, <1>7, <1>8, <1>9, <1>10, <1>11

LEMMA Arrived ==
    ASSUME IInv, NEW e \in Ends, NEW m \in Message
    PROVE  Same(ep[e], Arrives(ep[e], m)) /\ Prior(e, Arrives(ep[e], m))
<1>. DEFINE s == ep[e]
            t == Arrives(s, m)
<1>1. s \in SessionType /\ m.cseq \in Nat
  BY Has DEF Message
<1>. HIDE DEF s
<1>2. Same(s, t)
  BY <1>1 DEF Arrives, Same, Alike, SessionType
<1>. HIDE DEF t
<1>3. Prior(e, t)
  BY <1>2, Itself DEF s, Prior, Same, Alike, Sound, Reported, Waiting, CanAck, ClientOpen
<1>. QED  BY <1>2, <1>3 DEF s, t

LEMMA StayFine ==
    ASSUME IInv, NEW e \in Ends, NEW t, Same(ep[e], t), NEW gone, NEW out,
           \A m \in out : m \in Message /\ m.to = Peer(e) /\ ~IsAck(m) /\ ~IsAccept(m),
           Goes(e, t, gone, out)
    PROVE  MovesFine(e)
<1>1. Fine(e, t, out)
  BY Has, Plain
     DEF Same, Alike, Sound, Waiting, CanAck, ClientOpen, Forgotten, Ending, Ended
<1>. QED  BY <1>1 DEF MovesFine

LEMMA HandleChangeFine ==
    ASSUME IInv, NEW e \in Ends, NEW s, Prior(e, s), NEW m \in Message, NEW gone,
           m.method \in {"INVITE", "UPDATE"}, HandleChange(e, s, m, gone)
    PROVE  MovesFine(e) /\ Aside
BY HandleInviteFine, HandleUpdateFine DEF HandleChange

LEMMA RecvChangeKeeps ==
    ASSUME IInv, NEW e \in Ends, NEW m \in Message, RecvChange(e, m)
    PROVE  Kept
<1>. DEFINE s == Arrives(ep[e], m)
            x == [what |-> "DELAYED", msg |-> m]
            t == [s EXCEPT !.post = Append(s.post, x)]
<1>1. /\ m.method \in {"INVITE", "UPDATE"}
      /\ \/ Refuse(e, ep[e], m, {m}) /\ Whole
         \/ Goes(e, t, {m}, {}) /\ Whole
         \/ HandleChange(e, s, m, {m})
  BY DEF RecvChange
<1>2. Same(ep[e], s) /\ Prior(e, s)
  BY Arrived
<1>. HIDE DEF s
<1>3. CASE Refuse(e, ep[e], m, {m}) /\ Whole
  <2>1. Alike(ep[e], ep[e])
    BY Has DEF Alike
  <2>2. MovesFine(e)
    BY <1>1, <1>3, <2>1, Itself, RefuseFine
  <2>. QED  BY <1>3, <2>2, Counted, GoesFine DEF MovesFine, IInv
<1>4. CASE Goes(e, t, {m}, {}) /\ Whole
  <2>1. s \in SessionType /\ s.post \in Seq(Post) /\ x \in Post
    BY <1>2 DEF Same, Alike, SessionType, Post
  <2>. DEFINE q == Append(s.post, x)
  <2>2. q \in Seq(Post)
    BY <2>1, AppendProperties
  <2>. HIDE DEF x
  <2>3. /\ Alike(s, t) /\ t.post = q /\ t.call = s.call /\ t.upd = s.upd
    <3>. HIDE DEF q
    <3>1. t = [s EXCEPT !.post = q]
      BY DEF q
    <3>. QED  BY <2>1, <2>2, <3>1 DEF Alike, SessionType, Post
  <2>. HIDE DEF t
  <2>4. /\ NoEnd(s.post) => NoEnd(q)
        /\ OneEnd(s.post) => OneEnd(q)
        /\ UpdatePosted(s.post) => UpdatePosted(q)
        /\ DelayedChange(s.post) => DelayedChange(q)
    <3>1. x.what = "DELAYED" /\ x.msg = m
      BY DEF x
    <3>. HIDE DEF q
    <3>. QED  BY <1>1, <2>1, <3>1, AppendPost DEF q
  <2>. HIDE DEF q
  <2>5. Sound(t)
    BY <1>2, <2>3, <2>4 DEF Prior, Alike, Sound, Reported, Waiting, CanAck, ClientOpen
  <2>6. Fine(e, t, {})
    BY <1>2, <2>3, <2>5 DEF Prior, Alike, Fine, Forgotten, Ending, Ended, CanAck, ClientOpen
  <2>. QED  BY <1>4, <2>6, Counted, GoesFine DEF IInv
<1>5. CASE HandleChange(e, s, m, {m})
  BY <1>1, <1>2, <1>5, HandleChangeFine, GoesFine DEF MovesFine
<1>. QED  BY <1>1, <1>3, <1>4, <1>5

\* What happens to a session that gets the ACK it waits for.
LEMMA AcknowledgedFine ==
    ASSUME IInv, NEW e \in Ends, NEW s, NEW m \in Message, ~ep[e].pend,
           Alike(ep[e], s), s.post = ep[e].post, s.upd = ep[e].upd,
           s.call \in Awaiting => ep[e].call \in Awaiting,
           CanAck(s) => CanAck(ep[e])
    PROVE  Fine(e, Acknowledged(s, m), {})
<1>. DEFINE done == UpdateMedia(s)
            t == Acknowledged(s, m)
<1>1. "ACK" \in Triggers /\ None \in Nat /\ "FAIL" \in Classes
      /\ "ESTABLISHED" \in SessionStates /\ "TERMINATED" \in SessionStates
  BY DEF Triggers, None, Classes, SessionStates
<1>2. Same(s, done)
  BY <1>1, Exchanges DEF Alike
<1>3. /\ s.st = "REESTABLISHING" =>
             t = [Posted(Moved(Closed(done), "ESTABLISHED"), "UPDATED") EXCEPT
                      !.ackSdp = @ \/ m.sdp # None]
      /\ s.st = "RENEGOTIATING" => t = Posted(Closed(done), "UPDATED")
      /\ s.st = "TERMINATING" => t = Posted(Moved(done, "TERMINATED"), "TERMINATED")
      /\ s.st \in {"ESTABLISHED", "TERMINATED"} => t = done
  BY DEF Acknowledged
<1>. SUFFICES Fine(e, t, {})
  OBVIOUS
<1>. HIDE DEF t, done
<1>4. /\ done \in SessionType /\ done.st = s.st /\ done.told = ep[e].told /\ ~done.pend
      /\ done.leaving = ep[e].leaving /\ done.bye = ep[e].bye /\ done.post = ep[e].post
      /\ done.call = s.call /\ done.upd = s.upd /\ s.st = ep[e].st
  BY <1>2 DEF Same, Alike
<1>5. /\ Alike(done, Closed(done)) /\ Closed(done).post = done.post
      /\ Closed(done).call = done.call
  BY <1>1, <1>4, Updates
<1>6. done.bye => done.leaving /\ done.call \notin Awaiting
  BY <1>4, Has DEF Sound, Waiting
<1>7. CASE s.st \in {"ESTABLISHED", "TERMINATED"}
  BY <1>3, <1>4, <1>6, <1>7, Plain DEF CanAck, ClientOpen, Forgotten, Ending, Ended
<1>8. CASE s.st = "TERMINATING"
  <2>. DEFINE u == Moved(done, "TERMINATED")
  <2>1. /\ u \in SessionType /\ u.st = "TERMINATED" /\ u.told = done.told /\ u.pend = done.pend
        /\ u.leaving = done.leaving /\ u.bye = done.bye /\ u.post = done.post
        /\ u.call = done.call /\ u.upd = done.upd
    BY <1>1, <1>4, Fields
  <2>2. t = Posted(u, "TERMINATED")
    BY <1>3, <1>8
  <2>. HIDE DEF u
  <2>3. /\ Alike(u, t) /\ t.call = u.call /\ t.upd = u.upd
        /\ t.post = Append(u.post, [what |-> "TERMINATED", msg |-> NoMessage])
    BY <2>1, <2>2, Fields
  <2>4. /\ t \in SessionType /\ t.st = "TERMINATED" /\ t.told = ep[e].told /\ ~t.pend
        /\ t.bye => t.leaving /\ t.call \notin Awaiting
        /\ t.post = Append(ep[e].post, [what |-> "TERMINATED", msg |-> NoMessage])
    BY <1>4, <1>6, <2>1, <2>3 DEF Alike
  <2>5. CanAck(t) => CanAck(ep[e])
    BY <1>4, <2>1, <2>3 DEF CanAck, ClientOpen
  <2>6. Sound(t)
    BY <1>4, <1>8, <2>4, <2>5, Has, EndStep
  <2>. QED  BY <2>4, <2>5, <2>6 DEF Fine, Forgotten
<1>9. ASSUME NEW u \in SessionType, u.st \in {"ESTABLISHED", "RENEGOTIATING"},
             s.st \in {"REESTABLISHING", "RENEGOTIATING"},
             u.told = done.told, ~u.pend, u.leaving = done.leaving, u.bye = done.bye,
             u.call = done.call, ~ClientOpen(u),
             u.post = Append(done.post, [what |-> "UPDATED", msg |-> NoMessage])
      PROVE  Fine(e, u, {})
  <2>1. Sound(u)
    BY <1>4, <1>6, <1>9, Has, UpdateStep
  <2>. QED  BY <1>4, <1>9, <2>1 DEF Fine, Forgotten, Ending, Ended, CanAck
<1>10. CASE s.st = "RENEGOTIATING"
  <2>. DEFINE c == Closed(done)
  <2>1. c \in SessionType /\ Alike(done, c) /\ c.post = done.post /\ c.call = done.call
        /\ ~ClientOpen(c)
    BY <1>1, <1>4, <1>5, Updates DEF Alike
  <2>2. t = Posted(c, "UPDATED")
    BY <1>3, <1>10
  <2>. HIDE DEF c
  <2>3. /\ Alike(c, t) /\ t.call = c.call /\ t.upd = c.upd
        /\ t.post = Append(c.post, [what |-> "UPDATED", msg |-> NoMessage])
    BY <2>1, <2>2, Fields
  <2>. QED  BY <1>4, <1>9, <1>10, <2>1, <2>3 DEF Alike, ClientOpen
<1>11. CASE s.st = "REESTABLISHING"
  <2>. DEFINE c == Closed(done)
              v == Moved(c, "ESTABLISHED")
              p == Posted(v, "UPDATED")
  <2>1. c \in SessionType /\ Alike(done, c) /\ c.post = done.post /\ c.call = done.call
        /\ ~ClientOpen(c)
    BY <1>1, <1>4, <1>5, Updates DEF Alike
  <2>2. t = [p EXCEPT !.ackSdp = p.ackSdp \/ m.sdp # None]
    BY <1>3, <1>11
  <2>. HIDE DEF c
  <2>3. /\ v \in SessionType /\ v.st = "ESTABLISHED" /\ v.told = c.told /\ v.pend = c.pend
        /\ v.leaving = c.leaving /\ v.bye = c.bye /\ v.post = c.post
        /\ v.call = c.call /\ v.upd = c.upd
    BY <1>1, <2>1, Fields
  <2>. HIDE DEF v
  <2>4. /\ Alike(v, p) /\ p.call = v.call /\ p.upd = v.upd
        /\ p.post = Append(v.post, [what |-> "UPDATED", msg |-> NoMessage])
    BY <2>3, Fields
  <2>. HIDE DEF p
  <2>5. Alike(p, t) /\ t.post = p.post /\ t.call = p.call /\ t.upd = p.upd
    <3>1. ASSUME NEW b \in BOOLEAN
          PROVE  LET w == [p EXCEPT !.ackSdp = b]
                 IN  Alike(p, w) /\ w.post = p.post /\ w.call = p.call /\ w.upd = p.upd
      BY <2>4 DEF Alike, SessionType
    <3>. QED  BY <2>2, <3>1
  <2>. QED  BY <1>4, <1>9, <1>11, <2>1, <2>3, <2>4, <2>5 DEF Alike, ClientOpen
<1>12. s.st \in SessionStates
  BY DEF Alike, SessionType
<1>. QED  BY <1>7, <1>8, <1>10, <1>11, <1>12 DEF SessionStates

LEMMA RecvAckKeeps ==
    ASSUME IInv, NEW e \in Ends, NEW m \in net, m.to = e, RecvAck(e, m)
    PROVE  Kept
<1>. DEFINE s0 == [ep[e] EXCEPT !.call = CallReceived(ep[e].call, "ACK")]
            s == OaReceived(s0, "ACK", "ACK", m.sdp)
            u == [s EXCEPT !.pend = FALSE]
<1>1. /\ m.method = "ACK" /\ Whole
      /\ \/ Goes(e, ep[e], {m}, {})
         \/ Goes(e, s0, {m}, {})
         \/ s.pend /\ Goes(e, ByeSent(u), {m}, Bye(e, s))
         \/ ~s.pend /\ Goes(e, Acknowledged(s, m), {m}, {})
  BY DEF RecvAck
<1>2. m \in Message /\ m.sdp \in Nat /\ "ACK" \in Triggers /\ None \in Nat
  BY DEF IInv, TypeOK, Message, Triggers, None
<1>3. /\ Alike(ep[e], s0) /\ s0.post = ep[e].post /\ s0.upd = ep[e].upd
      /\ s0.call = CallReceived(ep[e].call, "ACK")
  BY Has, CallTypes, Calls
<1>. HIDE DEF s0
<1>4. Same(s0, s)
  BY <1>2, <1>3, Exchanges DEF Alike
<1>. HIDE DEF s
<1>5. /\ Alike(ep[e], s) /\ s.post = ep[e].post /\ s.upd = ep[e].upd
      /\ s.call = s0.call /\ s \in SessionType
  BY <1>3, <1>4 DEF Same, Alike
<1>6. /\ s0.call \in Awaiting => ep[e].call \in Awaiting
      /\ s0.call = "REINVITE_2XX_RECEIVED" => ep[e].call = "REINVITE_2XX_RECEIVED"
  BY <1>3, Has, CallWaits
<1>7. (CanAck(s0) => CanAck(ep[e])) /\ (CanAck(s) => CanAck(ep[e]))
  BY <1>3, <1>5, <1>6 DEF CanAck, ClientOpen
<1>8. ~Forgotten(ep[e])
  BY <1>1 DEF IInv, Silent, IsAck
<1>. SUFFICES MovesFine(e)
  BY <1>1, Counted, GoesFine DEF MovesFine, IInv
<1>9. CASE Goes(e, ep[e], {m}, {})
  <2>1. Same(ep[e], ep[e])
    BY Has DEF Same, Alike
  <2>. QED  BY <1>9, <2>1, StayFine
<1>10. CASE Goes(e, s0, {m}, {})
  <2>1. Fine(e, s0, {})
    BY <1>3, <1>6, <1>7, Has, Plain DEF Alike, Sound, Waiting, Forgotten, Ending, Ended
  <2>. QED  BY <1>10, <2>1 DEF MovesFine
<1>11. CASE s.pend /\ Goes(e, ByeSent(u), {m}, Bye(e, s))
  <2>1. /\ u \in SessionType /\ u.st = s.st /\ u.told = s.told /\ ~u.pend
        /\ u.leaving = s.leaving /\ u.bye = s.bye /\ u.post = s.post
        /\ u.call = s.call /\ u.upd = s.upd
    BY <1>5 DEF SessionType
  <2>. HIDE DEF u
  <2>2. ep[e].st # "TERMINATED" /\ u.leaving
    BY <1>5, <1>8, <1>11, <2>1, Has DEF Alike, Forgotten, Ended, Sound, Waiting
  <2>3. \A x \in Bye(e, s) : x \in Message /\ x.to = Peer(e) /\ ~IsAck(x)
    BY <1>5, Byes
  <2>4. u.call = "REINVITE_2XX_RECEIVED" /\ ClientOpen(u) => CanAck(ep[e])
    BY <1>7, <2>1 DEF CanAck, ClientOpen
  <2>5. u.post = ep[e].post /\ u.told = ep[e].told
    BY <1>5, <2>1 DEF Alike
  <2>6. Fine(e, ByeSent(u), Bye(e, s))
    BY <2>1, <2>2, <2>3, <2>4, <2>5, ByeFine
  <2>. QED  BY <1>11, <2>6 DEF MovesFine
<1>12. CASE ~s.pend /\ Goes(e, Acknowledged(s, m), {m}, {})
  <2>1. ~ep[e].pend
    BY <1>5, <1>12 DEF Alike
  <2>2. Fine(e, Acknowledged(s, m), {})
    BY <1>2, <1>5, <1>6, <1>7, <2>1, AcknowledgedFine
  <2>. QED  BY <1>12, <2>2 DEF MovesFine
<1>. QED  BY <1>1, <1>9, <1>10, <1>11, <1>12

LEMMA RecvByeKeeps ==
    ASSUME IInv, NEW e \in Ends, NEW m \in Message, RecvBye(e, m)
    PROVE  Kept
<1>. DEFINE a == Arrives(ep[e], m)
            s == [a EXCEPT !.call = CallReceived(a.call, "BYE")]
            c == Called(s, "2XX")
            ended == [c EXCEPT !.st = "TERMINATED", !.pend = FALSE]
            t == IF s.bye THEN s ELSE IF s.st = "TERMINATED" THEN ended
                 ELSE Posted(ended, "TERMINATED")
            out == {Reply(e, m, "2XX")}
<1>1. Goes(e, t, {m}, out) /\ Whole /\ m.method = "BYE"
  BY DEF RecvBye
<1>2. Same(ep[e], a) /\ a.call \in CallStates
  BY Arrived, Has DEF Same
<1>. HIDE DEF a
<1>3. Alike(a, s) /\ s.post = a.post /\ s.upd = a.upd /\ s.call = CallReceived(a.call, "BYE")
  BY <1>2, CallTypes, Calls DEF Same, Alike
<1>. HIDE DEF s
<1>4. /\ s \in SessionType /\ s.call \in CallStates /\ Alike(ep[e], s)
      /\ s.post = ep[e].post /\ s.upd = ep[e].upd
  BY <1>2, <1>3 DEF Same, Alike, SessionType
<1>5. Alike(s, c) /\ c.post = s.post /\ c.upd = s.upd /\ c.call = CallSent(s.call, "2XX")
  BY <1>4, Calls
<1>. HIDE DEF c
<1>6. /\ s.call \in Awaiting => ep[e].call \in Awaiting
      /\ c.call \in Awaiting => ep[e].call \in Awaiting
      /\ s.call = "REINVITE_2XX_RECEIVED" => ep[e].call = "REINVITE_2XX_RECEIVED"
      /\ c.call = "REINVITE_2XX_RECEIVED" => ep[e].call = "REINVITE_2XX_RECEIVED"
  BY <1>2, <1>3, <1>4, <1>5, CallWaits DEF Same
<1>7. /\ ended \in SessionType /\ ended.st = "TERMINATED" /\ ended.told = c.told /\ ~ended.pend
      /\ ended.leaving = c.leaving /\ ended.bye = c.bye /\ ended.post = c.post
      /\ ended.call = c.call /\ ended.upd = c.upd
  BY <1>5 DEF Alike, SessionType, SessionStates
<1>. HIDE DEF ended
<1>8. \A x \in out : x \in Message /\ x.to = Peer(e) /\ ~IsAck(x) /\ ~IsAccept(x)
  <2>1. "2XX" \in Classes
    BY DEF Classes
  <2>. QED  BY <1>1, <2>1, Replies DEF IsAck, IsAccept
<1>. HIDE DEF out
<1>9. CASE s.bye
  <2>1. t = s
    BY <1>9
  <2>2. CanAck(s) => CanAck(ep[e])
    BY <1>4, <1>6 DEF CanAck, ClientOpen
  <2>3. Fine(e, s, out)
    BY <1>4, <1>6, <1>8, <2>2, Has, Plain DEF Alike, Sound, Waiting, Forgotten, Ending, Ended
  <2>. QED  BY <1>1, <2>1, <2>3, Counted, GoesFine DEF IInv
<1>10. CASE ~s.bye
  <2>1. ended.told = ep[e].told /\ ended.post = ep[e].post /\ ~ended.bye
    BY <1>4, <1>5, <1>7, <1>10 DEF Alike
  <2>2. CanAck(ended) => CanAck(ep[e])
    BY <1>4, <1>5, <1>6, <1>7 DEF CanAck, ClientOpen
  <2>3. CASE s.st = "TERMINATED"
    <3>1. t = ended /\ ep[e].st = "TERMINATED"
      BY <1>4, <1>10, <2>3 DEF Alike
    <3>. HIDE DEF t
    <3>2. Fine(e, ended, out)
      BY <1>7, <1>8, <2>1, <2>2, <3>1, Plain DEF Forgotten
    <3>. QED  BY <1>1, <3>1, <3>2, Counted, GoesFine DEF IInv
  <2>4. CASE s.st # "TERMINATED"
    <3>1. t = Posted(ended, "TERMINATED") /\ ep[e].st # "TERMINATED"
      BY <1>4, <1>10, <2>4 DEF Alike
    <3>. HIDE DEF t
    <3>2. /\ t \in SessionType /\ t.st = "TERMINATED" /\ t.told = ep[e].told /\ ~t.pend /\ ~t.bye
          /\ t.post = Append(ep[e].post, [what |-> "TERMINATED", msg |-> NoMessage])
          /\ t.call = ended.call /\ t.upd = ended.upd
      BY <1>7, <2>1, <3>1, Fields DEF Alike
    <3>3. CanAck(t) => CanAck(ep[e])
      BY <2>2, <3>2 DEF CanAck, ClientOpen
    <3>4. Sound(t)
      BY <3>1, <3>2, <3>3, Has, EndStep
    <3>5. Fine(e, t, out)
      BY <1>8, <3>2, <3>3, <3>4 DEF Fine, Forgotten
    <3>. QED  BY <1>1, <3>5, Counted, GoesFine DEF IInv
  <2>. QED  BY <2>3, <2>4
<1>. QED  BY <1>9, <1>10

LEMMA RecvCancelKeeps ==
    ASSUME IInv, NEW e \in Ends, NEW m \in Message, RecvCancel(e, m)
    PROVE  Kept
<1>. DEFINE s == ep[e]
            p == [s EXCEPT !.pend = FALSE]
            a == Answered(p, "FAIL")
            c == Called(a, "FAIL")
            r == Restored(c)
            t == Moved(r, "ESTABLISHED")
            x == Reply(e, m, "2XX")
            y == AnswerOf(e, s, "FAIL", None)
<1>1. /\ m.method = "CANCEL" /\ Whole
      /\ \/ s.st = "RENEGOTIATING" /\ ServerOpen(s) /\ Goes(e, t, {m}, {x, y})
         \/ Goes(e, s, {m}, {x})
         \/ Refuse(e, s, m, {m})
  BY DEF RecvCancel
<1>2. /\ "2XX" \in Classes /\ "FAIL" \in Classes /\ None \in Nat /\ "ACK" \in Triggers
      /\ "ESTABLISHED" \in SessionStates
  BY DEF Classes, None, Triggers, SessionStates
<1>3. x \in Message /\ x.to = Peer(e) /\ ~IsAck(x) /\ ~IsAccept(x)
  BY <1>1, <1>2, Replies DEF IsAck, IsAccept
<1>4. y \in Message /\ y.to = Peer(e) /\ ~IsAck(y) /\ ~IsAccept(y)
  BY <1>2, Has, Answers DEF IsAccept
<1>5. Same(s, s) /\ Alike(s, s)
  BY Has DEF Same, Alike
<1>. HIDE DEF x, y
<1>. SUFFICES MovesFine(e)
  BY <1>1, Counted, GoesFine DEF MovesFine, IInv
<1>6. CASE s.st = "RENEGOTIATING" /\ ServerOpen(s) /\ Goes(e, t, {m}, {x, y})
  <2>1. /\ p \in SessionType /\ p.told = s.told /\ ~p.pend /\ p.leaving = s.leaving
        /\ p.bye = s.bye /\ p.post = s.post /\ p.call = s.call /\ p.upd = s.upd
    BY Has DEF SessionType
  <2>. HIDE DEF p
  <2>2. Alike(p, a) /\ a.post = p.post /\ a.call = p.call /\ ClientOpen(a) = ClientOpen(p)
    BY <1>2, <2>1, Updates
  <2>. HIDE DEF a
  <2>3. a \in SessionType /\ a.call \in CallStates
    BY <2>2 DEF Alike, SessionType
  <2>4. Alike(a, c) /\ c.post = a.post /\ c.upd = a.upd /\ c.call = CallSent(a.call, "FAIL")
    BY <2>3, Calls
  <2>. HIDE DEF c
  <2>5. Same(c, r)
    BY <1>2, <2>4, Exchanges DEF Alike
  <2>. HIDE DEF r
  <2>6. /\ t \in SessionType /\ t.st = "ESTABLISHED" /\ t.told = r.told /\ t.pend = r.pend
        /\ t.leaving = r.leaving /\ t.bye = r.bye /\ t.post = r.post
        /\ t.call = r.call /\ t.upd = r.upd
    BY <1>2, <2>5, Fields DEF Same, Alike
  <2>. HIDE DEF t
  <2>7. /\ t.told = s.told /\ ~t.pend /\ t.leaving = s.leaving /\ t.bye = s.bye
        /\ t.post = s.post /\ t.call = CallSent(a.call, "FAIL") /\ a.call = s.call
        /\ t.upd = a.upd
    BY <2>1, <2>2, <2>4, <2>5, <2>6 DEF Same, Alike
  <2>8. ~CanAck(t)
    <3>1. ~ClientOpen(p)
      BY <1>6, <2>1 DEF ClientOpen, ServerOpen
    <3>. QED  BY <2>2, <2>7, <3>1 DEF CanAck, ClientOpen
  <2>9. t.bye => t.leaving /\ t.call \notin Awaiting
    <3>1. t.call \in Awaiting => s.call \in Awaiting
      BY <2>3, <2>7, CallWaits
    <3>2. s.bye => s.leaving /\ s.call \notin Awaiting
      BY Has DEF Sound, Waiting
    <3>. QED  BY <2>7, <3>1, <3>2
  <2>10. Fine(e, t, {x, y})
    BY <1>3, <1>4, <1>6, <2>6, <2>7, <2>8, <2>9, Plain DEF Forgotten, Ending, Ended
  <2>. QED  BY <1>6, <2>10 DEF MovesFine
<1>7. CASE Goes(e, s, {m}, {x})
  BY <1>3, <1>5, <1>7, StayFine
<1>8. CASE Refuse(e, s, m, {m})
  BY <1>1, <1>5, <1>8, Itself, RefuseFine
<1>. QED  BY <1>1, <1>6, <1>7, <1>8

-----------------------------------------------------------------------------
(***************************************************************************)
(* Responses.                                                               *)
(***************************************************************************)
LEMMA RecvUnchangedKeeps ==
    ASSUME IInv, NEW e \in Ends, NEW m \in Message,
           RecvUnawaited(e, m) \/ RecvRinging(e, m) \/ RecvCancelAnswer(e, m)
    PROVE  Kept
<1>. SUFFICES MovesFine(e) /\ Whole
  BY Counted, GoesFine DEF MovesFine, IInv
<1>1. Same(ep[e], ep[e])
  BY Has DEF Same, Alike
<1>2. ASSUME Goes(e, ep[e], {m}, {}) PROVE MovesFine(e)
  BY <1>1, <1>2, StayFine
<1>3. CASE RecvUnawaited(e, m)
  BY <1>2, <1>3 DEF RecvUnawaited
<1>4. CASE RecvRinging(e, m)
  <2>. DEFINE t == [ep[e] EXCEPT !.call = CallReceived(ep[e].call, "1XX")]
  <2>1. Whole /\ (Goes(e, ep[e], {m}, {}) \/ Goes(e, t, {m}, {}))
    BY <1>4 DEF RecvRinging
  <2>2. /\ Alike(ep[e], t) /\ t.post = ep[e].post /\ t.upd = ep[e].upd
        /\ t.call = CallReceived(ep[e].call, "1XX")
    BY Has, CallTypes, Calls
  <2>. HIDE DEF t
  <2>3. (t.call \in Awaiting => ep[e].call \in Awaiting) /\ (CanAck(t) => CanAck(ep[e]))
    BY <2>2, Has, CallWaits DEF CanAck, ClientOpen
  <2>4. Fine(e, t, {})
    BY <2>2, <2>3, Has, Plain DEF Alike, Sound, Waiting, Forgotten, Ending, Ended
  <2>. QED  BY <1>2, <2>1, <2>4 DEF MovesFine
<1>5. CASE RecvCancelAnswer(e, m)
  <2>. DEFINE t == [ep[e] EXCEPT !.cancel = FALSE]
  <2>1. Whole /\ Goes(e, t, {m}, {})
    BY <1>5 DEF RecvCancelAnswer
  <2>2. Same(ep[e], t)
    BY Has DEF Same, Alike, SessionType
  <2>. HIDE DEF t
  <2>. QED  BY <2>1, <2>2, StayFine
<1>. QED  BY <1>3, <1>4, <1>5

LEMMA RecvAfterEndKeeps ==
    ASSUME IInv, NEW e \in Ends, NEW m \in net, m.to = e, RecvAfterEnd(e, m)
    PROVE  Kept
<1>. DEFINE s == Answered(ep[e], m.class)
            r == Restored(s)
            x == Msg(e, "ACK", "REQUEST", None, m.cseq)
            out == IF m.class = "2XX" THEN {x} ELSE {}
<1>1. /\ Whole /\ m.class \in {"2XX", "FAIL"} /\ ep[e].st = "TERMINATED"
      /\ \/ m.method = "INVITE" /\ Goes(e, r, {m}, out)
         \/ Goes(e, s, {m}, {})
  BY DEF RecvAfterEnd
<1>2. /\ m \in Message /\ m.cseq \in Nat /\ None \in Nat /\ m.class \in Classes
      /\ "ACK" \in Methods /\ "ACK" \in Triggers /\ "REQUEST" \in Classes
  BY <1>1 DEF IInv, TypeOK, Message, None, Classes, Methods, Triggers
<1>3. /\ Alike(ep[e], s) /\ s.post = ep[e].post /\ s.call = ep[e].call
      /\ ClientOpen(s) = ClientOpen(ep[e])
  BY <1>2, Has, Updates
<1>. HIDE DEF s
<1>4. Same(s, r)
  BY <1>2, <1>3, Exchanges DEF Alike
<1>. HIDE DEF r
<1>5. CanAck(s) = CanAck(ep[e]) /\ CanAck(r) = CanAck(s)
  BY <1>3, <1>4 DEF Same, CanAck, ClientOpen
<1>6. ASSUME NEW t \in {r, s}
      PROVE  /\ t \in SessionType /\ Sound(t) /\ t.st = "TERMINATED"
             /\ Forgotten(t) => Forgotten(ep[e])
             /\ CanAck(t) => CanAck(ep[e])
  <2>1. /\ t \in SessionType /\ t.st = ep[e].st /\ t.told = ep[e].told /\ t.pend = ep[e].pend
        /\ t.leaving = ep[e].leaving /\ t.bye = ep[e].bye /\ t.post = ep[e].post
        /\ t.call = ep[e].call
    BY <1>3, <1>4 DEF Same, Alike
  <2>2. CanAck(t) => CanAck(ep[e])
    BY <1>5
  <2>3. Sound(t)
    BY <2>1, <2>2, Has, SilentStep DEF Sound, Waiting
  <2>. QED  BY <1>1, <2>1, <2>2, <2>3 DEF Forgotten, Ended
<1>7. x \in Message /\ x.to = Peer(e) /\ ~IsAccept(x)
  BY <1>2, Messages DEF IsAccept
<1>. HIDE DEF x
<1>8. CASE m.method = "INVITE" /\ Goes(e, r, {m}, out)
  <2>1. (\E y \in out : IsAck(y)) => AcceptedTo(e)
    BY <1>1, <1>8 DEF AcceptedTo, IsAccept
  <2>2. Fine(e, r, out)
    BY <1>6, <1>7, <2>1 DEF Fine
  <2>. QED  BY <1>1, <1>8, <2>2, Counted, GoesFine DEF IInv
<1>9. CASE Goes(e, s, {m}, {})
  <2>1. Fine(e, s, {})
    BY <1>6 DEF Fine
  <2>. QED  BY <1>1, <1>9, <2>1, Counted, GoesFine DEF IInv
<1>. QED  BY <1>1, <1>8, <1>9

\* A successful change is reported; the ACK of a re-INVITE is due then.
LEMMA ReportFine ==
    ASSUME IInv, NEW e \in Ends, NEW u \in SessionType,
           ep[e].st = "RENEGOTIATING", u.st = "ESTABLISHED",
           u.told = ep[e].told, u.pend = ep[e].pend, u.leaving = ep[e].leaving,
           u.bye = ep[e].bye, u.post = ep[e].post, u.call \in Awaiting => ep[e].call \in Awaiting,
           CanAck(u) => CanAck(ep[e]) \/ AcceptedTo(e)
    PROVE  Fine(e, Posted(u, "UPDATED"), {})
<1>. DEFINE t == Posted(u, "UPDATED")
<1>1. /\ Alike(u, t) /\ t.call = u.call /\ t.upd = u.upd
      /\ t.post = Append(u.post, [what |-> "UPDATED", msg |-> NoMessage])
  BY Fields
<1>. HIDE DEF t
<1>2. /\ t \in SessionType /\ t.st = "ESTABLISHED" /\ t.told = ep[e].told
      /\ t.pend = ep[e].pend /\ t.leaving = ep[e].leaving /\ t.bye = ep[e].bye
      /\ t.post = Append(ep[e].post, [what |-> "UPDATED", msg |-> NoMessage])
      /\ t.call = u.call
  BY <1>1 DEF Alike
<1>3. t.pend => t.leaving /\ ~t.bye
  BY <1>2, Has DEF Sound, Waiting
<1>4. t.bye => t.leaving /\ t.call \notin Awaiting
  BY <1>2, Has DEF Sound, Waiting
<1>5. Sound(t)
  BY <1>2, <1>3, <1>4, Has, UpdateStep
<1>6. CanAck(t) => CanAck(ep[e]) \/ AcceptedTo(e)
  BY <1>1 DEF CanAck, ClientOpen
<1>7. Fine(e, t, {})
  BY <1>2, <1>5, <1>6 DEF Fine, Forgotten, Ending, Ended
<1>. QED  BY <1>7 DEF t

LEMMA InviteSucceedsKeeps ==
    ASSUME IInv, NEW e \in Ends, NEW m \in net, m.to = e, InviteSucceeds(e, m)
    PROVE  Kept
<1>. DEFINE a == Answered(ep[e], "2XX")
            s == [a EXCEPT !.call = CallReceived(a.call, "2XX"), !.requestor = FALSE]
            o == OaReceived(s, "INVITE", "SUCCESS", m.sdp)
            d == UpdateMedia(o)
            u == Moved(d, "ESTABLISHED")
<1>1. /\ m.method = "INVITE" /\ m.class = "2XX" /\ Whole /\ s.st = "RENEGOTIATING"
      /\ Goes(e, Posted(u, "UPDATED"), {m}, {})
  BY DEF InviteSucceeds
<1>2. /\ m \in Message /\ m.sdp \in Nat /\ "2XX" \in Classes /\ "SUCCESS" \in Triggers
      /\ "ESTABLISHED" \in SessionStates
  BY DEF IInv, TypeOK, Message, Classes, Triggers, SessionStates
<1>3. Alike(ep[e], a) /\ a.post = ep[e].post /\ a.call = ep[e].call
  BY <1>2, Has, Updates
<1>. HIDE DEF a
<1>4. CallReceived(a.call, "2XX") \in CallStates
      /\ (CallReceived(a.call, "2XX") \in Awaiting => ep[e].call \in Awaiting)
  BY <1>3, Has, CallTypes, CallWaits
<1>5. /\ Alike(a, s) /\ s.post = a.post /\ s.call = CallReceived(a.call, "2XX")
  BY <1>3, <1>4 DEF Alike, SessionType
<1>. HIDE DEF s
<1>6. Same(s, o)
  BY <1>2, <1>5, Exchanges DEF Alike
<1>. HIDE DEF o
<1>7. Same(o, d)
  BY <1>2, <1>6, Exchanges DEF Same, Alike
<1>. HIDE DEF d
<1>8. /\ u \in SessionType /\ u.st = "ESTABLISHED" /\ u.told = d.told /\ u.pend = d.pend
      /\ u.leaving = d.leaving /\ u.bye = d.bye /\ u.post = d.post
      /\ u.call = d.call /\ u.upd = d.upd
  BY <1>2, <1>7, Fields DEF Same, Alike
<1>. HIDE DEF u
<1>9. AcceptedTo(e)
  BY <1>1 DEF AcceptedTo, IsAccept
<1>10. ep[e].st = "RENEGOTIATING"
  BY <1>1, <1>3, <1>5 DEF Alike
<1>11. /\ u.told = ep[e].told /\ u.pend = ep[e].pend /\ u.leaving = ep[e].leaving
       /\ u.bye = ep[e].bye /\ u.post = ep[e].post
       /\ u.call \in Awaiting => ep[e].call \in Awaiting
  BY <1>3, <1>4, <1>5, <1>6, <1>7, <1>8 DEF Same, Alike
<1>12. Fine(e, Posted(u, "UPDATED"), {})
  BY <1>8, <1>9, <1>10, <1>11, ReportFine
<1>. QED  BY <1>1, <1>12, Counted, GoesFine DEF IInv

LEMMA UpdateSucceedsKeeps ==
    ASSUME IInv, NEW e \in Ends, NEW m \in Message, UpdateSucceeds(e, m)
    PROVE  Kept
<1>. DEFINE a == Answered(ep[e], "2XX")
            s == [a EXCEPT !.requestor = FALSE]
            o == OaReceived(s, "UPDATE", "SUCCESS", m.sdp)
            d == UpdateMedia(o)
            v == Moved(d, "ESTABLISHED")
            u == Closed(v)
<1>1. /\ Whole /\ s.st = "RENEGOTIATING" /\ Goes(e, Posted(u, "UPDATED"), {m}, {})
  BY DEF UpdateSucceeds
<1>2. /\ m.sdp \in Nat /\ "2XX" \in Classes /\ "SUCCESS" \in Triggers
      /\ "ESTABLISHED" \in SessionStates
  BY DEF Message, Classes, Triggers, SessionStates
<1>3. Alike(ep[e], a) /\ a.post = ep[e].post /\ a.call = ep[e].call
  BY <1>2, Has, Updates
<1>. HIDE DEF a
<1>4. Same(a, s)
  BY <1>3 DEF Same, Alike, SessionType
<1>. HIDE DEF s
<1>5. Same(s, o)
  BY <1>2, <1>4, Exchanges DEF Same, Alike
<1>. HIDE DEF o
<1>6. Same(o, d)
  BY <1>2, <1>5, Exchanges DEF Same, Alike
<1>. HIDE DEF d
<1>7. /\ v \in SessionType /\ v.st = "ESTABLISHED" /\ v.told = d.told /\ v.pend = d.pend
      /\ v.leaving = d.leaving /\ v.bye = d.bye /\ v.post = d.post /\ v.call = d.call
  BY <1>2, <1>6, Fields DEF Same, Alike
<1>. HIDE DEF v
<1>8. Alike(v, u) /\ u.post = v.post /\ u.call = v.call /\ ~ClientOpen(u)
  BY <1>2, <1>7, Updates
<1>. HIDE DEF u
<1>9. ep[e].st = "RENEGOTIATING"
  BY <1>1, <1>3, <1>4 DEF Same, Alike
<1>10. /\ u \in SessionType /\ u.st = "ESTABLISHED" /\ u.told = ep[e].told
       /\ u.pend = ep[e].pend /\ u.leaving = ep[e].leaving /\ u.bye = ep[e].bye
       /\ u.post = ep[e].post /\ u.call = ep[e].call /\ ~CanAck(u)
  BY <1>3, <1>4, <1>5, <1>6, <1>7, <1>8 DEF Same, Alike, CanAck
<1>11. Fine(e, Posted(u, "UPDATED"), {})
  BY <1>9, <1>10, ReportFine
<1>. QED  BY <1>1, <1>11, Counted, GoesFine DEF IInv

LEMMA ChangeFailsKeeps ==
    ASSUME IInv, NEW e \in Ends, NEW m \in Message, ChangeFails(e, m)
    PROVE  Kept
<1>. DEFINE a == Answered(ep[e], "FAIL")
            call == IF m.method = "INVITE" THEN CallReceived(a.call, "FAIL") ELSE a.call
            s == [a EXCEPT !.call = call, !.requestor = FALSE]
            o == OaReceived(s, m.method, "FAILURE", m.sdp)
            d == UpdateMedia(o)
            r == Restored(d)
            v == Moved(r, "ESTABLISHED")
            u == Closed(v)
<1>1. /\ Whole /\ s.st = "RENEGOTIATING" /\ Goes(e, u, {m}, {})
  BY DEF ChangeFails
<1>2. /\ m.sdp \in Nat /\ "FAIL" \in Classes /\ "FAILURE" \in Triggers
      /\ "ESTABLISHED" \in SessionStates
  BY DEF Message, Classes, Triggers, SessionStates
<1>3. Alike(ep[e], a) /\ a.post = ep[e].post /\ a.call = ep[e].call
  BY <1>2, Has, Updates
<1>. HIDE DEF a
<1>4. call \in CallStates /\ (call \in Awaiting => ep[e].call \in Awaiting)
  BY <1>3, Has, CallTypes, CallWaits
<1>. HIDE DEF call
<1>5. Alike(a, s) /\ s.post = a.post /\ s.call = call
  BY <1>3, <1>4 DEF Alike, SessionType
<1>. HIDE DEF s
<1>6. Same(s, o)
  BY <1>2, <1>5, Exchanges DEF Alike
<1>. HIDE DEF o
<1>7. Same(o, d)
  BY <1>2, <1>6, Exchanges DEF Same, Alike
<1>. HIDE DEF d
<1>8. Same(d, r)
  BY <1>2, <1>7, Exchanges DEF Same, Alike
<1>. HIDE DEF r
<1>9. /\ v \in SessionType /\ v.st = "ESTABLISHED" /\ v.told = r.told /\ v.pend = r.pend
      /\ v.leaving = r.leaving /\ v.bye = r.bye /\ v.post = r.post /\ v.call = r.call
  BY <1>2, <1>8, Fields DEF Same, Alike
<1>. HIDE DEF v
<1>10. Alike(v, u) /\ u.post = v.post /\ u.call = v.call /\ ~ClientOpen(u)
  BY <1>2, <1>9, Updates
<1>. HIDE DEF u
<1>11. ep[e].st = "RENEGOTIATING"
  BY <1>1, <1>3, <1>5 DEF Alike
<1>12. /\ u \in SessionType /\ u.st = "ESTABLISHED" /\ u.told = ep[e].told
       /\ u.pend = ep[e].pend /\ u.leaving = ep[e].leaving /\ u.bye = ep[e].bye
       /\ u.post = ep[e].post /\ u.call = call
  BY <1>3, <1>5, <1>6, <1>7, <1>8, <1>9, <1>10 DEF Same, Alike
<1>13. Fine(e, u, {})
  BY <1>4, <1>10, <1>11, <1>12, BackFine DEF Ending, Ended
<1>. QED  BY <1>1, <1>13, Counted, GoesFine DEF IInv

\* The end of a session that a step has left as s.
LEMMA EndsNowFine ==
    ASSUME IInv, NEW e \in Ends, NEW s \in SessionType,
           s.st = ep[e].st, s.told = ep[e].told, s.post = ep[e].post,
           s.pend => s.leaving /\ ~s.bye, s.bye => s.leaving /\ s.call \notin Awaiting,
           CanAck(s) => CanAck(ep[e]),
           s.pend => ep[e].pend /\ net = {} /\ ~CanAck(ep[Peer(e)])
    PROVE  Fine(e, EndsNow(s), {})
<1>1. CASE s.st = "TERMINATED"
  <2>1. EndsNow(s) = s
    BY <1>1 DEF EndsNow
  <2>. QED  BY <1>1, <2>1, Plain DEF Forgotten, Ended
<1>2. CASE s.st # "TERMINATED"
  <2>. DEFINE u == Moved(s, "TERMINATED")
              t == Posted(u, "TERMINATED")
  <2>1. EndsNow(s) = t
    BY <1>2 DEF EndsNow
  <2>2. /\ u \in SessionType /\ u.st = "TERMINATED" /\ u.told = s.told /\ u.pend = s.pend
        /\ u.leaving = s.leaving /\ u.bye = s.bye /\ u.post = s.post
        /\ u.call = s.call /\ u.upd = s.upd
    <3>1. "TERMINATED" \in SessionStates
      BY DEF SessionStates
    <3>. QED  BY <3>1, Fields
  <2>. HIDE DEF u
  <2>3. /\ Alike(u, t) /\ t.call = u.call /\ t.upd = u.upd
        /\ t.post = Append(u.post, [what |-> "TERMINATED", msg |-> NoMessage])
    BY <2>2, Fields
  <2>. HIDE DEF t
  <2>4. CanAck(t) => CanAck(ep[e])
    BY <2>2, <2>3 DEF CanAck, ClientOpen
  <2>5. /\ t \in SessionType /\ t.st = "TERMINATED" /\ t.told = ep[e].told /\ t.pend = s.pend
        /\ t.leaving = s.leaving /\ t.bye = s.bye /\ t.call = s.call
        /\ t.post = Append(ep[e].post, [what |-> "TERMINATED", msg |-> NoMessage])
    BY <2>2, <2>3 DEF Alike
  <2>6. Sound(t)
    BY <1>2, <2>4, <2>5, Has, EndStep
  <2>7. Fine(e, t, {})
    BY <2>4, <2>5, <2>6 DEF Fine, Forgotten
  <2>. QED  BY <2>1, <2>7
<1>. QED  BY <1>1, <1>2

LEMMA Unbyed ==
    ASSUME IInv, NEW e \in Ends, NEW call \in CallStates, ep[e].bye,
           call = ep[e].call \/ \E x : call = CallReceived(ep[e].call, x)
    PROVE  Fine(e, EndsNow([ep[e] EXCEPT !.call = call, !.bye = FALSE]), {})
<1>. DEFINE s == [ep[e] EXCEPT !.call = call, !.bye = FALSE]
<1>1. /\ s \in SessionType /\ s.st = ep[e].st /\ s.told = ep[e].told /\ s.pend = ep[e].pend
      /\ s.leaving = ep[e].leaving /\ ~s.bye /\ s.post = ep[e].post
      /\ s.call = call /\ s.upd = ep[e].upd
  BY Has DEF SessionType
<1>. HIDE DEF s
<1>2. ~s.pend /\ ep[e].call \notin Awaiting
  BY <1>1, Has DEF Sound, Waiting
<1>3. call = "REINVITE_2XX_RECEIVED" => ep[e].call = "REINVITE_2XX_RECEIVED"
  BY <1>2, Has, CallWaits
<1>4. CanAck(s) => CanAck(ep[e])
  BY <1>1, <1>3 DEF CanAck, ClientOpen
<1>5. Fine(e, EndsNow(s), {})
  BY <1>1, <1>2, <1>4, EndsNowFine
<1>. QED  BY <1>5 DEF s

LEMMA RecvByeAnswerKeeps ==
    ASSUME IInv, NEW e \in Ends, NEW m \in Message, RecvByeAnswer(e, m)
    PROVE  Kept
<1>. DEFINE call == CallReceived(ep[e].call, m.class)
            s == [ep[e] EXCEPT !.call = call, !.bye = FALSE]
<1>1. /\ Whole /\ ep[e].bye
      /\ Goes(e, ep[e], {m}, {}) \/ Goes(e, EndsNow(s), {m}, {})
  BY DEF RecvByeAnswer
<1>2. CASE Goes(e, ep[e], {m}, {})
  <2>1. Same(ep[e], ep[e])
    BY Has DEF Same, Alike
  <2>. QED  BY <1>1, <1>2, <2>1, StayFine, Counted, GoesFine DEF MovesFine, IInv
<1>3. CASE Goes(e, EndsNow(s), {m}, {})
  <2>1. call \in CallStates
    BY Has, CallTypes
  <2>2. Fine(e, EndsNow(s), {})
    BY <1>1, <2>1, Unbyed
  <2>. QED  BY <1>1, <1>3, <2>2, Counted, GoesFine DEF IInv
<1>. QED  BY <1>1, <1>2, <1>3

-----------------------------------------------------------------------------
(***************************************************************************)
(* Timeouts.                                                                *)
(***************************************************************************)
LEMMA TimeoutKeeps ==
    ASSUME IInv, NEW e \in Ends, Timeout(e)
    PROVE  Kept
<1>1. net = {} /\ \A f \in Ends : ep[f].post = << >>
  BY DEF Timeout
<1>2. ~CanAck(ep[Peer(e)])
  BY <1>1, Peers, Has DEF Sound, Waiting, UpdatePosted
<1>3. ASSUME ~Ended(ep[e]), ~Ending(ep[e]), Goes(e, GivenUp(ep[e]), {}, {}), Breaks
      PROVE  Kept
  BY <1>3, GivenUpFine, Counted, GoesFine DEF IInv
<1>4. CASE InviteTimeout(e)
  BY <1>3, <1>4 DEF InviteTimeout, Ending, Ended
<1>5. CASE UpdateTimeout(e)
  BY <1>3, <1>5 DEF UpdateTimeout, Ending, Ended
<1>6. CASE AckTimeout(e)
  <2>1. ep[e].st = "REESTABLISHING" /\ Breaks
    BY <1>6 DEF AckTimeout
  <2>2. CASE ~ep[e].pend
    BY <1>3, <1>6, <2>1, <2>2 DEF AckTimeout, Ending, Ended
  <2>3. CASE ep[e].pend
    <3>. DEFINE p == [ep[e] EXCEPT !.pend = FALSE]
                c == Closed(p)
                u == Restored(c)
    <3>1. Goes(e, ByeSent(u), {}, Bye(e, u))
      BY <1>6, <2>3 DEF AckTimeout
    <3>2. "FAIL" \in Classes /\ "FAILURE" \in Triggers /\ None \in Nat
      BY DEF Classes, Triggers, None
    <3>3. /\ p \in SessionType /\ p.told = ep[e].told /\ ~p.pend
          /\ p.leaving = ep[e].leaving /\ p.post = ep[e].post
      BY Has DEF SessionType
    <3>. HIDE DEF p
    <3>4. Alike(p, c) /\ c.post = p.post /\ ~ClientOpen(c)
      BY <3>2, <3>3, Updates
    <3>. HIDE DEF c
    <3>5. Same(c, u)
      BY <3>2, <3>4, Exchanges DEF Alike
    <3>. HIDE DEF u
    <3>6. /\ u \in SessionType /\ u.told = ep[e].told /\ ~u.pend /\ u.leaving
          /\ u.post = ep[e].post /\ ~ClientOpen(u)
      BY <2>3, <3>3, <3>4, <3>5, Has DEF Same, Alike, ClientOpen, Sound, Waiting
    <3>7. \A m \in Bye(e, u) : m \in Message /\ m.to = Peer(e) /\ ~IsAck(m)
      BY <3>6, Byes
    <3>8. Fine(e, ByeSent(u), Bye(e, u))
      BY <2>1, <3>6, <3>7, ByeFine
    <3>. QED  BY <2>1, <3>1, <3>8, Counted, GoesFine DEF IInv
  <2>. QED  BY <2>2, <2>3
<1>7. CASE ByeTimeout(e)
  <2>. DEFINE s == [ep[e] EXCEPT !.call = ep[e].call, !.bye = FALSE]
  <2>1. Whole /\ ep[e].bye /\ Goes(e, EndsNow([ep[e] EXCEPT !.bye = FALSE]), {}, {})
    BY <1>7 DEF ByeTimeout
  <2>2. s = [ep[e] EXCEPT !.bye = FALSE]
    BY Has DEF SessionType
  <2>3. Fine(e, EndsNow(s), {})
    BY <2>1, Has, Unbyed
  <2>. HIDE DEF s
  <2>. QED  BY <2>1, <2>2, <2>3, Counted, GoesFine DEF IInv
<1>8. CASE CancelTimeout(e)
  <2>. DEFINE s == [ep[e] EXCEPT !.cancel = FALSE]
  <2>1. Breaks /\ (Goes(e, s, {}, {}) \/ Goes(e, EndsNow(s), {}, {}))
    BY <1>8 DEF CancelTimeout
  <2>2. Same(ep[e], s)
    BY Has DEF Same, Alike, SessionType
  <2>. HIDE DEF s
  <2>3. CASE Goes(e, s, {}, {})
    BY <2>1, <2>2, <2>3, StayFine, Counted, GoesFine DEF MovesFine, IInv
  <2>4. CASE Goes(e, EndsNow(s), {}, {})
    <3>1. /\ s \in SessionType /\ s.st = ep[e].st /\ s.told = ep[e].told /\ s.post = ep[e].post
          /\ s.pend = ep[e].pend /\ s.leaving = ep[e].leaving /\ s.bye = ep[e].bye
          /\ s.call = ep[e].call
      BY <2>2 DEF Same, Alike
    <3>2. CanAck(s) => CanAck(ep[e])
      BY <2>2 DEF Same, CanAck, ClientOpen
    <3>3. (s.pend => s.leaving /\ ~s.bye) /\ (s.bye => s.leaving /\ s.call \notin Awaiting)
      BY <3>1, Has DEF Sound, Waiting
    <3>4. Fine(e, EndsNow(s), {})
      BY <1>1, <1>2, <3>1, <3>2, <3>3, EndsNowFine
    <3>. QED  BY <2>1, <2>4, <3>4, Counted, GoesFine DEF IInv
  <2>. QED  BY <2>1, <2>3, <2>4
<1>. QED  BY <1>4, <1>5, <1>6, <1>7, <1>8 DEF Timeout

-----------------------------------------------------------------------------
(***************************************************************************)
(* What is posted is dispatched.                                             *)
(***************************************************************************)
LEMMA TakenFacts ==
    ASSUME IInv, NEW e \in Ends, ep[e].post # << >>, NEW told \in BOOLEAN
    PROVE  /\ LET t == [Taken(ep[e]) EXCEPT !.ackSdp = FALSE]
              IN  /\ Alike(ep[e], t) /\ t.post = Tail(ep[e].post) /\ t.call = ep[e].call
                  /\ t.upd = ep[e].upd /\ t.oa = ep[e].oa
           /\ LET t == [Taken(ep[e]) EXCEPT !.told = told]
              IN  /\ t \in SessionType /\ t.st = ep[e].st /\ t.told = told
                  /\ t.pend = ep[e].pend /\ t.leaving = ep[e].leaving /\ t.bye = ep[e].bye
                  /\ t.post = Tail(ep[e].post) /\ t.call = ep[e].call /\ t.upd = ep[e].upd
<1>. DEFINE s == ep[e]
            q == Tail(s.post)
            u == [s EXCEPT !.post = q]
<1>1. s \in SessionType /\ q \in Seq(Post)
  BY Has, TailPost
<1>2. Taken(s) = u
  BY DEF Taken
<1>. HIDE DEF s, q
<1>3. /\ u \in SessionType /\ u.st = s.st /\ u.told = s.told /\ u.pend = s.pend
      /\ u.leaving = s.leaving /\ u.bye = s.bye /\ u.post = q /\ u.call = s.call
      /\ u.upd = s.upd /\ u.oa = s.oa
  BY <1>1 DEF SessionType, Post
<1>. HIDE DEF u
<1>4. LET t == [u EXCEPT !.ackSdp = FALSE]
      IN  Alike(u, t) /\ t.post = u.post /\ t.call = u.call /\ t.upd = u.upd /\ t.oa = u.oa
  BY <1>3 DEF Alike, SessionType
<1>5. LET t == [u EXCEPT !.told = told]
      IN  /\ t \in SessionType /\ t.st = u.st /\ t.told = told /\ t.pend = u.pend
          /\ t.leaving = u.leaving /\ t.bye = u.bye /\ t.post = u.post
          /\ t.call = u.call /\ t.upd = u.upd
  BY <1>3 DEF SessionType
<1>. QED  BY <1>2, <1>3, <1>4, <1>5 DEF Alike, s, q

LEMMA DispatchUpdatedKeeps ==
    ASSUME IInv, NEW e \in Ends, DispatchUpdated(e)
    PROVE  Kept
<1>. DEFINE s == [Taken(ep[e]) EXCEPT !.ackSdp = FALSE]
            sdp == GetSdp(s.oa)
            o == OaSent(s, "ACK", sdp)
            c == Called(o, "ACK")
            d == UpdateMedia(c)
            t == Closed(d)
            x == Msg(e, "ACK", "REQUEST", sdp, s.upd.cseq)
<1>1. /\ Whole /\ ep[e].post # << >>
      /\ \/ CanAck(s) /\ Goes(e, t, {}, {x})
         \/ ~CanAck(s) /\ Goes(e, s, {}, {})
  BY DEF DispatchUpdated, Posts, AckSent
<1>2. /\ Alike(ep[e], s) /\ s.post = Tail(ep[e].post) /\ s.call = ep[e].call
      /\ s.upd = ep[e].upd /\ s.oa = ep[e].oa
  BY <1>1, TakenFacts
<1>. HIDE DEF s
<1>3. /\ NoEnd(ep[e].post) => NoEnd(s.post)
      /\ OneEnd(ep[e].post) => OneEnd(s.post)
      /\ DelayedChange(ep[e].post) => DelayedChange(s.post)
  BY <1>1, <1>2, Has, TailPost
<1>4. (CanAck(s) <=> CanAck(ep[e])) /\ sdp \in Nat /\ s.upd.cseq \in Nat
  BY <1>2, Has, ExchangeTypes DEF CanAck, ClientOpen, RequestType
<1>. HIDE DEF sdp
<1>5. ASSUME NEW v \in SessionType, ~CanAck(v), v.st = s.st, v.told = s.told,
             v.pend = s.pend, v.leaving = s.leaving, v.bye = s.bye, v.post = s.post,
             v.call \in Awaiting => s.call \in Awaiting
      PROVE  /\ Sound(v) /\ (Forgotten(v) => Forgotten(ep[e]))
             /\ (Ending(ep[e]) => v.st # "ESTABLISHED")
  <2>1. Sound(v)
    BY <1>2, <1>3, <1>5, Has DEF Alike, Sound, Reported, Waiting
  <2>. QED  BY <1>2, <1>5, <2>1 DEF Alike, Forgotten, Ending, Ended
<1>6. CASE ~CanAck(s) /\ Goes(e, s, {}, {})
  <2>1. Fine(e, s, {})
    BY <1>2, <1>5, <1>6 DEF Alike, Fine
  <2>. QED  BY <1>1, <1>6, <2>1, Counted, GoesFine DEF IInv
<1>7. CASE CanAck(s) /\ Goes(e, t, {}, {x})
  <2>1. "ACK" \in Triggers /\ "ACK" \in Methods /\ "REQUEST" \in Classes
    BY DEF Triggers, Methods, Classes
  <2>2. Same(s, o)
    BY <1>2, <1>4, <2>1, Exchanges DEF Alike
  <2>. HIDE DEF o
  <2>3. o \in SessionType /\ o.call \in CallStates
    BY <2>2 DEF Same, Alike, SessionType
  <2>4. Alike(o, c) /\ c.post = o.post /\ c.call = CallSent(o.call, "ACK")
    BY <2>3, Calls
  <2>. HIDE DEF c
  <2>5. Same(c, d)
    BY <1>4, <2>1, <2>4, Exchanges DEF Alike
  <2>. HIDE DEF d
  <2>6. Alike(d, t) /\ t.post = d.post /\ t.call = d.call /\ ~ClientOpen(t)
    BY <2>1, <2>5, Updates DEF Same, Alike
  <2>. HIDE DEF t
  <2>7. t.call \in Awaiting => s.call \in Awaiting
    BY <2>2, <2>3, <2>4, <2>5, <2>6, CallWaits DEF Same
  <2>8. /\ t \in SessionType /\ ~CanAck(t) /\ t.st = s.st /\ t.told = s.told /\ t.pend = s.pend
        /\ t.leaving = s.leaving /\ t.bye = s.bye /\ t.post = s.post
    BY <2>2, <2>4, <2>5, <2>6 DEF Same, Alike, CanAck
  <2>9. x \in Message /\ x.to = Peer(e) /\ ~IsAccept(x)
    BY <1>4, <2>1, Messages DEF IsAccept
  <2>. HIDE DEF x
  <2>10. Fine(e, t, {x})
    BY <1>4, <1>5, <1>7, <2>7, <2>8, <2>9 DEF Fine
  <2>. QED  BY <1>1, <1>7, <2>10, Counted, GoesFine DEF IInv
<1>. QED  BY <1>1, <1>6, <1>7

LEMMA DispatchDelayedKeeps ==
    ASSUME IInv, NEW e \in Ends, DispatchDelayed(e)
    PROVE  Kept
<1>. DEFINE s == [Taken(ep[e]) EXCEPT !.ackSdp = FALSE]
            m == Head(ep[e].post).msg
<1>1. /\ ep[e].post # << >> /\ Head(ep[e].post).what = "DELAYED"
      /\ HandleChange(e, s, m, {})
  BY DEF DispatchDelayed, Posts
<1>2. /\ Alike(ep[e], s) /\ s.post = Tail(ep[e].post) /\ s.call = ep[e].call
      /\ s.upd = ep[e].upd
  BY <1>1, TakenFacts
<1>. HIDE DEF s
<1>3. /\ NoEnd(ep[e].post) => NoEnd(s.post)
      /\ OneEnd(ep[e].post) => OneEnd(s.post)
      /\ DelayedChange(ep[e].post) => DelayedChange(s.post)
      /\ UpdatePosted(ep[e].post) => UpdatePosted(s.post)
      /\ m \in Message /\ m.method \in {"INVITE", "UPDATE"}
  BY <1>1, <1>2, Has, TailPost DEF Sound
<1>. HIDE DEF m
<1>4. CanAck(s) => CanAck(ep[e])
  BY <1>2 DEF CanAck, ClientOpen
<1>5. Sound(s)
  BY <1>2, <1>3, <1>4, Has DEF Alike, Sound, Reported, Waiting
<1>6. Prior(e, s)
  BY <1>2, <1>4, <1>5 DEF Prior, Alike
<1>. QED  BY <1>1, <1>3, <1>6, HandleChangeFine, GoesFine DEF MovesFine

LEMMA DispatchTerminatedKeeps ==
    ASSUME IInv, NEW e \in Ends, DispatchTerminated(e)
    PROVE  Kept
<1>. DEFINE t == [Taken(ep[e]) EXCEPT !.told = TRUE]
<1>1. /\ ep[e].post # << >> /\ Head(ep[e].post).what = "TERMINATED"
      /\ Goes(e, t, {}, {}) /\ Whole
  BY DEF DispatchTerminated, Posts
<1>2. /\ t \in SessionType /\ t.st = ep[e].st /\ t.told = TRUE /\ t.pend = ep[e].pend
      /\ t.leaving = ep[e].leaving /\ t.bye = ep[e].bye /\ t.post = Tail(ep[e].post)
      /\ t.call = ep[e].call /\ t.upd = ep[e].upd
  BY <1>1, TakenFacts
<1>. HIDE DEF t
<1>3. /\ ~NoEnd(ep[e].post)
      /\ OneEnd(ep[e].post) => OneEnd(t.post) /\ NoEnd(t.post)
      /\ DelayedChange(ep[e].post) => DelayedChange(t.post)
      /\ UpdatePosted(ep[e].post) => UpdatePosted(t.post)
  BY <1>1, <1>2, Has, TailPost
<1>4. ep[e].st = "TERMINATED"
  BY <1>3, Has DEF Sound, Reported
<1>5. CanAck(t) => CanAck(ep[e])
  BY <1>2 DEF CanAck, ClientOpen
<1>6. Sound(t)
  BY <1>2, <1>3, <1>4, <1>5, Has DEF Sound, Reported, Waiting
<1>7. Fine(e, t, {})
  BY <1>2, <1>4, <1>5, <1>6 DEF Fine, Forgotten, Ended
<1>. QED  BY <1>1, <1>7, Counted, GoesFine DEF IInv

-----------------------------------------------------------------------------
(***************************************************************************)
(* The system.                                                              *)
(***************************************************************************)
LEMMA StillKeeps ==
    ASSUME IInv, UNCHANGED ep, net' \subseteq net, asked' = asked, broken' = broken,
           lost' \in 0..MaxLost
    PROVE  Kept
<1>1. TypeOK'
  BY Zenon DEF IInv, TypeOK
<1>2. NoWay
  BY DEF NoWay, Ending, Ended
<1>3. ASSUME NEW e \in Ends PROVE Sound(ep[e])' /\ Silent(e)'
  BY <1>3 DEF IInv, Silent
<1>. QED  BY <1>1, <1>2, <1>3 DEF Kept, IInv

LEMMA LoseKeeps ==
    ASSUME IInv, NEW m, Lose(m)
    PROVE  Kept
<1>1. lost' \in 0..MaxLost
  BY BoundAssumption DEF IInv, TypeOK, Lose
<1>. QED  BY <1>1, StillKeeps DEF Lose

LEMMA ReceiveKeeps ==
    ASSUME IInv, NEW m \in net, Receive(m.to, m)
    PROVE  Kept
<1>. m \in Message /\ m.to \in Ends
  BY DEF IInv, TypeOK, Message
<1>. DEFINE e == m.to
<1>1. CASE RecvChange(e, m)  BY <1>1, RecvChangeKeeps
<1>2. CASE RecvAck(e, m)  BY <1>2, RecvAckKeeps
<1>3. CASE RecvBye(e, m)  BY <1>3, RecvByeKeeps
<1>4. CASE RecvCancel(e, m)  BY <1>4, RecvCancelKeeps
<1>5. CASE RecvUnawaited(e, m) \/ RecvRinging(e, m) \/ RecvCancelAnswer(e, m)
  BY <1>5, RecvUnchangedKeeps
<1>6. CASE RecvAfterEnd(e, m)  BY <1>6, RecvAfterEndKeeps
<1>7. CASE InviteSucceeds(e, m)  BY <1>7, InviteSucceedsKeeps
<1>8. CASE UpdateSucceeds(e, m)  BY <1>8, UpdateSucceedsKeeps
<1>9. CASE ChangeFails(e, m)  BY <1>9, ChangeFailsKeeps
<1>10. CASE RecvByeAnswer(e, m)  BY <1>10, RecvByeAnswerKeeps
<1>. QED
  BY <1>1, <1>2, <1>3, <1>4, <1>5, <1>6, <1>7, <1>8, <1>9, <1>10 DEF Receive

LEMMA Initial == Init => IInv
<1>. SUFFICES ASSUME Init PROVE IInv
  OBVIOUS
<1>1. NewSession \in SessionType
  <2>1. << >> \in Seq([what : {"UPDATED", "TERMINATED", "DELAYED"},
                       msg : Message \cup {NoMessage}])
    BY EmptySeq
  <2>2. Agreed(1) \in OaType
    BY DEF Agreed, OaType, States, Modes, None
  <2>3. NoRequest \in RequestType
    BY DEF NoRequest, RequestType, Classes, None
  <2>. QED  BY <2>1, <2>2, <2>3 DEF NewSession, SessionType, SessionStates, CallStates
<1>2. TypeOK
  <2>1. broken \in BOOLEAN
    BY Zenon DEF Init
  <2>2. asked \in 0..MaxAsked /\ lost \in 0..MaxLost
    BY BoundAssumption DEF Init
  <2>. QED  BY <1>1, <2>1, <2>2 DEF Init, TypeOK
<1>3. Sound(NewSession)
  BY DEF Sound, Reported, Waiting, NewSession, NoEnd, OneEnd, DelayedChange, CanAck
<1>4. ~Forgotten(NewSession)
  BY DEF Forgotten, NewSession
<1>. QED  BY <1>2, <1>3, <1>4 DEF Init, IInv, Silent

LEMMA StepKeeps ==
    ASSUME IInv, [Next]_vars
    PROVE  Kept
<1>1. CASE UNCHANGED vars
  <2>1. lost' \in 0..MaxLost
    BY <1>1 DEF IInv, TypeOK, vars
  <2>. QED  BY <1>1, <2>1, StillKeeps DEF vars
<1>2. ASSUME NEW e \in Ends, Application(e) PROVE Kept
  BY <1>2, UpdateKeeps, AcceptKeeps, RejectKeeps, RingKeeps, TerminateExKeeps DEF Application
<1>3. ASSUME NEW e \in Ends, Dispatch(e) PROVE Kept
  BY <1>3, DispatchUpdatedKeeps, DispatchDelayedKeeps, DispatchTerminatedKeeps DEF Dispatch
<1>4. CASE Network
  BY <1>4, ReceiveKeeps, LoseKeeps DEF Network
<1>. QED  BY <1>1, <1>2, <1>3, <1>4, TimeoutKeeps DEF Next

\* TypeOK: sessions, messages and counters keep their types, for every bound.
THEOREM TypeCorrect == Spec => []TypeOK
<1>1. IInv /\ [Next]_vars => IInv'
  BY StepKeeps DEF Kept
<1>2. IInv => TypeOK
  BY DEF IInv
<1>. QED  BY Initial, <1>1, <1>2, PTL DEF Spec

(***************************************************************************)
(* The end is posted once and not again after the report (ToldOnce), for every    *)
(* number of requests and lost messages.                                      *)
(***************************************************************************)
THEOREM EndToldOnce == Spec => []ToldOnce
<1>1. IInv /\ [Next]_vars => IInv'
  BY StepKeeps DEF Kept
<1>2. IInv => ToldOnce
  <2>. SUFFICES ASSUME IInv, NEW e \in Ends
       PROVE  Cardinality(EndPosts(ep[e])) <= (IF ep[e].told THEN 0 ELSE 1)
    BY DEF ToldOnce
  <2>. DEFINE s == ep[e]
  <2>1. Reported(s)
    BY Has DEF Sound
  <2>2. CASE NoEnd(s.post)
    <3>1. EndPosts(s) = {}
      BY <2>2 DEF EndPosts, NoEnd
    <3>. QED  BY <3>1, FS_EmptySet
  <2>3. CASE ~NoEnd(s.post)
    <3>1. PICK i \in DOMAIN s.post : s.post[i].what = "TERMINATED"
      BY <2>3 DEF NoEnd
    <3>2. EndPosts(s) = {i}
      BY <2>1, <3>1 DEF EndPosts, Reported, OneEnd
    <3>3. Cardinality(EndPosts(s)) = 1 /\ ~s.told
      BY <2>1, <2>3, <3>2, FS_Singleton DEF Reported
    <3>. QED  BY <3>3
  <2>. QED  BY <2>2, <2>3
<1>. QED  BY Initial, <1>1, <1>2, PTL DEF Spec

(***************************************************************************)
(* A session that ends, or has to once its ACK comes, never goes back to         *)
(* ESTABLISHED (NoWayBack).                                                  *)
(***************************************************************************)
THEOREM EndIsFinal == Spec => NoWayBack
<1>1. IInv /\ [Next]_vars => IInv'
  BY StepKeeps DEF Kept
<1>2. IInv /\ [Next]_vars => [\A e \in Ends : Ending(ep[e]) => ep'[e].st # "ESTABLISHED"]_vars
  BY StepKeeps DEF Kept, NoWay
<1>. QED  BY Initial, <1>1, <1>2, PTL DEF Spec, NoWayBack

-----------------------------------------------------------------------------
(***************************************************************************)
(* The two ends agree (Settled, AnswerAdopted).  Every exchange of an end e, the  *)
(* client, with its peer, the server, is followed through the request on its way   *)
(* or put off, the server that has it, the answer, and the ACK.  The predicates    *)
(* below speak of the client's session s, the server's t and the messages N.       *)
(***************************************************************************)
Live == \A e \in Ends : ~Ended(ep[e])

Waits(s) == s.st = "RENEGOTIATING" /\ s.upd.role = "client"
Serves(s) == s.st = "RENEGOTIATING" /\ s.upd.role = "server"
Confirms(s, c) == s.st = "REESTABLISHING" /\ s.upd.cseq = c
Alive(s) == ServerOpen(s) /\ s.upd.method = "INVITE" /\ s.upd.final # "FAIL"
Owing(s) == s.call = "REINVITE_2XX_RECEIVED"

IsChange(m) == m.method \in {"INVITE", "UPDATE"} /\ m.class = "REQUEST"
IsFinal(m) == m.method \in {"INVITE", "UPDATE"} /\ m.class \in {"2XX", "FAIL"}

\* No exchange under way; an offer made that waits for its answer; an offer taken up.
Calm(oa) ==
    /\ oa.st = "ESTABLISHED" /\ oa.prop = None /\ oa.mode = "IDLE"
    /\ ~oa.changed /\ ~oa.progress
Made(oa, sdp) ==
    oa.st = "OFFER_CHANGE_SENT" /\ oa.prop = sdp /\ oa.mode = "OFFERER" /\ ~oa.progress
TakenUp(oa, sdp) ==
    /\ oa.st = "OFFER_CHANGE_RECEIVED" /\ oa.prop = sdp /\ sdp # None
    /\ oa.mode = "ANSWERER" /\ ~oa.progress

(***************************************************************************)
(* One end: how update, call and offer/answer state go together in each state.    *)
(* An offer without answer at rest, Made(oa, None), is left when the peer ended    *)
(* and acknowledged without looking.                                         *)
(***************************************************************************)
Idling == {"ESTABLISHED", "REINVITE_2XX_RECEIVED"}
Asking(s) ==
    /\ s.upd.open /\ s.upd.final = "REQUEST"
    /\ \/ Made(s.oa, s.upd.sdp)
       \/ s.upd.sdp = None /\ Calm(s.oa) /\ s.upd.method = "INVITE"
    /\ IF s.upd.method = "INVITE" THEN s.call \in Awaiting ELSE s.call = "ESTABLISHED"
Serving(s) ==
    /\ s.upd.open /\ s.upd.final = "REQUEST"
    /\ \/ TakenUp(s.oa, s.upd.sdp)
       \/ s.upd.sdp = None /\ Calm(s.oa) /\ s.upd.method = "INVITE"
    /\ s.call \in Idling \cup (IF s.upd.method = "INVITE"
                               THEN Ringing \cup {"REINVITE_2XX_SENT"} ELSE {})
Confirming(s) ==
    /\ s.upd.role = "server" /\ s.upd.method = "INVITE" /\ s.upd.open /\ s.upd.final = "2XX"
    /\ s.call \in Idling \cup {"REINVITE_2XX_SENT"}
    /\ Calm(s.oa) \/ Made(s.oa, None)
Resting(s) ==
    /\ ~Alive(s) /\ s.call \in Idling
    /\ ClientOpen(s) => CanAck(s) /\ s.upd.method = "INVITE" /\ s.upd.final = "2XX"
    /\ Calm(s.oa) \/ Made(s.oa, None) \/ (CanAck(s) /\ TakenUp(s.oa, s.oa.prop))
Shape(s) ==
    /\ s.oa.cur # None
    /\ s.st = "RENEGOTIATING" => (Waits(s) /\ Asking(s)) \/ (Serves(s) /\ Serving(s))
    /\ s.st = "REESTABLISHING" => Confirming(s)
    /\ s.st = "ESTABLISHED" => Resting(s)
Steady(s) ==
    /\ s.oa.st \in {"ESTABLISHED", "OFFER_CHANGE_SENT", "OFFER_CHANGE_RECEIVED"}
    /\ s.oa.st = "OFFER_CHANGE_RECEIVED" => s.oa.mode = "ANSWERER"
    /\ CanAck(s) => s.upd.final = "2XX"
    /\ s.bye => Ended(s)
    /\ ~Ended(s) => Shape(s)

\* The requests put off, and the numbers of the requests an end has sent and got.
Put(q) == {i \in DOMAIN q : q[i].what = "DELAYED"}
Once(q) == \A i, j \in Put(q) : q[i].msg.cseq = q[j].msg.cseq => i = j
Late(q) == {q[i].msg : i \in Put(q)}
Puts(s) == Late(s.post)
Numbers(s) ==
    /\ s.upd.role = "client" => s.upd.cseq <= s.cseq
    /\ \A p \in Puts(s) : p \in Message /\ IsChange(p) /\ p.sdp # None
    /\ ~Ended(s) =>
           /\ s.upd.role = "server" => s.upd.cseq <= s.rseq
           /\ \A p \in Puts(s) : p.cseq <= s.rseq /\ (Serves(s) => p.cseq # s.upd.cseq)
           /\ Once(s.post)

(***************************************************************************)
(* Both ends, whether one has ended or not.                                   *)
(***************************************************************************)
Req(e, m) == m.to = Peer(e) /\ IsChange(m)
AckOf(e, m) == m.to = Peer(e) /\ IsAck(m)
Fin(e, m) == m.to = e /\ IsFinal(m)
Ans(e, s, m) == Fin(e, m) /\ Waits(s) /\ m.cseq = s.upd.cseq
Acc(e, s, m) == Ans(e, s, m) /\ m.class = "2XX"

\* What a message carries: a failure no SDP, an acceptance always.
Bare(N) ==
    \A m \in N : /\ m.class = "FAIL" => m.sdp = None
                 /\ IsFinal(m) /\ m.class = "2XX" => m.sdp # None
                 /\ IsAck(m) => m.class = "REQUEST"

\* Numbers come from the client.
Issued(e, s, t, N) ==
    /\ t.rseq <= s.cseq
    /\ t.upd.role = "server" => t.upd.cseq <= s.cseq
    /\ \A p \in Puts(t) : p.cseq <= s.cseq
    /\ \A m \in N : m.to = Peer(e) /\ m.class = "REQUEST" => m.cseq <= s.cseq
    /\ \A m \in N : m.to = e /\ m.class # "REQUEST" => m.cseq <= s.cseq

\* What bears the number of the client's update is of its method.
Kindred(e, s, t, N) ==
    s.upd.role = "client" =>
        /\ \A m \in N : (Req(e, m) \/ Fin(e, m)) /\ m.cseq = s.upd.cseq
                            => m.method = s.upd.method
        /\ \A p \in Puts(t) : p.cseq = s.upd.cseq => p.method = s.upd.method
        /\ t.upd.role = "server" /\ t.upd.cseq = s.upd.cseq => t.upd.method = s.upd.method

\* At most one request is on its way, and it is newer than all before.
OneRequest(e, t, N) ==
    ~Ended(t) =>
        /\ \A m \in N : Req(e, m) => m.cseq > t.rseq /\ (m.method = "UPDATE" => m.sdp # None)
        /\ \A m, n \in N : Req(e, m) /\ Req(e, n) => m = n

\* A request that was answered is not with the server any more.
Done(t, c) ==
    \/ Ended(t)
    \/ /\ c <= t.rseq
       /\ Serves(t) => t.upd.cseq # c
       /\ \A p \in Puts(t) : p.cseq # c
Dealt(e, s, t, N) ==
    /\ \A m \in N : Fin(e, m) \/ AckOf(e, m) => Done(t, m.cseq)
    /\ CanAck(s) => Done(t, s.upd.cseq)

\* A re-INVITE is acknowledged once.
OneAck(e, s, N) ==
    /\ \A m, n \in N : AckOf(e, m) /\ AckOf(e, n) /\ m.cseq = n.cseq => m = n
    /\ CanAck(s) \/ (ClientOpen(s) /\ s.upd.final = "REQUEST") =>
           \A m \in N : AckOf(e, m) => m.cseq # s.upd.cseq

\* The answer to the offer of a 2xx is that offer, which is the view in force.
Returned(t, c, sdp) ==
    IF Ended(t) THEN Alive(t) /\ t.oa.st = "OFFER_CHANGE_SENT" => sdp = t.oa.cur
    ELSE Confirms(t, c) /\ Made(t.oa, None) /\ sdp = t.oa.cur
Echoes(e, s, t, N) ==
    /\ \A m \in N : AckOf(e, m) /\ m.sdp # None => Returned(t, m.cseq, m.sdp)
    /\ CanAck(s) /\ GetSdp(s.oa) # None => Returned(t, s.upd.cseq, GetSdp(s.oa))

\* What an end has accepted before it ended stays in force.
InForce(e, s, t, N) ==
    Ended(t) => \A m \in N : Acc(e, s, m) /\ m.sdp # None =>
                    m.sdp = t.oa.cur /\ t.oa.st # "OFFER_CHANGE_RECEIVED"

Common(e, s, t, N) ==
    /\ Issued(e, s, t, N) /\ Kindred(e, s, t, N) /\ OneRequest(e, t, N)
    /\ Dealt(e, s, t, N) /\ OneAck(e, s, N) /\ Echoes(e, s, t, N) /\ InForce(e, s, t, N)

(***************************************************************************)
(* Both ends, as long as none has ended.                                      *)
(***************************************************************************)
Regular(s) ==
    /\ s.st = "ESTABLISHED" => Calm(s.oa) \/ TakenUp(s.oa, s.oa.cur)
    /\ Owing(s) => CanAck(s)
    /\ Waits(s) /\ s.upd.sdp = None => Calm(s.oa) /\ s.upd.method = "INVITE"

\* Every request is the one that its sender waits for, and gets one answer.
Asked(s, m) == Waits(s) /\ m.cseq = s.upd.cseq /\ m.method = s.upd.method /\ m.sdp = s.upd.sdp
Meant(e, s, t, N) ==
    /\ \A m \in N : Req(e, m) => Asked(s, m)
    /\ \A p \in Puts(t) : Asked(s, p)
    /\ Serves(t) => Asked(s, t.upd)
    /\ \A m, n \in N : Ans(e, s, m) /\ Ans(e, s, n) => m = n

\* A 2xx on its way brings what is in force at the server.
Expected(s) == IF s.upd.sdp = None THEN s.oa.cur ELSE s.upd.sdp
Accepted(e, s, t, N) ==
    \A m \in N : Acc(e, s, m) =>
        /\ m.sdp = Expected(s) /\ t.oa.cur = Expected(s)
        /\ s.upd.method = "INVITE" => /\ Confirms(t, s.upd.cseq)
                                      /\ IF s.upd.sdp = None THEN Made(t.oa, None) ELSE Calm(t.oa)
Owed(e, s, t, N) ==
    /\ CanAck(s) => Confirms(t, s.upd.cseq) /\ IF Calm(s.oa) THEN Calm(t.oa) ELSE Made(t.oa, None)
    /\ \A m \in N : AckOf(e, m) /\ Confirms(t, m.cseq) /\ Made(t.oa, None) => m.sdp # None

\* The update of e is not decided yet, or refused.
Open(e, s, t, N) ==
    \/ \E m \in N : Req(e, m) \/ (Ans(e, s, m) /\ m.class = "FAIL")
    \/ Puts(t) # {}
    \/ Serves(t)
Undecided(e, s, t, N) == Waits(s) => Open(e, s, t, N)

Between(e, s, t, N) ==
    Regular(s) /\ Meant(e, s, t, N) /\ Accepted(e, s, t, N) /\ Owed(e, s, t, N)
Together(e, s, t, N) ==     \* with e and its peer in either order
    /\ Undecided(e, s, t, N) /\ Undecided(Peer(e), t, s, N) => s.oa.cur = t.oa.cur
    /\ (\A m \in N : ~Acc(e, s, m)) \/ (\A m \in N : ~Acc(Peer(e), t, m))

-----------------------------------------------------------------------------
(***************************************************************************)
(* The requests put off, while posts come and go.                              *)
(***************************************************************************)
LEMMA AppendLate ==
    ASSUME NEW q \in Seq(Post), NEW x \in Post
    PROVE  LET r == Append(q, x)
           IN  /\ x.what # "DELAYED" => Late(r) = Late(q) /\ (Once(q) => Once(r))
               /\ x.what = "DELAYED" =>
                      /\ Late(r) = Late(q) \cup {x.msg}
                      /\ Once(q) /\ (\A p \in Late(q) : p.cseq # x.msg.cseq) => Once(r)
<1>. DEFINE r == Append(q, x)
            n == Len(q) + 1
<1>1. /\ Len(q) \in Nat /\ Len(r) = n
      /\ DOMAIN q = 1..Len(q) /\ DOMAIN r = 1..Len(r)
      /\ \A i \in 1..Len(q) : r[i] = q[i]
      /\ r[n] = x
  BY AppendProperties, LenProperties
<1>2. n \in DOMAIN r /\ n \notin DOMAIN q /\ DOMAIN r = DOMAIN q \cup {n}
  BY <1>1
<1>3. Put(r) = IF x.what = "DELAYED" THEN Put(q) \cup {n} ELSE Put(q)
  BY <1>1, <1>2 DEF Put
<1>4. \A i \in Put(q) : r[i] = q[i]
  BY <1>1 DEF Put
<1>. HIDE DEF r, n
<1>5. ASSUME x.what # "DELAYED" PROVE Late(r) = Late(q) /\ (Once(q) => Once(r))
  BY <1>3, <1>4, <1>5 DEF Late, Once
<1>6. ASSUME x.what = "DELAYED"
      PROVE  /\ Late(r) = Late(q) \cup {x.msg}
             /\ Once(q) /\ (\A p \in Late(q) : p.cseq # x.msg.cseq) => Once(r)
  BY <1>1, <1>3, <1>4, <1>6 DEF Late, Once
<1>. QED  BY <1>5, <1>6 DEF r

\* Taking a post off leaves the rest, and no second copy of the request taken.
LEMMA TailLate ==
    ASSUME NEW q \in Seq(Post), q # << >>
    PROVE  /\ Once(q) => Once(Tail(q))
           /\ Head(q).what # "DELAYED" => Late(Tail(q)) = Late(q)
           /\ Head(q).what = "DELAYED" =>
                  /\ Head(q).msg \in Late(q) /\ Late(Tail(q)) \subseteq Late(q)
                  /\ Once(q) => \A p \in Late(Tail(q)) : p.cseq # Head(q).msg.cseq
<1>. DEFINE r == Tail(q)
<1>1. /\ Len(q) \in Nat \ {0}
      /\ DOMAIN q = 1..Len(q) /\ DOMAIN r = 1..(Len(q) - 1)
      /\ \A i \in 1..(Len(q) - 1) : r[i] = q[i + 1]
      /\ Head(q) = q[1]
  BY HeadTailProperties, LenProperties, EmptySeq
<1>2. \A i \in Put(r) : i + 1 \in Put(q) /\ r[i] = q[i + 1] /\ i + 1 # 1
  BY <1>1 DEF Put
<1>3. \A i \in Put(q) : i # 1 => i - 1 \in Put(r) /\ r[i - 1] = q[i]
  <2>. SUFFICES ASSUME NEW i \in Put(q), i # 1 PROVE i - 1 \in Put(r) /\ r[i - 1] = q[i]
    OBVIOUS
  <2>1. i - 1 \in 1..(Len(q) - 1) /\ (i - 1) + 1 = i
    BY <1>1 DEF Put
  <2>. QED  BY <1>1, <2>1 DEF Put
<1>4. Head(q).what = "DELAYED" <=> 1 \in Put(q)
  BY <1>1 DEF Put
<1>5. \A i \in Put(r) : i \in Nat
  BY <1>1 DEF Put
<1>. HIDE DEF r
<1>6. Once(q) => Once(r)
  BY <1>2, <1>5 DEF Once
<1>7. Late(r) \subseteq Late(q)
  BY <1>2 DEF Late
<1>8. ASSUME 1 \notin Put(q) PROVE Late(q) \subseteq Late(r)
  BY <1>3, <1>8 DEF Late
<1>9. ASSUME 1 \in Put(q)
      PROVE  /\ q[1].msg \in Late(q)
             /\ Once(q) => \A p \in Late(r) : p.cseq # q[1].msg.cseq
  BY <1>2, <1>9 DEF Late, Once
<1>. QED  BY <1>1, <1>4, <1>6, <1>7, <1>8, <1>9 DEF r

-----------------------------------------------------------------------------
(***************************************************************************)
(* The kinds of steps of an end e, from s to s2, while the messages go from N to N2. *)
(***************************************************************************)
\* Messages that matter to no exchange.
Noise(e, s, s2, N, n) ==
    /\ n.to = Peer(e) /\ ~IsChange(n) /\ ~IsFinal(n) /\ ~IsAck(n)
    /\ n.class = "FAIL" => n.sdp = None
    /\ n.class = "REQUEST" => n.cseq <= s2.cseq
    /\ n.class # "REQUEST" =>
           \/ n.cseq <= s.rseq
           \/ \E q \in N : q.to = e /\ q.class = "REQUEST" /\ q.cseq = n.cseq
Sends(e, s, s2, N, N2, gone, out) ==
    \A n \in N2 : (n \in N /\ n \notin gone) \/ n \in out \/ Noise(e, s, s2, N, n)

SameUpd(s, s2) ==
    /\ s2.upd.role = s.upd.role /\ s2.upd.method = s.upd.method
    /\ s2.upd.sdp = s.upd.sdp /\ s2.upd.cseq = s.upd.cseq
SameOa(oa, oa2) ==
    /\ oa2.st = oa.st /\ oa2.cur = oa.cur /\ oa2.prop = oa.prop /\ oa2.mode = oa.mode
    /\ oa2.changed = oa.changed /\ oa2.progress = oa.progress
SameView(s, s2) ==
    /\ s2.st = s.st /\ SameOa(s.oa, s2.oa) /\ SameUpd(s, s2)
    /\ s2.upd.final = s.upd.final /\ s2.upd.open = s.upd.open
    /\ CanAck(s2) = CanAck(s) /\ Owing(s2) = Owing(s) /\ s2.cseq = s.cseq
SameQueue(s, s2) == s2.rseq = s.rseq /\ Puts(s2) = Puts(s)

Still(e, s, s2, N, N2) ==
    SameView(s, s2) /\ SameQueue(s, s2) /\ Sends(e, s, s2, N, N2, {}, {})

Requests(e, s, s2, N, N2) ==
    /\ s.st = "ESTABLISHED" /\ ~Owing(s) /\ ~Owing(s2)
    /\ Waits(s2) /\ s2.cseq = s.cseq + 1 /\ s2.upd.cseq = s2.cseq
    /\ s2.upd.open /\ s2.upd.final = "REQUEST"
    /\ s2.oa.cur = s.oa.cur /\ SameQueue(s, s2)
    /\ Calm(s.oa) /\ s2.upd.sdp = None => Calm(s2.oa) /\ s2.upd.method = "INVITE"
    /\ \E x : /\ Req(e, x) /\ x.cseq = s2.cseq /\ x.method = s2.upd.method
              /\ x.sdp = s2.upd.sdp
              /\ Sends(e, s, s2, N, N2, {}, {x})

\* A request is taken from the network or from those put off.
Takes(e, s, s2, N, m, gone) ==
    \/ /\ m \in N /\ m.to = e /\ m.cseq > s.rseq /\ s2.rseq = m.cseq /\ gone = {m}
       /\ Puts(s2) = Puts(s)
    \/ /\ m \in Puts(s) /\ s2.rseq = s.rseq /\ gone = {}
       /\ Puts(s2) \subseteq Puts(s) /\ \A p \in Puts(s2) : p.cseq # m.cseq

Begins(e, s, s2, N, N2) ==
    \E m, gone :
        /\ IsChange(m) /\ Takes(e, s, s2, N, m, gone)
        /\ s.st = "ESTABLISHED" \/ s.st = "REESTABLISHING"
        /\ Calm(s.oa) /\ s2.oa.cur = s.oa.cur /\ s2.cseq = s.cseq
        /\ Serves(s2) /\ s2.upd.cseq = m.cseq /\ s2.upd.method = m.method
        /\ s2.upd.sdp = m.sdp /\ s2.upd.open /\ s2.upd.final = "REQUEST"
        /\ Owing(s2) => Owing(s)
        /\ Sends(e, s, s2, N, N2, gone, {})

TurnsDown(e, s, s2, N, N2) ==
    \E m, x, gone :
        /\ IsChange(m) /\ Takes(e, s, s2, N, m, gone) /\ SameView(s, s2)
        /\ x.to = Peer(e) /\ x.class = "FAIL" /\ x.sdp = None
        /\ x.method = m.method /\ x.cseq = m.cseq
        /\ Sends(e, s, s2, N, N2, gone, {x})

PutsOff(e, s, s2, N, N2) ==
    \E m \in N :
        /\ m.to = e /\ IsChange(m) /\ m.cseq > s.rseq /\ s2.rseq = m.cseq
        /\ Puts(s2) = Puts(s) \cup {m} /\ SameView(s, s2)
        /\ Sends(e, s, s2, N, N2, {m}, {})

\* The answer of the server, and its withdrawal on a CANCEL.
Grants(e, s, s2, N, N2) ==
    /\ Serves(s) /\ SameUpd(s, s2) /\ SameQueue(s, s2) /\ s2.cseq = s.cseq
    /\ s2.upd.open /\ s2.upd.final = "2XX"
    /\ IF s.upd.method = "INVITE" THEN s2.st = "REESTABLISHING"
       ELSE s2.st = "ESTABLISHED"
    /\ Owing(s2) => Owing(s)
    /\ IF s.upd.sdp = None
       THEN s.upd.method = "INVITE" /\ Made(s2.oa, None) /\ s2.oa.cur = s.oa.cur
       ELSE Calm(s2.oa) /\ s2.oa.cur = s.upd.sdp /\ s.oa.mode = "ANSWERER"
    /\ \E x : /\ x.to = Peer(e) /\ x.class = "2XX" /\ x.method = s.upd.method
              /\ x.cseq = s.upd.cseq /\ x.sdp = s2.oa.cur
              /\ Sends(e, s, s2, N, N2, {}, {x})

Withdraws(e, s, s2, N, N2) ==
    /\ Serves(s) /\ s.upd.method = "INVITE" /\ SameUpd(s, s2) /\ SameQueue(s, s2)
    /\ s2.cseq = s.cseq /\ s2.st = "ESTABLISHED" /\ ~Owing(s2)
    /\ Calm(s2.oa) /\ s2.oa.cur = s.oa.cur
    /\ \E x : /\ x.to = Peer(e) /\ x.class = "FAIL" /\ x.sdp = None
              /\ x.method = s.upd.method /\ x.cseq = s.upd.cseq
              /\ Sends(e, s, s2, N, N2, {}, {x})

\* The client's answer comes.
Gains(e, s, s2, N, N2) ==
    \E m \in N :
        /\ Acc(e, s, m) /\ SameUpd(s, s2) /\ SameQueue(s, s2) /\ s2.cseq = s.cseq
        /\ s2.st = "ESTABLISHED" /\ s2.upd.final = "2XX"
        /\ CanAck(s2) <=> s.upd.method = "INVITE"
        /\ s.upd.method # "INVITE" => ~Owing(s2)
        /\ IF Calm(s.oa) THEN TakenUp(s2.oa, m.sdp) /\ s2.oa.cur = s.oa.cur
           ELSE Calm(s2.oa) /\ s2.oa.cur = m.sdp
        /\ Sends(e, s, s2, N, N2, {m}, {})

Misses(e, s, s2, N, N2) ==
    \E m \in N :
        /\ Ans(e, s, m) /\ m.class = "FAIL" /\ SameUpd(s, s2) /\ SameQueue(s, s2)
        /\ s2.cseq = s.cseq /\ s2.st = "ESTABLISHED" /\ ~Owing(s2)
        /\ ~ClientOpen(s2)
        /\ Calm(s2.oa) /\ s2.oa.cur = s.oa.cur
        /\ Sends(e, s, s2, N, N2, {m}, {})

\* The ACK of a 2xx.
Acknowledges(e, s, s2, N, N2) ==
    /\ s.st = "ESTABLISHED" /\ CanAck(s) /\ SameUpd(s, s2) /\ SameQueue(s, s2)
    /\ s2.cseq = s.cseq /\ s2.st = "ESTABLISHED" /\ ~Owing(s2)
    /\ ~ClientOpen(s2)
    /\ IF TakenUp(s.oa, s.oa.prop) THEN Calm(s2.oa) /\ s2.oa.cur = s.oa.prop
       ELSE s2.oa.cur = s.oa.cur /\ IF Calm(s.oa) THEN Calm(s2.oa) ELSE Made(s2.oa, None)
    /\ \E x : /\ AckOf(e, x) /\ x.class = "REQUEST" /\ x.cseq = s.upd.cseq
              /\ x.sdp = GetSdp(s.oa)
              /\ Sends(e, s, s2, N, N2, {}, {x})

IsAcknowledged(e, s, s2, N, N2) ==
    \E m \in N :
        /\ m.to = e /\ IsAck(m) /\ Confirms(s, m.cseq) /\ SameUpd(s, s2) /\ SameQueue(s, s2)
        /\ s2.cseq = s.cseq /\ s2.st = "ESTABLISHED" /\ ~ServerOpen(s2)
        /\ Owing(s2) => Owing(s)
        /\ IF Made(s.oa, None) /\ m.sdp = None
           THEN Made(s2.oa, None) /\ s2.oa.cur = s.oa.cur
           ELSE Calm(s2.oa) /\ s2.oa.cur = IF Calm(s.oa) THEN s.oa.cur ELSE m.sdp
        /\ Sends(e, s, s2, N, N2, {m}, {})

\* Steps after which e has ended.
Refusal(e, s, N, n) ==
    /\ n.to = Peer(e) /\ IsFinal(n) /\ n.class = "FAIL" /\ n.sdp = None
    /\ \/ \E q \in N : q.to = e /\ IsChange(q) /\ q.method = n.method /\ q.cseq = n.cseq
       \/ \E q \in Puts(s) : q.method = n.method /\ q.cseq = n.cseq
       \/ Serves(s) /\ s.upd.method = n.method /\ s.upd.cseq = n.cseq
Finishes(e, s, s2, N, N2) ==
    /\ Ended(s2) /\ SameUpd(s, s2) /\ s2.oa.cur = s.oa.cur
    /\ Alive(s2) => Alive(s)
    /\ ClientOpen(s2) => ClientOpen(s)
    /\ CanAck(s2) => CanAck(s) /\ s2.upd.final = s.upd.final
    /\ s2.upd.final = "REQUEST" => s.upd.final = "REQUEST"
    /\ \/ s2.oa.st = s.oa.st /\ s2.oa.prop = s.oa.prop /\ s2.oa.mode = s.oa.mode
       \/ s2.oa.st = "ESTABLISHED" /\ s2.oa.prop = None
    /\ s2.cseq >= s.cseq
    /\ \/ s2.rseq = s.rseq
       \/ \E q \in N : q.to = e /\ q.class = "REQUEST" /\ q.cseq = s2.rseq
    /\ \A p \in Puts(s2) : p \in Puts(s) \/ (p \in N /\ p.to = e /\ IsChange(p) /\ p.sdp # None)
    /\ \A n \in N2 : n \in N \/ Noise(e, s, s2, N, n) \/ Refusal(e, s, N, n)

\* An end that has ended acknowledges a 2xx on report, or at once when it comes.
EndAcks(e, s, s2, N, N2) ==
    /\ Ended(s) /\ Ended(s2) /\ SameUpd(s, s2) /\ SameQueue(s, s2) /\ s2.cseq = s.cseq
    /\ CanAck(s) /\ ~ClientOpen(s2)
    /\ s2.oa.st = "OFFER_CHANGE_RECEIVED" => s.oa.st = "OFFER_CHANGE_RECEIVED"
    /\ s2.oa.cur # s.oa.cur => s.oa.st = "OFFER_CHANGE_RECEIVED"
    /\ \E x : /\ AckOf(e, x) /\ x.class = "REQUEST" /\ x.cseq = s.upd.cseq
              /\ x.sdp = GetSdp(s.oa)
              /\ Sends(e, s, s2, N, N2, {}, {x})
EndAcksAtOnce(e, s, s2, N, N2) ==
    \E m \in N : \E x :
        /\ Ended(s) /\ Ended(s2) /\ SameUpd(s, s2) /\ SameQueue(s, s2) /\ s2.cseq = s.cseq
        /\ ClientOpen(s) /\ s.upd.final = "REQUEST" /\ s2.upd.final # "REQUEST" /\ ~CanAck(s2)
        /\ Fin(e, m) /\ m.cseq = s.upd.cseq
        /\ s2.oa.cur = s.oa.cur /\ s2.oa.st \in {s.oa.st, "ESTABLISHED"}
        /\ AckOf(e, x) /\ x.class = "REQUEST" /\ x.cseq = m.cseq /\ x.sdp = None
        /\ Sends(e, s, s2, N, N2, {m}, {x})
EndIsAcknowledged(e, s, s2, N, N2) ==
    \E m \in N :
        /\ Ended(s2) /\ SameUpd(s, s2) /\ SameQueue(s, s2) /\ s2.cseq >= s.cseq
        /\ m.to = e /\ IsAck(m) /\ Alive(s) /\ ~CanAck(s2)
        /\ ~Ended(s) => Confirms(s, m.cseq)
        /\ IF s.oa.st = "OFFER_CHANGE_SENT" /\ m.sdp # None
           THEN s2.oa.st = "ESTABLISHED" /\ s2.oa.cur \in {s.oa.cur, m.sdp}
           ELSE s2.oa.st = s.oa.st /\ s2.oa.cur = s.oa.cur
        /\ Sends(e, s, s2, N, N2, {m}, {})

-----------------------------------------------------------------------------
(***************************************************************************)
(* What the operators make of a session, field by field.                       *)
(***************************************************************************)
Rec(s) == {"st", "call", "oa", "upd", "requestor", "pend", "ackSdp", "bye", "cancel", "post",
           "told", "leaving", "cseq", "rseq"} \subseteq DOMAIN s
Is(s, st, call, oa, upd, post, bye, cseq, rseq) ==
    /\ Rec(s)
    /\ s.st = st /\ s.call = call /\ s.oa = oa /\ s.upd = upd /\ s.post = post
    /\ s.bye = bye /\ s.cseq = cseq /\ s.rseq = rseq
Completed(oa) == IF oa.changed /\ Stable(oa.st) THEN CompleteExchange(oa) ELSE oa
Heard(oa, method, tr, sdp) == HandleOfferAnswer(Received(oa, method, tr, sdp), sdp)

\* The fields of a session, for the proofs that look at them one by one.
LEMMA Recs == \A s \in SessionType : Rec(s)
BY DEF Rec, SessionType

\* What a change of one field of an update leaves alone.
LEMMA UpdFields ==
    ASSUME NEW u \in RequestType, NEW v
    PROVE  /\ LET w == [u EXCEPT !.open = v]
              IN  /\ w.open = v /\ w.role = u.role /\ w.method = u.method /\ w.sdp = u.sdp
                  /\ w.cseq = u.cseq /\ w.final = u.final
           /\ LET w == [u EXCEPT !.final = v]
              IN  /\ w.final = v /\ w.role = u.role /\ w.method = u.method /\ w.sdp = u.sdp
                  /\ w.cseq = u.cseq /\ w.open = u.open
BY DEF RequestType

\* A new update holds what it was made of, and waits for its final response.
LEMMA RequestFields ==
    \A role, method, sdp, cseq :
        LET u == RequestOf(role, method, sdp, cseq)
        IN  /\ u.role = role /\ u.method = method /\ u.sdp = sdp /\ u.cseq = cseq
            /\ u.final = "REQUEST" /\ u.open = TRUE
BY DEF RequestOf

-----------------------------------------------------------------------------
(***************************************************************************)
(* What happens to the offer/answer state in each step of an exchange.           *)
(***************************************************************************)

\* A message heard, and an exchange completed, leave a typed state.
LEMMA HeardType ==
    ASSUME NEW oa \in OaType, NEW method, NEW tr \in Triggers, NEW sdp \in Nat
    PROVE  Heard(oa, method, tr, sdp) \in OaType /\ Completed(oa) \in OaType
BY ReceivedType, ExchangeTypes DEF Heard, Completed, None

\* A message changed the state: to an exchange agreed upon, or to an offer.
Changed(oa, prop) ==
    oa.st = "ESTABLISHED" /\ oa.prop = prop /\ oa.changed /\ ~oa.progress /\ prop # None

\* UpdateMedia completes the exchange that a message agreed upon, and nothing else.
LEMMA Completes ==
    ASSUME NEW oa \in OaType, NEW v
    PROVE  LET w == Completed(oa)
           IN  /\ Changed(oa, v) => Calm(w) /\ w.cur = v
               /\ Calm(oa) => Calm(w) /\ w.cur = oa.cur
               /\ Made(oa, v) => Made(w, v) /\ w.cur = oa.cur
               /\ TakenUp(oa, v) => TakenUp(w, v) /\ w.cur = oa.cur
               /\ ~oa.changed => w = oa
               /\ w.st = oa.st
               /\ ~Stable(oa.st) => w.cur = oa.cur
BY DEF Completed, CompleteExchange, Stable, OaType, None, Changed, Calm, Made, TakenUp

\* After a failure the state is that of no exchange, and the view is kept.
LEMMA Restores ==
    ASSUME NEW oa \in OaType,
           oa.st \in {"ESTABLISHED", "OFFER_CHANGE_SENT", "OFFER_CHANGE_RECEIVED"}
    PROVE  Calm(RestoreState(oa)) /\ RestoreState(oa).cur = oa.cur
BY DEF OaType, RestoreState, Calm, None

\* An UPDATE or re-INVITE sent makes the offer that it carries; one without SDP none.
LEMMA Offers ==
    ASSUME NEW oa \in OaType, NEW v \in Nat \ {None}, NEW tr \in {"INVITE", "UPDATE"},
           NEW offer \in BOOLEAN
    PROVE  LET p == IF offer THEN CreateProposal(oa, v) ELSE oa
               w == Completed(Sent(p, tr, GetSdp(p)))
           IN  /\ Calm(oa) /\ offer => GetSdp(p) = v /\ Made(w, v) /\ w.cur = oa.cur
               /\ Calm(oa) /\ ~offer => GetSdp(p) = None /\ Calm(w) /\ w.cur = oa.cur
               /\ Made(oa, None) => GetSdp(p) = None /\ Made(w, None) /\ w.cur = oa.cur
<1>. DEFINE p == IF offer THEN CreateProposal(oa, v) ELSE oa
            sdp == GetSdp(p)
            h == Sent(p, tr, sdp)
<1>1. p \in OaType /\ sdp \in Nat
  BY ExchangeTypes
<1>2. /\ Calm(oa) /\ offer => /\ p.st = "ESTABLISHED" /\ p.cur = oa.cur /\ p.prop = v
      /\ (Calm(oa) /\ ~offer) \/ Made(oa, None) => p = oa
  BY DEF CreateProposal, Stable, OaType, Calm, Made
<1>. HIDE DEF p
<1>3. /\ Calm(oa) /\ offer => sdp = v
      /\ (Calm(oa) /\ ~offer) \/ Made(oa, None) => sdp = None
  BY <1>2 DEF GetSdp, OfferSent, Calm, Made
<1>. HIDE DEF sdp
<1>4. h \in OaType
  BY <1>1, SentType DEF Triggers
<1>5. ASSUME Calm(oa), offer PROVE Made(h, v) /\ h.cur = oa.cur
  BY <1>1, <1>2, <1>3, <1>5 DEF Made, Sent, OnSent, Counts, OfferSent, OaType, None, Offering
<1>6. ASSUME sdp = None
      PROVE  (Calm(p) => Calm(h)) /\ (Made(p, None) => Made(h, None)) /\ h.cur = p.cur
  BY <1>1, <1>6 DEF Calm, Made, Sent, OnSent, Counts, OfferSent, OaType, None, Offering
<1>. HIDE DEF h
<1>. QED  BY <1>2, <1>3, <1>4, <1>5, <1>6, Completes DEF p, sdp, h

\* A 2xx takes up the offer it answers, or makes the view in force an offer.
LEMMA Answers2xx ==
    ASSUME NEW oa \in OaType
    PROVE  /\ \A v \in Nat : TakenUp(oa, v) =>
                  LET w == Completed(Sent(oa, "SUCCESS", v)) IN Calm(w) /\ w.cur = v
           /\ Calm(oa) /\ oa.cur # None =>
                  LET w == Completed(Sent(oa, "SUCCESS", oa.cur))
                  IN  Made(w, None) /\ w.cur = oa.cur
<1>1. ASSUME NEW v \in Nat, TakenUp(oa, v)
      PROVE  LET w == Completed(Sent(oa, "SUCCESS", v)) IN Calm(w) /\ w.cur = v
  <2>1. Sent(oa, "SUCCESS", v) \in OaType
    BY SentType DEF Triggers
  <2>2. Changed(Sent(oa, "SUCCESS", v), v)
    BY <1>1 DEF TakenUp, Changed, Sent, OnSent, Counts, OfferSent, OaType, None, Answering
  <2>. QED  BY <2>1, <2>2, Completes
<1>2. ASSUME Calm(oa), oa.cur # None
      PROVE  LET w == Completed(Sent(oa, "SUCCESS", oa.cur))
             IN  Made(w, None) /\ w.cur = oa.cur
  <2>. DEFINE h == Sent(oa, "SUCCESS", oa.cur)
  <2>1. h \in OaType
    BY SentType DEF Triggers, OaType
  <2>2. Made(h, None) /\ h.cur = oa.cur
    BY <1>2 DEF Calm, Made, Sent, OnSent, Counts, OfferSent, OaType, None, Offering
  <2>. HIDE DEF h
  <2>. QED  BY <2>1, <2>2, Completes DEF h
<1>. QED  BY <1>1, <1>2

\* An offer heard while there is no exchange is taken up, and the view kept.
LEMMA HearsOffer ==
    ASSUME NEW oa \in OaType, NEW method \in {"INVITE", "UPDATE"}, NEW sdp \in Nat, Calm(oa)
    PROVE  LET h == Heard(oa, method, method, sdp)
               w == Completed(h)
           IN  /\ IF sdp # None THEN TakenUp(w, sdp) ELSE Calm(w)
               /\ w.cur = oa.cur /\ h.cur = oa.cur
               /\ h.st \in {"ESTABLISHED", "OFFER_CHANGE_RECEIVED"}
<1>. DEFINE h == Heard(oa, method, method, sdp)
<1>1. h \in OaType
  BY HeardType DEF Triggers
<1>2. sdp # None => TakenUp(h, sdp)
  BY DEF Calm, TakenUp, Heard, Received, HandleOfferAnswer, OnReceived, Counts, Stray,
     OfferReceived, OaType, None, Offering
<1>3. sdp = None => Calm(h)
  BY DEF Calm, Heard, Received, HandleOfferAnswer, OnReceived, Counts, Stray, OfferReceived,
     OaType, None, Offering
<1>4. h.cur = oa.cur /\ h.st \in {"ESTABLISHED", "OFFER_CHANGE_RECEIVED"}
  BY DEF Calm, Heard, Received, HandleOfferAnswer, OnReceived, Counts, Stray, OfferReceived,
     OaType, None, Offering
<1>. HIDE DEF h
<1>. QED  BY <1>1, <1>2, <1>3, <1>4, Completes DEF h

\* A 2xx heard completes the offer made, or is itself an offer to answer.
LEMMA HearsSuccess ==
    ASSUME NEW oa \in OaType, NEW method \in {"INVITE", "UPDATE"}, NEW sdp \in Nat
    PROVE  LET w == Completed(Heard(oa, method, "SUCCESS", sdp))
           IN  /\ \A v : Made(oa, v) => IF sdp # None THEN Calm(w) /\ w.cur = sdp
                                        ELSE Made(w, v) /\ w.cur = oa.cur
               /\ Calm(oa) => /\ w.cur = oa.cur
                              /\ IF sdp # None /\ method = "INVITE" THEN TakenUp(w, sdp)
                                 ELSE Calm(w)
<1>. DEFINE h == Heard(oa, method, "SUCCESS", sdp)
<1>1. h \in OaType
  BY HeardType DEF Triggers
<1>2. ASSUME NEW v, Made(oa, v)
      PROVE  IF sdp # None THEN Changed(h, sdp) ELSE Made(h, v) /\ h.cur = oa.cur
  BY <1>2 DEF Made, Changed, Heard, Received, HandleOfferAnswer, OnReceived, Counts, Stray,
              OfferReceived, OaType, None, Answering
<1>3. ASSUME Calm(oa)
      PROVE  /\ h.cur = oa.cur
             /\ IF sdp # None /\ method = "INVITE" THEN TakenUp(h, sdp) ELSE Calm(h)
  BY <1>3 DEF Calm, TakenUp, Heard, Received, HandleOfferAnswer, OnReceived, Counts, Stray,
              OfferReceived, OaType, None, Offering
<1>. HIDE DEF h
<1>. QED  BY <1>1, <1>2, <1>3, Completes DEF h

\* A failure heard ends the exchange with the view that was in force.
LEMMA HearsFailure ==
    ASSUME NEW oa \in OaType, NEW method, NEW v, Calm(oa) \/ Made(oa, v)
    PROVE  LET w == RestoreState(Completed(Heard(oa, method, "FAILURE", None)))
           IN  Calm(w) /\ w.cur = oa.cur
<1>. DEFINE h == Heard(oa, method, "FAILURE", None)
<1>1. h \in OaType /\ Completed(h) \in OaType
  BY HeardType DEF Triggers, None
<1>2. h.st = "ESTABLISHED" /\ h.cur = oa.cur /\ ~h.changed
  <2>1. CASE oa.st = "ESTABLISHED"
    BY <2>1 DEF Heard, Received, HandleOfferAnswer, OnReceived, Counts, Stray, OfferReceived,
                OaType, None, Offering
  <2>2. CASE oa.st = "OFFER_CHANGE_SENT"
    BY <2>2 DEF Heard, Received, HandleOfferAnswer, OnReceived, Counts, Stray, OfferReceived,
                OaType, None, Answering
  <2>. QED  BY <2>1, <2>2 DEF Calm, Made
<1>. HIDE DEF h
<1>3. Completed(h) = h
  BY <1>1, <1>2, Completes
<1>. QED  BY <1>1, <1>2, <1>3, Restores DEF h

\* The ACK answers the offer of a 2xx, and then that offer is in force.
LEMMA SendsAck ==
    ASSUME NEW oa \in OaType
    PROVE  LET w == Completed(Sent(oa, "ACK", GetSdp(oa)))
           IN  /\ Calm(oa) => Calm(w) /\ w.cur = oa.cur
               /\ Made(oa, None) => Made(w, None) /\ w.cur = oa.cur
               /\ TakenUp(oa, oa.prop) => Calm(w) /\ w.cur = oa.prop
               /\ oa.st \in {"ESTABLISHED", "OFFER_CHANGE_SENT"} =>
                      w.st = oa.st /\ w.cur = oa.cur
               /\ oa.st = "OFFER_CHANGE_RECEIVED" =>
                      w.st = "ESTABLISHED" \/ (w.st = oa.st /\ w.mode = oa.mode)
<1>. DEFINE h == Sent(oa, "ACK", GetSdp(oa))
<1>1. h \in OaType
  BY SentType, ExchangeTypes DEF Triggers
<1>2. oa.st = "ESTABLISHED" => /\ h.st = "ESTABLISHED" /\ h.cur = oa.cur /\ ~h.changed
                               /\ Calm(oa) => Calm(h)
  BY DEF Calm, GetSdp, Sent, OnSent, Counts, OfferSent, OaType, None, Offering
<1>3. oa.st = "OFFER_CHANGE_SENT" => /\ h.st = oa.st /\ h.cur = oa.cur
                                     /\ ~h.changed /\ (Made(oa, None) => Made(h, None))
  BY DEF Made, GetSdp, Sent, OnSent, Counts, OfferSent, OaType, None
<1>4. oa.st = "OFFER_CHANGE_RECEIVED" => /\ \/ h.st = "ESTABLISHED"
                                            \/ h.st = oa.st /\ h.mode = oa.mode /\ ~h.changed
                                         /\ TakenUp(oa, oa.prop) => Changed(h, oa.prop)
  BY DEF TakenUp, Changed, GetSdp, Sent, OnSent, Counts, OfferSent, OaType, None, Answering
<1>. HIDE DEF h
<1>5. /\ Calm(oa) => oa.st = "ESTABLISHED"
      /\ Made(oa, None) => oa.st = "OFFER_CHANGE_SENT"
      /\ TakenUp(oa, oa.prop) => oa.st = "OFFER_CHANGE_RECEIVED"
  BY DEF Calm, Made, TakenUp
<1>. QED  BY <1>1, <1>2, <1>3, <1>4, <1>5, Completes DEF h

\* An ACK heard completes the offer of the 2xx if it answers it.
LEMMA HearsAck ==
    ASSUME NEW oa \in OaType, NEW sdp \in Nat,
           oa.st \in {"ESTABLISHED", "OFFER_CHANGE_SENT", "OFFER_CHANGE_RECEIVED"}
    PROVE  LET h == Heard(oa, "ACK", "ACK", sdp)
               w == Completed(h)
           IN  /\ h.cur = oa.cur /\ (Calm(oa) => Calm(h))
               /\ IF oa.st = "OFFER_CHANGE_SENT" /\ sdp # None
                  THEN /\ h.st = "ESTABLISHED" /\ w.st = "ESTABLISHED" /\ w.cur = sdp
                       /\ Made(oa, None) => Calm(w)
                  ELSE /\ w = h /\ h.st = oa.st
                       /\ h.prop = oa.prop /\ h.mode = oa.mode /\ h.progress = oa.progress
<1>. DEFINE h == Heard(oa, "ACK", "ACK", sdp)
<1>1. h \in OaType
  BY HeardType DEF Triggers
<1>2. h.cur = oa.cur /\ (Calm(oa) => Calm(h))
  BY DEF Calm, Heard, Received, HandleOfferAnswer, OnReceived, Counts, Stray, OfferReceived,
     OaType, None, Answering, Offering
<1>3. ASSUME oa.st = "OFFER_CHANGE_SENT", sdp # None
      PROVE  /\ h.st = "ESTABLISHED" /\ h.prop = sdp /\ h.changed
             /\ Made(oa, None) => Changed(h, sdp)
  BY <1>3 DEF Made, Changed, Heard, Received, HandleOfferAnswer, OnReceived, Counts, Stray,
              OfferReceived, OaType, None, Answering
<1>4. ASSUME ~(oa.st = "OFFER_CHANGE_SENT" /\ sdp # None)
      PROVE  /\ h.st = oa.st /\ ~h.changed
             /\ h.prop = oa.prop /\ h.mode = oa.mode /\ h.progress = oa.progress
  BY <1>4 DEF Heard, Received, HandleOfferAnswer, OnReceived, Counts, Stray, OfferReceived,
              OaType, None, Answering, Offering
<1>. HIDE DEF h
<1>5. ASSUME h.st = "ESTABLISHED", h.prop = sdp, h.changed, sdp # None
      PROVE  Completed(h).cur = sdp
  BY <1>5 DEF Completed, CompleteExchange, Stable, OaType
<1>. QED  BY <1>1, <1>2, <1>3, <1>4, <1>5, Completes DEF h

-----------------------------------------------------------------------------
(***************************************************************************)
(* Two ends, the client e with session s and its peer with t, and a step of e from  *)
(* s to s2.  Whatever its kind, the step keeps each part of the invariant, for e as *)
(* client and (with f its peer) as server; a part that the step does not touch is   *)
(* kept as well, since the messages on their way are others.                        *)
(***************************************************************************)
\* Numbers are numbers, and there are two ends.
Sized(e, s, s2, t, N, N2) ==
    /\ s.cseq \in Nat /\ s.rseq \in Nat /\ s.upd.cseq \in Nat
    /\ s2.cseq \in Nat /\ s2.rseq \in Nat /\ s2.upd.cseq \in Nat
    /\ t.cseq \in Nat /\ t.rseq \in Nat /\ t.upd.cseq \in Nat
    /\ {s.upd.method, s2.upd.method, t.upd.method} \subseteq {"INVITE", "UPDATE"}
    /\ \A m \in N \cup N2 \cup Puts(s) \cup Puts(s2) \cup Puts(t) : m.cseq \in Nat
    /\ Peer(e) \in Ends /\ Peer(e) # e /\ Peer(Peer(e)) = e

\* The invariant of both ends.
Pair(e, s, t, N) ==
    /\ s \in SessionType /\ t \in SessionType /\ N \subseteq Message
    /\ Steady(s) /\ Steady(t) /\ Numbers(s) /\ Numbers(t) /\ Bare(N)
    /\ Common(e, s, t, N) /\ Common(Peer(e), t, s, N)
    /\ ~Ended(s) /\ ~Ended(t) =>
           Between(e, s, t, N) /\ Between(Peer(e), t, s, N) /\ Together(e, s, t, N)

\* A step of e that leaves its own session in order.
Move(e, s, s2, t, N, N2) ==
    /\ Pair(e, s, t, N)
    /\ s2 \in SessionType /\ N2 \subseteq Message /\ Steady(s2) /\ Numbers(s2)

\* The types of the numbers and methods compared.
LEMMA Sizes ==
    ASSUME NEW e \in Ends, NEW s, NEW s2, NEW t, NEW N, NEW N2, Move(e, s, s2, t, N, N2)
    PROVE  Sized(e, s, s2, t, N, N2)
<1>1. \A r \in SessionType :
          /\ r.cseq \in Nat /\ r.rseq \in Nat /\ r.upd.cseq \in Nat
          /\ r.upd.method \in {"INVITE", "UPDATE"}
  BY DEF SessionType, RequestType
<1>2. \A m \in Message : m.cseq \in Nat
  BY DEF Message
<1>. QED  BY <1>1, <1>2, Peers DEF Sized, Move, Pair, Numbers

\* What holds with both ends or one, after a step that changes nothing of it.
LEMMA StillCommon ==
    ASSUME NEW e \in Ends, NEW s, NEW s2, NEW t, NEW N, NEW N2, Move(e, s, s2, t, N, N2),
           ~Ended(s), ~Ended(s2), Still(e, s, s2, N, N2)
    PROVE  Common(e, s2, t, N2) /\ Common(Peer(e), t, s2, N2)
<1>. DEFINE f == Peer(e)
<1>1. /\ Sized(e, s, s2, t, N, N2) /\ Common(e, s, t, N) /\ Common(f, t, s, N)
      /\ Shape(s) /\ Shape(s2) /\ Numbers(s) /\ Numbers(t) /\ Numbers(s2)
      /\ Bare(N) /\ Steady(t)
  BY Sizes DEF Move, Pair, Steady
<1>2. ~Ended(t) => Between(e, s, t, N) /\ Between(f, t, s, N)
  BY DEF Move, Pair
<1>. HIDE DEF f
<1>3. Issued(e, s2, t, N2)
  BY <1>1 DEF Still, Sized, Common, Sends, Noise, SameView, Issued
<1>4. Issued(f, t, s2, N2)
  BY <1>1 DEF f, Still, Sized, Common, Sends, Noise, SameQueue, SameUpd, SameView, Issued
<1>5. Kindred(e, s2, t, N2)
  BY <1>1 DEF Still, Common, Sends, Noise, SameUpd, SameView, Req, Fin, Kindred
<1>6. Kindred(f, t, s2, N2)
  BY <1>1 DEF Still, Common, Sends, Noise, SameQueue, SameUpd, SameView, Req, Fin, Kindred
<1>7. OneRequest(e, t, N2)
  BY <1>1 DEF Still, Common, Sends, Noise, Req, OneRequest
<1>8. OneRequest(f, s2, N2)
  BY <1>1 DEF Still, Common, Sends, Noise, SameQueue, Req, OneRequest
<1>9. Dealt(e, s2, t, N2)
  BY <1>1 DEF Still, Common, Sends, Noise, SameUpd, SameView, Fin, AckOf, Dealt
<1>10. Dealt(f, t, s2, N2)
  BY <1>1 DEF Still, Common, Sends, Noise, SameQueue, SameUpd, SameView, Fin, AckOf, Dealt, Done,
              Serves
<1>11. OneAck(e, s2, N2)
  BY <1>1 DEF Still, Common, Sends, Noise, SameUpd, SameView, AckOf, OneAck, ClientOpen
<1>12. OneAck(f, t, N2)
  BY <1>1 DEF Still, Common, Sends, Noise, AckOf, OneAck
<1>13. Echoes(e, s2, t, N2)
  BY <1>1 DEF Still, Common, Sends, Noise, SameUpd, SameView, SameOa, AckOf, Echoes, GetSdp
<1>14. Echoes(f, t, s2, N2)
  BY <1>1 DEF Still, Common, Sends, Noise, SameUpd, SameView, SameOa, AckOf, Echoes, Returned,
              Confirms, Made
<1>15. InForce(e, s2, t, N2)
  BY <1>1 DEF Still, Common, Sends, Noise, SameUpd, SameView, Fin, Ans, Acc, InForce, Waits
<1>16. InForce(f, t, s2, N2)
  BY <1>1 DEF InForce
<1>. QED  BY <1>3, <1>4, <1>5, <1>6, <1>7, <1>8, <1>9, <1>10, <1>11, <1>12, <1>13, <1>14, <1>15,
             <1>16
             DEF Common, f

\* What holds with both ends or one, after a request.
LEMMA RequestsCommon ==
    ASSUME NEW e \in Ends, NEW s, NEW s2, NEW t, NEW N, NEW N2, Move(e, s, s2, t, N, N2),
           ~Ended(s), ~Ended(s2), Requests(e, s, s2, N, N2)
    PROVE  Common(e, s2, t, N2) /\ Common(Peer(e), t, s2, N2)
<1>. DEFINE f == Peer(e)
<1>1. /\ Sized(e, s, s2, t, N, N2) /\ Common(e, s, t, N) /\ Common(f, t, s, N)
      /\ Shape(s) /\ Shape(s2) /\ Numbers(s) /\ Numbers(t) /\ Numbers(s2)
      /\ Bare(N) /\ Steady(t)
  BY Sizes DEF Move, Pair, Steady
<1>2. ~Ended(t) => Between(e, s, t, N) /\ Between(f, t, s, N)
  BY DEF Move, Pair
<1>. HIDE DEF f
<1>3. Issued(e, s2, t, N2)
  BY <1>1 DEF Requests, Sized, Common, Sends, Noise, Issued
<1>4. Issued(f, t, s2, N2)
  BY <1>1 DEF f, Requests, Sized, Common, Sends, Noise, SameQueue, Req, IsChange, Issued, Waits
<1>5. Kindred(e, s2, t, N2)
  BY <1>1 DEF Requests, Sized, Common, Sends, Noise, Req, Fin, IsChange, IsFinal, Issued, Kindred
<1>6. Kindred(f, t, s2, N2)
  BY <1>1 DEF f, Requests, Sized, Common, Sends, Noise, SameQueue, Req, Fin, IsChange, IsFinal,
              Kindred, Waits
<1>7. OneRequest(e, t, N2)
  BY <1>1, <1>2 DEF Requests, Sized, Common, Sends, Noise, Req, Issued, OneRequest, Waits, CanAck,
                    Owing, Made, TakenUp, Shape, Resting, Between, Regular, Meant, Asked
<1>8. OneRequest(f, s2, N2)
  BY <1>1 DEF f, Requests, Sized, Common, Sends, Noise, SameQueue, Req, OneRequest
<1>9. Dealt(e, s2, t, N2)
  BY <1>1 DEF Requests, Sized, Common, Sends, Noise, Req, Fin, AckOf, IsAck, Dealt, CanAck, Owing
<1>10. Dealt(f, t, s2, N2)
  BY <1>1 DEF Requests, Common, Sends, Noise, SameQueue, Req, Fin, AckOf, IsChange, IsFinal,
              IsAck, Dealt, Done, Waits, Serves
<1>11. OneAck(e, s2, N2)
  BY <1>1 DEF Requests, Sized, Common, Sends, Noise, AckOf, IsAck, Issued, OneAck, Bare
<1>12. OneAck(f, t, N2)
  BY <1>1 DEF f, Requests, Sized, Common, Sends, Noise, Req, AckOf, OneAck
<1>13. Echoes(e, s2, t, N2)
  BY <1>1 DEF Requests, Sized, Common, Sends, Noise, AckOf, IsAck, Echoes, CanAck, Owing
<1>14. Echoes(f, t, s2, N2)
  BY <1>1 DEF f, Requests, Sized, Common, Sends, Noise, Req, AckOf, Echoes, Returned, Confirms
<1>15. InForce(e, s2, t, N2)
  BY <1>1 DEF Requests, Sized, Common, Sends, Noise, Req, Fin, Ans, Acc, Issued, InForce
<1>16. InForce(f, t, s2, N2)
  BY <1>1 DEF InForce
<1>. QED  BY <1>3, <1>4, <1>5, <1>6, <1>7, <1>8, <1>9, <1>10, <1>11, <1>12, <1>13, <1>14, <1>15,
             <1>16
             DEF Common, f

\* What holds with both ends or one, after a request that the server takes up.
LEMMA BeginsCommon ==
    ASSUME NEW e \in Ends, NEW s, NEW s2, NEW t, NEW N, NEW N2, Move(e, s, s2, t, N, N2),
           ~Ended(s), ~Ended(s2), Begins(e, s, s2, N, N2)
    PROVE  Common(e, s2, t, N2) /\ Common(Peer(e), t, s2, N2)
<1>. DEFINE f == Peer(e)
<1>1. /\ Sized(e, s, s2, t, N, N2) /\ Common(e, s, t, N) /\ Common(f, t, s, N)
      /\ Shape(s) /\ Shape(s2) /\ Numbers(s) /\ Numbers(t) /\ Numbers(s2)
      /\ Bare(N) /\ Steady(t)
  BY Sizes DEF Move, Pair, Steady
<1>2. ~Ended(t) => Between(e, s, t, N) /\ Between(f, t, s, N)
  BY DEF Move, Pair
<1>. HIDE DEF f
<1>3. Issued(e, s2, t, N2)
  BY <1>1 DEF Begins, Sized, Common, Sends, Noise, Issued
<1>4. Issued(f, t, s2, N2)
  BY <1>1 DEF f, Begins, Sized, Common, Sends, Noise, Takes, IsChange, Issued
<1>5. Kindred(e, s2, t, N2)
  BY <1>1 DEF Begins, Kindred, Serves
<1>6. Kindred(f, t, s2, N2)
  BY <1>1 DEF f, Begins, Sized, Common, Sends, Noise, Takes, Req, Fin, Kindred
<1>7. OneRequest(e, t, N2)
  BY <1>1 DEF Begins, Common, Sends, Noise, Req, OneRequest
<1>8. OneRequest(f, s2, N2)
  BY <1>1 DEF f, Begins, Sized, Common, Sends, Noise, Takes, Req, OneRequest
<1>9. Dealt(e, s2, t, N2)
  BY <1>1 DEF Begins, Common, Sends, Noise, Fin, AckOf, Dealt, Serves, ClientOpen, CanAck
<1>10. Dealt(f, t, s2, N2)
  BY <1>1 DEF Begins, Sized, Common, Sends, Noise, Takes, Fin, AckOf, Dealt, Done
<1>11. OneAck(e, s2, N2)
  BY <1>1 DEF Begins, Common, Sends, Noise, AckOf, OneAck, Serves, ClientOpen, CanAck
<1>12. OneAck(f, t, N2)
  BY <1>1 DEF Begins, Common, Sends, Noise, AckOf, OneAck
<1>13. Echoes(e, s2, t, N2)
  BY <1>1 DEF Begins, Common, Sends, Noise, AckOf, Echoes, Serves, ClientOpen, CanAck
<1>14. Echoes(f, t, s2, N2)
  BY <1>1 DEF Begins, Common, Sends, Noise, AckOf, Echoes, Returned, Calm, Made
<1>15. InForce(e, s2, t, N2)
  BY <1>1 DEF Begins, Ans, Acc, InForce, Waits, Serves
<1>16. InForce(f, t, s2, N2)
  BY <1>1 DEF InForce
<1>. QED  BY <1>3, <1>4, <1>5, <1>6, <1>7, <1>8, <1>9, <1>10, <1>11, <1>12, <1>13, <1>14, <1>15,
             <1>16
             DEF Common, f

\* What holds with both ends or one, after a request refused.
LEMMA TurnsDownCommon ==
    ASSUME NEW e \in Ends, NEW s, NEW s2, NEW t, NEW N, NEW N2, Move(e, s, s2, t, N, N2),
           ~Ended(s), ~Ended(s2), TurnsDown(e, s, s2, N, N2)
    PROVE  Common(e, s2, t, N2) /\ Common(Peer(e), t, s2, N2)
<1>. DEFINE f == Peer(e)
<1>1. /\ Sized(e, s, s2, t, N, N2) /\ Common(e, s, t, N) /\ Common(f, t, s, N)
      /\ Shape(s) /\ Shape(s2) /\ Numbers(s) /\ Numbers(t) /\ Numbers(s2)
      /\ Bare(N) /\ Steady(t)
  BY Sizes DEF Move, Pair, Steady
<1>2. ~Ended(t) => Between(e, s, t, N) /\ Between(f, t, s, N)
  BY DEF Move, Pair
<1>. HIDE DEF f
<1>3. Issued(e, s2, t, N2)
  BY <1>1 DEF TurnsDown, Sized, Common, Sends, Noise, SameView, Issued
<1>4. Issued(f, t, s2, N2)
  BY <1>1 DEF f, TurnsDown, Sized, Common, Sends, Noise, SameUpd, SameView, Takes, IsChange, Issued
<1>5. Kindred(e, s2, t, N2)
  BY <1>1 DEF TurnsDown, Sized, Common, Sends, Noise, SameUpd, SameView, Req, Fin, IsChange, Kindred
<1>6. Kindred(f, t, s2, N2)
  BY <1>1 DEF f, TurnsDown, Sized, Common, Sends, Noise, SameUpd, SameView, Takes, Req, Fin, Kindred
<1>7. OneRequest(e, t, N2)
  BY <1>1 DEF TurnsDown, Common, Sends, Noise, Req, IsChange, OneRequest
<1>8. OneRequest(f, s2, N2)
  BY <1>1 DEF f, TurnsDown, Sized, Common, Sends, Noise, Takes, Req, OneRequest
<1>9. Dealt(e, s2, t, N2)
  BY <1>1 DEF TurnsDown, Sized, Common, Sends, Noise, SameUpd, SameView, Fin, AckOf, IsChange,
              IsAck, Dealt
<1>10. Dealt(f, t, s2, N2)
  BY <1>1 DEF TurnsDown, Sized, Common, Sends, Noise, SameUpd, SameView, Takes, Fin, AckOf, Dealt,
              Done, Serves, Numbers
<1>11. OneAck(e, s2, N2)
  BY <1>1 DEF TurnsDown, Common, Sends, Noise, SameUpd, SameView, AckOf, IsChange, IsAck, OneAck,
              ClientOpen
<1>12. OneAck(f, t, N2)
  BY <1>1 DEF f, TurnsDown, Sized, Common, Sends, Noise, AckOf, OneAck
<1>13. Echoes(e, s2, t, N2)
  BY <1>1 DEF TurnsDown, Common, Sends, Noise, SameUpd, SameView, SameOa, AckOf, Echoes, GetSdp
<1>14. Echoes(f, t, s2, N2)
  BY <1>1 DEF TurnsDown, Common, Sends, Noise, SameUpd, SameView, SameOa, AckOf, Echoes, Returned,
              Confirms, Made
<1>15. InForce(e, s2, t, N2)
  BY <1>1 DEF TurnsDown, Common, Sends, Noise, SameUpd, SameView, Fin, Ans, Acc, InForce, Waits
<1>16. InForce(f, t, s2, N2)
  BY <1>1 DEF InForce
<1>. QED  BY <1>3, <1>4, <1>5, <1>6, <1>7, <1>8, <1>9, <1>10, <1>11, <1>12, <1>13, <1>14, <1>15,
             <1>16
             DEF Common, f

\* What holds with both ends or one, after a request put off.
LEMMA PutsOffCommon ==
    ASSUME NEW e \in Ends, NEW s, NEW s2, NEW t, NEW N, NEW N2, Move(e, s, s2, t, N, N2),
           ~Ended(s), ~Ended(s2), PutsOff(e, s, s2, N, N2)
    PROVE  Common(e, s2, t, N2) /\ Common(Peer(e), t, s2, N2)
<1>. DEFINE f == Peer(e)
<1>1. /\ Sized(e, s, s2, t, N, N2) /\ Common(e, s, t, N) /\ Common(f, t, s, N)
      /\ Shape(s) /\ Shape(s2) /\ Numbers(s) /\ Numbers(t) /\ Numbers(s2)
      /\ Bare(N) /\ Steady(t)
  BY Sizes DEF Move, Pair, Steady
<1>2. ~Ended(t) => Between(e, s, t, N) /\ Between(f, t, s, N)
  BY DEF Move, Pair
<1>. HIDE DEF f
<1>3. Issued(e, s2, t, N2)
  BY <1>1 DEF PutsOff, Sized, Common, Sends, Noise, SameView, Issued
<1>4. Issued(f, t, s2, N2)
  BY <1>1 DEF f, PutsOff, Sized, Common, Sends, Noise, SameUpd, SameView, IsChange, Issued
<1>5. Kindred(e, s2, t, N2)
  BY <1>1 DEF PutsOff, Common, Sends, Noise, SameUpd, SameView, Req, Fin, Kindred
<1>6. Kindred(f, t, s2, N2)
  BY <1>1 DEF f, PutsOff, Sized, Common, Sends, Noise, SameUpd, SameView, Req, Fin, Kindred
<1>7. OneRequest(e, t, N2)
  BY <1>1 DEF PutsOff, Common, Sends, Noise, Req, OneRequest
<1>8. OneRequest(f, s2, N2)
  BY <1>1 DEF f, PutsOff, Sized, Common, Sends, Noise, Req, OneRequest
<1>9. Dealt(e, s2, t, N2)
  BY <1>1 DEF PutsOff, Common, Sends, Noise, SameUpd, SameView, Fin, AckOf, Dealt
<1>10. Dealt(f, t, s2, N2)
  BY <1>1 DEF PutsOff, Sized, Common, Sends, Noise, SameUpd, SameView, Fin, AckOf, Dealt, Done,
              Serves
<1>11. OneAck(e, s2, N2)
  BY <1>1 DEF PutsOff, Common, Sends, Noise, SameUpd, SameView, AckOf, OneAck, ClientOpen
<1>12. OneAck(f, t, N2)
  BY <1>1 DEF PutsOff, Common, Sends, Noise, AckOf, OneAck
<1>13. Echoes(e, s2, t, N2)
  BY <1>1 DEF PutsOff, Common, Sends, Noise, SameUpd, SameView, SameOa, AckOf, Echoes, GetSdp
<1>14. Echoes(f, t, s2, N2)
  BY <1>1 DEF PutsOff, Common, Sends, Noise, SameUpd, SameView, SameOa, AckOf, Echoes, Returned,
              Confirms, Made
<1>15. InForce(e, s2, t, N2)
  BY <1>1 DEF PutsOff, Common, Sends, Noise, SameUpd, SameView, Fin, Ans, Acc, InForce, Waits
<1>16. InForce(f, t, s2, N2)
  BY <1>1 DEF InForce
<1>. QED  BY <1>3, <1>4, <1>5, <1>6, <1>7, <1>8, <1>9, <1>10, <1>11, <1>12, <1>13, <1>14, <1>15,
             <1>16
             DEF Common, f

\* What holds with both ends or one, after a 2xx sent.
LEMMA GrantsCommon ==
    ASSUME NEW e \in Ends, NEW s, NEW s2, NEW t, NEW N, NEW N2, Move(e, s, s2, t, N, N2),
           ~Ended(s), ~Ended(s2), Grants(e, s, s2, N, N2)
    PROVE  Common(e, s2, t, N2) /\ Common(Peer(e), t, s2, N2)
<1>. DEFINE f == Peer(e)
<1>1. /\ Sized(e, s, s2, t, N, N2) /\ Common(e, s, t, N) /\ Common(f, t, s, N)
      /\ Shape(s) /\ Shape(s2) /\ Numbers(s) /\ Numbers(t) /\ Numbers(s2)
      /\ Bare(N) /\ Steady(t)
  BY Sizes DEF Move, Pair, Steady
<1>2. ~Ended(t) => Between(e, s, t, N) /\ Between(f, t, s, N)
  BY DEF Move, Pair
<1>. HIDE DEF f
<1>3. Issued(e, s2, t, N2)
  BY <1>1 DEF Grants, Sized, Common, Sends, Noise, Issued
<1>4. Issued(f, t, s2, N2)
  BY <1>1 DEF f, Grants, Sized, Common, Sends, Noise, SameQueue, SameUpd, Issued, Serves
<1>5. Kindred(e, s2, t, N2)
  BY <1>1 DEF Grants, Common, Sends, Noise, SameUpd, Req, Fin, Kindred
<1>6. Kindred(f, t, s2, N2)
  BY <1>1 DEF Grants, Common, Sends, Noise, SameQueue, SameUpd, Req, Fin, Kindred, Serves
<1>7. OneRequest(e, t, N2)
  BY <1>1 DEF Grants, Common, Sends, Noise, Req, IsChange, OneRequest
<1>8. OneRequest(f, s2, N2)
  BY <1>1 DEF f, Grants, Sized, Common, Sends, Noise, SameQueue, Req, OneRequest
<1>9. Dealt(e, s2, t, N2)
  BY <1>1 DEF Grants, Sized, Common, Sends, Noise, SameUpd, Fin, AckOf, IsAck, Dealt, Serves,
              ClientOpen, CanAck
<1>10. Dealt(f, t, s2, N2)
  BY <1>1 DEF Grants, Common, Sends, Noise, SameQueue, Fin, AckOf, Dealt, Done, Serves, Numbers
<1>11. OneAck(e, s2, N2)
  BY <1>1 DEF Grants, Sized, Common, Sends, Noise, SameUpd, AckOf, IsAck, OneAck, Serves,
              ClientOpen, CanAck
<1>12. OneAck(f, t, N2)
  BY <1>1 DEF f, Grants, Sized, Common, Sends, Noise, AckOf, OneAck
<1>13. Echoes(e, s2, t, N2)
  BY <1>1 DEF Grants, Sized, Common, Sends, Noise, SameUpd, AckOf, IsAck, Echoes, Serves,
              ClientOpen, CanAck
<1>14. Echoes(f, t, s2, N2)
  BY <1>1 DEF f, Grants, Sized, Common, Sends, Noise, AckOf, Echoes, Returned, Serves, Confirms
<1>15. InForce(e, s2, t, N2)
  BY <1>1 DEF Grants, Ans, Acc, InForce, Waits
<1>16. InForce(f, t, s2, N2)
  BY <1>1 DEF InForce
<1>. QED  BY <1>3, <1>4, <1>5, <1>6, <1>7, <1>8, <1>9, <1>10, <1>11, <1>12, <1>13, <1>14, <1>15,
             <1>16
             DEF Common, f

\* What holds with both ends or one, after a request withdrawn by CANCEL.
LEMMA WithdrawsCommon ==
    ASSUME NEW e \in Ends, NEW s, NEW s2, NEW t, NEW N, NEW N2, Move(e, s, s2, t, N, N2),
           ~Ended(s), ~Ended(s2), Withdraws(e, s, s2, N, N2)
    PROVE  Common(e, s2, t, N2) /\ Common(Peer(e), t, s2, N2)
<1>. DEFINE f == Peer(e)
<1>1. /\ Sized(e, s, s2, t, N, N2) /\ Common(e, s, t, N) /\ Common(f, t, s, N)
      /\ Shape(s) /\ Shape(s2) /\ Numbers(s) /\ Numbers(t) /\ Numbers(s2)
      /\ Bare(N) /\ Steady(t)
  BY Sizes DEF Move, Pair, Steady
<1>2. ~Ended(t) => Between(e, s, t, N) /\ Between(f, t, s, N)
  BY DEF Move, Pair
<1>. HIDE DEF f
<1>3. Issued(e, s2, t, N2)
  BY <1>1 DEF Withdraws, Sized, Common, Sends, Noise, Issued
<1>4. Issued(f, t, s2, N2)
  BY <1>1 DEF f, Withdraws, Sized, Common, Sends, Noise, SameQueue, SameUpd, Issued, Serves
<1>5. Kindred(e, s2, t, N2)
  BY <1>1 DEF Withdraws, Common, Sends, Noise, SameUpd, Req, Fin, Kindred
<1>6. Kindred(f, t, s2, N2)
  BY <1>1 DEF Withdraws, Common, Sends, Noise, SameQueue, SameUpd, Req, Fin, Kindred, Serves
<1>7. OneRequest(e, t, N2)
  BY <1>1 DEF Withdraws, Common, Sends, Noise, Req, IsChange, OneRequest
<1>8. OneRequest(f, s2, N2)
  BY <1>1 DEF f, Withdraws, Sized, Common, Sends, Noise, SameQueue, Req, OneRequest
<1>9. Dealt(e, s2, t, N2)
  BY <1>1 DEF Withdraws, Sized, Common, Sends, Noise, Fin, AckOf, IsAck, Dealt, CanAck, Owing
<1>10. Dealt(f, t, s2, N2)
  BY <1>1 DEF Withdraws, Common, Sends, Noise, SameQueue, Fin, AckOf, Dealt, Done, Serves, Numbers
<1>11. OneAck(e, s2, N2)
  BY <1>1 DEF Withdraws, Common, Sends, Noise, SameUpd, AckOf, IsAck, OneAck, Serves, ClientOpen,
              CanAck
<1>12. OneAck(f, t, N2)
  BY <1>1 DEF f, Withdraws, Sized, Common, Sends, Noise, AckOf, OneAck
<1>13. Echoes(e, s2, t, N2)
  BY <1>1 DEF Withdraws, Common, Sends, Noise, AckOf, Echoes, CanAck, Owing
<1>14. Echoes(f, t, s2, N2)
  BY <1>1 DEF Withdraws, Common, Sends, Noise, AckOf, Echoes, Returned, Serves, Confirms
<1>15. InForce(e, s2, t, N2)
  BY <1>1 DEF Withdraws, Ans, Acc, InForce, Waits
<1>16. InForce(f, t, s2, N2)
  BY <1>1 DEF InForce
<1>. QED  BY <1>3, <1>4, <1>5, <1>6, <1>7, <1>8, <1>9, <1>10, <1>11, <1>12, <1>13, <1>14, <1>15,
             <1>16
             DEF Common, f

\* What holds with both ends or one, after a 2xx received.
LEMMA GainsCommon ==
    ASSUME NEW e \in Ends, NEW s, NEW s2, NEW t, NEW N, NEW N2, Move(e, s, s2, t, N, N2),
           ~Ended(s), ~Ended(s2), Gains(e, s, s2, N, N2)
    PROVE  Common(e, s2, t, N2) /\ Common(Peer(e), t, s2, N2)
<1>. DEFINE f == Peer(e)
<1>1. /\ Sized(e, s, s2, t, N, N2) /\ Common(e, s, t, N) /\ Common(f, t, s, N)
      /\ Shape(s) /\ Shape(s2) /\ Numbers(s) /\ Numbers(t) /\ Numbers(s2)
      /\ Bare(N) /\ Steady(t)
  BY Sizes DEF Move, Pair, Steady
<1>2. ~Ended(t) => Between(e, s, t, N) /\ Between(f, t, s, N)
  BY DEF Move, Pair
<1>. HIDE DEF f
<1>3. Issued(e, s2, t, N2)
  BY <1>1 DEF Gains, Sized, Common, Sends, Noise, Issued
<1>4. Issued(f, t, s2, N2)
  BY <1>1 DEF f, Gains, Sized, Common, Sends, Noise, SameQueue, SameUpd, Issued
<1>5. Kindred(e, s2, t, N2)
  BY <1>1 DEF Gains, Common, Sends, Noise, SameUpd, Req, Fin, Kindred
<1>6. Kindred(f, t, s2, N2)
  BY <1>1 DEF Gains, Common, Sends, Noise, SameQueue, SameUpd, Req, Fin, Kindred
<1>7. OneRequest(e, t, N2)
  BY <1>1 DEF Gains, Common, Sends, Noise, Req, OneRequest
<1>8. OneRequest(f, s2, N2)
  BY <1>1 DEF Gains, Common, Sends, Noise, SameQueue, Req, OneRequest
<1>9. Dealt(e, s2, t, N2)
  BY <1>1 DEF Gains, Common, Sends, Noise, SameUpd, Fin, AckOf, Ans, Acc, Dealt
<1>10. Dealt(f, t, s2, N2)
  BY <1>1 DEF Gains, Common, Sends, Noise, SameQueue, Fin, AckOf, Dealt, Done, Serves
<1>11. OneAck(e, s2, N2)
  BY <1>1 DEF Gains, Common, Sends, Noise, SameUpd, AckOf, Ans, Acc, OneAck, Waits, ClientOpen,
              Shape, Asking, Serving
<1>12. OneAck(f, t, N2)
  BY <1>1 DEF Gains, Common, Sends, Noise, AckOf, OneAck
<1>13. Echoes(e, s2, t, N2)
  BY <1>1, <1>2 DEF Gains, Common, Sends, Noise, SameUpd, AckOf, Ans, Acc, Echoes, Returned,
                    InForce, Waits, Calm, Made, TakenUp, GetSdp, Shape, Asking, Serving, Between,
                    Accepted
<1>14. Echoes(f, t, s2, N2)
  BY <1>1 DEF Gains, Common, Sends, Noise, AckOf, Ans, Acc, Echoes, Returned, Waits, Confirms
<1>15. InForce(e, s2, t, N2)
  BY <1>1 DEF Gains, Ans, Acc, InForce, Waits
<1>16. InForce(f, t, s2, N2)
  BY <1>1 DEF InForce
<1>. QED  BY <1>3, <1>4, <1>5, <1>6, <1>7, <1>8, <1>9, <1>10, <1>11, <1>12, <1>13, <1>14, <1>15,
             <1>16
             DEF Common, f

\* What holds with both ends or one, after a failure received.
LEMMA MissesCommon ==
    ASSUME NEW e \in Ends, NEW s, NEW s2, NEW t, NEW N, NEW N2, Move(e, s, s2, t, N, N2),
           ~Ended(s), ~Ended(s2), Misses(e, s, s2, N, N2)
    PROVE  Common(e, s2, t, N2) /\ Common(Peer(e), t, s2, N2)
<1>. DEFINE f == Peer(e)
<1>1. /\ Sized(e, s, s2, t, N, N2) /\ Common(e, s, t, N) /\ Common(f, t, s, N)
      /\ Shape(s) /\ Shape(s2) /\ Numbers(s) /\ Numbers(t) /\ Numbers(s2)
      /\ Bare(N) /\ Steady(t)
  BY Sizes DEF Move, Pair, Steady
<1>2. ~Ended(t) => Between(e, s, t, N) /\ Between(f, t, s, N)
  BY DEF Move, Pair
<1>. HIDE DEF f
<1>3. Issued(e, s2, t, N2)
  BY <1>1 DEF Misses, Sized, Common, Sends, Noise, Issued
<1>4. Issued(f, t, s2, N2)
  BY <1>1 DEF f, Misses, Sized, Common, Sends, Noise, SameQueue, SameUpd, Issued
<1>5. Kindred(e, s2, t, N2)
  BY <1>1 DEF Misses, Common, Sends, Noise, SameUpd, Req, Fin, Kindred
<1>6. Kindred(f, t, s2, N2)
  BY <1>1 DEF Misses, Common, Sends, Noise, SameQueue, SameUpd, Req, Fin, Kindred
<1>7. OneRequest(e, t, N2)
  BY <1>1 DEF Misses, Common, Sends, Noise, Req, OneRequest
<1>8. OneRequest(f, s2, N2)
  BY <1>1 DEF Misses, Common, Sends, Noise, SameQueue, Req, OneRequest
<1>9. Dealt(e, s2, t, N2)
  BY <1>1 DEF Misses, Common, Sends, Noise, SameUpd, Fin, AckOf, Ans, Dealt
<1>10. Dealt(f, t, s2, N2)
  BY <1>1 DEF Misses, Common, Sends, Noise, SameQueue, Fin, AckOf, Dealt, Done, Serves
<1>11. OneAck(e, s2, N2)
  BY <1>1 DEF Misses, Common, Sends, Noise, AckOf, OneAck, CanAck
<1>12. OneAck(f, t, N2)
  BY <1>1 DEF Misses, Common, Sends, Noise, AckOf, OneAck
<1>13. Echoes(e, s2, t, N2)
  BY <1>1 DEF Misses, Common, Sends, Noise, AckOf, Echoes, CanAck
<1>14. Echoes(f, t, s2, N2)
  BY <1>1 DEF Misses, Common, Sends, Noise, AckOf, Ans, Echoes, Returned, Waits, Confirms
<1>15. InForce(e, s2, t, N2)
  BY <1>1 DEF Misses, Ans, Acc, InForce, Waits
<1>16. InForce(f, t, s2, N2)
  BY <1>1 DEF InForce
<1>. QED  BY <1>3, <1>4, <1>5, <1>6, <1>7, <1>8, <1>9, <1>10, <1>11, <1>12, <1>13, <1>14, <1>15,
             <1>16
             DEF Common, f

\* What holds with both ends or one, after an ACK sent.
LEMMA AcknowledgesCommon ==
    ASSUME NEW e \in Ends, NEW s, NEW s2, NEW t, NEW N, NEW N2, Move(e, s, s2, t, N, N2),
           ~Ended(s), ~Ended(s2), Acknowledges(e, s, s2, N, N2)
    PROVE  Common(e, s2, t, N2) /\ Common(Peer(e), t, s2, N2)
<1>. DEFINE f == Peer(e)
<1>1. /\ Sized(e, s, s2, t, N, N2) /\ Common(e, s, t, N) /\ Common(f, t, s, N)
      /\ Shape(s) /\ Shape(s2) /\ Numbers(s) /\ Numbers(t) /\ Numbers(s2)
      /\ Bare(N) /\ Steady(t)
  BY Sizes DEF Move, Pair, Steady
<1>2. ~Ended(t) => Between(e, s, t, N) /\ Between(f, t, s, N)
  BY DEF Move, Pair
<1>. HIDE DEF f
<1>3. Issued(e, s2, t, N2)
  BY <1>1 DEF Acknowledges, Sized, Common, Sends, Noise, Issued, ClientOpen, CanAck, Numbers
<1>4. Issued(f, t, s2, N2)
  BY <1>1 DEF f, Acknowledges, Sized, Common, Sends, Noise, SameQueue, SameUpd, AckOf, Issued
<1>5. Kindred(e, s2, t, N2)
  BY <1>1 DEF Acknowledges, Common, Sends, Noise, SameUpd, Req, Fin, AckOf, IsChange, IsFinal,
              IsAck, Kindred
<1>6. Kindred(f, t, s2, N2)
  BY <1>1 DEF Acknowledges, Common, Sends, Noise, SameQueue, SameUpd, Req, Fin, AckOf, IsChange,
              IsFinal, IsAck, Kindred
<1>7. OneRequest(e, t, N2)
  BY <1>1 DEF Acknowledges, Common, Sends, Noise, Req, AckOf, IsChange, IsAck, OneRequest
<1>8. OneRequest(f, s2, N2)
  BY <1>1 DEF f, Acknowledges, Sized, Common, Sends, Noise, SameQueue, Req, AckOf, OneRequest
<1>9. Dealt(e, s2, t, N2)
  BY <1>1 DEF Acknowledges, Common, Sends, Noise, SameUpd, Fin, AckOf, Dealt
<1>10. Dealt(f, t, s2, N2)
  BY <1>1 DEF f, Acknowledges, Sized, Common, Sends, Noise, SameQueue, Fin, AckOf, IsFinal, Dealt,
              Done, Serves
<1>11. OneAck(e, s2, N2)
  BY <1>1 DEF Acknowledges, Common, Sends, Noise, AckOf, OneAck, CanAck
<1>12. OneAck(f, t, N2)
  BY <1>1 DEF f, Acknowledges, Sized, Common, Sends, Noise, AckOf, OneAck
<1>13. Echoes(e, s2, t, N2)
  BY <1>1 DEF Acknowledges, Common, Sends, Noise, AckOf, Echoes, CanAck
<1>14. Echoes(f, t, s2, N2)
  BY <1>1 DEF f, Acknowledges, Sized, Common, Sends, Noise, AckOf, Echoes, Returned, Confirms
<1>15. InForce(e, s2, t, N2)
  BY <1>1 DEF Acknowledges, Ans, Acc, InForce, Waits
<1>16. InForce(f, t, s2, N2)
  BY <1>1 DEF InForce
<1>. QED  BY <1>3, <1>4, <1>5, <1>6, <1>7, <1>8, <1>9, <1>10, <1>11, <1>12, <1>13, <1>14, <1>15,
             <1>16
             DEF Common, f

\* What holds with both ends or one, after an ACK received.
LEMMA IsAcknowledgedCommon ==
    ASSUME NEW e \in Ends, NEW s, NEW s2, NEW t, NEW N, NEW N2, Move(e, s, s2, t, N, N2),
           ~Ended(s), ~Ended(s2), IsAcknowledged(e, s, s2, N, N2)
    PROVE  Common(e, s2, t, N2) /\ Common(Peer(e), t, s2, N2)
<1>. DEFINE f == Peer(e)
<1>1. /\ Sized(e, s, s2, t, N, N2) /\ Common(e, s, t, N) /\ Common(f, t, s, N)
      /\ Shape(s) /\ Shape(s2) /\ Numbers(s) /\ Numbers(t) /\ Numbers(s2)
      /\ Bare(N) /\ Steady(t)
  BY Sizes DEF Move, Pair, Steady
<1>2. ~Ended(t) => Between(e, s, t, N) /\ Between(f, t, s, N)
  BY DEF Move, Pair
<1>. HIDE DEF f
<1>3. Issued(e, s2, t, N2)
  BY <1>1 DEF IsAcknowledged, Sized, Common, Sends, Noise, Issued
<1>4. Issued(f, t, s2, N2)
  BY <1>1 DEF f, IsAcknowledged, Sized, Common, Sends, Noise, SameQueue, SameUpd, Issued
<1>5. Kindred(e, s2, t, N2)
  BY <1>1 DEF IsAcknowledged, Common, Sends, Noise, SameUpd, Req, Fin, Kindred
<1>6. Kindred(f, t, s2, N2)
  BY <1>1 DEF IsAcknowledged, Common, Sends, Noise, SameQueue, SameUpd, Req, Fin, Kindred
<1>7. OneRequest(e, t, N2)
  BY <1>1 DEF IsAcknowledged, Common, Sends, Noise, Req, OneRequest
<1>8. OneRequest(f, s2, N2)
  BY <1>1 DEF IsAcknowledged, Common, Sends, Noise, SameQueue, Req, OneRequest
<1>9. Dealt(e, s2, t, N2)
  BY <1>1 DEF IsAcknowledged, Common, Sends, Noise, SameUpd, Fin, AckOf, Dealt, Confirms,
              ClientOpen, CanAck, Shape, Confirming
<1>10. Dealt(f, t, s2, N2)
  BY <1>1 DEF IsAcknowledged, Common, Sends, Noise, SameQueue, Fin, AckOf, Dealt, Done, Serves
<1>11. OneAck(e, s2, N2)
  BY <1>1 DEF IsAcknowledged, Common, Sends, Noise, SameUpd, AckOf, OneAck, Confirms, ClientOpen,
              CanAck, Shape, Confirming
<1>12. OneAck(f, t, N2)
  BY <1>1 DEF IsAcknowledged, Common, Sends, Noise, AckOf, OneAck
<1>13. Echoes(e, s2, t, N2)
  BY <1>1 DEF IsAcknowledged, Common, Sends, Noise, AckOf, Echoes, Calm, Made, GetSdp
<1>14. Echoes(f, t, s2, N2)
  BY <1>1 DEF f, IsAcknowledged, Sized, Common, Sends, Noise, AckOf, OneAck, Echoes, Returned,
              Confirms
<1>15. InForce(e, s2, t, N2)
  BY <1>1 DEF IsAcknowledged, Ans, Acc, InForce, Waits
<1>16. InForce(f, t, s2, N2)
  BY <1>1 DEF InForce
<1>. QED  BY <1>3, <1>4, <1>5, <1>6, <1>7, <1>8, <1>9, <1>10, <1>11, <1>12, <1>13, <1>14, <1>15,
             <1>16
             DEF Common, f

\* What holds with both ends or one, after the end of one side.
LEMMA FinishesCommon ==
    ASSUME NEW e \in Ends, NEW s, NEW s2, NEW t, NEW N, NEW N2, Move(e, s, s2, t, N, N2),
           Finishes(e, s, s2, N, N2)
    PROVE  Common(e, s2, t, N2) /\ Common(Peer(e), t, s2, N2)
<1>. DEFINE f == Peer(e)
<1>1. /\ Sized(e, s, s2, t, N, N2) /\ Common(e, s, t, N) /\ Common(f, t, s, N)
      /\ Steady(s) /\ Steady(s2) /\ Steady(t) /\ Numbers(s) /\ Numbers(t) /\ Numbers(s2)
      /\ Bare(N)
  BY Sizes DEF Move, Pair
<1>2. ~Ended(s) /\ ~Ended(t) => Between(e, s, t, N) /\ Between(f, t, s, N)
  BY DEF Move, Pair
<1>. HIDE DEF f
<1>3. Issued(e, s2, t, N2)
  BY <1>1 DEF Finishes, Sized, Common, Noise, Issued, Refusal
<1>4. Issued(f, t, s2, N2)
  BY <1>1 DEF f, Finishes, Sized, Common, Noise, SameUpd, IsChange, Issued, Serves, Refusal
<1>5. Kindred(e, s2, t, N2)
  BY <1>1 DEF Finishes, Sized, Common, Noise, SameUpd, Req, Fin, IsChange, Kindred, Refusal
<1>6. Kindred(f, t, s2, N2)
  BY <1>1 DEF f, Finishes, Sized, Common, Noise, SameUpd, Req, Fin, Kindred, Serves, Refusal
<1>7. OneRequest(e, t, N2)
  BY <1>1 DEF Finishes, Common, Noise, Req, IsChange, OneRequest, Refusal
<1>8. OneRequest(f, s2, N2)
  BY <1>1 DEF Finishes, OneRequest
<1>9. Dealt(e, s2, t, N2)
  BY <1>1 DEF Finishes, Sized, Common, Noise, SameUpd, Fin, AckOf, IsFinal, IsAck, Dealt, Refusal
<1>10. Dealt(f, t, s2, N2)
  BY <1>1 DEF Finishes, Dealt, Done
<1>11. OneAck(e, s2, N2)
  BY <1>1 DEF Finishes, Common, Noise, SameUpd, AckOf, IsFinal, IsAck, OneAck, Refusal
<1>12. OneAck(f, t, N2)
  BY <1>1 DEF f, Finishes, Sized, Common, Noise, AckOf, OneAck, Refusal
<1>13. Echoes(e, s2, t, N2)
  BY <1>1 DEF Finishes, Common, Noise, SameUpd, AckOf, Echoes, GetSdp, Refusal
<1>14. Echoes(f, t, s2, N2)
  BY <1>1 DEF Finishes, Common, Noise, AckOf, Echoes, Returned, Refusal
<1>15. InForce(e, s2, t, N2)
  BY <1>1 DEF Finishes, Ans, Acc, InForce, Waits, Ended
<1>16. InForce(f, t, s2, N2)
  <2>. SUFFICES ASSUME NEW m \in N2, Acc(f, t, m), m.sdp # None
       PROVE  m.sdp = s.oa.cur /\ s.oa.st # "OFFER_CHANGE_RECEIVED"
    BY DEF Finishes, InForce
  <2>1. m \in N
    BY <1>1 DEF f, Sized, Finishes, Noise, Refusal, Acc, Ans, Fin
  <2>2. CASE Ended(s)
    BY <1>1, <2>1, <2>2 DEF Common, InForce
  <2>3. CASE ~Ended(s)
    <3>1. ~Ended(t) /\ t.st = "RENEGOTIATING" /\ m.cseq = t.upd.cseq
      BY DEF Acc, Ans, Waits, Ended
    <3>2. m.sdp = s.oa.cur
      BY <1>2, <2>1, <2>3, <3>1 DEF Between, Accepted
    <3>3. ~Serves(s)
      BY <1>1, <1>2, <2>1, <2>3, <3>1 DEF Between, Meant, Asked, Common, Dealt, Done, Acc, Ans
    <3>4. ~CanAck(s)
      BY <1>2, <2>3, <3>1 DEF Between, Owed, Confirms
    <3>5. Shape(s) /\ s.st \in SessionStates
      BY <1>1, <2>3 DEF Steady, Move, Pair, SessionType
    <3>. QED
      BY <2>3, <3>2, <3>3, <3>4, <3>5
         DEF Shape, Resting, Asking, Confirming, Calm, Made, Ended, SessionStates
  <2>. QED  BY <2>2, <2>3
<1>. QED  BY <1>3, <1>4, <1>5, <1>6, <1>7, <1>8, <1>9, <1>10, <1>11, <1>12, <1>13, <1>14, <1>15,
             <1>16
             DEF Common, f

\* What holds with both ends or one, after an ACK that an ended side sends on report.
LEMMA EndAcksCommon ==
    ASSUME NEW e \in Ends, NEW s, NEW s2, NEW t, NEW N, NEW N2, Move(e, s, s2, t, N, N2),
           EndAcks(e, s, s2, N, N2)
    PROVE  Common(e, s2, t, N2) /\ Common(Peer(e), t, s2, N2)
<1>. DEFINE f == Peer(e)
<1>1. /\ Sized(e, s, s2, t, N, N2) /\ Common(e, s, t, N) /\ Common(f, t, s, N)
      /\ Steady(s) /\ Steady(s2) /\ Steady(t) /\ Numbers(s) /\ Numbers(t) /\ Numbers(s2)
      /\ Bare(N)
  BY Sizes DEF Move, Pair
<1>2. ~Ended(s) /\ ~Ended(t) => Between(e, s, t, N) /\ Between(f, t, s, N)
  BY DEF Move, Pair
<1>. HIDE DEF f
<1>3. Issued(e, s2, t, N2)
  BY <1>1 DEF EndAcks, Sized, Common, Sends, Noise, Issued, ClientOpen, CanAck, Numbers
<1>4. Issued(f, t, s2, N2)
  BY <1>1 DEF f, EndAcks, Sized, Common, Sends, Noise, SameQueue, SameUpd, AckOf, Issued
<1>5. Kindred(e, s2, t, N2)
  BY <1>1 DEF EndAcks, Common, Sends, Noise, SameUpd, Req, Fin, AckOf, IsChange, IsFinal, IsAck,
              Kindred
<1>6. Kindred(f, t, s2, N2)
  BY <1>1 DEF EndAcks, Common, Sends, Noise, SameQueue, SameUpd, Req, Fin, AckOf, IsChange,
              IsFinal, IsAck, Kindred
<1>7. OneRequest(e, t, N2)
  BY <1>1 DEF EndAcks, Common, Sends, Noise, Req, AckOf, IsChange, IsAck, OneRequest
<1>8. OneRequest(f, s2, N2)
  BY <1>1 DEF EndAcks, OneRequest
<1>9. Dealt(e, s2, t, N2)
  BY <1>1 DEF EndAcks, Common, Sends, Noise, SameUpd, Fin, AckOf, Dealt
<1>10. Dealt(f, t, s2, N2)
  BY <1>1 DEF EndAcks, Dealt, Done
<1>11. OneAck(e, s2, N2)
  BY <1>1 DEF EndAcks, Common, Sends, Noise, AckOf, OneAck, CanAck
<1>12. OneAck(f, t, N2)
  BY <1>1 DEF f, EndAcks, Sized, Common, Sends, Noise, AckOf, OneAck
<1>13. Echoes(e, s2, t, N2)
  BY <1>1 DEF EndAcks, Common, Sends, Noise, AckOf, Echoes, CanAck
<1>14. Echoes(f, t, s2, N2)
  BY <1>1 DEF EndAcks, SameUpd, Echoes, Returned, Alive, ServerOpen, ClientOpen, CanAck
<1>15. InForce(e, s2, t, N2)
  BY <1>1 DEF EndAcks, Ans, Acc, InForce, Waits, Ended
<1>16. InForce(f, t, s2, N2)
  BY <1>1 DEF EndAcks, Common, Sends, Noise, Fin, Ans, Acc, InForce
<1>. QED  BY <1>3, <1>4, <1>5, <1>6, <1>7, <1>8, <1>9, <1>10, <1>11, <1>12, <1>13, <1>14, <1>15,
             <1>16
             DEF Common, f

\* What holds with both ends or one, after an ACK that an ended side sends at once.
LEMMA EndAcksAtOnceCommon ==
    ASSUME NEW e \in Ends, NEW s, NEW s2, NEW t, NEW N, NEW N2, Move(e, s, s2, t, N, N2),
           EndAcksAtOnce(e, s, s2, N, N2)
    PROVE  Common(e, s2, t, N2) /\ Common(Peer(e), t, s2, N2)
<1>. DEFINE f == Peer(e)
<1>1. /\ Sized(e, s, s2, t, N, N2) /\ Common(e, s, t, N) /\ Common(f, t, s, N)
      /\ Steady(s) /\ Steady(s2) /\ Steady(t) /\ Numbers(s) /\ Numbers(t) /\ Numbers(s2)
      /\ Bare(N)
  BY Sizes DEF Move, Pair
<1>2. ~Ended(s) /\ ~Ended(t) => Between(e, s, t, N) /\ Between(f, t, s, N)
  BY DEF Move, Pair
<1>. HIDE DEF f
<1>3. Issued(e, s2, t, N2)
  BY <1>1 DEF EndAcksAtOnce, Sized, Common, Sends, Noise, Fin, IsFinal, Issued
<1>4. Issued(f, t, s2, N2)
  BY <1>1 DEF f, EndAcksAtOnce, Sized, Common, Sends, Noise, SameQueue, SameUpd, AckOf, Issued
<1>5. Kindred(e, s2, t, N2)
  BY <1>1 DEF EndAcksAtOnce, Common, Sends, Noise, SameUpd, Req, Fin, AckOf, IsChange, IsFinal,
              IsAck, Kindred
<1>6. Kindred(f, t, s2, N2)
  BY <1>1 DEF EndAcksAtOnce, Common, Sends, Noise, SameQueue, SameUpd, Req, Fin, AckOf, IsChange,
              IsFinal, IsAck, Kindred
<1>7. OneRequest(e, t, N2)
  BY <1>1 DEF EndAcksAtOnce, Common, Sends, Noise, Req, AckOf, IsChange, IsAck, OneRequest
<1>8. OneRequest(f, s2, N2)
  BY <1>1 DEF EndAcksAtOnce, OneRequest
<1>9. Dealt(e, s2, t, N2)
  BY <1>1 DEF EndAcksAtOnce, Common, Sends, Noise, Fin, AckOf, Dealt
<1>10. Dealt(f, t, s2, N2)
  BY <1>1 DEF EndAcksAtOnce, Dealt, Done
<1>11. OneAck(e, s2, N2)
  BY <1>1 DEF EndAcksAtOnce, Common, Sends, Noise, AckOf, OneAck
<1>12. OneAck(f, t, N2)
  BY <1>1 DEF f, EndAcksAtOnce, Sized, Common, Sends, Noise, AckOf, OneAck
<1>13. Echoes(e, s2, t, N2)
  BY <1>1 DEF EndAcksAtOnce, Common, Sends, Noise, AckOf, Echoes
<1>14. Echoes(f, t, s2, N2)
  BY <1>1 DEF EndAcksAtOnce, SameUpd, Echoes, Returned, Alive, ServerOpen, ClientOpen
<1>15. InForce(e, s2, t, N2)
  BY <1>1 DEF EndAcksAtOnce, Ans, Acc, InForce, Waits, Ended
<1>16. InForce(f, t, s2, N2)
  BY <1>1 DEF EndAcksAtOnce, Common, Sends, Noise, Fin, Ans, Acc, InForce
<1>. QED  BY <1>3, <1>4, <1>5, <1>6, <1>7, <1>8, <1>9, <1>10, <1>11, <1>12, <1>13, <1>14, <1>15,
             <1>16
             DEF Common, f

\* What holds with both ends or one, after an ACK received by an ended side, or one that ends it.
LEMMA EndIsAcknowledgedCommon ==
    ASSUME NEW e \in Ends, NEW s, NEW s2, NEW t, NEW N, NEW N2, Move(e, s, s2, t, N, N2),
           EndIsAcknowledged(e, s, s2, N, N2)
    PROVE  Common(e, s2, t, N2) /\ Common(Peer(e), t, s2, N2)
<1>. DEFINE f == Peer(e)
<1>1. /\ Sized(e, s, s2, t, N, N2) /\ Common(e, s, t, N) /\ Common(f, t, s, N)
      /\ Steady(s) /\ Steady(s2) /\ Steady(t) /\ Numbers(s) /\ Numbers(t) /\ Numbers(s2)
      /\ Bare(N)
  BY Sizes DEF Move, Pair
<1>2. ~Ended(s) /\ ~Ended(t) => Between(e, s, t, N) /\ Between(f, t, s, N)
  BY DEF Move, Pair
<1>. HIDE DEF f
<1>3. Issued(e, s2, t, N2)
  BY <1>1 DEF EndIsAcknowledged, Sized, Common, Sends, Noise, Issued
<1>4. Issued(f, t, s2, N2)
  BY <1>1 DEF f, EndIsAcknowledged, Sized, Common, Sends, Noise, SameQueue, SameUpd, Issued
<1>5. Kindred(e, s2, t, N2)
  BY <1>1 DEF EndIsAcknowledged, Common, Sends, Noise, SameUpd, Req, Fin, Kindred
<1>6. Kindred(f, t, s2, N2)
  BY <1>1 DEF EndIsAcknowledged, Common, Sends, Noise, SameQueue, SameUpd, Req, Fin, Kindred
<1>7. OneRequest(e, t, N2)
  BY <1>1 DEF EndIsAcknowledged, Common, Sends, Noise, Req, OneRequest
<1>8. OneRequest(f, s2, N2)
  BY <1>1 DEF EndIsAcknowledged, OneRequest
<1>9. Dealt(e, s2, t, N2)
  BY <1>1 DEF EndIsAcknowledged, Common, Sends, Noise, Fin, AckOf, Dealt
<1>10. Dealt(f, t, s2, N2)
  BY <1>1 DEF EndIsAcknowledged, Dealt, Done
<1>11. OneAck(e, s2, N2)
  BY <1>1 DEF EndIsAcknowledged, Common, Sends, Noise, SameUpd, AckOf, OneAck, Alive, ServerOpen,
              ClientOpen
<1>12. OneAck(f, t, N2)
  BY <1>1 DEF EndIsAcknowledged, Common, Sends, Noise, AckOf, OneAck
<1>13. Echoes(e, s2, t, N2)
  BY <1>1 DEF EndIsAcknowledged, Common, Sends, Noise, AckOf, Echoes
<1>14. Echoes(f, t, s2, N2)
  BY <1>1 DEF EndIsAcknowledged, Common, Sends, Noise, AckOf, Echoes, Returned
<1>15. InForce(e, s2, t, N2)
  BY <1>1 DEF EndIsAcknowledged, Ans, Acc, InForce, Waits, Ended
<1>16. InForce(f, t, s2, N2)
  BY <1>1, <1>2 DEF f, EndIsAcknowledged, Sized, Common, Sends, Noise, Fin, AckOf, Ans, Acc,
                    Echoes, Returned, InForce, Waits, Confirms, Calm, Made, Ended, Steady, Shape,
                    Confirming, Between, Accepted
<1>. QED  BY <1>3, <1>4, <1>5, <1>6, <1>7, <1>8, <1>9, <1>10, <1>11, <1>12, <1>13, <1>14, <1>15,
             <1>16
             DEF Common, f

\* What holds while no end has ended, after a step that changes nothing of it.
LEMMA StillBetween ==
    ASSUME NEW e \in Ends, NEW s, NEW s2, NEW t, NEW N, NEW N2, Move(e, s, s2, t, N, N2),
           ~Ended(s), ~Ended(s2), ~Ended(t), Still(e, s, s2, N, N2)
    PROVE  Between(e, s2, t, N2) /\ Between(Peer(e), t, s2, N2) /\ Together(e, s2, t, N2)
<1>. DEFINE f == Peer(e)
<1>1. /\ Sized(e, s, s2, t, N, N2) /\ Common(e, s, t, N) /\ Common(f, t, s, N)
      /\ Shape(s) /\ Shape(s2) /\ Shape(t) /\ Numbers(s) /\ Numbers(t) /\ Numbers(s2)
      /\ Bare(N)
      /\ Between(e, s, t, N) /\ Between(f, t, s, N) /\ Together(e, s, t, N)
  BY Sizes DEF Move, Pair, Steady
<1>. HIDE DEF f
<1>2. Regular(s2)
  BY <1>1 DEF Still, SameUpd, SameView, SameOa, Waits, Calm, TakenUp, Between, Regular
<1>3. Meant(e, s2, t, N2)
  BY <1>1 DEF Still, Sends, Noise, SameUpd, SameView, Req, Fin, Ans, Waits, Between, Meant, Asked
<1>4. Meant(f, t, s2, N2)
  BY <1>1 DEF Still, Sends, Noise, SameQueue, SameUpd, SameView, Req, Fin, Ans, Serves, Between,
              Meant, Asked
<1>5. Accepted(e, s2, t, N2)
  BY <1>1 DEF Still, Sends, Noise, SameUpd, SameView, SameOa, Fin, Ans, Acc, Waits, Between,
              Accepted, Expected
<1>6. Accepted(f, t, s2, N2)
  BY <1>1 DEF Still, Sends, Noise, SameView, SameOa, SameUpd, Fin, Ans, Acc, Confirms, Calm, Made,
              Between, Accepted
<1>7. Owed(e, s2, t, N2)
  BY <1>1 DEF Still, Sends, Noise, SameUpd, SameView, SameOa, AckOf, Calm, Between, Owed
<1>8. Owed(f, t, s2, N2)
  BY <1>1 DEF Still, Sends, Noise, SameUpd, SameView, SameOa, AckOf, Confirms, Calm, Made,
              Between, Owed
<1>9. Undecided(e, s2, t, N2) /\ Undecided(f, t, s2, N2) => s2.oa.cur = t.oa.cur
  BY <1>1 DEF f, Still, Sends, Noise, SameQueue, SameUpd, SameView, SameOa, Req, Fin, Ans, Waits,
              Serves, Together, Undecided, Open
<1>10. (\A m \in N2 : ~Acc(e, s2, m)) \/ (\A m \in N2 : ~Acc(f, t, m))
  BY <1>1 DEF f, Still, Sends, Noise, SameUpd, SameView, Fin, Ans, Acc, Waits, Together
<1>. QED  BY <1>1, <1>2, <1>3, <1>4, <1>5, <1>6, <1>7, <1>8, <1>9, <1>10 DEF Between, Together, f

\* What holds while no end has ended, after a request.
LEMMA RequestsBetween ==
    ASSUME NEW e \in Ends, NEW s, NEW s2, NEW t, NEW N, NEW N2, Move(e, s, s2, t, N, N2),
           ~Ended(s), ~Ended(s2), ~Ended(t), Requests(e, s, s2, N, N2)
    PROVE  Between(e, s2, t, N2) /\ Between(Peer(e), t, s2, N2) /\ Together(e, s2, t, N2)
<1>. DEFINE f == Peer(e)
<1>1. /\ Sized(e, s, s2, t, N, N2) /\ Common(e, s, t, N) /\ Common(f, t, s, N)
      /\ Shape(s) /\ Shape(s2) /\ Shape(t) /\ Numbers(s) /\ Numbers(t) /\ Numbers(s2)
      /\ Bare(N)
      /\ Between(e, s, t, N) /\ Between(f, t, s, N) /\ Together(e, s, t, N)
  BY Sizes DEF Move, Pair, Steady
<1>. HIDE DEF f
<1>2. Regular(s2)
  BY <1>1 DEF Requests, Waits, CanAck, Owing, Made, TakenUp, Shape, Resting, Between, Regular
<1>3. Meant(e, s2, t, N2)
  BY <1>1 DEF Requests, Sized, Common, Sends, Noise, Req, Fin, Ans, IsFinal, Issued, Waits,
              Between, Meant, Asked
<1>4. Meant(f, t, s2, N2)
  BY <1>1 DEF f, Requests, Sized, Sends, Noise, SameQueue, Req, Fin, Ans, IsChange, IsFinal,
              Waits, Serves, Between, Meant
<1>5. Accepted(e, s2, t, N2)
  BY <1>1 DEF Requests, Sized, Common, Sends, Noise, Req, Fin, Ans, Acc, Issued, Accepted
<1>6. Accepted(f, t, s2, N2)
  BY <1>1 DEF Requests, Sends, Noise, Req, Fin, Ans, Acc, IsChange, Confirms, Between, Accepted
<1>7. Owed(e, s2, t, N2)
  BY <1>1 DEF Requests, Sized, Sends, Noise, AckOf, IsAck, CanAck, Owing, Between, Owed
<1>8. Owed(f, t, s2, N2)
  BY <1>1 DEF Requests, Waits, Confirms, Between, Owed
<1>9. Undecided(e, s2, t, N2) /\ Undecided(f, t, s2, N2) => s2.oa.cur = t.oa.cur
  BY <1>1 DEF f, Requests, Sized, Sends, Noise, SameQueue, Req, Fin, Ans, IsChange, Waits, Serves,
              Together, Undecided, Open
<1>10. (\A m \in N2 : ~Acc(e, s2, m)) \/ (\A m \in N2 : ~Acc(f, t, m))
  BY <1>1 DEF Requests, Sized, Common, Sends, Noise, Req, Fin, Ans, Acc, Issued
<1>. QED  BY <1>1, <1>2, <1>3, <1>4, <1>5, <1>6, <1>7, <1>8, <1>9, <1>10 DEF Between, Together, f

\* What holds while no end has ended, after a request that the server takes up.
LEMMA BeginsBetween ==
    ASSUME NEW e \in Ends, NEW s, NEW s2, NEW t, NEW N, NEW N2, Move(e, s, s2, t, N, N2),
           ~Ended(s), ~Ended(s2), ~Ended(t), Begins(e, s, s2, N, N2)
    PROVE  Between(e, s2, t, N2) /\ Between(Peer(e), t, s2, N2) /\ Together(e, s2, t, N2)
<1>. DEFINE f == Peer(e)
<1>1. /\ Sized(e, s, s2, t, N, N2) /\ Common(e, s, t, N) /\ Common(f, t, s, N)
      /\ Shape(s) /\ Shape(s2) /\ Shape(t) /\ Numbers(s) /\ Numbers(t) /\ Numbers(s2)
      /\ Bare(N)
      /\ Between(e, s, t, N) /\ Between(f, t, s, N) /\ Together(e, s, t, N)
  BY Sizes DEF Move, Pair, Steady
<1>. HIDE DEF f
<1>2. Regular(s2)
  BY <1>1 DEF f, Begins, Sized, Takes, Req, Waits, Serves, Confirms, Between, Regular, Meant,
              Asked, Owed
<1>3. Meant(e, s2, t, N2)
  BY <1>1 DEF Begins, Sends, Noise, Req, Ans, Waits, Serves, Between, Meant, Asked
<1>4. Meant(f, t, s2, N2)
  BY <1>1 DEF f, Begins, Sized, Sends, Noise, Takes, Req, Fin, Ans, Between, Meant, Asked
<1>5. Accepted(e, s2, t, N2)
  BY <1>1 DEF Begins, Ans, Acc, Waits, Serves, Accepted
<1>6. Accepted(f, t, s2, N2)
  BY <1>1 DEF f, Begins, Sized, Common, Sends, Noise, Takes, Req, Fin, Ans, Acc, Dealt, Done,
              Between, Meant, Asked, Accepted
<1>7. Owed(e, s2, t, N2)
  BY <1>1 DEF f, Begins, Sized, Takes, Req, Waits, Serves, Confirms, ClientOpen, CanAck, Between,
              Meant, Asked, Owed
<1>8. Owed(f, t, s2, N2)
  BY <1>1 DEF f, Begins, Sized, Common, Takes, Req, Dealt, Done, Serves, Confirms, Between, Meant,
              Asked, Owed
<1>9. Undecided(e, s2, t, N2) /\ Undecided(f, t, s2, N2) => s2.oa.cur = t.oa.cur
  BY <1>1 DEF Begins, Sized, Takes, Req, Waits, Together, Undecided, Open
<1>10. (\A m \in N2 : ~Acc(e, s2, m)) \/ (\A m \in N2 : ~Acc(f, t, m))
  BY <1>1 DEF Begins, Ans, Acc, Waits, Serves
<1>. QED  BY <1>1, <1>2, <1>3, <1>4, <1>5, <1>6, <1>7, <1>8, <1>9, <1>10 DEF Between, Together, f

\* What holds while no end has ended, after a request refused.
LEMMA TurnsDownBetween ==
    ASSUME NEW e \in Ends, NEW s, NEW s2, NEW t, NEW N, NEW N2, Move(e, s, s2, t, N, N2),
           ~Ended(s), ~Ended(s2), ~Ended(t), TurnsDown(e, s, s2, N, N2)
    PROVE  Between(e, s2, t, N2) /\ Between(Peer(e), t, s2, N2) /\ Together(e, s2, t, N2)
<1>. DEFINE f == Peer(e)
<1>1. /\ Sized(e, s, s2, t, N, N2) /\ Common(e, s, t, N) /\ Common(f, t, s, N)
      /\ Shape(s) /\ Shape(s2) /\ Shape(t) /\ Numbers(s) /\ Numbers(t) /\ Numbers(s2)
      /\ Bare(N)
      /\ Between(e, s, t, N) /\ Between(f, t, s, N) /\ Together(e, s, t, N)
  BY Sizes DEF Move, Pair, Steady
<1>. HIDE DEF f
<1>2. Regular(s2)
  BY <1>1 DEF TurnsDown, SameUpd, SameView, SameOa, Waits, Calm, TakenUp, Between, Regular
<1>3. Meant(e, s2, t, N2)
  BY <1>1 DEF TurnsDown, Sized, Sends, Noise, SameUpd, SameView, Req, Fin, Ans, IsChange, Waits,
              Between, Meant, Asked
<1>4. Meant(f, t, s2, N2)
  BY <1>1 DEF f, TurnsDown, Sized, Common, Sends, Noise, SameUpd, SameView, Takes, Req, Fin, Ans,
              Dealt, Done, Serves, Between, Meant, Asked
<1>5. Accepted(e, s2, t, N2)
  BY <1>1 DEF TurnsDown, Sends, Noise, SameUpd, SameView, SameOa, Fin, Ans, Acc, Waits, Between,
              Accepted, Expected
<1>6. Accepted(f, t, s2, N2)
  BY <1>1 DEF f, TurnsDown, Sized, Common, Sends, Noise, Takes, Req, Fin, Ans, Acc, Dealt, Done,
              Between, Meant, Asked, Accepted
<1>7. Owed(e, s2, t, N2)
  BY <1>1 DEF TurnsDown, Sends, Noise, SameUpd, SameView, SameOa, AckOf, IsChange, IsAck, Calm,
              Between, Owed
<1>8. Owed(f, t, s2, N2)
  BY <1>1 DEF f, TurnsDown, Sized, Sends, Noise, SameUpd, SameView, SameOa, AckOf, Confirms, Calm,
              Made, Between, Owed
<1>9. Undecided(e, s2, t, N2) /\ Undecided(f, t, s2, N2) => s2.oa.cur = t.oa.cur
  BY <1>1 DEF TurnsDown, Sized, Sends, Noise, SameUpd, SameView, SameOa, Takes, Req, Fin, Ans,
              IsChange, Waits, Together, Undecided, Open
<1>10. (\A m \in N2 : ~Acc(e, s2, m)) \/ (\A m \in N2 : ~Acc(f, t, m))
  BY <1>1 DEF f, TurnsDown, Sends, Noise, SameUpd, SameView, Fin, Ans, Acc, Waits, Together
<1>. QED  BY <1>1, <1>2, <1>3, <1>4, <1>5, <1>6, <1>7, <1>8, <1>9, <1>10 DEF Between, Together, f

\* What holds while no end has ended, after a request put off.
LEMMA PutsOffBetween ==
    ASSUME NEW e \in Ends, NEW s, NEW s2, NEW t, NEW N, NEW N2, Move(e, s, s2, t, N, N2),
           ~Ended(s), ~Ended(s2), ~Ended(t), PutsOff(e, s, s2, N, N2)
    PROVE  Between(e, s2, t, N2) /\ Between(Peer(e), t, s2, N2) /\ Together(e, s2, t, N2)
<1>. DEFINE f == Peer(e)
<1>1. /\ Sized(e, s, s2, t, N, N2) /\ Common(e, s, t, N) /\ Common(f, t, s, N)
      /\ Shape(s) /\ Shape(s2) /\ Shape(t) /\ Numbers(s) /\ Numbers(t) /\ Numbers(s2)
      /\ Bare(N)
      /\ Between(e, s, t, N) /\ Between(f, t, s, N) /\ Together(e, s, t, N)
  BY Sizes DEF Move, Pair, Steady
<1>. HIDE DEF f
<1>2. Regular(s2)
  BY <1>1 DEF PutsOff, SameUpd, SameView, SameOa, Waits, Calm, TakenUp, Between, Regular
<1>3. Meant(e, s2, t, N2)
  BY <1>1 DEF PutsOff, Sends, Noise, SameUpd, SameView, Req, Fin, Ans, Waits, Between, Meant, Asked
<1>4. Meant(f, t, s2, N2)
  BY <1>1 DEF f, PutsOff, Sized, Sends, Noise, SameUpd, SameView, Req, Fin, Ans, Serves, Between,
              Meant, Asked
<1>5. Accepted(e, s2, t, N2)
  BY <1>1 DEF PutsOff, Sends, Noise, SameUpd, SameView, SameOa, Fin, Ans, Acc, Waits, Between,
              Accepted, Expected
<1>6. Accepted(f, t, s2, N2)
  BY <1>1 DEF f, PutsOff, Sized, Common, Sends, Noise, Req, Fin, Ans, Acc, Dealt, Done, Between,
              Meant, Asked, Accepted
<1>7. Owed(e, s2, t, N2)
  BY <1>1 DEF PutsOff, Sends, Noise, SameUpd, SameView, SameOa, AckOf, Calm, Between, Owed
<1>8. Owed(f, t, s2, N2)
  BY <1>1 DEF PutsOff, Sends, Noise, SameUpd, SameView, SameOa, AckOf, Confirms, Calm, Made,
              Between, Owed
<1>9. Undecided(e, s2, t, N2) /\ Undecided(f, t, s2, N2) => s2.oa.cur = t.oa.cur
  BY <1>1 DEF PutsOff, Sized, Sends, Noise, SameUpd, SameView, SameOa, Req, Fin, Ans, Waits,
              Together, Undecided, Open
<1>10. (\A m \in N2 : ~Acc(e, s2, m)) \/ (\A m \in N2 : ~Acc(f, t, m))
  BY <1>1 DEF f, PutsOff, Sends, Noise, SameUpd, SameView, Fin, Ans, Acc, Waits, Together
<1>. QED  BY <1>1, <1>2, <1>3, <1>4, <1>5, <1>6, <1>7, <1>8, <1>9, <1>10 DEF Between, Together, f

\* What holds while no end has ended, after a 2xx sent.
LEMMA GrantsBetween ==
    ASSUME NEW e \in Ends, NEW s, NEW s2, NEW t, NEW N, NEW N2, Move(e, s, s2, t, N, N2),
           ~Ended(s), ~Ended(s2), ~Ended(t), Grants(e, s, s2, N, N2)
    PROVE  Between(e, s2, t, N2) /\ Between(Peer(e), t, s2, N2) /\ Together(e, s2, t, N2)
<1>. DEFINE f == Peer(e)
<1>1. /\ Sized(e, s, s2, t, N, N2) /\ Common(e, s, t, N) /\ Common(f, t, s, N)
      /\ Shape(s) /\ Shape(s2) /\ Shape(t) /\ Numbers(s) /\ Numbers(t) /\ Numbers(s2)
      /\ Bare(N)
      /\ Between(e, s, t, N) /\ Between(f, t, s, N) /\ Together(e, s, t, N)
  BY Sizes DEF Move, Pair, Steady
<1>. HIDE DEF f
<1>2. Regular(s2)
  BY <1>1 DEF Grants, Waits, Confirms, Between, Regular, Meant, Asked, Owed
<1>3. Meant(e, s2, t, N2)
  BY <1>1 DEF Grants, Sends, Noise, Req, Ans, IsChange, Waits, Serves, Between, Meant, Asked
<1>4. Meant(f, t, s2, N2)
  BY <1>1 DEF f, Grants, Sized, Common, Sends, Noise, SameQueue, SameUpd, Req, Fin, Ans, Dealt,
              Done, Between, Meant, Asked
<1>5. Accepted(e, s2, t, N2)
  BY <1>1 DEF Grants, Ans, Acc, Waits, Accepted
<1>6. Accepted(f, t, s2, N2)
  BY <1>1 DEF Grants, Sends, Noise, SameUpd, Fin, Ans, Acc, Waits, Serves, Confirms, Between,
              Meant, Asked, Accepted, Expected, Together, Undecided, Open
<1>7. Owed(e, s2, t, N2)
  BY <1>1 DEF Grants, Sends, Noise, SameUpd, AckOf, ClientOpen, CanAck, Shape, Resting,
              Confirming, Between, Owed
<1>8. Owed(f, t, s2, N2)
  BY <1>1 DEF f, Grants, Sized, Common, Sends, Noise, SameUpd, AckOf, Dealt, Done, Confirms,
              Between, Owed
<1>9. Undecided(e, s2, t, N2) /\ Undecided(f, t, s2, N2) => s2.oa.cur = t.oa.cur
  BY <1>1 DEF f, Grants, Sized, Common, Sends, Noise, SameQueue, Req, Fin, Ans, OneRequest, Dealt,
              Done, Serves, Numbers, Between, Meant, Asked, Undecided, Open
<1>10. (\A m \in N2 : ~Acc(e, s2, m)) \/ (\A m \in N2 : ~Acc(f, t, m))
  BY <1>1 DEF Grants, Ans, Acc, Waits
<1>. QED  BY <1>1, <1>2, <1>3, <1>4, <1>5, <1>6, <1>7, <1>8, <1>9, <1>10 DEF Between, Together, f

\* What holds while no end has ended, after a request withdrawn by CANCEL.
LEMMA WithdrawsBetween ==
    ASSUME NEW e \in Ends, NEW s, NEW s2, NEW t, NEW N, NEW N2, Move(e, s, s2, t, N, N2),
           ~Ended(s), ~Ended(s2), ~Ended(t), Withdraws(e, s, s2, N, N2)
    PROVE  Between(e, s2, t, N2) /\ Between(Peer(e), t, s2, N2) /\ Together(e, s2, t, N2)
<1>. DEFINE f == Peer(e)
<1>1. /\ Sized(e, s, s2, t, N, N2) /\ Common(e, s, t, N) /\ Common(f, t, s, N)
      /\ Shape(s) /\ Shape(s2) /\ Shape(t) /\ Numbers(s) /\ Numbers(t) /\ Numbers(s2)
      /\ Bare(N)
      /\ Between(e, s, t, N) /\ Between(f, t, s, N) /\ Together(e, s, t, N)
  BY Sizes DEF Move, Pair, Steady
<1>. HIDE DEF f
<1>2. Regular(s2)
  BY <1>1 DEF Withdraws, SameUpd, Regular
<1>3. Meant(e, s2, t, N2)
  BY <1>1 DEF Withdraws, Sends, Noise, Req, Ans, IsChange, Waits, Serves, Between, Meant, Asked
<1>4. Meant(f, t, s2, N2)
  BY <1>1 DEF f, Withdraws, Sized, Common, Sends, Noise, SameQueue, SameUpd, Req, Fin, Ans, Dealt,
              Done, Between, Meant, Asked
<1>5. Accepted(e, s2, t, N2)
  BY <1>1 DEF Withdraws, Ans, Acc, Waits, Accepted
<1>6. Accepted(f, t, s2, N2)
  BY <1>1 DEF Withdraws, Sends, Noise, Fin, Ans, Acc, Serves, Confirms, Between, Accepted
<1>7. Owed(e, s2, t, N2)
  BY <1>1 DEF Withdraws, Waits, Confirms, CanAck, Owing, Between, Meant, Asked, Owed
<1>8. Owed(f, t, s2, N2)
  BY <1>1 DEF Withdraws, Serves, Confirms, Between, Owed
<1>9. Undecided(e, s2, t, N2) /\ Undecided(f, t, s2, N2) => s2.oa.cur = t.oa.cur
  BY <1>1 DEF Withdraws, Waits, Serves, Together, Undecided, Open
<1>10. (\A m \in N2 : ~Acc(e, s2, m)) \/ (\A m \in N2 : ~Acc(f, t, m))
  BY <1>1 DEF Withdraws, Ans, Acc, Waits
<1>. QED  BY <1>1, <1>2, <1>3, <1>4, <1>5, <1>6, <1>7, <1>8, <1>9, <1>10 DEF Between, Together, f

\* What holds while no end has ended, after a 2xx received.
LEMMA GainsBetween ==
    ASSUME NEW e \in Ends, NEW s, NEW s2, NEW t, NEW N, NEW N2, Move(e, s, s2, t, N, N2),
           ~Ended(s), ~Ended(s2), ~Ended(t), Gains(e, s, s2, N, N2)
    PROVE  Between(e, s2, t, N2) /\ Between(Peer(e), t, s2, N2) /\ Together(e, s2, t, N2)
<1>. DEFINE f == Peer(e)
<1>1. /\ Sized(e, s, s2, t, N, N2) /\ Common(e, s, t, N) /\ Common(f, t, s, N)
      /\ Shape(s) /\ Shape(s2) /\ Shape(t) /\ Numbers(s) /\ Numbers(t) /\ Numbers(s2)
      /\ Bare(N)
      /\ Between(e, s, t, N) /\ Between(f, t, s, N) /\ Together(e, s, t, N)
  BY Sizes DEF Move, Pair, Steady
<1>. HIDE DEF f
<1>2. Regular(s2)
  BY <1>1 DEF Gains, Waits, Serves, Confirms, Calm, Made, TakenUp, Shape, Resting, Asking,
              Between, Regular, Accepted, Expected, Together, Undecided
<1>3. Meant(e, s2, t, N2)
  BY <1>1 DEF Gains, Sized, Common, Sends, Noise, SameUpd, Req, Fin, Ans, Acc, OneRequest, Dealt,
              Done, Between, Meant, Asked
<1>4. Meant(f, t, s2, N2)
  BY <1>1 DEF Gains, Sends, Noise, SameQueue, Req, Fin, Ans, Serves, Between, Meant
<1>5. Accepted(e, s2, t, N2)
  BY <1>1 DEF Gains, Sends, Noise, SameUpd, Fin, Ans, Acc, Between, Meant, Accepted
<1>6. Accepted(f, t, s2, N2)
  BY <1>1 DEF f, Gains, Sends, Noise, Fin, Ans, Acc, Accepted, Together
<1>7. Owed(e, s2, t, N2)
  BY <1>1 DEF Gains, Sends, Noise, SameUpd, AckOf, Ans, Acc, Waits, Calm, Made, TakenUp, Shape,
              Asking, Serving, Between, Regular, Accepted, Owed
<1>8. Owed(f, t, s2, N2)
  BY <1>1 DEF Gains, Ans, Acc, Waits, Confirms, Between, Owed
<1>9. Undecided(e, s2, t, N2) /\ Undecided(f, t, s2, N2) => s2.oa.cur = t.oa.cur
  BY <1>1 DEF Gains, Waits, Serves, Confirms, Calm, Made, TakenUp, Shape, Resting, Asking,
              Between, Accepted, Expected, Together, Undecided
<1>10. (\A m \in N2 : ~Acc(e, s2, m)) \/ (\A m \in N2 : ~Acc(f, t, m))
  BY <1>1 DEF f, Gains, Sends, Noise, Fin, Ans, Acc, Together
<1>. QED  BY <1>1, <1>2, <1>3, <1>4, <1>5, <1>6, <1>7, <1>8, <1>9, <1>10 DEF Between, Together, f

\* What holds while no end has ended, after a failure received.
LEMMA MissesBetween ==
    ASSUME NEW e \in Ends, NEW s, NEW s2, NEW t, NEW N, NEW N2, Move(e, s, s2, t, N, N2),
           ~Ended(s), ~Ended(s2), ~Ended(t), Misses(e, s, s2, N, N2)
    PROVE  Between(e, s2, t, N2) /\ Between(Peer(e), t, s2, N2) /\ Together(e, s2, t, N2)
<1>. DEFINE f == Peer(e)
<1>1. /\ Sized(e, s, s2, t, N, N2) /\ Common(e, s, t, N) /\ Common(f, t, s, N)
      /\ Shape(s) /\ Shape(s2) /\ Shape(t) /\ Numbers(s) /\ Numbers(t) /\ Numbers(s2)
      /\ Bare(N)
      /\ Between(e, s, t, N) /\ Between(f, t, s, N) /\ Together(e, s, t, N)
  BY Sizes DEF Move, Pair, Steady
<1>. HIDE DEF f
<1>2. Regular(s2)
  BY <1>1 DEF Misses, SameUpd, Ans, Between, Regular
<1>3. Meant(e, s2, t, N2)
  BY <1>1 DEF Misses, Sized, Common, Sends, Noise, SameUpd, Req, Fin, Ans, OneRequest, Dealt,
              Done, Between, Meant, Asked
<1>4. Meant(f, t, s2, N2)
  BY <1>1 DEF Misses, Sends, Noise, SameQueue, Req, Fin, Ans, Serves, Between, Meant
<1>5. Accepted(e, s2, t, N2)
  BY <1>1 DEF Misses, Sends, Noise, SameUpd, Fin, Ans, Acc, Between, Meant, Accepted
<1>6. Accepted(f, t, s2, N2)
  BY <1>1 DEF Misses, Sends, Noise, Fin, Ans, Acc, Waits, Confirms, Between, Accepted
<1>7. Owed(e, s2, t, N2)
  BY <1>1 DEF Misses, Sends, Noise, AckOf, CanAck, Between, Owed
<1>8. Owed(f, t, s2, N2)
  BY <1>1 DEF Misses, Ans, Waits, Confirms, Between, Owed
<1>9. Undecided(e, s2, t, N2) /\ Undecided(f, t, s2, N2) => s2.oa.cur = t.oa.cur
  BY <1>1 DEF f, Misses, Sends, Noise, SameQueue, Req, Fin, Ans, Serves, Together, Undecided, Open
<1>10. (\A m \in N2 : ~Acc(e, s2, m)) \/ (\A m \in N2 : ~Acc(f, t, m))
  BY <1>1 DEF f, Misses, Sends, Noise, SameUpd, Fin, Ans, Acc, Together
<1>. QED  BY <1>1, <1>2, <1>3, <1>4, <1>5, <1>6, <1>7, <1>8, <1>9, <1>10 DEF Between, Together, f

\* What holds while no end has ended, after an ACK sent.
LEMMA AcknowledgesBetween ==
    ASSUME NEW e \in Ends, NEW s, NEW s2, NEW t, NEW N, NEW N2, Move(e, s, s2, t, N, N2),
           ~Ended(s), ~Ended(s2), ~Ended(t), Acknowledges(e, s, s2, N, N2)
    PROVE  Between(e, s2, t, N2) /\ Between(Peer(e), t, s2, N2) /\ Together(e, s2, t, N2)
<1>. DEFINE f == Peer(e)
<1>1. /\ Sized(e, s, s2, t, N, N2) /\ Common(e, s, t, N) /\ Common(f, t, s, N)
      /\ Shape(s) /\ Shape(s2) /\ Shape(t) /\ Numbers(s) /\ Numbers(t) /\ Numbers(s2)
      /\ Bare(N)
      /\ Between(e, s, t, N) /\ Between(f, t, s, N) /\ Together(e, s, t, N)
  BY Sizes DEF Move, Pair, Steady
<1>. HIDE DEF f
<1>2. Regular(s2)
  BY <1>1 DEF Acknowledges, SameUpd, CanAck, TakenUp, Shape, Resting, Between, Regular
<1>3. Meant(e, s2, t, N2)
  BY <1>1 DEF Acknowledges, Sends, Noise, Req, AckOf, Ans, IsChange, IsAck, Waits, Between, Meant,
              Asked
<1>4. Meant(f, t, s2, N2)
  BY <1>1 DEF f, Acknowledges, Sized, Sends, Noise, SameQueue, Req, AckOf, IsAck, IsChange,
              IsFinal, Fin, Ans, Serves, Between, Meant
<1>5. Accepted(e, s2, t, N2)
  BY <1>1 DEF Acknowledges, Ans, Acc, Waits, Accepted
<1>6. Accepted(f, t, s2, N2)
  BY <1>1 DEF Acknowledges, Ans, Acc, Waits, Confirms, Between, Accepted, Owed
<1>7. Owed(e, s2, t, N2)
  BY <1>1 DEF Acknowledges, Sends, Noise, AckOf, CanAck, Calm, Made, TakenUp, GetSdp, OfferSent,
              Between, Regular, Owed
<1>8. Owed(f, t, s2, N2)
  BY <1>1 DEF Acknowledges, Confirms, Between, Owed
<1>9. Undecided(e, s2, t, N2) /\ Undecided(f, t, s2, N2) => s2.oa.cur = t.oa.cur
  BY <1>1 DEF Acknowledges, Waits, Confirms, Calm, TakenUp, Between, Regular, Owed, Together,
              Undecided
<1>10. (\A m \in N2 : ~Acc(e, s2, m)) \/ (\A m \in N2 : ~Acc(f, t, m))
  BY <1>1 DEF Acknowledges, Ans, Acc, Waits
<1>. QED  BY <1>1, <1>2, <1>3, <1>4, <1>5, <1>6, <1>7, <1>8, <1>9, <1>10 DEF Between, Together, f

\* What holds while no end has ended, after an ACK received.
LEMMA IsAcknowledgedBetween ==
    ASSUME NEW e \in Ends, NEW s, NEW s2, NEW t, NEW N, NEW N2, Move(e, s, s2, t, N, N2),
           ~Ended(s), ~Ended(s2), ~Ended(t), IsAcknowledged(e, s, s2, N, N2)
    PROVE  Between(e, s2, t, N2) /\ Between(Peer(e), t, s2, N2) /\ Together(e, s2, t, N2)
<1>. DEFINE f == Peer(e)
<1>1. /\ Sized(e, s, s2, t, N, N2) /\ Common(e, s, t, N) /\ Common(f, t, s, N)
      /\ Shape(s) /\ Shape(s2) /\ Shape(t) /\ Numbers(s) /\ Numbers(t) /\ Numbers(s2)
      /\ Bare(N)
      /\ Between(e, s, t, N) /\ Between(f, t, s, N) /\ Together(e, s, t, N)
  BY Sizes DEF Move, Pair, Steady
<1>. HIDE DEF f
<1>2. Regular(s2)
  BY <1>1 DEF f, IsAcknowledged, Sized, AckOf, Waits, Confirms, ClientOpen, CanAck, Shape,
              Confirming, Between, Regular, Owed
<1>3. Meant(e, s2, t, N2)
  BY <1>1 DEF IsAcknowledged, Sends, Noise, Req, Ans, Waits, Confirms, Between, Meant, Asked
<1>4. Meant(f, t, s2, N2)
  BY <1>1 DEF IsAcknowledged, Sends, Noise, SameQueue, Req, Fin, Ans, Serves, Between, Meant
<1>5. Accepted(e, s2, t, N2)
  BY <1>1 DEF IsAcknowledged, Ans, Acc, Waits, Accepted
<1>6. Accepted(f, t, s2, N2)
  BY <1>1 DEF f, IsAcknowledged, Sized, Common, Sends, Noise, Fin, AckOf, Ans, Acc, OneAck,
              Echoes, Returned, Waits, Serves, Confirms, ClientOpen, Shape, Asking, Between,
              Accepted
<1>7. Owed(e, s2, t, N2)
  BY <1>1 DEF IsAcknowledged, Sends, Noise, SameUpd, AckOf, Confirms, ClientOpen, CanAck, Shape,
              Confirming, Between, Owed
<1>8. Owed(f, t, s2, N2)
  BY <1>1 DEF f, IsAcknowledged, Sized, Common, AckOf, OneAck, Confirms, Between, Owed
<1>9. Undecided(e, s2, t, N2) /\ Undecided(f, t, s2, N2) => s2.oa.cur = t.oa.cur
  BY <1>1 DEF f, IsAcknowledged, Sized, Common, Sends, Noise, SameQueue, Req, Fin, AckOf, Ans,
              Echoes, Returned, Waits, Serves, Confirms, Shape, Together, Undecided, Open
<1>10. (\A m \in N2 : ~Acc(e, s2, m)) \/ (\A m \in N2 : ~Acc(f, t, m))
  BY <1>1 DEF IsAcknowledged, Ans, Acc, Waits
<1>. QED  BY <1>1, <1>2, <1>3, <1>4, <1>5, <1>6, <1>7, <1>8, <1>9, <1>10 DEF Between, Together, f

-----------------------------------------------------------------------------
(***************************************************************************)
(* Every step that breaks no exchange off is a step of one of these kinds.      *)
(***************************************************************************)
LiveKind(e, s, s2, N, N2) ==
    /\ ~Ended(s) /\ ~Ended(s2)
    /\ \/ Still(e, s, s2, N, N2) \/ Requests(e, s, s2, N, N2) \/ Begins(e, s, s2, N, N2)
       \/ TurnsDown(e, s, s2, N, N2) \/ PutsOff(e, s, s2, N, N2) \/ Grants(e, s, s2, N, N2)
       \/ Withdraws(e, s, s2, N, N2) \/ Gains(e, s, s2, N, N2) \/ Misses(e, s, s2, N, N2)
       \/ Acknowledges(e, s, s2, N, N2) \/ IsAcknowledged(e, s, s2, N, N2)
EndKind(e, s, s2, N, N2) ==
    \/ Finishes(e, s, s2, N, N2) \/ EndAcks(e, s, s2, N, N2)
    \/ EndAcksAtOnce(e, s, s2, N, N2) \/ EndIsAcknowledged(e, s, s2, N, N2)

Held(e) == IInv /\ Pair(e, ep[e], ep[Peer(e)], net)
Follows(e, t, N2) ==
    /\ Steady(t) /\ Numbers(t) /\ Bare(N2)
    /\ LiveKind(e, ep[e], t, net, N2) \/ EndKind(e, ep[e], t, net, N2)
Advances(e) == ep'[Peer(e)] = ep[Peer(e)] /\ Follows(e, ep'[e], net')

\* A step of one end leaves the other; it is enough to look at what it becomes.
LEMMA GoesAdvances ==
    ASSUME NEW e \in Ends, Held(e), NEW t, NEW gone, NEW out, Goes(e, t, gone, out),
           Follows(e, t, (net \ gone) \cup out)
    PROVE  Advances(e)
BY Peers DEF Goes, Advances, Held, IInv, TypeOK

\* What is known of an end and of what is on its way to it.
LEMMA Start ==
    ASSUME NEW e \in Ends, Held(e)
    PROVE  LET s == ep[e]
           IN  /\ s \in SessionType /\ Rec(s) /\ s.oa \in OaType /\ s.upd \in RequestType
               /\ s.call \in CallStates /\ s.st \in SessionStates
               /\ s.cseq \in Nat /\ s.rseq \in Nat /\ s.post \in Seq(Post)
               /\ s.oa.cur \in Nat /\ s.oa.prop \in Nat /\ s.upd.sdp \in Nat /\ s.upd.cseq \in Nat
               /\ s.upd.method \in {"INVITE", "UPDATE"}
               /\ Steady(s) /\ Numbers(s) /\ Bare(net) /\ net \subseteq Message
BY Has, Recs DEF Held, Pair, SessionType, OaType, RequestType

\* What is sent bears what it must, and so does what stays on its way.
LEMMA Bares ==
    ASSUME NEW N, NEW gone, NEW out, Bare(N), Bare(out)
    PROVE  Bare((N \ gone) \cup out)
BY DEF Bare

\* The types of the fields of a message.
LEMMA Ranges ==
    \A m \in Message : m.cseq \in Nat /\ m.sdp \in Nat /\ m.to \in Ends /\ m.method \in Methods
                       /\ m.class \in Classes
BY DEF Message

\* The fields of a message written.
LEMMA Writes ==
    \A e, method, class, sdp, cseq :
        LET x == Msg(e, method, class, sdp, cseq)
        IN  /\ x.to = Peer(e) /\ x.method = method /\ x.class = class
            /\ x.sdp = sdp /\ x.cseq = cseq
BY DEF Msg

\* Accept: the 2xx grants the request served.
LEMMA AcceptAdvances ==
    ASSUME NEW e \in Ends, Held(e), Accept(e)
    PROVE  Advances(e)
<1>. DEFINE s == ep[e]
            sdp == AnswerSdp(s)
            sent == UpdateMedia(OaSent(Answered(s, "2XX"), "SUCCESS", sdp))
            t == IF s.upd.method = "INVITE" THEN Moved(Called(sent, "2XX"), "REESTABLISHING")
                 ELSE Moved(sent, "ESTABLISHED")
            x == AnswerOf(e, s, "2XX", sdp)
            oa == Completed(Sent(s.oa, "SUCCESS", sdp))
            u == [s.upd EXCEPT !.final = "2XX"]
<1>1. Goes(e, t, {}, {x}) /\ s.st = "RENEGOTIATING" /\ ServerOpen(s)
  BY DEF Accept
<1>. HIDE DEF s, sdp
<1>2. /\ s \in SessionType /\ Rec(s) /\ s.oa \in OaType /\ s.upd \in RequestType
      /\ Steady(s) /\ Numbers(s) /\ s.upd.method \in {"INVITE", "UPDATE"}
      /\ s.upd.sdp \in Nat /\ s.oa.cur \in Nat /\ Bare(net)
  BY Start DEF s
<1>3. ~Ended(s) /\ Serves(s) /\ ServerOpen(s) /\ Serving(s) /\ ~s.bye /\ s.oa.cur # None
  BY <1>1, <1>2 DEF Ended, Serves, ServerOpen, Steady, Shape, Waits
<1>4. IF s.upd.sdp = None THEN sdp = s.oa.cur /\ Made(oa, None) /\ oa.cur = s.oa.cur
      ELSE sdp = s.upd.sdp /\ Calm(oa) /\ oa.cur = sdp
  BY <1>2, <1>3, Answers2xx DEF sdp, AnswerSdp, Serving, Calm, TakenUp, GetSdp, OfferSent
<1>5. /\ u.role = s.upd.role /\ u.method = s.upd.method /\ u.sdp = s.upd.sdp
      /\ u.cseq = s.upd.cseq /\ u.open = s.upd.open /\ u.final = "2XX"
  BY <1>2, UpdFields
<1>6. IF s.upd.method = "INVITE"
      THEN Is(t, "REESTABLISHING", CallSent(s.call, "2XX"), oa, u, s.post, s.bye, s.cseq, s.rseq)
      ELSE Is(t, "ESTABLISHED", s.call, oa, u, s.post, s.bye, s.cseq, s.rseq)
  BY <1>2 DEF Is, Rec, Moved, Called, UpdateMedia, OaSent, Answered, Completed
<1>7. IF s.upd.method = "INVITE"
      THEN /\ CallSent(s.call, "2XX") \in Idling \cup {"REINVITE_2XX_SENT"}
           /\ CallSent(s.call, "2XX") = "REINVITE_2XX_RECEIVED" =>
                  s.call = "REINVITE_2XX_RECEIVED"
      ELSE s.call \in Idling
  BY <1>3 DEF Serving, CallSent, Idling, Ringing, Awaiting
<1>8. x.to = Peer(e) /\ x.method = s.upd.method /\ x.class = "2XX" /\ x.sdp = sdp
      /\ x.cseq = s.upd.cseq
  BY Writes DEF AnswerOf
<1>. HIDE DEF t, u, oa, x
<1>9. Steady(t)
  BY <1>2, <1>3, <1>4, <1>5, <1>6, <1>7
     DEF Is, Steady, Shape, Serves, Confirming, Resting, Alive, ServerOpen, ClientOpen, CanAck,
         Calm, Made, Ended, None
<1>10. Numbers(t)
  BY <1>2, <1>3, <1>5, <1>6 DEF Is, Numbers, Puts, Serves, Ended
<1>11. Bare(net \cup {x})
  BY <1>2, <1>3, <1>4, <1>8 DEF Bare, IsFinal, IsAck
<1>12. Grants(e, s, t, net, net \cup {x})
  BY <1>1, <1>2, <1>3, <1>4, <1>5, <1>6, <1>7, <1>8
     DEF Is, Grants, Serves, Serving, SameUpd, SameQueue, Puts, Owing, ServerOpen, Sends,
         Calm, TakenUp
<1>13. ~Ended(t) /\ (net \ {}) \cup {x} = net \cup {x}
  BY <1>6 DEF Is, Ended
<1>. QED
  BY <1>1, <1>3, <1>9, <1>10, <1>11, <1>12, <1>13, GoesAdvances DEF Follows, LiveKind, s

\* What a call may turn into while the exchange stays as it is.
CallMoves(c, d) ==
    \/ d = c
    \/ {c, d} \subseteq Awaiting
    \/ {c, d} \subseteq Ringing
    \/ c \in Ringing \cup {"REINVITE_2XX_SENT"} /\ d = "ESTABLISHED"

\* The same view, and perhaps a message more on its way that matters to no exchange.
LEMMA ViewKept ==
    ASSUME NEW s, NEW t, Steady(s), SameView(s, t), CallMoves(s.call, t.call), t.bye => s.bye
    PROVE  Steady(t)
<1>1. Ended(t) = Ended(s)
  BY DEF SameView, Ended
<1>2. /\ t.oa.st \in {"ESTABLISHED", "OFFER_CHANGE_SENT", "OFFER_CHANGE_RECEIVED"}
      /\ t.oa.st = "OFFER_CHANGE_RECEIVED" => t.oa.mode = "ANSWERER"
      /\ CanAck(t) => t.upd.final = "2XX"
  BY DEF Steady, SameView, SameOa
<1>3. /\ Calm(t.oa) = Calm(s.oa) /\ \A v : Made(t.oa, v) = Made(s.oa, v)
      /\ \A v : TakenUp(t.oa, v) = TakenUp(s.oa, v)
      /\ t.oa.cur = s.oa.cur /\ t.oa.prop = s.oa.prop
  BY DEF SameView, SameOa, Calm, Made, TakenUp
<1>4. /\ t.st = s.st /\ t.upd.role = s.upd.role /\ t.upd.method = s.upd.method
      /\ t.upd.sdp = s.upd.sdp /\ t.upd.final = s.upd.final /\ t.upd.open = s.upd.open
      /\ CanAck(t) = CanAck(s)
  BY DEF SameView, SameUpd
<1>. HIDE DEF CallMoves
<1>5. ASSUME Asking(s) PROVE Asking(t)
  BY <1>3, <1>4, <1>5 DEF Asking, CallMoves, Awaiting, Ringing
<1>6. ASSUME Serving(s) PROVE Serving(t)
  BY <1>3, <1>4, <1>6 DEF Serving, CallMoves, Awaiting, Ringing, Idling
<1>7. ASSUME Confirming(s) PROVE Confirming(t)
  BY <1>3, <1>4, <1>7 DEF Confirming, CallMoves, Awaiting, Ringing, Idling
<1>8. ASSUME Resting(s) PROVE Resting(t)
  BY <1>3, <1>4, <1>8
     DEF Resting, CallMoves, Awaiting, Ringing, Idling, Alive, ServerOpen, ClientOpen
<1>9. ~Ended(t) => Shape(t)
  BY <1>1, <1>3, <1>4, <1>5, <1>6, <1>7, <1>8 DEF Steady, Shape, Waits, Serves
<1>. QED  BY <1>1, <1>2, <1>9 DEF Steady

\* A step that finishes a session follows, whatever else it changes.
LEMMA Finished ==
    ASSUME NEW e \in Ends, Held(e), NEW t, NEW N2, t.cseq \in Nat,
           Finishes(e, ep[e], t, net, N2)
    PROVE  Follows(e, t, N2)
<1>. DEFINE s == ep[e]
<1>1. Steady(s) /\ Numbers(s) /\ Bare(net) /\ s.cseq \in Nat /\ s.upd.cseq \in Nat
      /\ net \subseteq Message
  BY Start
<1>. HIDE DEF s
<1>2. Finishes(e, s, t, net, N2)
  BY DEF s
<1>3. Steady(t)
  BY <1>1, <1>2 DEF Finishes, Steady
<1>4. Numbers(t)
  BY <1>1, <1>2 DEF Finishes, Numbers, SameUpd
<1>5. Bare(N2)
  BY <1>1, <1>2 DEF Finishes, Bare, Noise, Refusal, IsFinal, IsAck
<1>. QED  BY <1>2, <1>3, <1>4, <1>5 DEF Follows, EndKind, s

\* Nothing changes that an exchange depends on, and nothing is sent but noise.
LEMMA Stays ==
    ASSUME NEW e \in Ends, Held(e), NEW t, NEW call, NEW upd, NEW post, NEW bye, NEW N2,
           Is(t, ep[e].st, call, ep[e].oa, upd, post, bye, ep[e].cseq, ep[e].rseq),
           CallMoves(ep[e].call, call), bye => ep[e].bye,
           upd \in {ep[e].upd, [ep[e].upd EXCEPT !.cancelled = TRUE]},
           Late(post) = Late(ep[e].post), Once(ep[e].post) => Once(post),
           \A n \in N2 : n \in net \/ Noise(e, ep[e], t, net, n)
    PROVE  Follows(e, t, N2)
<1>. DEFINE s == ep[e]
<1>1. /\ Steady(s) /\ Numbers(s) /\ Bare(net) /\ s.upd \in RequestType /\ s.cseq \in Nat
      /\ s.rseq \in Nat
  BY Start
<1>. HIDE DEF s
<1>2. /\ Is(t, s.st, call, s.oa, upd, post, bye, s.cseq, s.rseq)
      /\ CallMoves(s.call, call) /\ (bye => s.bye)
      /\ Late(post) = Late(s.post) /\ (Once(s.post) => Once(post))
      /\ \A n \in N2 : n \in net \/ Noise(e, s, t, net, n)
  BY DEF s
<1>3. /\ upd.role = s.upd.role /\ upd.method = s.upd.method /\ upd.sdp = s.upd.sdp
      /\ upd.cseq = s.upd.cseq /\ upd.final = s.upd.final /\ upd.open = s.upd.open
  BY <1>1 DEF RequestType, s
<1>4. Owing(t) = Owing(s)
  BY <1>2 DEF Is, Owing, CallMoves, Awaiting, Ringing
<1>5. SameView(s, t)
  BY <1>2, <1>3, <1>4 DEF Is, SameView, SameOa, SameUpd, CanAck, ClientOpen, Owing
<1>6. SameQueue(s, t)
  BY <1>2 DEF Is, SameQueue, Puts
<1>7. Steady(t)
  BY <1>1, <1>2, <1>5, ViewKept DEF Is
<1>8. Numbers(t)
  BY <1>1, <1>2, <1>5, <1>6 DEF Is, Numbers, SameView, SameUpd, SameQueue, Serves, Ended
<1>9. Bare(N2)
  BY <1>1, <1>2 DEF Bare, Noise, IsFinal, IsAck
<1>10. CASE ~Ended(s)
  <2>1. Still(e, s, t, net, N2) /\ ~Ended(t)
    BY <1>2, <1>5, <1>6, <1>10 DEF Still, Sends, SameView, Ended
  <2>. QED  BY <1>7, <1>8, <1>9, <1>10, <2>1 DEF Follows, LiveKind, s
<1>11. CASE Ended(s)
  <2>1. Finishes(e, s, t, net, N2)
    BY <1>1, <1>2, <1>5, <1>6, <1>11
       DEF Finishes, SameView, SameUpd, SameOa, SameQueue, Ended, Alive, ServerOpen, ClientOpen
  <2>. QED  BY <1>7, <1>8, <1>9, <2>1 DEF Follows, EndKind, s
<1>. QED  BY <1>10, <1>11

\* An end that does not change, or in nothing that an exchange depends on.
LEMMA SameAdvances ==
    ASSUME NEW e \in Ends, Held(e), NEW t, NEW call, NEW post, NEW bye, NEW gone,
           Goes(e, t, gone, {}),
           Is(t, ep[e].st, call, ep[e].oa, ep[e].upd, post, bye, ep[e].cseq, ep[e].rseq),
           CallMoves(ep[e].call, call), bye => ep[e].bye,
           Late(post) = Late(ep[e].post), Once(ep[e].post) => Once(post)
    PROVE  Advances(e)
BY Stays, GoesAdvances

\* Ring: a 18x matters to no exchange.
LEMMA RingAdvances ==
    ASSUME NEW e \in Ends, Held(e), Ring(e)
    PROVE  Advances(e)
<1>. DEFINE s == ep[e]
            t == Called(s, "1XX")
            x == AnswerOf(e, s, "1XX", None)
<1>1. Goes(e, t, {}, {x}) /\ s.st = "RENEGOTIATING" /\ ServerOpen(s)
      /\ s.call = "REINVITE_RECEIVED"
  BY DEF Ring
<1>2. Is(t, s.st, "REINVITE_1XX_SENT", s.oa, s.upd, s.post, s.bye, s.cseq, s.rseq)
  BY <1>1, Start DEF Is, Rec, Called, CallSent, Ringing, Awaiting
<1>3. CallMoves(s.call, "REINVITE_1XX_SENT")
  BY <1>1 DEF CallMoves, Ringing
<1>4. x.to = Peer(e) /\ x.method # "ACK" /\ x.class = "1XX" /\ x.cseq = s.upd.cseq
  BY Start, Writes DEF AnswerOf
<1>5. s.upd.cseq <= s.rseq
  BY <1>1, Start DEF Numbers, Ended, ServerOpen
<1>. HIDE DEF t, x
<1>6. Noise(e, s, t, net, x)
  BY <1>4, <1>5 DEF Noise, IsChange, IsFinal, IsAck
<1>7. Follows(e, t, (net \ {}) \cup {x})
  BY <1>2, <1>3, <1>6, Stays
<1>. QED  BY <1>1, <1>7, GoesAdvances

\* Terminate while the ACK is awaited: the end is put off.
LEMMA TerminateReEstablishingAdvances ==
    ASSUME NEW e \in Ends, Held(e), TerminateReEstablishing(e)
    PROVE  Advances(e)
<1>. DEFINE s == ep[e]
            t == [Leaving(s) EXCEPT !.pend = TRUE]
<1>1. Goes(e, t, {}, {})
  BY DEF TerminateReEstablishing
<1>2. Is(t, s.st, s.call, s.oa, s.upd, s.post, s.bye, s.cseq, s.rseq)
  BY Start DEF Is, Rec, Leaving
<1>. HIDE DEF t
<1>. QED  BY <1>1, <1>2, SameAdvances DEF CallMoves

\* Messages that are dropped or only change the call state.
LEMMA RecvUnchangedAdvances ==
    ASSUME NEW e \in Ends, NEW m, Held(e),
           RecvUnawaited(e, m) \/ RecvRinging(e, m) \/ RecvCancelAnswer(e, m)
    PROVE  Advances(e)
<1>. DEFINE s == ep[e]
            call == CallReceived(s.call, "1XX")
            r == [s EXCEPT !.call = call]
            c == [s EXCEPT !.cancel = FALSE]
<1>1. \E t \in {s, r, c} : Goes(e, t, {m}, {})
  BY DEF RecvUnawaited, RecvRinging, RecvCancelAnswer
<1>2. /\ Is(s, s.st, s.call, s.oa, s.upd, s.post, s.bye, s.cseq, s.rseq)
      /\ Is(r, s.st, call, s.oa, s.upd, s.post, s.bye, s.cseq, s.rseq)
      /\ Is(c, s.st, s.call, s.oa, s.upd, s.post, s.bye, s.cseq, s.rseq)
  BY Start DEF Is, Rec
<1>3. CallMoves(s.call, call) /\ CallMoves(s.call, s.call)
  BY Start DEF CallMoves, CallReceived, Awaiting, CallStates
<1>. HIDE DEF r, c, call
<1>. QED  BY <1>1, <1>2, <1>3, SameAdvances

\* The end is told; the session has ended before.
LEMMA DispatchTerminatedAdvances ==
    ASSUME NEW e \in Ends, Held(e), DispatchTerminated(e)
    PROVE  Advances(e)
<1>. DEFINE s == ep[e]
            t == [Taken(s) EXCEPT !.told = TRUE]
<1>1. Goes(e, t, {}, {}) /\ s.post # << >> /\ Head(s.post).what = "TERMINATED"
  BY DEF DispatchTerminated, Posts
<1>2. Is(t, s.st, s.call, s.oa, s.upd, Tail(s.post), s.bye, s.cseq, s.rseq)
  BY Start DEF Is, Rec, Taken
<1>3. Late(Tail(s.post)) = Late(s.post) /\ (Once(s.post) => Once(Tail(s.post)))
  BY <1>1, Start, TailLate
<1>. HIDE DEF t
<1>. QED  BY <1>1, <1>2, <1>3, SameAdvances DEF CallMoves

\* A message lost takes nothing along that an exchange depends on.
LEMMA LoseAdvances ==
    ASSUME NEW e \in Ends, Held(e), NEW m, Lose(m)
    PROVE  Advances(e)
<1>. DEFINE s == ep[e]
<1>1. ep' = ep /\ net' = net \ {m}
  BY DEF Lose
<1>2. Is(s, s.st, s.call, s.oa, s.upd, s.post, s.bye, s.cseq, s.rseq)
  BY Start DEF Is, Rec
<1>3. Follows(e, s, net \ {m})
  BY <1>2, Stays DEF CallMoves
<1>. QED  BY <1>1, <1>3 DEF Advances

-----------------------------------------------------------------------------
(***************************************************************************)
(* Steps to the end.                                                        *)
(***************************************************************************)

\* A BYE is noise, with a number of its own.
LEMMA ByeNoise ==
    ASSUME NEW e \in Ends, NEW s, NEW r, NEW t, NEW N, r.cseq = s.cseq, t.cseq = s.cseq + 1,
           s.cseq \in Nat
    PROVE  \A n \in Bye(e, r) : Noise(e, s, t, N, n)
BY Writes DEF Bye, Noise, IsChange, IsFinal, IsAck

\* Sending a BYE makes no ACK owed.
LEMMA ByeCall ==
    \A call \in CallStates : CallSent(call, "BYE") = "REINVITE_2XX_RECEIVED" =>
                                 call = "REINVITE_2XX_RECEIVED"
BY CallWaits

\* Terminate of an established session: the BYE finishes it.
LEMMA TerminateEstablishedAdvances ==
    ASSUME NEW e \in Ends, Held(e), TerminateEstablished(e)
    PROVE  Advances(e)
<1>. DEFINE s == ep[e]
            t == ByeSent(Leaving(s))
            out == Bye(e, Leaving(s))
<1>1. Goes(e, t, {}, out)
  BY DEF TerminateEstablished
<1>2. s.cseq \in Nat /\ s.call \in CallStates /\ s.upd \in RequestType
  BY Start
<1>3. /\ Is(t, "TERMINATING", CallSent(s.call, "BYE"), s.oa, s.upd, s.post, TRUE, s.cseq + 1,
            s.rseq)
      /\ Leaving(s).cseq = s.cseq
  BY Start DEF Is, Rec, Leaving, ByeSent, Called
<1>4. \A n \in out : Noise(e, s, t, net, n)
  BY <1>2, <1>3, ByeNoise DEF Is
<1>. HIDE DEF s, t, out
<1>5. Finishes(e, s, t, net, (net \ {}) \cup out)
  BY <1>2, <1>3, <1>4, ByeCall
     DEF Is, Finishes, Ended, SameUpd, Alive, ServerOpen, ClientOpen, CanAck, Puts
<1>6. Follows(e, t, (net \ {}) \cup out)
  BY <1>2, <1>3, <1>5, Finished DEF Is, s
<1>. QED  BY <1>1, <1>6, GoesAdvances DEF s

\* Terminate during an update: a request served is refused first; the session finishes.
LEMMA TerminateReNegotiatingAdvances ==
    ASSUME NEW e \in Ends, Held(e), NEW bye, TerminateReNegotiating(e, bye)
    PROVE  Advances(e)
<1>. DEFINE s == ep[e]
            l == Leaving(s)
            t1 == ByeSent(Closed(l))
            a == CallFails(Answered(l, "FAIL"))
            t2 == ByeSent(a)
            t3 == Posted(Moved(l, "TERMINATED"), "TERMINATED")
            x == AnswerOf(e, l, "FAIL", None)
            out == Bye(e, l)
            u1 == [s.upd EXCEPT !.open = FALSE]
            u2 == [s.upd EXCEPT !.final = "FAIL"]
            end == [what |-> "TERMINATED", msg |-> NoMessage]
<1>1. /\ \/ Goes(e, t1, {}, out)
         \/ ServerOpen(l) /\ Goes(e, t2, {}, {x} \cup out)
         \/ Goes(e, t3, {}, {})
      /\ s.st = "RENEGOTIATING"
  BY DEF TerminateReNegotiating, TerminateOnReNegotiating
<1>2. /\ Rec(s) /\ s.cseq \in Nat /\ s.call \in CallStates /\ s.upd \in RequestType
      /\ s.post \in Seq(Post) /\ s.upd.method \in {"INVITE", "UPDATE"}
  BY Start
<1>. HIDE DEF s
<1>3. /\ l.cseq = s.cseq /\ l.upd = s.upd
      /\ Is(t1, "TERMINATING", CallSent(s.call, "BYE"), s.oa, u1, s.post, TRUE, s.cseq + 1,
            s.rseq)
      /\ Is(t3, "TERMINATED", s.call, s.oa, s.upd, Append(s.post, end), s.bye, s.cseq, s.rseq)
  BY <1>2 DEF Is, Rec, Leaving, ByeSent, Called, Closed, Posted, Moved
<1>4. \E call \in {s.call, CallSent(s.call, "FAIL")} :
          Is(t2, "TERMINATING", CallSent(call, "BYE"), s.oa, u2, s.post, TRUE, s.cseq + 1, s.rseq)
  BY <1>2 DEF Is, Rec, Leaving, ByeSent, Called, CallFails, Answered
<1>5. /\ u1.role = s.upd.role /\ u1.method = s.upd.method /\ u1.sdp = s.upd.sdp
      /\ u1.cseq = s.upd.cseq /\ ~u1.open /\ u1.final = s.upd.final
      /\ u2.role = s.upd.role /\ u2.method = s.upd.method /\ u2.sdp = s.upd.sdp
      /\ u2.cseq = s.upd.cseq /\ u2.open = s.upd.open /\ u2.final = "FAIL"
  BY <1>2, UpdFields
<1>6. CallSent(s.call, "FAIL") \in CallStates
  BY <1>2, CallTypes
<1>7. /\ CallSent(s.call, "BYE") = "REINVITE_2XX_RECEIVED" => s.call = "REINVITE_2XX_RECEIVED"
      /\ Late(Append(s.post, end)) = Late(s.post)
  BY <1>2, ByeCall, AppendLate DEF Post
<1>8. /\ \A n \in out : Noise(e, s, t1, net, n)
      /\ \A n \in out : Noise(e, s, t2, net, n)
  BY <1>2, <1>3, <1>4, ByeNoise DEF Is
<1>9. ServerOpen(l) => Refusal(e, s, net, x)
  BY <1>1, <1>2, <1>3, Writes DEF Refusal, AnswerOf, Serves, ServerOpen, IsFinal
<1>. HIDE DEF l, t1, t2, t3, x, out, u1, u2, end, a
<1>10. Finishes(e, s, t1, net, (net \ {}) \cup out)
  BY <1>2, <1>3, <1>5, <1>7, <1>8
     DEF Is, Finishes, Ended, SameUpd, Alive, ServerOpen, ClientOpen, CanAck, Puts
<1>11. ServerOpen(l) => Finishes(e, s, t2, net, (net \ {}) \cup ({x} \cup out))
  BY <1>2, <1>3, <1>4, <1>5, <1>6, <1>8, <1>9
     DEF Is, Finishes, Ended, SameUpd, Alive, ServerOpen, ClientOpen, CanAck, Puts
<1>12. Finishes(e, s, t3, net, (net \ {}) \cup {})
  BY <1>2, <1>3, <1>7
     DEF Is, Finishes, Ended, SameUpd, Alive, ServerOpen, ClientOpen, CanAck, Puts
<1>13. t1.cseq \in Nat /\ t2.cseq \in Nat /\ t3.cseq \in Nat
  BY <1>2, <1>3, <1>4 DEF Is
<1>. QED  BY <1>1, <1>10, <1>11, <1>12, <1>13, Finished, GoesAdvances DEF s

\* Terminate while the re-INVITE rings: it is cancelled, or the session finished.
LEMMA CancelRingingAdvances ==
    ASSUME NEW e \in Ends, Held(e), CancelRinging(e)
    PROVE  Advances(e)
<1>. DEFINE s == ep[e]
            t == [s EXCEPT !.cancel = TRUE, !.upd.cancelled = TRUE]
            u == [s.upd EXCEPT !.cancelled = TRUE]
            end == [what |-> "TERMINATED", msg |-> NoMessage]
            z == Posted(Moved(s, "TERMINATED"), "TERMINATED")
            x == Msg(e, "CANCEL", "REQUEST", None, s.upd.cseq)
<1>1. \/ ClientOpen(s) /\ Goes(e, t, {}, {x})
      \/ Goes(e, z, {}, {})
  BY DEF CancelRinging
<1>2. /\ Rec(s) /\ s.cseq \in Nat /\ s.upd \in RequestType /\ s.post \in Seq(Post) /\ Numbers(s)
  BY Start
<1>. HIDE DEF s
<1>3. /\ Is(t, s.st, s.call, s.oa, u, s.post, s.bye, s.cseq, s.rseq)
      /\ Is(z, "TERMINATED", s.call, s.oa, s.upd, Append(s.post, end), s.bye, s.cseq, s.rseq)
  BY <1>2 DEF Is, Rec, Posted, Moved
<1>4. Late(Append(s.post, end)) = Late(s.post)
  BY <1>2, AppendLate DEF Post
<1>5. ClientOpen(s) => Noise(e, s, t, net, x)
  BY <1>2, <1>3, Writes DEF Is, Noise, IsChange, IsFinal, IsAck, Numbers, ClientOpen
<1>. HIDE DEF t, u, z, x, end
<1>6. ClientOpen(s) => Follows(e, t, (net \ {}) \cup {x})
  BY <1>3, <1>5, Stays DEF s, u, CallMoves
<1>7. Finishes(e, s, z, net, (net \ {}) \cup {})
  BY <1>2, <1>3, <1>4
     DEF Is, Finishes, Ended, SameUpd, Alive, ServerOpen, ClientOpen, CanAck, Puts
<1>8. z.cseq \in Nat
  BY <1>2, <1>3 DEF Is
<1>. QED  BY <1>1, <1>6, <1>7, <1>8, Finished, GoesAdvances DEF s

\* A BYE received finishes the session, or finds it finished.
LEMMA RecvByeAdvances ==
    ASSUME NEW e \in Ends, NEW m \in net, m.to = e, Held(e), RecvBye(e, m)
    PROVE  Advances(e)
<1>. DEFINE s == ep[e]
            a == Arrives(s, m)
            call == CallReceived(a.call, "BYE")
            c == [a EXCEPT !.call = call]
            d == [Called(c, "2XX") EXCEPT !.st = "TERMINATED", !.pend = FALSE]
            end == [what |-> "TERMINATED", msg |-> NoMessage]
            t == IF c.bye THEN c ELSE IF c.st = "TERMINATED" THEN d ELSE Posted(d, "TERMINATED")
            x == Reply(e, m, "2XX")
<1>1. m.method = "BYE" /\ m.class = "REQUEST" /\ Goes(e, t, {m}, {x})
  BY DEF RecvBye, Arrives
<1>2. /\ Rec(s) /\ s.cseq \in Nat /\ s.call \in CallStates /\ s.post \in Seq(Post)
      /\ (s.bye => Ended(s)) /\ m \in Message /\ m.cseq \in Nat
  BY Start, Ranges DEF Steady
<1>. HIDE DEF s
<1>3. a.call = s.call /\ Is(a, s.st, s.call, s.oa, s.upd, s.post, s.bye, s.cseq, m.cseq)
  BY <1>2 DEF Is, Rec, Arrives
<1>4. call \in CallStates /\ CallSent(call, "2XX") \in CallStates
  BY <1>2, <1>3, CallTypes
<1>5. \A b \in {call, CallSent(call, "2XX")} :
          b = "REINVITE_2XX_RECEIVED" => s.call = "REINVITE_2XX_RECEIVED"
  BY <1>2, <1>4, <1>3, CallWaits
<1>6. \E b \in {call, CallSent(call, "2XX")}, st \in {s.st, "TERMINATED"},
          post \in {s.post, Append(s.post, end)} :
          /\ Is(t, st, b, s.oa, s.upd, post, s.bye, s.cseq, m.cseq)
          /\ s.bye \/ st = "TERMINATED"
  <2>1. Is(c, s.st, call, s.oa, s.upd, s.post, s.bye, s.cseq, m.cseq)
    BY <1>3 DEF Is, Rec
  <2>. HIDE DEF a, c, call
  <2>2. Is(d, "TERMINATED", CallSent(call, "2XX"), s.oa, s.upd, s.post, s.bye, s.cseq, m.cseq)
    BY <2>1 DEF Is, Rec, Called
  <2>. HIDE DEF d
  <2>3. Is(Posted(d, "TERMINATED"), "TERMINATED", CallSent(call, "2XX"), s.oa, s.upd,
           Append(s.post, end), s.bye, s.cseq, m.cseq)
    BY <2>2 DEF Is, Rec, Posted
  <2>4. c.bye = s.bye
    BY <2>1 DEF Is
  <2>. QED  BY <2>1, <2>2, <2>3, <2>4
<1>7. Late(Append(s.post, end)) = Late(s.post)
  BY <1>2, AppendLate DEF Post
<1>8. x.to = Peer(e) /\ x.method = "BYE" /\ x.class = "2XX" /\ x.cseq = m.cseq
  BY <1>1, Writes DEF Reply
<1>. HIDE DEF a, c, d, t, x, end, call
<1>9. /\ Ended(t) /\ t.call \in {call, CallSent(call, "2XX")} /\ t.oa = s.oa /\ t.upd = s.upd
       /\ Puts(t) = Puts(s) /\ t.cseq = s.cseq /\ t.rseq = m.cseq
  BY <1>2, <1>6, <1>7 DEF Is, Ended, Puts
<1>10. Noise(e, s, t, net, x)
  BY <1>1, <1>8 DEF Noise, IsChange, IsFinal, IsAck
<1>11. Finishes(e, s, t, net, (net \ {m}) \cup {x})
  BY <1>1, <1>2, <1>5, <1>10, <1>9
     DEF Finishes, SameUpd, Alive, ServerOpen, ClientOpen, CanAck
<1>12. t.cseq \in Nat
  BY <1>2, <1>9
<1>. QED  BY <1>1, <1>11, <1>12, Finished, GoesAdvances DEF s

\* The session ends, on the answer to its BYE or without it.
LEMMA EndsNowAdvances ==
    ASSUME NEW e \in Ends, Held(e), NEW call,
           call = "REINVITE_2XX_RECEIVED" => ep[e].call = "REINVITE_2XX_RECEIVED",
           NEW gone, Goes(e, EndsNow([ep[e] EXCEPT !.call = call, !.bye = FALSE]), gone, {})
    PROVE  Advances(e)
<1>. DEFINE s == ep[e]
            c == [s EXCEPT !.call = call, !.bye = FALSE]
            t == EndsNow(c)
            end == [what |-> "TERMINATED", msg |-> NoMessage]
<1>1. Rec(s) /\ s.cseq \in Nat /\ s.post \in Seq(Post)
  BY Start
<1>. HIDE DEF s
<1>2. Is(c, s.st, call, s.oa, s.upd, s.post, FALSE, s.cseq, s.rseq)
  BY <1>1 DEF Is, Rec
<1>. HIDE DEF c
<1>3. \E post \in {s.post, Append(s.post, end)} :
          Is(t, "TERMINATED", call, s.oa, s.upd, post, FALSE, s.cseq, s.rseq)
  BY <1>2 DEF Is, Rec, EndsNow, Posted, Moved
<1>4. Late(Append(s.post, end)) = Late(s.post)
  BY <1>1, AppendLate DEF Post
<1>. HIDE DEF t, end
<1>5. /\ Ended(t) /\ t.call = call /\ t.oa = s.oa /\ t.upd = s.upd
      /\ Puts(t) = Puts(s) /\ t.cseq = s.cseq /\ t.rseq = s.rseq
  BY <1>3, <1>4 DEF Is, Ended, Puts
<1>6. call = "REINVITE_2XX_RECEIVED" => s.call = "REINVITE_2XX_RECEIVED"
  BY DEF s
<1>7. Finishes(e, s, t, net, (net \ gone) \cup {})
  BY <1>1, <1>5, <1>6 DEF Finishes, SameUpd, Alive, ServerOpen, ClientOpen, CanAck
<1>8. t.cseq \in Nat
  BY <1>1, <1>5
<1>. QED  BY <1>7, <1>8, Finished, GoesAdvances DEF s, t, c

\* The answer to a BYE, or its timeout, leaves a session that has ended.
LEMMA ByeEndsAdvances ==
    ASSUME NEW e \in Ends, NEW m, Held(e), RecvByeAnswer(e, m) \/ ByeTimeout(e)
    PROVE  Advances(e)
<1>. DEFINE s == ep[e]
<1>1. CASE RecvByeAnswer(e, m)
  <2>. DEFINE call == CallReceived(s.call, m.class)
  <2>1. /\ s.bye
        /\ IF s.st = "TERMINATED" THEN Goes(e, s, {m}, {})
           ELSE Goes(e, EndsNow([s EXCEPT !.call = call, !.bye = FALSE]), {m}, {})
    BY <1>1 DEF RecvByeAnswer
  <2>2. call = "REINVITE_2XX_RECEIVED" => s.call = "REINVITE_2XX_RECEIVED"
    BY <2>1, Has, Start, CallWaits DEF Held, Sound, Waiting
  <2>3. Is(s, s.st, s.call, s.oa, s.upd, s.post, s.bye, s.cseq, s.rseq)
    BY Start DEF Is
  <2>. HIDE DEF call
  <2>. QED  BY <2>1, <2>2, <2>3, EndsNowAdvances, SameAdvances DEF CallMoves
<1>2. CASE ByeTimeout(e)
  <2>1. Goes(e, EndsNow([s EXCEPT !.bye = FALSE]), {}, {})
    BY <1>2 DEF ByeTimeout
  <2>2. [s EXCEPT !.bye = FALSE] = [s EXCEPT !.call = s.call, !.bye = FALSE]
    BY Start DEF SessionType
  <2>. QED  BY <2>1, <2>2, EndsNowAdvances
<1>. QED  BY <1>1, <1>2

\* A final response that comes after the end; that 2xx is acknowledged at once.
LEMMA RecvAfterEndAdvances ==
    ASSUME NEW e \in Ends, NEW m \in net, m.to = e, Held(e), RecvAfterEnd(e, m)
    PROVE  Advances(e)
<1>. DEFINE s == ep[e]
            a == Answered(s, m.class)
            u == [s.upd EXCEPT !.final = m.class]
            r == Restored(a)
            x == Msg(e, "ACK", "REQUEST", None, m.cseq)
<1>1. /\ m.class \in {"2XX", "FAIL"} /\ AwaitedBy(s, m) /\ s.st = "TERMINATED"
      /\ IF m.method = "INVITE" THEN Goes(e, r, {m}, IF m.class = "2XX" THEN {x} ELSE {})
         ELSE Goes(e, a, {m}, {})
  BY DEF RecvAfterEnd
<1>2. /\ Rec(s) /\ s.cseq \in Nat /\ s.upd \in RequestType /\ s.oa \in OaType
      /\ Steady(s) /\ Numbers(s) /\ Bare(net) /\ m \in Message /\ m.cseq \in Nat
  BY Start, Ranges
<1>. HIDE DEF s
<1>3. /\ u.role = s.upd.role /\ u.method = s.upd.method /\ u.sdp = s.upd.sdp
      /\ u.cseq = s.upd.cseq /\ u.open = s.upd.open /\ u.final = m.class
  BY <1>2, UpdFields
<1>4. /\ Is(a, s.st, s.call, s.oa, u, s.post, s.bye, s.cseq, s.rseq)
      /\ Is(r, s.st, s.call, RestoreState(s.oa), u, s.post, s.bye, s.cseq, s.rseq)
  BY <1>2 DEF Is, Rec, Answered, Restored
<1>5. Calm(RestoreState(s.oa)) /\ RestoreState(s.oa).cur = s.oa.cur
  BY <1>2, Restores DEF Steady
<1>6. ~CanAck(s) /\ s.upd.final = "REQUEST" /\ Ended(s) /\ ClientOpen(s)
      /\ s.upd.cseq = m.cseq
  BY <1>1, <1>2 DEF Steady, AwaitedBy, Ended
<1>7. AckOf(e, x) /\ x.class = "REQUEST" /\ x.cseq = m.cseq /\ x.sdp = None
  BY Writes DEF AckOf, IsAck
<1>. HIDE DEF a, u, r, x
<1>8. Finishes(e, s, a, net, (net \ {m}) \cup {})
  BY <1>1, <1>2, <1>3, <1>4, <1>6
     DEF Is, Finishes, Ended, SameUpd, Alive, ServerOpen, ClientOpen, CanAck, Puts
<1>9. Finishes(e, s, r, net, (net \ {m}) \cup {})
  BY <1>1, <1>2, <1>3, <1>4, <1>5, <1>6
     DEF Is, Finishes, Ended, SameUpd, Alive, ServerOpen, ClientOpen, CanAck, Puts, Calm
<1>10. ASSUME m.method = "INVITE", m.class = "2XX"
       PROVE  Follows(e, r, (net \ {m}) \cup {x})
  <2>1. ~CanAck(r) /\ Ended(r)
    BY <1>3, <1>4, <1>6 DEF Is, CanAck, ClientOpen, Ended
  <2>2. Steady(r)
    BY <1>4, <1>5, <1>6, <2>1 DEF Is, Steady, Calm
  <2>3. Numbers(r)
    BY <1>2, <1>3, <1>4, <2>1 DEF Is, Numbers, Puts
  <2>4. Bare((net \ {m}) \cup {x})
    BY <1>2, <1>7 DEF Bare, AckOf, IsAck, IsFinal
  <2>5. EndAcksAtOnce(e, s, r, net, (net \ {m}) \cup {x})
    BY <1>2, <1>3, <1>4, <1>5, <1>6, <1>7, <1>10, <2>1
       DEF Is, EndAcksAtOnce, SameUpd, SameQueue, Puts, Fin, IsFinal, Calm, Sends
  <2>. QED  BY <2>2, <2>3, <2>4, <2>5 DEF Follows, EndKind, s
<1>11. a.cseq \in Nat /\ r.cseq \in Nat
  BY <1>2, <1>4 DEF Is
<1>. QED  BY <1>1, <1>8, <1>9, <1>10, <1>11, Finished, GoesAdvances DEF s

-----------------------------------------------------------------------------
(***************************************************************************)
(* The application asks for an update, or for the end.                          *)
(***************************************************************************)

\* Update: an UPDATE or re-INVITE is requested, and its offer made.
LEMMA UpdateAdvances ==
    ASSUME NEW e \in Ends, Held(e), NEW method \in {"INVITE", "UPDATE"}, NEW offer \in BOOLEAN,
           method = "UPDATE" => offer, Update(e, method, offer)
    PROVE  Advances(e)
<1>. DEFINE s == ep[e]
            v == asked + 2
            p == IF offer THEN CreateProposal(s.oa, v) ELSE s.oa
            r == [s EXCEPT !.oa = p]
            sdp == GetSdp(p)
            cseq == s.cseq + 1
            u == RequestOf("client", method, sdp, cseq)
            oa == Completed(Sent(p, method, sdp))
            call == CallSent(s.call, method)
            t == [Called(UpdateMedia(OaSent(r, method, sdp)), method) EXCEPT
                     !.upd = u, !.requestor = TRUE, !.st = "RENEGOTIATING", !.cseq = cseq]
            x == Msg(e, method, "REQUEST", sdp, cseq)
<1>1. /\ Rec(s) /\ s.oa \in OaType /\ s.cseq \in Nat /\ s.rseq \in Nat /\ Steady(s) /\ Numbers(s)
      /\ Bare(net) /\ net \subseteq Message /\ s.oa.cur \in Nat /\ s.upd.cseq \in Nat
      /\ s.post \in Seq(Post)
  BY Start
<1>2. r.oa = p /\ r.cseq = s.cseq /\ r.st = s.st /\ r.call = s.call /\ r.leaving = s.leaving
      /\ Rec(r) /\ r.post = s.post /\ r.bye = s.bye /\ r.rseq = s.rseq
  BY <1>1 DEF Rec
<1>3. r = [ep[e] EXCEPT !.oa = IF offer THEN CreateProposal(@, asked + 2) ELSE @]
  OBVIOUS
<1>. HIDE DEF r
<1>4. /\ s.st = "ESTABLISHED" /\ s.call # "REINVITE_2XX_RECEIVED"
      /\ ep' = [ep EXCEPT ![e] = t] /\ net' = net \cup {x} /\ UNCHANGED lost
  BY <1>2, <1>3 DEF Update
<1>5. Goes(e, t, {}, {x})
  BY <1>4 DEF Goes
<1>6. v \in Nat \ {None}
  BY DEF Held, IInv, TypeOK, None
<1>. HIDE DEF s, v
<1>7. /\ ~Ended(s) /\ ~s.bye /\ s.call = "ESTABLISHED" /\ s.oa.cur # None
      /\ Calm(s.oa) \/ Made(s.oa, None)
  BY <1>1, <1>4 DEF Ended, Steady, Shape, Resting, Idling, CanAck
<1>8. /\ Calm(s.oa) /\ offer => sdp = v /\ Made(oa, v)
      /\ Calm(s.oa) /\ ~offer => sdp = None /\ Calm(oa)
      /\ Made(s.oa, None) => sdp = None /\ Made(oa, None)
      /\ oa.cur = s.oa.cur
  BY <1>1, <1>6, <1>7, Offers
<1>9. /\ u.role = "client" /\ u.method = method /\ u.sdp = sdp /\ u.cseq = cseq
      /\ u.final = "REQUEST" /\ u.open = TRUE
  BY RequestFields
<1>10. IF method = "INVITE" THEN call = "REINVITE_SENT" ELSE call = "ESTABLISHED"
  BY <1>7 DEF CallSent, Ringing, Awaiting
<1>. HIDE DEF p, sdp, u, cseq, oa, call
<1>11. Is(t, "RENEGOTIATING", call, oa, u, s.post, s.bye, cseq, s.rseq)
  BY <1>1, <1>2 DEF Is, Rec, Called, UpdateMedia, OaSent, Completed, call, oa
<1>12. x.to = Peer(e) /\ x.method = method /\ x.class = "REQUEST" /\ x.sdp = sdp /\ x.cseq = cseq
  BY Writes
<1>13. cseq = s.cseq + 1
  BY DEF cseq
<1>. HIDE DEF t, x
<1>14. Steady(t)
  BY <1>7, <1>8, <1>9, <1>10, <1>11
     DEF Is, Steady, Shape, Waits, Serves, Asking, Calm, Made, Awaiting, CanAck, Ended
<1>15. Numbers(t)
  BY <1>1, <1>7, <1>9, <1>11, <1>13 DEF Is, Numbers, Puts, Serves, Ended
<1>16. Bare((net \ {}) \cup {x})
  BY <1>1, <1>12 DEF Bare, IsFinal, IsAck
<1>17. Requests(e, s, t, net, (net \ {}) \cup {x})
  BY <1>4, <1>7, <1>8, <1>9, <1>10, <1>11, <1>12, <1>13, <1>6
     DEF Is, Requests, Waits, Owing, SameQueue, Puts, Req, IsChange, Sends, Calm, Made
<1>18. ~Ended(t)
  BY <1>11 DEF Is, Ended
<1>. QED
  BY <1>5, <1>7, <1>14, <1>15, <1>16, <1>17, <1>18, GoesAdvances DEF Follows, LiveKind, s

\* Terminate, in every state.
LEMMA TerminateExAdvances ==
    ASSUME NEW e \in Ends, Held(e), TerminateEx(e), ~broken'
    PROVE  Advances(e)
<1>1. ~CancelUnanswered(e)
  BY DEF CancelUnanswered
<1>. QED
  BY <1>1, TerminateEstablishedAdvances, TerminateReEstablishingAdvances,
     TerminateReNegotiatingAdvances, CancelRingingAdvances DEF TerminateEx

-----------------------------------------------------------------------------
(***************************************************************************)
(* A request to change the session, from the network or put off, is handled from   *)
(* the session s0.                                                          *)
(***************************************************************************)
Took(e, s, s0, m, gone) ==
    /\ Is(s0, s.st, s.call, s.oa, s.upd, s0.post, s.bye, s.cseq, s0.rseq)
    /\ IsChange(m) /\ m \in Message
    /\ Once(s.post) => Once(s0.post)
    /\ \/ /\ m \in net /\ m.to = e /\ m.cseq > s.rseq /\ s0.rseq = m.cseq /\ gone = {m}
          /\ Puts(s0) = Puts(s)
       \/ /\ m \in Puts(s) /\ s0.rseq = s.rseq /\ gone = {} /\ Puts(s0) \subseteq Puts(s)
          /\ ~Ended(s) => \A p \in Puts(s0) : p.cseq # m.cseq

\* The request is older than what e gets from now on, and put off only once.
LEMMA TookNumbers ==
    ASSUME NEW e \in Ends, Held(e), ~Ended(ep[e]), NEW s0, NEW m, NEW gone,
           Took(e, ep[e], s0, m, gone)
    PROVE  /\ s0.rseq \in Nat /\ s0.rseq >= ep[e].rseq
           /\ m.cseq <= s0.rseq /\ (m.method = "UPDATE" => m.sdp # None)
           /\ Once(s0.post) /\ Puts(s0) \subseteq Puts(ep[e])
           /\ \A p \in Puts(s0) : p.cseq <= s0.rseq /\ p.cseq # m.cseq
           /\ \A p \in Puts(s0) : p.cseq \in Nat
           /\ \A t : t.rseq = s0.rseq /\ t.post = s0.post => Takes(e, ep[e], t, net, m, gone)
<1>. DEFINE s == ep[e]
<1>1. s.rseq \in Nat /\ Numbers(s) /\ m \in Message
  BY Start DEF Took
<1>2. \A n \in net : n.to = e /\ IsChange(n) /\ n.method = "UPDATE" => n.sdp # None
  BY Peers DEF Held, Pair, Common, OneRequest, Req
<1>. HIDE DEF s
<1>3. /\ m.cseq \in Nat /\ IsChange(m) /\ (Once(s.post) => Once(s0.post)) /\ ~Ended(s)
      /\ \/ /\ m \in net /\ m.to = e /\ m.cseq > s.rseq /\ s0.rseq = m.cseq /\ gone = {m}
            /\ Puts(s0) = Puts(s)
         \/ /\ m \in Puts(s) /\ s0.rseq = s.rseq /\ gone = {} /\ Puts(s0) \subseteq Puts(s)
            /\ \A p \in Puts(s0) : p.cseq # m.cseq
  BY <1>1, Ranges DEF Took, s
<1>4. \A p \in Puts(s) : p.cseq \in Nat /\ p.cseq <= s.rseq /\ p.sdp # None
  BY <1>1, <1>3, Ranges DEF Numbers
<1>5. Once(s0.post)
  BY <1>1, <1>3 DEF Numbers
<1>6. \A t : t.rseq = s0.rseq /\ t.post = s0.post => Takes(e, s, t, net, m, gone)
  BY <1>3 DEF Takes, Puts
<1>. QED  BY <1>1, <1>2, <1>3, <1>4, <1>5, <1>6 DEF s

\* A session that has ended refuses a request.
LEMMA RefusedEndAdvances ==
    ASSUME NEW e \in Ends, Held(e), Ended(ep[e]), NEW m, IsChange(m), NEW post, NEW rseq,
           Late(post) \subseteq Puts(ep[e]),
           \/ m \in net /\ m.to = e /\ rseq \in {ep[e].rseq, m.cseq}
           \/ m \in Puts(ep[e]) /\ rseq = ep[e].rseq,
           NEW gone, NEW call,
           call = "REINVITE_2XX_RECEIVED" => ep[e].call = "REINVITE_2XX_RECEIVED", NEW t,
           Is(t, ep[e].st, call, ep[e].oa, ep[e].upd, post, ep[e].bye, ep[e].cseq, rseq),
           Refuse(e, t, m, gone)
    PROVE  Advances(e)
<1>. DEFINE s == ep[e]
            x == Reply(e, m, "FAIL")
<1>1. Goes(e, t, gone, {x}) /\ s.cseq \in Nat
  BY Start DEF Refuse
<1>. HIDE DEF s
<1>2. /\ Ended(t) /\ t.call = call /\ t.oa = s.oa /\ t.upd = s.upd /\ t.cseq = s.cseq
      /\ Puts(t) = Late(post) /\ t.rseq = rseq
      /\ call = "REINVITE_2XX_RECEIVED" => s.call = "REINVITE_2XX_RECEIVED"
  BY DEF Is, Puts, Ended, s
<1>3. /\ Late(post) \subseteq Puts(s) /\ IsChange(m)
      /\ \/ m \in net /\ m.to = e /\ rseq \in {s.rseq, m.cseq}
         \/ m \in Puts(s) /\ rseq = s.rseq
  BY DEF s
<1>4. x.to = Peer(e) /\ x.method = m.method /\ x.class = "FAIL" /\ x.sdp = None
      /\ x.cseq = m.cseq
  BY Writes DEF Reply
<1>. HIDE DEF x
<1>5. Refusal(e, s, net, x)
  BY <1>3, <1>4 DEF Refusal, IsFinal, IsChange
<1>6. Finishes(e, s, t, net, (net \ gone) \cup {x})
  BY <1>1, <1>2, <1>3, <1>5
     DEF Finishes, SameUpd, Alive, ServerOpen, ClientOpen, CanAck, IsChange
<1>. QED  BY <1>1, <1>2, <1>6, Finished, GoesAdvances DEF s

\* A request refused leaves the view of the exchange as it was.
LEMMA DeclinedAdvances ==
    ASSUME NEW e \in Ends, Held(e), ~Ended(ep[e]), NEW s0, NEW m, NEW gone,
           Took(e, ep[e], s0, m, gone), NEW call, CallMoves(ep[e].call, call), NEW oa,
           SameOa(ep[e].oa, oa), NEW t,
           Is(t, ep[e].st, call, oa, ep[e].upd, s0.post, ep[e].bye, ep[e].cseq, s0.rseq),
           Refuse(e, t, m, gone)
    PROVE  Advances(e)
<1>. DEFINE s == ep[e]
            x == Reply(e, m, "FAIL")
            N2 == (net \ gone) \cup {x}
<1>1. /\ Goes(e, t, gone, {x})
      /\ Steady(s) /\ Numbers(s) /\ Bare(net) /\ s.rseq \in Nat /\ s.upd.cseq \in Nat
  BY Start DEF Refuse
<1>2. /\ s0.rseq \in Nat /\ s0.rseq >= s.rseq
      /\ Once(s0.post) /\ Puts(s0) \subseteq Puts(s)
      /\ \A p \in Puts(s0) : p.cseq <= s0.rseq
      /\ \A r : r.rseq = s0.rseq /\ r.post = s0.post => Takes(e, s, r, net, m, gone)
  BY TookNumbers
<1>3. ~Ended(s) /\ IsChange(m) /\ m \in Message
  BY DEF Took
<1>. HIDE DEF s
<1>4. /\ Is(t, s.st, call, oa, s.upd, s0.post, s.bye, s.cseq, s0.rseq)
      /\ CallMoves(s.call, call) /\ SameOa(s.oa, oa)
  BY DEF s
<1>5. Owing(t) = Owing(s)
  BY <1>4 DEF Is, Owing, CallMoves, Awaiting, Ringing
<1>6. SameView(s, t)
  BY <1>4, <1>5 DEF Is, SameView, SameUpd, CanAck, ClientOpen, Owing
<1>7. Steady(t)
  BY <1>1, <1>4, <1>6, ViewKept DEF Is
<1>8. Numbers(t) /\ ~Ended(t)
  BY <1>1, <1>2, <1>3, <1>4 DEF Is, Numbers, Puts, Serves, Ended
<1>9. x.to = Peer(e) /\ x.method = m.method /\ x.class = "FAIL" /\ x.sdp = None
      /\ x.cseq = m.cseq
  BY Writes DEF Reply
<1>. HIDE DEF x
<1>10. Bare(N2)
  BY <1>1, <1>3, <1>9 DEF Bare, IsFinal, IsAck, IsChange
<1>11. Takes(e, s, t, net, m, gone)
  BY <1>2, <1>4 DEF Is
<1>12. TurnsDown(e, s, t, net, N2)
  BY <1>3, <1>6, <1>9, <1>11 DEF TurnsDown, Sends
<1>. QED  BY <1>1, <1>3, <1>7, <1>8, <1>10, <1>12, GoesAdvances DEF Follows, LiveKind, s

\* A request taken up makes e the server of an exchange.
LEMMA BeginsAdvances ==
    ASSUME NEW e \in Ends, Held(e), ~Ended(ep[e]), NEW s0, NEW m, NEW gone,
           Took(e, ep[e], s0, m, gone), Calm(ep[e].oa),
           ep[e].st = "ESTABLISHED" \/ (ep[e].st = "REESTABLISHING" /\ m.method = "INVITE"),
           NEW s1, NEW call,
           call = IF m.method = "INVITE" THEN CallReceived(ep[e].call, "INVITE") ELSE ep[e].call,
           Is(s1, ep[e].st, call, ep[e].oa, ep[e].upd, s0.post, ep[e].bye, ep[e].cseq, s0.rseq),
           Goes(e, Renegotiates(OaReceived(s1, m.method, m.method, m.sdp), m), gone, {})
    PROVE  Advances(e)
<1>. DEFINE s == ep[e]
            t == Renegotiates(OaReceived(s1, m.method, m.method, m.sdp), m)
            oa == Completed(Heard(s.oa, m.method, m.method, m.sdp))
            u == RequestOf("server", m.method, m.sdp, m.cseq)
            N2 == (net \ gone) \cup {}
<1>1. /\ Steady(s) /\ Numbers(s) /\ Bare(net) /\ s.rseq \in Nat /\ s.oa \in OaType
  BY Start
<1>2. /\ s0.rseq \in Nat /\ m.cseq <= s0.rseq /\ (m.method = "UPDATE" => m.sdp # None)
      /\ Once(s0.post) /\ Puts(s0) \subseteq Puts(s)
      /\ \A p \in Puts(s0) : p.cseq <= s0.rseq /\ p.cseq # m.cseq
      /\ \A r : r.rseq = s0.rseq /\ r.post = s0.post => Takes(e, s, r, net, m, gone)
  BY TookNumbers
<1>3. /\ ~Ended(s) /\ IsChange(m) /\ m.sdp \in Nat /\ m.cseq \in Nat
      /\ m.method \in {"INVITE", "UPDATE"}
  BY Ranges DEF Took, IsChange
<1>. HIDE DEF s
<1>4. /\ Is(s1, s.st, call, s.oa, s.upd, s0.post, s.bye, s.cseq, s0.rseq)
      /\ call = IF m.method = "INVITE" THEN CallReceived(s.call, "INVITE") ELSE s.call
      /\ s.st = "ESTABLISHED" \/ (s.st = "REESTABLISHING" /\ m.method = "INVITE")
      /\ Calm(s.oa)
  BY DEF s
<1>5. /\ IF m.sdp # None THEN TakenUp(oa, m.sdp) ELSE Calm(oa)
      /\ oa.cur = s.oa.cur
  BY <1>1, <1>3, <1>4, HearsOffer
<1>6. /\ u.role = "server" /\ u.method = m.method /\ u.sdp = m.sdp /\ u.cseq = m.cseq
      /\ u.final = "REQUEST" /\ u.open = TRUE
  BY RequestFields
<1>7. /\ s.call \in Idling \cup {"REINVITE_2XX_SENT"} /\ s.oa.cur # None /\ ~s.bye
      /\ s.st = "ESTABLISHED" => s.call \in Idling
  BY <1>1, <1>3, <1>4 DEF Steady, Shape, Resting, Confirming
<1>8. /\ call \in Idling \cup (IF m.method = "INVITE" THEN Ringing \cup {"REINVITE_2XX_SENT"}
                               ELSE {})
      /\ call = "REINVITE_2XX_RECEIVED" => s.call = "REINVITE_2XX_RECEIVED"
  BY <1>3, <1>4, <1>7 DEF CallReceived, Idling, Ringing, Awaiting
<1>. HIDE DEF u
<1>9. Is(t, "RENEGOTIATING", call, oa, u, s0.post, s.bye, s.cseq, s0.rseq)
  BY <1>4 DEF Is, Rec, Renegotiates, Moved, UpdateMedia, OaReceived, Completed, Heard, u
<1>. HIDE DEF t, oa
<1>10. Steady(t)
  BY <1>2, <1>3, <1>5, <1>6, <1>7, <1>8, <1>9
     DEF Is, Steady, Shape, Waits, Serves, Serving, Calm, TakenUp, CanAck, ClientOpen, Ended
<1>11. Numbers(t) /\ ~Ended(t)
  BY <1>1, <1>2, <1>3, <1>6, <1>9 DEF Is, Numbers, Puts, Serves, Ended
<1>12. Bare(N2)
  BY <1>1 DEF Bare
<1>13. Takes(e, s, t, net, m, gone)
  BY <1>2, <1>9 DEF Is
<1>14. Begins(e, s, t, net, N2)
  BY <1>3, <1>4, <1>5, <1>6, <1>8, <1>9, <1>13 DEF Is, Begins, Serves, Owing, Sends
<1>. QED
  BY <1>3, <1>10, <1>11, <1>12, <1>14, GoesAdvances DEF Follows, LiveKind, s, t

\* What turns an offer down leaves the exchange as it was.
LEMMA Declines ==
    ASSUME NEW oa \in OaType, Calm(oa)
    PROVE  SameOa(oa, RestoreState(Sent(oa, "FAILURE", None)))
BY DEF Calm, SameOa, RestoreState, Sent, OnSent, Counts, OfferSent, OaType, None, Offering

\* A re-INVITE begins an exchange, or is refused.
LEMMA HandleInviteAdvances ==
    ASSUME NEW e \in Ends, Held(e), NEW s0, NEW m, NEW gone, Took(e, ep[e], s0, m, gone),
           m.method = "INVITE", HandleInvite(e, s0, m, gone), ~broken'
    PROVE  Advances(e)
<1>. DEFINE s == ep[e]
            call == CallReceived(s.call, "INVITE")
            back == CallSent(call, "FAIL")
            s1 == [s0 EXCEPT !.call = call]
            failed == Called(s1, "FAIL")
            t == Renegotiates(OaReceived(s1, "INVITE", "INVITE", m.sdp), m)
            r == Restored(OaSent(failed, "FAILURE", None))
<1>1. /\ Steady(s) /\ s.call \in CallStates /\ s.oa \in OaType /\ s.st \in SessionStates
      /\ Is(s0, s.st, s.call, s.oa, s.upd, s0.post, s.bye, s.cseq, s0.rseq)
  BY Start DEF Took
<1>2. \/ Ended(s) /\ Refuse(e, s1, m, gone)
      \/ ~Ended(s) /\ Refuse(e, failed, m, gone)
      \/ /\ ~Ended(s) /\ s.st # "RENEGOTIATING" /\ Stable(s.oa.st)
         /\ Goes(e, t, gone, {}) \/ Refuse(e, r, m, gone)
  <2>1. s0.call = s.call /\ s1.st = s.st /\ s1.oa = s.oa
    BY <1>1 DEF Is, Rec
  <2>2. s1 = [s0 EXCEPT !.call = CallReceived(@, "INVITE")]
    BY <2>1
  <2>. HIDE DEF s1, call, s
  <2>. QED  BY <2>1, <2>2 DEF HandleInvite, InviteOutOfTurn, Ended, Breaks
<1>. HIDE DEF s
<1>3. /\ Is(s1, s.st, call, s.oa, s.upd, s0.post, s.bye, s.cseq, s0.rseq)
      /\ Is(failed, s.st, back, s.oa, s.upd, s0.post, s.bye, s.cseq, s0.rseq)
      /\ Is(r, s.st, back, RestoreState(Sent(s.oa, "FAILURE", None)), s.upd, s0.post, s.bye,
            s.cseq, s0.rseq)
  BY <1>1 DEF Is, Rec, Called, Restored, OaSent
<1>4. call = "REINVITE_2XX_RECEIVED" => s.call = "REINVITE_2XX_RECEIVED"
  BY <1>1, CallWaits
<1>5. ~Ended(s) => s.call # "BYE_RECEIVED"
  BY <1>1 DEF Steady, Shape, Asking, Serving, Confirming, Resting, Idling, Awaiting, Ringing,
             Ended, SessionStates
<1>6. ~Ended(s) => CallMoves(s.call, back)
  BY <1>1, <1>5 DEF CallMoves, CallReceived, CallSent, Ringing, Awaiting, CallStates
<1>7. ASSUME ~Ended(s), s.st # "RENEGOTIATING", Stable(s.oa.st)
      PROVE  Calm(s.oa) /\ (s.st = "ESTABLISHED" \/ s.st = "REESTABLISHING")
  BY <1>1, <1>7
     DEF Steady, Shape, Confirming, Resting, Ended, SessionStates, Stable, Made, TakenUp
<1>8. SameOa(s.oa, s.oa)
  BY DEF SameOa
<1>9. Calm(s.oa) => SameOa(s.oa, RestoreState(Sent(s.oa, "FAILURE", None)))
  BY <1>1, Declines
<1>. HIDE DEF s1, failed, r, call, back
<1>10. CASE Ended(s) /\ Refuse(e, s1, m, gone)
  <2>1. /\ IsChange(m) /\ Late(s0.post) \subseteq Puts(s)
        /\ \/ m \in net /\ m.to = e /\ s0.rseq = m.cseq
           \/ m \in Puts(s) /\ s0.rseq = s.rseq
    BY DEF Took, Puts, s
  <2>. QED  BY <1>3, <1>4, <1>10, <2>1, RefusedEndAdvances DEF s
<1>11. CASE ~Ended(s) /\ Refuse(e, failed, m, gone)
  BY <1>3, <1>6, <1>8, <1>11, DeclinedAdvances DEF s
<1>12. CASE /\ ~Ended(s) /\ s.st # "RENEGOTIATING" /\ Stable(s.oa.st)
            /\ Goes(e, t, gone, {})
  BY <1>3, <1>7, <1>12, BeginsAdvances DEF s, call, t
<1>13. CASE /\ ~Ended(s) /\ s.st # "RENEGOTIATING" /\ Stable(s.oa.st)
            /\ Refuse(e, r, m, gone)
  BY <1>3, <1>6, <1>7, <1>9, <1>13, DeclinedAdvances DEF s
<1>. QED  BY <1>2, <1>10, <1>11, <1>12, <1>13

\* An UPDATE begins an exchange, or is refused.
LEMMA HandleUpdateAdvances ==
    ASSUME NEW e \in Ends, Held(e), NEW s0, NEW m, NEW gone, Took(e, ep[e], s0, m, gone),
           m.method = "UPDATE", HandleUpdate(e, s0, m, gone), ~broken'
    PROVE  Advances(e)
<1>. DEFINE s == ep[e]
            t == Renegotiates(OaReceived(s0, "UPDATE", "UPDATE", m.sdp), m)
            r == Restored(OaSent(s0, "FAILURE", None))
<1>1. /\ Steady(s) /\ s.call \in CallStates /\ s.oa \in OaType /\ s.st \in SessionStates
      /\ s.upd.method \in {"INVITE", "UPDATE"}
      /\ Is(s0, s.st, s.call, s.oa, s.upd, s0.post, s.bye, s.cseq, s0.rseq)
  BY Start DEF Took
<1>2. ~Ended(s) => m.sdp # None
  BY TookNumbers
<1>3. \/ Ended(s) /\ Refuse(e, s0, m, gone)
      \/ ~Ended(s) /\ Refuse(e, s0, m, gone)
      \/ /\ ~Ended(s) /\ ~UpdateOutOfTurn(s0, m) /\ ~InviteUnanswered(s0)
         /\ Goes(e, t, gone, {}) \/ Refuse(e, r, m, gone)
  <2>1. Ended(s0) = Ended(s)
    BY <1>1 DEF Is, Ended
  <2>. HIDE DEF t, r, s
  <2>. QED  BY <1>2, <2>1 DEF HandleUpdate, Implicit, Breaks, t, r
<1>. HIDE DEF s
<1>4. Is(r, s.st, s.call, RestoreState(Sent(s.oa, "FAILURE", None)), s.upd, s0.post, s.bye,
         s.cseq, s0.rseq)
  BY <1>1 DEF Is, Rec, Restored, OaSent
<1>5. ASSUME ~Ended(s), ~UpdateOutOfTurn(s0, m), ~InviteUnanswered(s0)
      PROVE  Calm(s.oa) /\ s.st = "ESTABLISHED"
  <2>1. /\ Stable(s.oa.st) /\ s.st # "REESTABLISHING"
        /\ ~(s.st = "RENEGOTIATING" /\ s.upd.method = "UPDATE" /\ s.upd.role = "server")
        /\ ~(s.upd.role # "none" /\ s.upd.method = "INVITE" /\ s.upd.final = "REQUEST")
    BY <1>1, <1>2, <1>5 DEF Is, UpdateOutOfTurn, InviteUnanswered
  <2>2. s.st # "RENEGOTIATING"
    BY <1>1, <1>5, <2>1 DEF Steady, Shape, Waits, Serves, Asking, Serving, Stable, Made
  <2>. QED
    BY <1>1, <1>5, <2>1, <2>2
       DEF Steady, Shape, Resting, Ended, SessionStates, Stable, Made, TakenUp
<1>6. SameOa(s.oa, s.oa) /\ CallMoves(s.call, s.call)
  BY DEF SameOa, CallMoves
<1>7. Calm(s.oa) => SameOa(s.oa, RestoreState(Sent(s.oa, "FAILURE", None)))
  BY <1>1, Declines
<1>. HIDE DEF r
<1>8. CASE Ended(s) /\ Refuse(e, s0, m, gone)
  <2>1. /\ IsChange(m) /\ Late(s0.post) \subseteq Puts(s)
        /\ \/ m \in net /\ m.to = e /\ s0.rseq = m.cseq
           \/ m \in Puts(s) /\ s0.rseq = s.rseq
    BY DEF Took, Puts, s
  <2>. QED  BY <1>1, <1>8, <2>1, RefusedEndAdvances DEF s
<1>9. CASE ~Ended(s) /\ Refuse(e, s0, m, gone)
  BY <1>1, <1>6, <1>9, DeclinedAdvances DEF s
<1>10. CASE /\ ~Ended(s) /\ ~UpdateOutOfTurn(s0, m) /\ ~InviteUnanswered(s0)
            /\ Goes(e, t, gone, {})
  BY <1>1, <1>5, <1>10, BeginsAdvances DEF s, t
<1>11. CASE /\ ~Ended(s) /\ ~UpdateOutOfTurn(s0, m) /\ ~InviteUnanswered(s0)
            /\ Refuse(e, r, m, gone)
  BY <1>4, <1>5, <1>6, <1>7, <1>11, DeclinedAdvances DEF s
<1>. QED  BY <1>3, <1>8, <1>9, <1>10, <1>11

\* A request is put to its handler.
LEMMA HandleChangeAdvances ==
    ASSUME NEW e \in Ends, Held(e), NEW s0, NEW m, NEW gone, Took(e, ep[e], s0, m, gone),
           HandleChange(e, s0, m, gone), ~broken'
    PROVE  Advances(e)
BY HandleInviteAdvances, HandleUpdateAdvances DEF HandleChange, Took, IsChange

\* A request received is handled, put off, or refused as out of date.
LEMMA RecvChangeAdvances ==
    ASSUME NEW e \in Ends, NEW m \in net, m.to = e, Held(e), RecvChange(e, m), ~broken'
    PROVE  Advances(e)
<1>. DEFINE s == ep[e]
            a == Arrives(s, m)
            x == [what |-> "DELAYED", msg |-> m]
            t == [a EXCEPT !.post = Append(@, x)]
            q == Append(s.post, x)
<1>1. /\ IsChange(m)
      /\ \/ ~Newer(s, m) /\ Refuse(e, s, m, {m})
         \/ Newer(s, m) /\ m.sdp # None /\ Goes(e, t, {m}, {})
         \/ Newer(s, m) /\ HandleChange(e, a, m, {m})
  BY DEF RecvChange, IsChange
<1>2. /\ Rec(s) /\ Steady(s) /\ Numbers(s) /\ Bare(net) /\ m \in Message /\ m.cseq \in Nat
      /\ s.rseq \in Nat /\ s.cseq \in Nat /\ s.upd.cseq \in Nat /\ s.post \in Seq(Post)
  BY Start, Ranges
<1>3. ~Ended(s) => m.cseq > s.rseq
  BY <1>1, Peers DEF Held, Pair, Common, OneRequest, Req
<1>. HIDE DEF s
<1>4. /\ Is(s, s.st, s.call, s.oa, s.upd, s.post, s.bye, s.cseq, s.rseq)
      /\ Is(a, s.st, s.call, s.oa, s.upd, s.post, s.bye, s.cseq, m.cseq)
      /\ Is(t, s.st, s.call, s.oa, s.upd, q, s.bye, s.cseq, m.cseq)
  BY <1>2 DEF Is, Rec, Arrives
<1>. HIDE DEF a, t
<1>5. CASE ~Newer(s, m) /\ Refuse(e, s, m, {m})
  <2>1. Ended(s)
    BY <1>2, <1>3, <1>5 DEF Newer
  <2>2. Late(s.post) \subseteq Puts(s)
    BY DEF Puts
  <2>. QED  BY <1>1, <1>4, <1>5, <2>1, <2>2, RefusedEndAdvances DEF s
<1>6. CASE Newer(s, m) /\ m.sdp # None /\ Goes(e, t, {m}, {})
  <2>1. /\ Late(q) = Puts(s) \cup {m}
        /\ Once(s.post) /\ (\A p \in Puts(s) : p.cseq # m.cseq) => Once(q)
    BY <1>2, AppendLate DEF Post, Puts
  <2>. HIDE DEF q
  <2>2. Puts(t) = Puts(s) \cup {m}
    BY <1>4, <2>1 DEF Is, Puts
  <2>3. m.cseq > s.rseq
    BY <1>6 DEF Newer
  <2>4. CASE ~Ended(s)
    <3>1. SameView(s, t)
      BY <1>4 DEF Is, SameView, SameOa, SameUpd, CanAck, ClientOpen, Owing
    <3>2. Steady(t)
      BY <1>2, <1>4, <3>1, ViewKept DEF Is, CallMoves
    <3>3. \A p \in Puts(s) : p.cseq \in Nat /\ p.cseq <= s.rseq
      BY <1>2, <2>4, Ranges DEF Numbers
    <3>4. Once(t.post)
      BY <1>2, <1>4, <2>1, <2>3, <2>4, <3>3 DEF Is, Numbers
    <3>5. Numbers(t) /\ ~Ended(t)
      BY <1>1, <1>2, <1>4, <1>6, <2>2, <2>3, <2>4, <3>3, <3>4 DEF Is, Numbers, Serves, Ended
    <3>6. Bare((net \ {m}) \cup {})
      BY <1>2 DEF Bare
    <3>7. PutsOff(e, s, t, net, (net \ {m}) \cup {})
      BY <1>1, <1>4, <2>2, <2>3, <3>1 DEF Is, PutsOff, Sends
    <3>. QED
      BY <1>6, <2>4, <3>2, <3>5, <3>6, <3>7, GoesAdvances DEF Follows, LiveKind, s
  <2>5. CASE Ended(s)
    <3>1. Finishes(e, s, t, net, (net \ {m}) \cup {})
      BY <1>1, <1>2, <1>4, <1>6, <2>2, <2>5
         DEF Is, Finishes, SameUpd, Alive, ServerOpen, ClientOpen, CanAck, IsChange, Ended
    <3>2. t.cseq \in Nat
      BY <1>2, <1>4 DEF Is
    <3>. QED  BY <1>6, <3>1, <3>2, Finished, GoesAdvances DEF s
  <2>. QED  BY <2>4, <2>5
<1>7. CASE Newer(s, m) /\ HandleChange(e, a, m, {m})
  <2>1. Took(e, s, a, m, {m})
    BY <1>1, <1>2, <1>4, <1>7 DEF Is, Took, Newer, Puts
  <2>. QED  BY <1>7, <2>1, HandleChangeAdvances DEF s
<1>. QED  BY <1>1, <1>5, <1>6, <1>7

\* A request put off is handled when its turn comes.
LEMMA DispatchDelayedAdvances ==
    ASSUME NEW e \in Ends, Held(e), DispatchDelayed(e), ~broken'
    PROVE  Advances(e)
<1>. DEFINE s == ep[e]
            a == [Taken(s) EXCEPT !.ackSdp = FALSE]
            m == Head(s.post).msg
<1>1. s.post # << >> /\ Head(s.post).what = "DELAYED" /\ HandleChange(e, a, m, {})
  BY DEF DispatchDelayed, Posts
<1>2. Rec(s) /\ Numbers(s) /\ s.post \in Seq(Post)
  BY Start
<1>. HIDE DEF s
<1>3. Is(a, s.st, s.call, s.oa, s.upd, Tail(s.post), s.bye, s.cseq, s.rseq)
  BY <1>2 DEF Is, Rec, Taken
<1>4. /\ Once(s.post) => Once(Tail(s.post)) /\ \A p \in Late(Tail(s.post)) : p.cseq # m.cseq
      /\ m \in Puts(s) /\ Late(Tail(s.post)) \subseteq Puts(s)
  BY <1>1, <1>2, TailLate DEF Puts
<1>. HIDE DEF a, m
<1>5. m \in Message /\ IsChange(m) /\ (~Ended(s) => Once(s.post))
  BY <1>2, <1>4 DEF Numbers
<1>6. Took(e, s, a, m, {})
  BY <1>3, <1>4, <1>5 DEF Is, Took, Puts
<1>. QED  BY <1>1, <1>6, HandleChangeAdvances DEF s

\* A CANCEL withdraws the re-INVITE served, or changes nothing.
LEMMA RecvCancelAdvances ==
    ASSUME NEW e \in Ends, NEW m \in net, m.to = e, Held(e), RecvCancel(e, m)
    PROVE  Advances(e)
<1>. DEFINE s == ep[e]
            mine == /\ s.st = "RENEGOTIATING" /\ ServerOpen(s) /\ ServerInvite(s)
                    /\ s.upd.cseq = m.cseq
            t == Moved(Restored(Called(Answered([s EXCEPT !.pend = FALSE], "FAIL"), "FAIL")),
                       "ESTABLISHED")
            u == [s.upd EXCEPT !.final = "FAIL"]
            y == Reply(e, m, "2XX")
            z == Reply(e, m, "FAIL")
            x == AnswerOf(e, s, "FAIL", None)
<1>1. /\ m.method = "CANCEL" /\ m.class = "REQUEST"
      /\ \/ mine /\ s.call \in Ringing /\ Goes(e, t, {m}, {y, x})
         \/ Goes(e, s, {m}, {y})
         \/ Goes(e, s, {m}, {z})
  BY DEF RecvCancel, Refuse
<1>2. /\ Rec(s) /\ Steady(s) /\ Numbers(s) /\ Bare(net) /\ m \in Message
      /\ s.upd \in RequestType /\ s.oa \in OaType
  BY Start
<1>. HIDE DEF s
<1>3. /\ y.to = Peer(e) /\ y.method = "CANCEL" /\ y.class = "2XX" /\ y.cseq = m.cseq
      /\ z.to = Peer(e) /\ z.method = "CANCEL" /\ z.class = "FAIL" /\ z.cseq = m.cseq
      /\ z.sdp = None
  BY <1>1, Writes DEF Reply
<1>4. x.to = Peer(e) /\ x.method = s.upd.method /\ x.class = "FAIL" /\ x.sdp = None
      /\ x.cseq = s.upd.cseq
  BY Writes DEF AnswerOf
<1>5. \A r : Noise(e, s, r, net, y) /\ Noise(e, s, r, net, z)
  BY <1>1, <1>3 DEF Noise, IsChange, IsFinal, IsAck
<1>6. Is(s, s.st, s.call, s.oa, s.upd, s.post, s.bye, s.cseq, s.rseq)
  BY <1>2 DEF Is
<1>. HIDE DEF x, y, z
<1>7. CASE mine /\ s.call \in Ringing /\ Goes(e, t, {m}, {y, x})
  <2>1. Is(t, "ESTABLISHED", CallSent(s.call, "FAIL"), RestoreState(s.oa), u, s.post, s.bye,
           s.cseq, s.rseq)
    BY <1>2 DEF Is, Rec, Moved, Restored, Called, Answered
  <2>2. CallSent(s.call, "FAIL") = "ESTABLISHED"
    BY <1>7 DEF CallSent, Ringing, Awaiting
  <2>3. Calm(RestoreState(s.oa)) /\ RestoreState(s.oa).cur = s.oa.cur
    BY <1>2, Restores DEF Steady
  <2>4. /\ u.role = s.upd.role /\ u.method = s.upd.method /\ u.sdp = s.upd.sdp
        /\ u.cseq = s.upd.cseq /\ u.open = s.upd.open /\ u.final = "FAIL"
    BY <1>2, UpdFields
  <2>. HIDE DEF t, u
  <2>5. ~Ended(s) /\ Serves(s) /\ s.upd.method = "INVITE" /\ ~s.bye /\ s.oa.cur # None
    BY <1>2, <1>7 DEF Ended, Serves, ServerOpen, ServerInvite, Steady, Shape
  <2>6. Steady(t) /\ ~Ended(t)
    BY <2>1, <2>2, <2>3, <2>4, <2>5
       DEF Is, Steady, Shape, Resting, Alive, ServerOpen, ClientOpen, CanAck, Serves, Idling,
           Calm, Ended
  <2>7. Numbers(t)
    BY <1>2, <2>1, <2>4, <2>5 DEF Is, Numbers, Puts, Serves, Ended
  <2>8. Bare((net \ {m}) \cup {y, x})
    BY <1>2, <1>3, <1>4, <2>5 DEF Bare, IsFinal, IsAck
  <2>9. Withdraws(e, s, t, net, (net \ {m}) \cup {y, x})
    BY <1>4, <1>5, <2>1, <2>2, <2>3, <2>4, <2>5
       DEF Is, Withdraws, SameUpd, SameQueue, Puts, Owing, Sends
  <2>. QED  BY <1>7, <2>5, <2>6, <2>7, <2>8, <2>9, GoesAdvances DEF Follows, LiveKind, s
<1>8. CASE Goes(e, s, {m}, {y}) \/ Goes(e, s, {m}, {z})
  <2>1. Follows(e, s, (net \ {m}) \cup {y}) /\ Follows(e, s, (net \ {m}) \cup {z})
    BY <1>5, <1>6, Stays DEF s, CallMoves
  <2>. QED  BY <1>8, <2>1, GoesAdvances DEF s
<1>. QED  BY <1>1, <1>7, <1>8

\* An ACK received confirms the 2xx, and ends what waited for it.
LEMMA RecvAckAdvances ==
    ASSUME NEW e \in Ends, NEW m \in net, m.to = e, Held(e), RecvAck(e, m)
    PROVE  Advances(e)
<1>. DEFINE s == ep[e]
            call == CallReceived(s.call, "ACK")
            s0 == [s EXCEPT !.call = call]
            h == Heard(s.oa, "ACK", "ACK", m.sdp)
            w == Completed(h)
            a == OaReceived(s0, "ACK", "ACK", m.sdp)
            t == ByeSent([a EXCEPT !.pend = FALSE])
            out == Bye(e, a)
            k == Acknowledged(a, m)
            end == [what |-> "TERMINATED", msg |-> NoMessage]
            upd == [what |-> "UPDATED", msg |-> NoMessage]
            closed == [s.upd EXCEPT !.open = FALSE]
<1>1. /\ Rec(s) /\ Steady(s) /\ Numbers(s) /\ Bare(net) /\ m \in Message
      /\ s.upd \in RequestType /\ s.oa \in OaType /\ s.call \in CallStates
      /\ s.post \in Seq(Post) /\ s.cseq \in Nat /\ m.sdp \in Nat /\ s.st \in SessionStates
  BY Start, Ranges
<1>2. IsAck(m) /\ (~Ended(s) => Done(s, m.cseq))
  BY Peers DEF RecvAck, IsAck, Held, Pair, Common, Dealt, AckOf, Done
<1>3. /\ Is(s, s.st, s.call, s.oa, s.upd, s.post, s.bye, s.cseq, s.rseq)
      /\ Is(s0, s.st, call, s.oa, s.upd, s.post, s.bye, s.cseq, s.rseq)
      /\ Is(a, s.st, call, h, s.upd, s.post, s.bye, s.cseq, s.rseq)
  BY <1>1 DEF Is, Rec, OaReceived, Heard
<1>4. \/ Goes(e, s, {m}, {}) \/ Goes(e, s0, {m}, {})
      \/ /\ Alive(s) /\ ~(s.st \in {"RENEGOTIATING", "REESTABLISHING"} /\ m.cseq # s.upd.cseq)
         /\ Goes(e, t, {m}, out) \/ Goes(e, k, {m}, {})
  BY <1>3 DEF Is, RecvAck, Alive, ServerOpen
<1>. HIDE DEF s
<1>5. CASE Goes(e, s, {m}, {}) \/ Goes(e, s0, {m}, {})
  <2>1. CallMoves(s.call, s.call) /\ CallMoves(s.call, call)
    BY <1>1 DEF CallMoves, CallReceived, Awaiting, CallStates
  <2>. HIDE DEF s0, call
  <2>. QED  BY <1>3, <1>5, <2>1, SameAdvances DEF s
<1>6. ASSUME Alive(s), ~(s.st \in {"RENEGOTIATING", "REESTABLISHING"} /\ m.cseq # s.upd.cseq)
      PROVE  ~Ended(s) => s.st = "REESTABLISHING" /\ Confirms(s, m.cseq) /\ Confirming(s)
  BY <1>1, <1>2, <1>6
     DEF Steady, Shape, Resting, Waits, Serves, Done, Confirms, Ended, SessionStates, Alive,
         ServerOpen
<1>7. CASE /\ Alive(s) /\ ~(s.st \in {"RENEGOTIATING", "REESTABLISHING"} /\ m.cseq # s.upd.cseq)
           /\ Goes(e, t, {m}, out) \/ Goes(e, k, {m}, {})
  <2>1. /\ s.oa.st \in {"ESTABLISHED", "OFFER_CHANGE_SENT", "OFFER_CHANGE_RECEIVED"}
        /\ s.oa.st = "OFFER_CHANGE_RECEIVED" => s.oa.mode = "ANSWERER"
    BY <1>1 DEF Steady
  <2>2. /\ h.cur = s.oa.cur /\ (Calm(s.oa) => Calm(h))
        /\ IF s.oa.st = "OFFER_CHANGE_SENT" /\ m.sdp # None
           THEN /\ h.st = "ESTABLISHED" /\ w.st = "ESTABLISHED" /\ w.cur = m.sdp
                /\ Made(s.oa, None) => Calm(w)
           ELSE /\ w = h /\ h.st = s.oa.st
                /\ h.prop = s.oa.prop /\ h.mode = s.oa.mode /\ h.progress = s.oa.progress
    BY <1>1, <2>1, HearsAck
  <2>3. call = "REINVITE_2XX_RECEIVED" => s.call = "REINVITE_2XX_RECEIVED"
    BY <1>1, CallWaits
  <2>4. /\ \A n \in out : Noise(e, s, t, net, n)
        /\ Is(t, "TERMINATING", CallSent(call, "BYE"), h, s.upd, s.post, TRUE, s.cseq + 1, s.rseq)
    <3>. HIDE DEF a, h, call
    <3>1. Is(t, "TERMINATING", CallSent(call, "BYE"), h, s.upd, s.post, TRUE, s.cseq + 1, s.rseq)
      BY <1>3 DEF Is, Rec, ByeSent, Called
    <3>. QED  BY <1>1, <1>3, <3>1, ByeNoise DEF Is
  <2>5. /\ s.st = "REESTABLISHING" =>
               Is(k, "ESTABLISHED", call, w, closed, Append(s.post, upd), s.bye, s.cseq, s.rseq)
        /\ s.st = "TERMINATING" =>
               Is(k, "TERMINATED", call, w, s.upd, Append(s.post, end), s.bye, s.cseq, s.rseq)
        /\ s.st = "TERMINATED" =>
               Is(k, s.st, call, w, s.upd, s.post, s.bye, s.cseq, s.rseq)
    <3>. DEFINE d == UpdateMedia(a)
    <3>1. Is(d, s.st, call, w, s.upd, s.post, s.bye, s.cseq, s.rseq)
      BY <1>3 DEF Is, Rec, UpdateMedia, Completed
    <3>2. a.st = s.st
      BY <1>3 DEF Is
    <3>. HIDE DEF d, a, h, w, call, end, upd, closed
    <3>3. s.st = "REESTABLISHING" =>
               Is(k, "ESTABLISHED", call, w, closed, Append(s.post, upd), s.bye, s.cseq, s.rseq)
      BY <3>1, <3>2 DEF Is, Rec, Acknowledged, Posted, Moved, Closed, d, upd, closed
    <3>4. s.st = "TERMINATING" =>
               Is(k, "TERMINATED", call, w, s.upd, Append(s.post, end), s.bye, s.cseq, s.rseq)
      BY <3>1, <3>2 DEF Is, Rec, Acknowledged, Posted, Moved, d, end
    <3>5. s.st = "TERMINATED" =>
               Is(k, s.st, call, w, s.upd, s.post, s.bye, s.cseq, s.rseq)
      BY <3>1, <3>2 DEF Acknowledged, d
    <3>. QED  BY <3>3, <3>4, <3>5
  <2>6. /\ Late(Append(s.post, upd)) = Late(s.post) /\ (Once(s.post) => Once(Append(s.post, upd)))
        /\ Late(Append(s.post, end)) = Late(s.post)
    BY <1>1, AppendLate DEF Post
  <2>7. CallSent(call, "BYE") = "REINVITE_2XX_RECEIVED" => s.call = "REINVITE_2XX_RECEIVED"
    BY <1>1, <2>3, CallTypes, ByeCall
  <2>. HIDE DEF t, k, out, a, h, w, call, end, upd
  <2>8. ASSUME NEW r, Ended(r), r.oa \in {h, w}, r.upd = s.upd, Puts(r) = Puts(s),
               r.rseq = s.rseq, r.cseq >= s.cseq, r.cseq \in Nat, NEW noise,
               \A n \in noise : Noise(e, s, r, net, n)
        PROVE  Follows(e, r, (net \ {m}) \cup noise)
    <3>1. ~CanAck(r) /\ SameUpd(s, r) /\ SameQueue(s, r)
      BY <1>7, <2>8 DEF Alive, ServerOpen, CanAck, ClientOpen, SameUpd, SameQueue
    <3>2. Steady(r)
      BY <2>1, <2>2, <2>8, <3>1 DEF Steady
    <3>3. Numbers(r)
      BY <1>1, <1>7, <2>8 DEF Numbers, Alive, ServerOpen
    <3>4. Bare((net \ {m}) \cup noise)
      BY <1>1, <2>8 DEF Bare, Noise, IsFinal, IsAck
    <3>5. EndIsAcknowledged(e, s, r, net, (net \ {m}) \cup noise)
      BY <1>2, <1>6, <1>7, <2>2, <2>8, <3>1 DEF EndIsAcknowledged, Sends
    <3>. QED  BY <3>2, <3>3, <3>4, <3>5 DEF Follows, EndKind, s
  <2>9. CASE Goes(e, t, {m}, out)
    <3>1. Ended(t) /\ t.oa = h /\ t.upd = s.upd /\ Puts(t) = Puts(s)
          /\ t.rseq = s.rseq /\ t.cseq >= s.cseq /\ t.cseq \in Nat
      BY <1>1, <2>4 DEF Is, Ended, Puts
    <3>. QED  BY <2>4, <2>8, <2>9, <3>1, GoesAdvances DEF s
  <2>10. CASE Goes(e, k, {m}, {}) /\ Ended(s)
    <3>1. Ended(k) /\ k.oa = w /\ k.upd = s.upd /\ Puts(k) = Puts(s)
          /\ k.rseq = s.rseq /\ k.cseq >= s.cseq /\ k.cseq \in Nat
      <4>1. CASE s.st = "TERMINATING"
        <5>. DEFINE q == Append(s.post, end)
        <5>1. Is(k, "TERMINATED", call, w, s.upd, q, s.bye, s.cseq, s.rseq)
                /\ Late(q) = Late(s.post)
          BY <2>5, <2>6, <4>1
        <5>. HIDE DEF q
        <5>. QED  BY <1>1, <5>1 DEF Is, Ended, Puts
      <4>2. CASE s.st = "TERMINATED"
        BY <1>1, <2>5, <4>2 DEF Is, Ended, Puts
      <4>. QED  BY <2>10, <4>1, <4>2 DEF Ended
    <3>. QED  BY <2>8, <2>10, <3>1, GoesAdvances DEF s
  <2>11. CASE Goes(e, k, {m}, {}) /\ ~Ended(s)
    <3>1. s.st = "REESTABLISHING" /\ Confirms(s, m.cseq) /\ Confirming(s)
      BY <1>6, <1>7, <2>11
    <3>2. Is(k, "ESTABLISHED", call, w, closed, Append(s.post, upd), s.bye, s.cseq, s.rseq)
      BY <2>5, <3>1
    <3>3. /\ closed.role = s.upd.role /\ closed.method = s.upd.method /\ closed.sdp = s.upd.sdp
          /\ closed.cseq = s.upd.cseq /\ ~closed.open /\ closed.final = s.upd.final
      BY <1>1, UpdFields
    <3>. HIDE DEF closed
    <3>4. call \in Idling
      BY <3>1 DEF Confirming, CallReceived, Idling, Awaiting, call
    <3>5. IF Made(s.oa, None) /\ m.sdp = None THEN Made(w, None) /\ w.cur = s.oa.cur
          ELSE Calm(w) /\ w.cur = IF Calm(s.oa) THEN s.oa.cur ELSE m.sdp
      BY <2>2, <3>1 DEF Confirming, Calm, Made
    <3>6. s.oa.cur # None /\ ~s.bye /\ (Calm(w) \/ Made(w, None)) /\ w.cur # None
      BY <1>1, <2>11, <3>1, <3>5 DEF Steady, Shape, Confirming
    <3>7. Steady(k) /\ ~Ended(k)
      BY <3>1, <3>2, <3>3, <3>4, <3>6
         DEF Is, Steady, Shape, Resting, Confirming, Alive, ServerOpen, ClientOpen, CanAck, Idling,
             Calm, Made, Ended
    <3>8. Numbers(k)
      BY <1>1, <2>6, <2>11, <3>1, <3>2, <3>3 DEF Is, Numbers, Puts, Serves, Ended, Confirming
    <3>9. Bare((net \ {m}) \cup {})
      BY <1>1 DEF Bare
    <3>10. IsAcknowledged(e, s, k, net, (net \ {m}) \cup {})
      BY <1>2, <2>3, <2>6, <3>1, <3>2, <3>3, <3>5
         DEF Is, IsAcknowledged, SameUpd, SameQueue, Puts, Owing, ServerOpen, Sends
    <3>. QED
      BY <2>11, <3>7, <3>8, <3>9, <3>10, GoesAdvances DEF Follows, LiveKind, s
  <2>. QED  BY <1>7, <2>9, <2>10, <2>11
<1>. QED  BY <1>4, <1>5, <1>7

-----------------------------------------------------------------------------
(***************************************************************************)
(* The answer to an update, and its ACK.                                       *)
(***************************************************************************)
\* An answer that e waits for, of the method of its update.
LEMMA Awaits ==
    ASSUME NEW e \in Ends, NEW m \in net, m.to = e, Held(e), AwaitedBy(ep[e], m),
           ep[e].st = "RENEGOTIATING", IsFinal(m)
    PROVE  /\ Ans(e, ep[e], m) /\ Waits(ep[e]) /\ Asking(ep[e]) /\ m.method = ep[e].upd.method
           /\ m.sdp \in Nat /\ ep[e].oa.cur # None /\ ~ep[e].bye
           /\ m.class = "FAIL" => m.sdp = None
           /\ m.class = "2XX" => m.sdp # None
<1>. DEFINE s == ep[e]
<1>1. Steady(s) /\ Bare(net) /\ m \in Message
  BY Start
<1>2. s.upd.role = "client" /\ s.upd.cseq = m.cseq /\ Fin(e, m)
  BY DEF AwaitedBy, ClientOpen, Fin
<1>3. m.method = s.upd.method
  BY <1>2, Peers DEF Held, Pair, Common, Kindred
<1>. HIDE DEF s
<1>4. ~Ended(s) /\ Waits(s)
  BY <1>2 DEF Ended, Waits, s
<1>5. Asking(s) /\ s.oa.cur # None /\ ~s.bye
  BY <1>1, <1>4 DEF Steady, Shape, Waits, Serves
<1>. QED  BY <1>1, <1>2, <1>3, <1>4, <1>5, Ranges DEF Ans, Bare, s

\* The 2xx of a re-INVITE: the exchange is gained, and the ACK posted.
LEMMA InviteSucceedsAdvances ==
    ASSUME NEW e \in Ends, NEW m \in net, m.to = e, Held(e), InviteSucceeds(e, m)
    PROVE  Advances(e)
<1>. DEFINE s == ep[e]
            call == CallReceived(s.call, "2XX")
            a == Answered(s, "2XX")
            b == [a EXCEPT !.call = CallReceived(@, "2XX"), !.requestor = FALSE]
            done == UpdateMedia(OaReceived(b, "INVITE", "SUCCESS", m.sdp))
            t == Posted(Moved(done, "ESTABLISHED"), "UPDATED")
            oa == Completed(Heard(s.oa, "INVITE", "SUCCESS", m.sdp))
            u == [s.upd EXCEPT !.final = "2XX"]
            q == Append(s.post, [what |-> "UPDATED", msg |-> NoMessage])
            N2 == (net \ {m}) \cup {}
<1>1. /\ Rec(s) /\ Numbers(s) /\ Bare(net) /\ s.upd \in RequestType /\ s.oa \in OaType
      /\ s.post \in Seq(Post)
  BY Start
<1>2. /\ m.method = "INVITE" /\ m.class = "2XX" /\ AwaitedBy(s, m) /\ Goes(e, t, {m}, {})
      /\ s.st = "RENEGOTIATING"
  <2>1. b.st = s.st
    BY <1>1 DEF Rec, Answered
  <2>. QED  BY <2>1 DEF InviteSucceeds
<1>3. /\ Acc(e, s, m) /\ Waits(s) /\ Asking(s) /\ s.upd.method = "INVITE" /\ m.sdp \in Nat
      /\ m.sdp # None /\ s.oa.cur # None /\ ~s.bye
  BY <1>2, Awaits DEF IsFinal, Acc
<1>. HIDE DEF s
<1>4. Is(t, "ESTABLISHED", call, oa, u, q, s.bye, s.cseq, s.rseq)
  BY <1>1 DEF Is, Rec, Answered, OaReceived, UpdateMedia, Moved, Posted, Completed, Heard
<1>5. call = "REINVITE_2XX_RECEIVED"
  BY <1>3 DEF Asking, CallReceived, Awaiting
<1>6. IF Calm(s.oa) THEN TakenUp(oa, m.sdp) /\ oa.cur = s.oa.cur
      ELSE Calm(oa) /\ oa.cur = m.sdp
  BY <1>1, <1>3, HearsSuccess DEF Asking
<1>7. /\ u.role = s.upd.role /\ u.method = s.upd.method /\ u.sdp = s.upd.sdp
      /\ u.cseq = s.upd.cseq /\ u.open = s.upd.open /\ u.final = "2XX"
  BY <1>1, UpdFields
<1>8. Late(q) = Late(s.post) /\ (Once(s.post) => Once(q))
  BY <1>1, AppendLate DEF Post
<1>. HIDE DEF t, call, oa, u, q
<1>9. ~Ended(s) /\ s.upd.role = "client" /\ s.upd.open
  BY <1>3 DEF Ended, Waits, Asking
<1>10. CanAck(t) /\ Owing(t) /\ ~Ended(t)
  BY <1>4, <1>5, <1>7, <1>9 DEF Is, CanAck, ClientOpen, Owing, Ended
<1>11. Steady(t)
  <2>1. /\ oa.cur # None
        /\ oa.st \in {"ESTABLISHED", "OFFER_CHANGE_RECEIVED"}
        /\ oa.st = "OFFER_CHANGE_RECEIVED" => oa.mode = "ANSWERER"
        /\ Calm(oa) \/ TakenUp(oa, oa.prop)
    BY <1>3, <1>6 DEF Calm, TakenUp
  <2>2. Resting(t)
    BY <1>3, <1>4, <1>5, <1>7, <1>9, <1>10, <2>1 DEF Is, Resting, Alive, ServerOpen, Idling
  <2>. QED  BY <1>3, <1>4, <1>7, <2>1, <2>2 DEF Is, Steady, Shape
<1>12. Numbers(t)
  BY <1>1, <1>4, <1>7, <1>8, <1>9 DEF Is, Numbers, Puts, Serves
<1>13. Bare(N2)
  BY <1>1 DEF Bare
<1>14. Gains(e, s, t, net, N2)
  BY <1>3, <1>4, <1>6, <1>7, <1>8, <1>10 DEF Is, Gains, SameUpd, SameQueue, Puts, Sends
<1>. QED
  BY <1>2, <1>9, <1>10, <1>11, <1>12, <1>13, <1>14, GoesAdvances DEF Follows, LiveKind, s, t

\* The 2xx of an UPDATE: the exchange is gained.
LEMMA UpdateSucceedsAdvances ==
    ASSUME NEW e \in Ends, NEW m \in net, m.to = e, Held(e), UpdateSucceeds(e, m)
    PROVE  Advances(e)
<1>. DEFINE s == ep[e]
            b == [Answered(s, "2XX") EXCEPT !.requestor = FALSE]
            done == UpdateMedia(OaReceived(b, "UPDATE", "SUCCESS", m.sdp))
            t == Posted(Closed(Moved(done, "ESTABLISHED")), "UPDATED")
            oa == Completed(Heard(s.oa, "UPDATE", "SUCCESS", m.sdp))
            u == [[s.upd EXCEPT !.final = "2XX"] EXCEPT !.open = FALSE]
            q == Append(s.post, [what |-> "UPDATED", msg |-> NoMessage])
            N2 == (net \ {m}) \cup {}
<1>1. /\ Rec(s) /\ Numbers(s) /\ Bare(net) /\ s.upd \in RequestType /\ s.oa \in OaType
      /\ s.post \in Seq(Post)
  BY Start
<1>2. /\ m.method = "UPDATE" /\ m.class = "2XX" /\ AwaitedBy(s, m) /\ Goes(e, t, {m}, {})
      /\ s.st = "RENEGOTIATING"
  <2>1. b.st = s.st
    BY <1>1 DEF Rec, Answered
  <2>. QED  BY <2>1 DEF UpdateSucceeds
<1>3. /\ Acc(e, s, m) /\ Waits(s) /\ Asking(s) /\ s.upd.method = "UPDATE" /\ m.sdp \in Nat
      /\ m.sdp # None /\ s.oa.cur # None /\ ~s.bye
  BY <1>2, Awaits DEF IsFinal, Acc
<1>. HIDE DEF s
<1>4. Is(t, "ESTABLISHED", s.call, oa, u, q, s.bye, s.cseq, s.rseq)
  BY <1>1 DEF Is, Rec, Answered, OaReceived, UpdateMedia, Moved, Posted, Closed, Completed, Heard
<1>5. s.call = "ESTABLISHED" /\ Made(s.oa, s.upd.sdp)
  BY <1>3 DEF Asking
<1>6. Calm(oa) /\ oa.cur = m.sdp /\ ~Calm(s.oa)
  BY <1>1, <1>3, <1>5, HearsSuccess DEF Calm, Made
<1>7. /\ u.role = s.upd.role /\ u.method = s.upd.method /\ u.sdp = s.upd.sdp
      /\ u.cseq = s.upd.cseq /\ ~u.open /\ u.final = "2XX"
  BY <1>1 DEF RequestType
<1>8. Late(q) = Late(s.post) /\ (Once(s.post) => Once(q))
  BY <1>1, AppendLate DEF Post
<1>. HIDE DEF t, oa, u, q
<1>9. ~Ended(s) /\ s.upd.role = "client"
  BY <1>3 DEF Ended, Waits
<1>10. ~CanAck(t) /\ ~Owing(t) /\ ~Ended(t) /\ ~ClientOpen(t)
  BY <1>4, <1>5, <1>7 DEF Is, CanAck, ClientOpen, Owing, Ended
<1>11. Steady(t)
  BY <1>3, <1>4, <1>5, <1>6, <1>7, <1>10
     DEF Is, Steady, Shape, Resting, Alive, ServerOpen, Idling, Calm
<1>12. Numbers(t)
  BY <1>1, <1>4, <1>7, <1>8, <1>9 DEF Is, Numbers, Puts, Serves
<1>13. Bare(N2)
  BY <1>1 DEF Bare
<1>14. Gains(e, s, t, net, N2)
  BY <1>3, <1>4, <1>6, <1>7, <1>8, <1>10 DEF Is, Gains, SameUpd, SameQueue, Puts, Sends
<1>. QED
  BY <1>2, <1>9, <1>10, <1>11, <1>12, <1>13, <1>14, GoesAdvances DEF Follows, LiveKind, s, t

\* A failure of the update: the exchange is missed.
LEMMA ChangeFailsAdvances ==
    ASSUME NEW e \in Ends, NEW m \in net, m.to = e, Held(e), ChangeFails(e, m)
    PROVE  Advances(e)
<1>. DEFINE s == ep[e]
            call == IF m.method = "INVITE" THEN CallReceived(s.call, "FAIL") ELSE s.call
            a == Answered(s, "FAIL")
            b == [a EXCEPT
                     !.call = IF m.method = "INVITE" THEN CallReceived(@, "FAIL") ELSE @,
                     !.requestor = FALSE]
            failed == UpdateMedia(OaReceived(b, m.method, "FAILURE", m.sdp))
            t == Closed(Moved(Restored(failed), "ESTABLISHED"))
            oa == RestoreState(Completed(Heard(s.oa, m.method, "FAILURE", m.sdp)))
            u == [[s.upd EXCEPT !.final = "FAIL"] EXCEPT !.open = FALSE]
            N2 == (net \ {m}) \cup {}
<1>1. /\ Rec(s) /\ Numbers(s) /\ Bare(net) /\ s.upd \in RequestType /\ s.oa \in OaType
  BY Start
<1>2. /\ m.method \in {"INVITE", "UPDATE"} /\ m.class = "FAIL" /\ AwaitedBy(s, m)
      /\ Goes(e, t, {m}, {}) /\ s.st = "RENEGOTIATING"
  <2>1. b.st = s.st
    BY <1>1 DEF Rec, Answered
  <2>. QED  BY <2>1 DEF ChangeFails
<1>3. /\ Ans(e, s, m) /\ Waits(s) /\ Asking(s) /\ m.method = s.upd.method
      /\ m.sdp = None /\ s.oa.cur # None /\ ~s.bye
  BY <1>2, Awaits DEF IsFinal
<1>. HIDE DEF s
<1>4. Is(t, "ESTABLISHED", call, oa, u, s.post, s.bye, s.cseq, s.rseq)
  BY <1>1 DEF Is, Rec, Answered, OaReceived, UpdateMedia, Restored, Moved, Closed, Completed,
              Heard
<1>5. call = "ESTABLISHED"
  BY <1>2, <1>3 DEF Asking, CallReceived, Awaiting
<1>6. Calm(oa) /\ oa.cur = s.oa.cur
  BY <1>1, <1>3, HearsFailure DEF Asking
<1>7. /\ u.role = s.upd.role /\ u.method = s.upd.method /\ u.sdp = s.upd.sdp
      /\ u.cseq = s.upd.cseq /\ ~u.open
  BY <1>1 DEF RequestType
<1>. HIDE DEF t, call, oa, u
<1>8. ~Ended(s) /\ s.upd.role = "client"
  BY <1>3 DEF Ended, Waits
<1>9. ~CanAck(t) /\ ~Owing(t) /\ ~Ended(t) /\ ~ClientOpen(t)
  BY <1>4, <1>5, <1>7 DEF Is, CanAck, ClientOpen, Owing, Ended
<1>10. Steady(t)
  BY <1>3, <1>4, <1>5, <1>6, <1>7, <1>9
     DEF Is, Steady, Shape, Resting, Alive, ServerOpen, Idling, Calm
<1>11. Numbers(t)
  BY <1>1, <1>4, <1>7, <1>8 DEF Is, Numbers, Puts, Serves
<1>12. Bare(N2)
  BY <1>1 DEF Bare
<1>13. Misses(e, s, t, net, N2)
  BY <1>2, <1>3, <1>4, <1>6, <1>7, <1>9 DEF Is, Misses, SameUpd, SameQueue, Puts, Sends
<1>. QED
  BY <1>2, <1>8, <1>9, <1>10, <1>11, <1>12, <1>13, GoesAdvances DEF Follows, LiveKind, s, t

\* The update is told, and the ACK of a re-INVITE sent.
LEMMA DispatchUpdatedAdvances ==
    ASSUME NEW e \in Ends, Held(e), DispatchUpdated(e)
    PROVE  Advances(e)
<1>. DEFINE s == ep[e]
            a == [Taken(s) EXCEPT !.ackSdp = FALSE]
            sdp == GetSdp(s.oa)
            t == AckSent(a)
            x == Msg(e, "ACK", "REQUEST", sdp, s.upd.cseq)
            call == CallSent(s.call, "ACK")
            oa == Completed(Sent(s.oa, "ACK", sdp))
            u == [s.upd EXCEPT !.open = FALSE]
            q == Tail(s.post)
            N2 == (net \ {}) \cup {x}
<1>1. /\ Rec(s) /\ Numbers(s) /\ Steady(s) /\ Bare(net) /\ s.upd \in RequestType /\ s.oa \in OaType
      /\ s.post \in Seq(Post) /\ s.cseq \in Nat /\ s.st \in SessionStates
      /\ s.upd.method \in {"INVITE", "UPDATE"}
  BY Start
<1>2. Is(a, s.st, s.call, s.oa, s.upd, q, s.bye, s.cseq, s.rseq)
  BY <1>1 DEF Is, Rec, Taken
<1>3. /\ s.post # << >> /\ Head(s.post).what = "UPDATED"
      /\ CanAck(a) = CanAck(s)
      /\ IF CanAck(s) THEN Goes(e, t, {}, {x}) ELSE Goes(e, a, {}, {})
  BY <1>2 DEF DispatchUpdated, Posts, Is, CanAck, ClientOpen
<1>4. Late(q) = Late(s.post) /\ (Once(s.post) => Once(q))
  BY <1>1, <1>3, TailLate
<1>. HIDE DEF s
<1>5. CASE ~CanAck(s)
  <2>1. CallMoves(s.call, s.call)
    BY DEF CallMoves
  <2>2. Goes(e, a, {}, {})
    BY <1>3, <1>5
  <2>. HIDE DEF a, q
  <2>. QED  BY <1>2, <1>4, <2>1, <2>2, SameAdvances DEF s
<1>6. CASE CanAck(s)
  <2>1. Is(t, s.st, call, oa, u, q, s.bye, s.cseq, s.rseq)
    <3>. HIDE DEF a
    <3>. QED
      BY <1>2 DEF Is, Rec, AckSent, Closed, UpdateMedia, Called, OaSent, Completed
  <2>2. /\ s.call = "REINVITE_2XX_RECEIVED" /\ s.upd.role = "client" /\ s.upd.open
        /\ call = "ESTABLISHED"
    BY <1>6 DEF CanAck, ClientOpen, CallSent, Ringing, Awaiting
  <2>3. /\ u.role = s.upd.role /\ u.method = s.upd.method /\ u.sdp = s.upd.sdp
        /\ u.cseq = s.upd.cseq /\ ~u.open /\ u.final = s.upd.final
    BY <1>1, UpdFields
  <2>4. AckOf(e, x) /\ x.class = "REQUEST" /\ x.cseq = s.upd.cseq /\ x.sdp = sdp
    BY Writes DEF AckOf, IsAck
  <2>5. /\ Calm(s.oa) => Calm(oa) /\ oa.cur = s.oa.cur
        /\ Made(s.oa, None) => Made(oa, None) /\ oa.cur = s.oa.cur
        /\ TakenUp(s.oa, s.oa.prop) => Calm(oa) /\ oa.cur = s.oa.prop
        /\ s.oa.st \in {"ESTABLISHED", "OFFER_CHANGE_SENT"} => oa.st = s.oa.st /\ oa.cur = s.oa.cur
        /\ s.oa.st = "OFFER_CHANGE_RECEIVED" =>
               oa.st = "ESTABLISHED" \/ (oa.st = s.oa.st /\ oa.mode = s.oa.mode)
    BY <1>1, SendsAck
  <2>. HIDE DEF a, t, x, call, oa, u, q, sdp
  <2>6. ~Owing(t) /\ ~ClientOpen(t) /\ ~CanAck(t)
    BY <2>1, <2>2, <2>3 DEF Is, Owing, ClientOpen, CanAck
  <2>7. Numbers(t)
    BY <1>1, <1>4, <2>1, <2>3 DEF Is, Numbers, Puts, Serves, Ended
  <2>8. Bare(N2)
    BY <1>1, <2>4 DEF Bare, AckOf, IsAck, IsFinal
  <2>9. /\ oa.st \in {"ESTABLISHED", "OFFER_CHANGE_SENT", "OFFER_CHANGE_RECEIVED"}
        /\ oa.st = "OFFER_CHANGE_RECEIVED" =>
               oa.mode = "ANSWERER" /\ s.oa.st = "OFFER_CHANGE_RECEIVED"
    BY <1>1, <2>5 DEF Steady
  <2>10. CASE ~Ended(s)
    <3>1. s.st = "ESTABLISHED" /\ Resting(s) /\ s.oa.cur # None /\ ~s.bye
      BY <1>1, <2>2, <2>10
         DEF Steady, Shape, Waits, Serves, Asking, Confirming, Awaiting, Ended, SessionStates
    <3>2. Calm(s.oa) \/ Made(s.oa, None) \/ TakenUp(s.oa, s.oa.prop)
      BY <3>1 DEF Resting
    <3>3. Calm(oa) \/ Made(oa, None)
      BY <2>5, <3>2
    <3>4. oa.cur # None
      BY <2>5, <3>1, <3>2 DEF TakenUp
    <3>5. Steady(t) /\ ~Ended(t)
      BY <2>1, <2>2, <2>3, <2>6, <2>9, <3>1, <3>3, <3>4
         DEF Is, Steady, Shape, Resting, Alive, ServerOpen, ClientOpen, Idling, Ended
    <3>6. Acknowledges(e, s, t, net, N2)
      BY <1>4, <1>6, <2>1, <2>3, <2>4, <2>5, <2>6, <3>1, <3>2
         DEF Is, Acknowledges, SameUpd, SameQueue, Puts, Sends, sdp, Calm, Made, TakenUp
    <3>. QED
      BY <1>3, <1>6, <2>7, <2>8, <2>10, <3>5, <3>6, GoesAdvances DEF Follows, LiveKind, s
  <2>11. CASE Ended(s)
    <3>1. Ended(t)
      BY <2>1, <2>11 DEF Is, Ended
    <3>2. Steady(t)
      BY <2>1, <2>6, <2>9, <3>1 DEF Is, Steady
    <3>3. EndAcks(e, s, t, net, N2)
      BY <1>1, <1>4, <1>6, <2>1, <2>3, <2>4, <2>5, <2>6, <2>9, <2>11, <3>1
         DEF Is, EndAcks, SameUpd, SameQueue, Puts, Sends, sdp, Steady
    <3>. QED
      BY <1>3, <1>6, <2>7, <2>8, <3>2, <3>3, GoesAdvances DEF Follows, EndKind, s
  <2>. QED  BY <2>10, <2>11
<1>. QED  BY <1>5, <1>6

(***************************************************************************)
(* Every step of an end is of one of the kinds, unless it breaks an exchange off.  *)
(***************************************************************************)
LEMMA NextAdvances ==
    ASSUME \A e \in Ends : Held(e), Next, ~broken'
    PROVE  \E e \in Ends : Advances(e)
<1>1. ASSUME NEW e \in Ends, Application(e) PROVE Advances(e)
  <2>1. ASSUME NEW method \in {"INVITE", "UPDATE"}, NEW offer \in BOOLEAN,
               method = "UPDATE" => offer, Update(e, method, offer)
        PROVE  Advances(e)
    BY <2>1, UpdateAdvances
  <2>2. ~Reject(e)
    BY DEF Reject, Breaks
  <2>. QED
    BY <1>1, <2>1, <2>2, AcceptAdvances, RingAdvances, TerminateExAdvances DEF Application
<1>2. ASSUME NEW e \in Ends, Dispatch(e) PROVE Advances(e)
  BY <1>2, DispatchUpdatedAdvances, DispatchDelayedAdvances, DispatchTerminatedAdvances
     DEF Dispatch
<1>3. ASSUME NEW e \in Ends, Timeout(e) PROVE Advances(e)
  <2>1. ~InviteTimeout(e) /\ ~AckTimeout(e) /\ ~UpdateTimeout(e) /\ ~CancelTimeout(e)
    BY DEF InviteTimeout, AckTimeout, UpdateTimeout, CancelTimeout, Breaks
  <2>2. ByeTimeout(e)
    BY <1>3, <2>1 DEF Timeout
  <2>. QED  BY <2>2, ByeEndsAdvances
<1>4. ASSUME NEW m \in net, Receive(m.to, m) PROVE m.to \in Ends /\ Advances(m.to)
  <2>1. m.to \in Ends
    BY Peers, Start, Ranges, EndsAssumption
  <2>. QED
    BY <1>4, <2>1, RecvChangeAdvances, RecvAckAdvances, RecvByeAdvances, RecvCancelAdvances,
       RecvUnchangedAdvances, RecvAfterEndAdvances, InviteSucceedsAdvances,
       UpdateSucceedsAdvances, ChangeFailsAdvances, ByeEndsAdvances DEF Receive
<1>5. ASSUME NEW m \in net, Lose(m) PROVE \E e \in Ends : Advances(e)
  BY <1>5, LoseAdvances, EndsAssumption
<1>. QED  BY <1>1, <1>2, <1>3, <1>4, <1>5 DEF Next, Network

-----------------------------------------------------------------------------
(***************************************************************************)
(* The invariant of both ends, step by step.                                   *)
(***************************************************************************)
Coherent == broken \/ \A e \in Ends : Pair(e, ep[e], ep[Peer(e)], net)
Agreement == IInv /\ Coherent

\* What holds of a pair holds in either order.
LEMMA PairSwap ==
    ASSUME NEW e \in Ends, NEW s, NEW t, NEW N, Pair(e, s, t, N)
    PROVE  Pair(Peer(e), t, s, N)
<1>1. Peer(Peer(e)) = e
  BY Peers
<1>. QED  BY <1>1 DEF Pair, Together

\* A step of an end that goes on keeps the two ends in agreement.
LEMMA LiveMoves ==
    ASSUME NEW e \in Ends, NEW s, NEW s2, NEW t, NEW N, NEW N2, Move(e, s, s2, t, N, N2),
           Bare(N2), LiveKind(e, s, s2, N, N2)
    PROVE  Pair(e, s2, t, N2)
<1>1. ~Ended(s) /\ ~Ended(s2)
  BY DEF LiveKind
<1>2. Common(e, s2, t, N2) /\ Common(Peer(e), t, s2, N2)
  BY <1>1, StillCommon, RequestsCommon, BeginsCommon, TurnsDownCommon, PutsOffCommon,
     GrantsCommon, WithdrawsCommon, GainsCommon, MissesCommon, AcknowledgesCommon,
     IsAcknowledgedCommon DEF LiveKind
<1>3. ~Ended(t) =>
          Between(e, s2, t, N2) /\ Between(Peer(e), t, s2, N2) /\ Together(e, s2, t, N2)
  BY <1>1, StillBetween, RequestsBetween, BeginsBetween, TurnsDownBetween, PutsOffBetween,
     GrantsBetween, WithdrawsBetween, GainsBetween, MissesBetween, AcknowledgesBetween,
     IsAcknowledgedBetween DEF LiveKind
<1>. QED  BY <1>2, <1>3 DEF Move, Pair

\* So does a step after which the end has ended.
LEMMA EndMoves ==
    ASSUME NEW e \in Ends, NEW s, NEW s2, NEW t, NEW N, NEW N2, Move(e, s, s2, t, N, N2),
           Bare(N2), EndKind(e, s, s2, N, N2)
    PROVE  Pair(e, s2, t, N2)
<1>1. Ended(s2)
  BY DEF EndKind, Finishes, EndAcks, EndAcksAtOnce, EndIsAcknowledged
<1>2. Common(e, s2, t, N2) /\ Common(Peer(e), t, s2, N2)
  BY FinishesCommon, EndAcksCommon, EndAcksAtOnceCommon, EndIsAcknowledgedCommon DEF EndKind
<1>. QED  BY <1>1, <1>2 DEF Move, Pair

\* Both start with the same view and no exchange.
LEMMA InitCoherent == Init => Coherent
<1>. SUFFICES ASSUME Init PROVE Coherent
  OBVIOUS
<1>1. IInv
  BY Initial
<1>. DEFINE s == NewSession
<1>2. /\ s.st = "ESTABLISHED" /\ s.call = "ESTABLISHED" /\ s.oa = Agreed(1) /\ s.upd = NoRequest
      /\ s.bye = FALSE /\ s.cseq = 0 /\ s.rseq = 0 /\ s.post = << >>
  BY DEF NewSession
<1>. HIDE DEF s
<1>3. ~Ended(s) /\ ~Owing(s) /\ ~CanAck(s) /\ ~Waits(s) /\ ~Serves(s) /\ s.upd.role = "none"
      /\ Puts(s) = {} /\ Once(s.post) /\ Calm(s.oa) /\ s.oa.cur = 1
  BY <1>2 DEF Ended, Owing, CanAck, Waits, Serves, Puts, Late, Put, Once, Calm, Agreed, NoRequest
<1>4. Steady(s) /\ Numbers(s)
  BY <1>2, <1>3 DEF Steady, Shape, Resting, Numbers, Idling, Alive, ServerOpen, ClientOpen,
                    Calm, None
<1>5. \A e \in Ends : Common(e, s, s, {}) /\ Between(e, s, s, {}) /\ Together(e, s, s, {})
  BY <1>2, <1>3
     DEF Common, Issued, Kindred, OneRequest, Dealt, OneAck, Echoes, InForce, ClientOpen,
         Between, Regular, Meant, Accepted, Owed, Together
<1>6. \A e \in Ends : ep[e] = s /\ ep[Peer(e)] = s /\ Peer(e) \in Ends
  BY Peers DEF Init, s
<1>7. Bare({})
  BY DEF Bare
<1>8. \A e \in Ends : s \in SessionType
  BY <1>1, <1>6 DEF IInv, TypeOK
<1>. QED  BY <1>4, <1>5, <1>6, <1>7, <1>8 DEF Coherent, Pair, Init

\* What was broken off stays so.
LEMMA BrokenStays == Next /\ broken => broken'
<1>1. ASSUME NEW e \in Ends, Application(e), broken PROVE broken'
  BY <1>1 DEF Application, Update, Accept, Reject, Ring, TerminateEx, TerminateEstablished,
              TerminateReEstablishing, TerminateReNegotiating, CancelUnanswered, CancelRinging,
              Whole, Breaks
<1>2. ASSUME NEW e, NEW s, NEW m, NEW gone, HandleChange(e, s, m, gone), broken
      PROVE  broken'
  BY <1>2 DEF HandleChange, HandleInvite, HandleUpdate, Whole, Breaks
<1>3. ASSUME NEW m, Receive(m.to, m), broken PROVE broken'
  BY <1>2, <1>3 DEF Receive, RecvChange, RecvAck, RecvBye, RecvCancel, RecvUnawaited, RecvRinging,
              RecvAfterEnd, InviteSucceeds, UpdateSucceeds, ChangeFails, RecvByeAnswer,
              RecvCancelAnswer, Whole
<1>4. ASSUME NEW e \in Ends, Dispatch(e), broken PROVE broken'
  BY <1>2, <1>4 DEF Dispatch, DispatchUpdated, DispatchDelayed, DispatchTerminated, Whole
<1>5. ASSUME NEW e \in Ends, Timeout(e), broken PROVE broken'
  BY <1>5 DEF Timeout, InviteTimeout, AckTimeout, UpdateTimeout, ByeTimeout, CancelTimeout,
              Whole, Breaks
<1>6. ASSUME NEW m, Lose(m), broken PROVE broken'
  BY <1>6 DEF Lose
<1>. QED  BY <1>1, <1>3, <1>4, <1>5, <1>6 DEF Next, Network

\* A step that breaks nothing off starts from two ends that agree.
LEMMA Unbroken ==
    ASSUME Agreement, [Next]_vars, ~broken'
    PROVE  /\ \A e \in Ends : Held(e)
           /\ (UNCHANGED vars) \/ \E e \in Ends : Advances(e)
<1>1. ~broken
  BY BrokenStays DEF vars
<1>2. \A e \in Ends : Held(e)
  BY <1>1 DEF Agreement, Coherent, Held
<1>. QED  BY <1>2, NextAdvances

\* Every step keeps the agreement of the ends, or breaks an exchange off.
LEMMA StepCoherent ==
    ASSUME Agreement, [Next]_vars
    PROVE  Coherent'
<1>1. CASE broken'
  BY <1>1 DEF Coherent
<1>2. CASE ~broken'
  <2>1. /\ \A e \in Ends : Held(e)
        /\ (UNCHANGED vars) \/ \E e \in Ends : Advances(e)
    BY <1>2, Unbroken
  <2>2. CASE UNCHANGED vars
    BY <2>1, <2>2 DEF Held, Coherent, vars
  <2>3. ASSUME NEW e \in Ends, Advances(e) PROVE Coherent'
    <3>. DEFINE f == Peer(e)
    <3>1. f \in Ends /\ Peer(f) = e /\ \A x \in Ends : x \in {e, f}
      BY Peers
    <3>2. IInv'
      BY StepKeeps DEF Agreement, Kept
    <3>3. ep'[e] \in SessionType /\ net' \subseteq Message
      BY <3>2 DEF IInv, TypeOK
    <3>4. Move(e, ep[e], ep'[e], ep[f], net, net')
      BY <2>1, <2>3, <3>3 DEF Held, Advances, Follows, Move
    <3>5. Pair(e, ep'[e], ep[f], net')
      BY <2>3, <3>4, LiveMoves, EndMoves DEF Advances, Follows
    <3>6. Pair(f, ep[f], ep'[e], net')
      BY <3>5, PairSwap
    <3>7. ep'[f] = ep[f]
      BY <2>3 DEF Advances
    <3>. QED  BY <3>1, <3>5, <3>6, <3>7 DEF Coherent
  <2>. QED  BY <2>1, <2>2, <2>3
<1>. QED  BY <1>1, <1>2

\* The inductive invariant of both ends.
LEMMA Agree == Spec => []Agreement
<1>1. Init => Agreement
  BY Initial, InitCoherent DEF Agreement
<1>2. Agreement /\ [Next]_vars => Agreement'
  <2>1. Agreement /\ [Next]_vars => IInv'
    BY StepKeeps DEF Agreement, Kept
  <2>. QED  BY <2>1, StepCoherent DEF Agreement
<1>. QED  BY <1>1, <1>2, PTL DEF Spec

(***************************************************************************)
(* When nothing is under way, both ends have the same view in force and are ready   *)
(* for the next offer (Settled), for any number of requests and lost messages.     *)
(***************************************************************************)
THEOREM BothSettle == Spec => []Settled
<1>1. Agreement => Settled
  <2>. SUFFICES ASSUME Agreement, Quiet, NEW e \in Ends, NEW f \in Ends
       PROVE  ep[e].oa = Agreed(ep[f].oa.cur) /\ ep[e].call = "ESTABLISHED"
    BY DEF Settled
  <2>1. \A x \in Ends : Pair(x, ep[x], ep[Peer(x)], net) /\ Peer(x) \in Ends
    BY Peers DEF Agreement, Coherent, Quiet
  <2>2. ASSUME NEW x \in Ends
        PROVE  /\ ~Ended(ep[x]) /\ ~Waits(ep[x]) /\ Calm(ep[x].oa)
               /\ ep[x].call = "ESTABLISHED" /\ ep[x].oa \in OaType
    <3>. DEFINE s == ep[x]
    <3>1. s.st = "ESTABLISHED" /\ s.post = << >>
      BY DEF Quiet
    <3>2. Waiting(s) /\ s \in SessionType /\ s.oa \in OaType
      BY Has DEF Agreement, Sound, SessionType
    <3>3. ~Ended(s) /\ ~Ended(ep[Peer(x)]) /\ ~Waits(s)
      BY <2>1, <3>1 DEF Ended, Waits, Quiet
    <3>4. Regular(s) /\ Resting(s)
      BY <2>1, <3>1, <3>3 DEF Pair, Between, Steady, Shape
    <3>. HIDE DEF s
    <3>5. ~CanAck(s)
      BY <3>1, <3>2 DEF Waiting, UpdatePosted
    <3>6. Calm(s.oa)
      BY <3>1, <3>4, <3>5 DEF Regular, Resting, TakenUp, Made
    <3>7. s.call = "ESTABLISHED"
      BY <3>4, <3>5 DEF Regular, Resting, Owing, Idling
    <3>. QED  BY <3>2, <3>3, <3>6, <3>7 DEF s
  <2>3. ep[e].oa.cur = ep[Peer(e)].oa.cur
    BY <2>1, <2>2 DEF Pair, Together, Undecided
  <2>4. ep[f].oa.cur = ep[e].oa.cur
    BY <2>3, Peers
  <2>5. \A oa \in OaType : Calm(oa) => oa = Agreed(oa.cur)
    BY DEF OaType, Calm, Agreed
  <2>. QED  BY <2>2, <2>4, <2>5
<1>. QED  BY Agree, <1>1, PTL

\* An end that has offered takes up what the other end has in force, or nothing.
LEMMA Adopts ==
    ASSUME NEW e \in Ends, Held(e), Advances(e), ep'[e].oa.cur # ep[e].oa.cur,
           ep[e].oa.mode = "OFFERER"
    PROVE  ep'[e].oa.cur = ep[Peer(e)].oa.cur
<1>. DEFINE s == ep[e]
            t == ep[Peer(e)]
            s2 == ep'[e]
<1>1. /\ Pair(e, s, t, net) /\ Steady(s) /\ Bare(net) /\ s2.oa.cur # s.oa.cur
      /\ s.oa.mode = "OFFERER"
  BY DEF Held, Pair
<1>2. LiveKind(e, s, s2, net, net') \/ EndKind(e, s, s2, net, net')
  BY DEF Advances, Follows
<1>3. \A m \in net : m.to = e /\ IsAck(m) /\ m.sdp # None => Returned(s, m.cseq, m.sdp)
  BY Peers DEF Held, Pair, Common, Echoes, AckOf
<1>. HIDE DEF s, t, s2
<1>4. ASSUME Gains(e, s, s2, net, net'), ~Ended(s) PROVE s2.oa.cur = t.oa.cur
  <2>1. PICK m \in net : /\ Acc(e, s, m)
                         /\ IF Calm(s.oa) THEN s2.oa.cur = s.oa.cur ELSE s2.oa.cur = m.sdp
    BY <1>4 DEF Gains
  <2>2. s2.oa.cur = m.sdp
    BY <1>1, <2>1
  <2>3. m.sdp # None
    BY <1>1, <2>1 DEF Bare, Acc, Ans, Fin
  <2>4. CASE Ended(t)
    BY <1>1, <2>1, <2>2, <2>3, <2>4 DEF Pair, Common, InForce
  <2>5. CASE ~Ended(t)
    BY <1>1, <1>4, <2>1, <2>2, <2>5 DEF Pair, Between, Accepted
  <2>. QED  BY <2>4, <2>5
<1>5. ~Still(e, s, s2, net, net') /\ ~Requests(e, s, s2, net, net')
      /\ ~Begins(e, s, s2, net, net') /\ ~TurnsDown(e, s, s2, net, net')
      /\ ~PutsOff(e, s, s2, net, net') /\ ~Withdraws(e, s, s2, net, net')
      /\ ~Misses(e, s, s2, net, net') /\ ~Finishes(e, s, s2, net, net')
      /\ ~EndAcksAtOnce(e, s, s2, net, net')
  BY <1>1 DEF Still, Requests, Begins, TurnsDown, PutsOff, Withdraws, Misses, Finishes,
              EndAcksAtOnce, SameView, SameOa
<1>6. ~Grants(e, s, s2, net, net') /\ ~Acknowledges(e, s, s2, net, net')
      /\ ~EndAcks(e, s, s2, net, net')
  BY <1>1 DEF Grants, Acknowledges, EndAcks, TakenUp, Steady
<1>7. ~IsAcknowledged(e, s, s2, net, net') \/ Ended(s)
  <2>. SUFFICES ASSUME IsAcknowledged(e, s, s2, net, net'), ~Ended(s) PROVE FALSE
    OBVIOUS
  <2>1. PICK m \in net :
            /\ m.to = e /\ IsAck(m) /\ Confirms(s, m.cseq)
            /\ IF Made(s.oa, None) /\ m.sdp = None
               THEN s2.oa.cur = s.oa.cur
               ELSE s2.oa.cur = IF Calm(s.oa) THEN s.oa.cur ELSE m.sdp
    BY DEF IsAcknowledged
  <2>2. Made(s.oa, None)
    BY <1>1, <2>1 DEF Steady, Shape, Confirms, Confirming, Calm
  <2>3. ~Calm(s.oa)
    BY <2>2 DEF Calm, Made
  <2>4. m.sdp # None /\ s2.oa.cur = m.sdp
    BY <1>1, <2>1, <2>2, <2>3
  <2>. QED  BY <1>1, <1>3, <2>1, <2>4 DEF Returned
<1>8. ~EndIsAcknowledged(e, s, s2, net, net')
  BY <1>1, <1>3 DEF EndIsAcknowledged, Returned
<1>. QED  BY <1>2, <1>4, <1>5, <1>6, <1>7, <1>8 DEF LiveKind, EndKind, s, t, s2

(***************************************************************************)
(* As long as no exchange is broken off, an end that has offered takes up nothing   *)
(* but what the other end has in force (AnswerAdopted), in whatever order and      *)
(* number answers, acknowledgements and ends come.                              *)
(***************************************************************************)
THEOREM OfferersAdopt == Spec => AnswerAdopted
<1>1. Agreement /\ [Next]_vars =>
          [\A e \in Ends :
              ~broken' /\ ep'[e].oa.cur # ep[e].oa.cur /\ ep[e].oa.mode = "OFFERER"
                  => ep'[e].oa.cur = ep[Peer(e)].oa.cur]_vars
  <2>. SUFFICES ASSUME Agreement, [Next]_vars, NEW e \in Ends, ~broken',
                       ep'[e].oa.cur # ep[e].oa.cur, ep[e].oa.mode = "OFFERER"
       PROVE  ep'[e].oa.cur = ep[Peer(e)].oa.cur
    OBVIOUS
  <2>1. /\ \A x \in Ends : Held(x)
        /\ (UNCHANGED vars) \/ \E x \in Ends : Advances(x)
    BY Unbroken
  <2>2. PICK x \in Ends : Advances(x)
    BY <2>1 DEF vars
  <2>3. x = e
    BY <2>2, Peers DEF Advances
  <2>. QED  BY <2>1, <2>2, <2>3, Adopts
<1>. QED  BY Agree, <1>1, PTL DEF Spec, AnswerAdopted
=============================================================================
